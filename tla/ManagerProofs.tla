----------------------------- MODULE ManagerProofs -----------------------------
(***************************************************************************)
(* Theorems about the manager, for every set of apps, workers and every    *)
(* configuration that satisfies the assumptions of Manager.                *)
(*                                                                         *)
(* The argument: the helpers that take a worker record to its next one     *)
(* (Lifecycle, Stop) only move it forward and keep what the supervisor     *)
(* owes to its process.  `Follows` says so, the lemmas about the helpers   *)
(* prove it, and every action but a few is a step in which each record     *)
(* follows itself.                                                         *)
(***************************************************************************)
EXTENDS Manager, FiniteSetTheorems, TLAPS

\* What the supervisor owes to the process of w, whose record is r.
Obeys(w, r) ==
  /\ r.notice = "line" => r.telemetry /\ AppOf[w] \in Control
  /\ r.killed => r.notice # "none"
  /\ r.notice # "none" => r.stopSent
  /\ r.stopSent => r.stopping
  /\ r.life = "launched" /\ r.stopSent => r.notice # "none"
  /\ r.life \in {"absent", "reserved"} => ~r.telemetry

\* The handshake decides telemetry once.
Heard == \A w \in Worker : stream[w] = "first" => ~worker[w].telemetry

\* The service loops of a tick run only before shutdown, and run() returns drained.
Staged ==
  /\ stage \in {"services", "growth", "idle"} => ~stopping
  /\ stage = "returned" => Drained

IInv ==
  /\ TypeOK
  /\ Supervised
  /\ \A w \in Worker : Obeys(w, worker[w])
  /\ Heard
  /\ Staged

\* n is a record that r can become while the process of w neither begins nor ends.
Follows(w, r, n) ==
  /\ n \in WorkerRecord
  /\ n.life = "launched" <=> r.life = "launched"
  /\ IsActive(n) => IsActive(r)
  /\ n.telemetry => r.telemetry
  /\ Obeys(w, r) => Obeys(w, n)
  /\ Promise!MovesOn(PhaseOf(r), PhaseOf(n))
  /\ PhaseOf(n) = "launched" => PhaseOf(r) = "launched"

-----------------------------------------------------------------------------
(* The helpers on worker records *)

\* The records of a new and of a forgotten worker have their type.
LEMMA FreshRecords == Fresh \in WorkerRecord /\ Absent \in WorkerRecord
  BY DEF Fresh, Absent, WorkerRecord

\* Each record follows itself.
LEMMA FollowsItself ==
  ASSUME NEW w \in Worker, NEW r \in WorkerRecord
  PROVE  Follows(w, r, r)
  BY DEF Follows, PhaseOf, Promise!MovesOn, Promise!Running, WorkerRecord, IsActive

\* Following is transitive: a handler may take a record through several helpers.
LEMMA FollowsOn ==
  ASSUME NEW w \in Worker, NEW r, NEW n, NEW m, Follows(w, r, n), Follows(w, n, m)
  PROVE  Follows(w, r, m)
  BY DEF Follows, Promise!MovesOn, Promise!Running

\* A stopping worker gets its notice, or leaves the reservation it had.
LEMMA RetireFollows ==
  ASSUME NEW w \in Worker, NEW r \in WorkerRecord, NEW o,
         r.life \in {"reserved", "launched"}, r.stopping
  PROVE  /\ Follows(w, r, Retire(w, r, o))
         /\ w \in o.late /\ r.life = "launched" => Retire(w, r, o).stopSent
  <1> DEFINE n == Retire(w, r, o)
             m == SignalStop(w, r, o)
  <1>1. m \in {"line", "signal"} /\ (m = "line" => r.telemetry /\ AppOf[w] \in Control)
    BY DEF SignalStop
  <1>2. \/ n = r /\ (w \in o.late => r.stopSent)
        \/ r.life = "reserved" /\ n = [r EXCEPT !.stopSent = TRUE, !.life = "exited"]
        \/ r.life = "launched" /\ n = [r EXCEPT !.stopSent = TRUE, !.notice = m]
    BY DEF Retire
  <1> HIDE DEF n, m
  <1>3. Follows(w, r, n) /\ (w \in o.late /\ r.life = "launched" => n.stopSent)
    <2>1. CASE n = r /\ (w \in o.late => r.stopSent)
      BY <2>1, FollowsItself
    <2>2. CASE r.life = "reserved" /\ n = [r EXCEPT !.stopSent = TRUE, !.life = "exited"]
      BY <2>2 DEF Follows, PhaseOf, Promise!MovesOn, Promise!Running, WorkerRecord, IsActive, Obeys
    <2>3. CASE r.life = "launched" /\ n = [r EXCEPT !.stopSent = TRUE, !.notice = m]
      BY <2>3, <1>1 DEF Follows, PhaseOf, Promise!MovesOn, Promise!Running, WorkerRecord, IsActive, Obeys
    <2> QED BY <1>2, <2>1, <2>2, <2>3
  <1> QED BY <1>3 DEF n

\* Evaluating readiness changes nothing the process is owed.
LEMMA CheckReadyFollows ==
  ASSUME NEW w \in Worker, NEW r \in WorkerRecord, NEW o
  PROVE  Follows(w, r, CheckReady(w, r, o))
  <1> DEFINE ok == r.baseReady /\ Passed(w, "checks", o) /\ DependenciesReady(AppOf[w], TRUE)
             wr == r.wasReady \/ ok
  <1>1. ok \in BOOLEAN /\ wr \in BOOLEAN
    BY DEF WorkerRecord
  <1>2. CheckReady(w, r, o) = [r EXCEPT !.ready = ok, !.wasReady = wr]
    BY DEF CheckReady
  <1> HIDE DEF ok, wr
  <1> QED BY <1>1, <1>2 DEF Follows, PhaseOf, Promise!MovesOn, Promise!Running, WorkerRecord, IsActive, Obeys

\* lifecycle() moves a record forward, and at the deadline of a stopping
\* process it has told it to stop.
LEMMA LifecycleFollows ==
  ASSUME NEW w \in Worker, NEW r \in WorkerRecord, NEW o
  PROVE  /\ Follows(w, r, Lifecycle(w, r, o))
         /\ w \in o.late /\ ~IsActive(r) /\ Lifecycle(w, r, o).life = "launched"
              => Lifecycle(w, r, o).stopSent
  <1>1. CASE r.life = "exited"
    <2>1. Lifecycle(w, r, o) \in {Absent, r}
      BY <1>1 DEF Lifecycle
    <2>2. Follows(w, r, Absent)
      BY <1>1, FreshRecords DEF Follows, PhaseOf, Promise!MovesOn, Promise!Running, WorkerRecord, IsActive, Obeys, Absent, Fresh
    <2> QED BY <1>1, <2>1, <2>2, FollowsItself DEF Absent, Fresh
  <1>2. CASE r.life \in {"reserved", "launched"} /\ r.stopping
    <2>1. Lifecycle(w, r, o) = Retire(w, r, o)
      BY <1>2 DEF Lifecycle
    <2> QED BY <1>2, <2>1, RetireFollows DEF Follows
  <1>3. CASE r.life = "launched" /\ ~r.stopping
    <2>1. Lifecycle(w, r, o) = CheckReady(w, r, o)
      BY <1>3 DEF Lifecycle
    <2> QED BY <1>3, <2>1, CheckReadyFollows DEF IsActive
  <1>4. CASE r.life \in {"absent", "reserved"} /\ ~(r.life = "reserved" /\ r.stopping)
    <2>1. Lifecycle(w, r, o) = r
      BY <1>4 DEF Lifecycle
    <2> QED BY <1>4, <2>1, FollowsItself
  <1> QED BY <1>1, <1>2, <1>3, <1>4 DEF WorkerRecord

\* stop() moves a record forward to one that is not active.
LEMMA StopFollows ==
  ASSUME NEW w \in Worker, NEW r \in WorkerRecord, NEW o
  PROVE  Follows(w, r, Stop(w, r, o)) /\ ~IsActive(Stop(w, r, o))
  <1>1. CASE r.stopping \/ r.life = "absent"
    BY <1>1, FollowsItself DEF Stop, IsActive
  <1>2. CASE ~r.stopping /\ r.life # "absent"
    <2> DEFINE s == [r EXCEPT !.stopping = TRUE, !.ready = FALSE]
               p == [o EXCEPT !.late = {}]
    <2>1. Stop(w, r, o) = Lifecycle(w, s, p)
      BY <1>2 DEF Stop
    <2>2. s \in WorkerRecord /\ ~IsActive(s) /\ Follows(w, r, s)
      BY <1>2 DEF Follows, PhaseOf, Promise!MovesOn, Promise!Running, WorkerRecord, IsActive, Obeys
    <2> HIDE DEF s, p
    <2>3. Follows(w, s, Lifecycle(w, s, p))
      BY <2>2, LifecycleFollows
      <2>4. Follows(w, r, Lifecycle(w, s, p))
      BY <2>2, <2>3, FollowsOn
    <2> QED BY <2>1, <2>2, <2>3, <2>4 DEF Follows
  <1> QED BY <1>1, <1>2

-----------------------------------------------------------------------------
(* Steps of the worker records *)

\* What every step but a spawn does to w.
MovesOn(w) ==
  /\ Obeys(w, worker'[w])
  /\ worker'[w].life = "launched" <=> stream'[w] # "none"
  /\ stream'[w] = "first" => ~worker'[w].telemetry
  /\ IsActive(worker'[w]) => IsActive(worker[w])
  /\ Promise!MovesOn(PhaseOf(worker[w]), PhaseOf(worker'[w]))
  /\ stopping /\ PhaseOf(worker'[w]) = "launched" => PhaseOf(worker[w]) = "launched"

Typed ==
  /\ worker' \in [Worker -> WorkerRecord]
  /\ stream' \in [Worker -> {"none", "first", "events", "closed"}]

AllMoveOn == Typed /\ \A w \in Worker : MovesOn(w)

\* The step starts w, with room for it.
Spawns(w) ==
  /\ Typed
  /\ ~stopping
  /\ worker[w].life = "absent"
  /\ Cardinality(ActivePool(AppOf[w])) < MaxWorkers[AppOf[w]]
  /\ Obeys(w, worker'[w])
  /\ worker'[w].life = "launched" <=> stream'[w] # "none"
  /\ stream'[w] = "first" => ~worker'[w].telemetry
  /\ IsActive(worker'[w])
  /\ \A v \in Worker \ {w} : worker'[v] = worker[v] /\ stream'[v] = stream[v]

\* Nothing happens to a record that stays.
LEMMA Stays ==
  ASSUME IInv, NEW w \in Worker, worker'[w] = worker[w], stream'[w] = stream[w]
  PROVE  MovesOn(w)
  BY DEF IInv, TypeOK, Supervised, Heard, MovesOn, Promise!MovesOn

\* A record that follows itself, with its process as before, moves on.
LEMMA FollowsMoves ==
  ASSUME IInv, NEW w \in Worker, Follows(w, worker[w], worker'[w]), stream'[w] = stream[w]
  PROVE  MovesOn(w)
  BY DEF IInv, TypeOK, Supervised, Heard, MovesOn, Follows

\* A step that leaves every worker alone.
LEMMA NoneChanges ==
  ASSUME IInv, worker' = worker, stream' = stream
  PROVE  AllMoveOn
  BY Stays DEF AllMoveOn, Typed, IInv, TypeOK

\* A step that takes one record to a record that follows it.
LEMMA OneChanges ==
  ASSUME IInv, NEW w \in Worker, NEW n, worker' = [worker EXCEPT ![w] = n],
         Follows(w, worker[w], n), stream' = stream
  PROVE  AllMoveOn
  <1>1. n \in WorkerRecord /\ Typed /\ worker'[w] = n
    BY DEF Follows, Typed, IInv, TypeOK
  <1>2. MovesOn(w)
    BY <1>1, FollowsMoves
  <1>3. ASSUME NEW v \in Worker, v # w PROVE MovesOn(v)
    <2>1. worker'[v] = worker[v]
      BY <1>3 DEF IInv, TypeOK
    <2> QED BY <2>1, Stays
  <1> QED BY <1>1, <1>2, <1>3 DEF AllMoveOn

\* A step that stops some workers: a restart, or a loop of the tick.
LEMMA SomeStop ==
  ASSUME IInv, NEW S, NEW o, stream' = stream,
         worker' = [w \in Worker |-> IF w \in S THEN Stop(w, worker[w], o) ELSE worker[w]]
  PROVE  AllMoveOn
  <1>1. ASSUME NEW w \in Worker PROVE Follows(w, worker[w], worker'[w])
    BY StopFollows, FollowsItself DEF IInv, TypeOK
  <1>2. Typed
    BY <1>1 DEF Follows, Typed, IInv, TypeOK
  <1> QED BY <1>1, <1>2, FollowsMoves DEF AllMoveOn

\* A failure stops the worker and charges its app.
LEMMA FailMoves ==
  ASSUME IInv, NEW w \in Worker, NEW r, NEW o, Follows(w, worker[w], r), Fail(w, r, o),
         stream' = stream
  PROVE  AllMoveOn
  <1>1. Follows(w, worker[w], Stop(w, r, o))
    BY StopFollows, FollowsOn DEF Follows
  <1> QED BY <1>1, OneChanges DEF Fail

\* Charging an app keeps demand and backoff sets of apps.
LEMMA ChargeTypes ==
  ASSUME IInv, ManagerAssumption, NEW w \in Worker, NEW r, Charge(w, r)
  PROVE  demand' \subseteq App /\ throttled' \subseteq App
  BY DEF IInv, TypeOK, Charge, ManagerAssumption, serviceVars

-----------------------------------------------------------------------------
(* The actions *)

\* The invariant but for the worker records and their processes.
Remains ==
  /\ dialing \subseteq Worker
  /\ demand \subseteq App
  /\ throttled \subseteq App
  /\ stopping \in BOOLEAN
  /\ stage \in {"select", "workers", "stopping", "services", "growth", "idle", "returned"}
  /\ todo \subseteq Worker
  /\ queue \subseteq App
  /\ current \in App
  /\ wanted \subseteq App
  /\ required \subseteq App
  /\ available \in Nat
  /\ stage \in {"services", "growth", "idle"} => ~stopping

Goes ==
  /\ Remains'
  /\ stopping' = stopping
  /\ stage # "returned" /\ stage' # "returned"

Advances == AllMoveOn /\ Goes

\* The invariant has the part that is not about workers.
LEMMA IInvRemains == IInv => Remains
  BY DEF IInv, TypeOK, Staged, Remains

\* What the manager receives moves the records on.
LEMMA ReceiveAdvances ==
  ASSUME IInv, ManagerAssumption, Receive
  PROVE  Advances
  <1> USE DEF Receives, Selecting, tickVars, processVars, serviceVars
  <1>1. ASSUME NEW w \in Worker, NEW ok \in BOOLEAN, NEW o, ReceiveHandshake(w, ok, o)
        PROVE  Advances
    <2> DEFINE up == worker[w].baseReady \/ (ok /\ ReadyBy[AppOf[w]] = "event")
               r == [worker[w] EXCEPT !.telemetry = ok, !.baseReady = up]
    <2>1. up \in BOOLEAN /\ worker[w] \in WorkerRecord
      BY DEF IInv, TypeOK, WorkerRecord
    <2>2. \/ Fail(w, r, o) /\ ~ok
          \/ worker' = [worker EXCEPT ![w] = r] /\ UNCHANGED serviceVars
      BY <1>1 DEF ReceiveHandshake
    <2> HIDE DEF up
    <2>3. stream[w] = "first" /\ stream' = [stream EXCEPT ![w] = IF ok THEN "events" ELSE "closed"]
      BY <1>1 DEF ReceiveHandshake
    <2>4. worker[w].life = "launched" /\ ~worker[w].telemetry /\ Obeys(w, worker[w])
      BY <2>3 DEF IInv, Supervised, Heard
    <2>5. /\ r \in WorkerRecord /\ r.life = "launched" /\ Obeys(w, r)
          /\ PhaseOf(r) = PhaseOf(worker[w]) /\ IsActive(r) = IsActive(worker[w])
      BY <2>1, <2>4 DEF WorkerRecord, Obeys, PhaseOf, IsActive
    <2> HIDE DEF r
    <2> DEFINE n == worker'[w]
    <2>6. worker' = [worker EXCEPT ![w] = n] /\ Follows(w, r, n)
      BY <2>2, <2>5, StopFollows, FollowsItself DEF Fail, IInv, TypeOK
    <2>7. MovesOn(w) /\ Typed
      BY <2>1, <2>3, <2>4, <2>5, <2>6 DEF MovesOn, Follows, Typed, IInv, TypeOK
    <2>8. ASSUME NEW v \in Worker, v # w PROVE MovesOn(v)
      <3>1. worker'[v] = worker[v] /\ stream'[v] = stream[v]
        BY <2>3, <2>6, <2>8 DEF IInv, TypeOK
      <3> QED BY <3>1, Stays
    <2>9. Goes
      BY <1>1, <2>2, IInvRemains, ChargeTypes DEF ReceiveHandshake, Goes, Remains, Fail
    <2> QED BY <2>7, <2>8, <2>9 DEF Advances, AllMoveOn
  <1>2. ASSUME NEW w \in Worker, NEW o, NEW r, Follows(w, worker[w], r),
               \/ Fail(w, r, o)
               \/ worker' = [worker EXCEPT ![w] = r] /\ UNCHANGED serviceVars,
               stream' = stream, dialing' \subseteq Worker, UNCHANGED <<stopping, tickVars>>,
               stage = "select"
        PROVE  Advances
    <2>1. AllMoveOn
      BY <1>2, FailMoves, OneChanges
    <2>2. Goes
      BY <1>2, IInvRemains, ChargeTypes DEF Goes, Remains, Fail
    <2> QED BY <2>1, <2>2 DEF Advances
  <1>3. ASSUME NEW w \in Worker, NEW q \in Request, NEW o,
               ReceiveStart(w, q, o) \/ ReceiveEnd(w, q, o)
        PROVE  Advances
    <2> DEFINE more == worker[w].active \cup {q}
               less == worker[w].active \ {q}
    <2>1. worker[w] \in WorkerRecord /\ more \subseteq Request /\ less \subseteq Request
      BY DEF IInv, TypeOK, WorkerRecord
    <2>2. \/ Fail(w, worker[w], o)
          \/ /\ UNCHANGED serviceVars
             /\ \/ worker' = [worker EXCEPT ![w] = [worker[w] EXCEPT !.active = more]]
                \/ worker' = [worker EXCEPT ![w] = [worker[w] EXCEPT !.active = less]]
      BY <1>3 DEF ReceiveStart, ReceiveEnd
    <2> HIDE DEF more, less
    <2>3. /\ Follows(w, worker[w], [worker[w] EXCEPT !.active = more])
          /\ Follows(w, worker[w], [worker[w] EXCEPT !.active = less])
          /\ Follows(w, worker[w], worker[w])
      BY <2>1, FollowsItself DEF Follows, WorkerRecord, Obeys, IsActive, PhaseOf, Promise!MovesOn
    <2>4. /\ stream' = stream /\ dialing' \subseteq Worker /\ UNCHANGED <<stopping, tickVars>>
          /\ stage = "select"
      BY <1>3, IInvRemains DEF ReceiveStart, ReceiveEnd, Remains
    <2> QED BY <1>2, <2>2, <2>3, <2>4
  <1>4. ASSUME NEW w \in Worker, NEW o, ReceiveInvalid(w, o) \/ ReceiveHookFailure(w, o)
        PROVE  Advances
    <2>1. Fail(w, worker[w], o) /\ Follows(w, worker[w], worker[w])
      BY <1>4, FollowsItself DEF ReceiveInvalid, ReceiveHookFailure, IInv, TypeOK
    <2>2. /\ stream' = stream /\ dialing' \subseteq Worker /\ UNCHANGED <<stopping, tickVars>>
          /\ stage = "select"
      BY <1>4, IInvRemains DEF ReceiveInvalid, ReceiveHookFailure, Remains
    <2> QED BY <1>2, <2>1, <2>2
  <1>5. ASSUME NEW w \in Worker, NEW ok \in BOOLEAN, ReceiveProbe(w, ok)
        PROVE  Advances
    <2> DEFINE up == worker[w].baseReady \/ ok
               m == [worker[w] EXCEPT !.probing = FALSE, !.baseReady = up]
               r == IF Retained(w) THEN m ELSE worker[w]
    <2>1. worker[w] \in WorkerRecord /\ up \in BOOLEAN
      BY DEF IInv, TypeOK, WorkerRecord
    <2>2. worker' = [worker EXCEPT ![w] = r]
      BY <1>5 DEF ReceiveProbe, IInv, TypeOK
    <2> HIDE DEF up
    <2>3. Follows(w, worker[w], r)
      <3>1. Follows(w, worker[w], m)
        BY <2>1 DEF Follows, WorkerRecord, Obeys, IsActive, PhaseOf, Promise!MovesOn
      <3> QED BY <2>1, <3>1, FollowsItself
    <2> HIDE DEF r
    <2>4. /\ stream' = stream /\ dialing' \subseteq Worker /\ UNCHANGED <<stopping, tickVars>>
          /\ stage = "select" /\ UNCHANGED serviceVars
      BY <1>5, IInvRemains DEF ReceiveProbe, Remains
    <2> QED BY <1>2, <2>2, <2>3, <2>4
  <1>6. ASSUME NEW w \in Worker, NEW o, ReceiveStreamError(w, o)
        PROVE  Advances
    <2>1. Follows(w, worker[w], Stop(w, worker[w], o))
      BY StopFollows DEF IInv, TypeOK
    <2> DEFINE n == Stop(w, worker[w], o)
    <2> HIDE DEF n
    <2>2. /\ stream[w] = "events" /\ stream' = [stream EXCEPT ![w] = "closed"]
          /\ worker' = [worker EXCEPT ![w] = n]
      BY <1>6 DEF ReceiveStreamError, Fail, n
    <2>3. Typed /\ MovesOn(w)
      BY <2>1, <2>2 DEF n, MovesOn, Follows, Typed, IInv, TypeOK, Supervised
    <2>4. ASSUME NEW v \in Worker, v # w PROVE MovesOn(v)
      <3>1. worker'[v] = worker[v] /\ stream'[v] = stream[v]
        BY <2>2, <2>4 DEF IInv, TypeOK
      <3> QED BY <3>1, Stays
    <2>5. Goes
      BY <1>6, IInvRemains, ChargeTypes DEF ReceiveStreamError, Goes, Remains, Fail
    <2> QED BY <2>3, <2>4, <2>5 DEF Advances, AllMoveOn
  <1>7. ASSUME NEW w \in Worker, NEW o, ReceiveExit(w, o)
        PROVE  Advances
    <2> DEFINE r == [worker[w] EXCEPT !.life = "exited", !.ready = FALSE]
               n == Lifecycle(w, r, o)
    <2>1. worker[w] \in WorkerRecord /\ Obeys(w, worker[w]) /\ worker[w].life = "launched"
      BY <1>7 DEF IInv, TypeOK, Supervised, ReceiveExit
    <2>2. r \in WorkerRecord /\ r.life = "exited" /\ Obeys(w, r)
      BY <2>1 DEF WorkerRecord, Obeys
    <2>3. n \in {Absent, r}
      BY <2>2 DEF Lifecycle
    <2>4. stream' = [stream EXCEPT ![w] = "none"] /\ worker' = [worker EXCEPT ![w] = n]
      BY <1>7 DEF ReceiveExit
    <2> HIDE DEF n, r
    <2>5. n \in WorkerRecord /\ n.life \in {"exited", "absent"} /\ Obeys(w, n)
      BY <2>2, <2>3, FreshRecords DEF Absent, Fresh, Obeys
    <2>6. Typed /\ MovesOn(w)
      BY <2>1, <2>4, <2>5 DEF MovesOn, Typed, IInv, TypeOK, IsActive, PhaseOf, Promise!MovesOn
    <2>7. ASSUME NEW v \in Worker, v # w PROVE MovesOn(v)
      <3>1. worker'[v] = worker[v] /\ stream'[v] = stream[v]
        BY <2>4, <2>7 DEF IInv, TypeOK
      <3> QED BY <3>1, Stays
    <2>8. Goes
      BY <1>7, IInvRemains, ChargeTypes DEF ReceiveExit, Goes, Remains
    <2> QED BY <2>6, <2>7, <2>8 DEF Advances, AllMoveOn
  <1>8. ASSUME NEW a \in App, ReceivePoll(a)
        PROVE  Advances
    <2>1. AllMoveOn
      BY <1>8, NoneChanges DEF ReceivePoll
    <2>2. Goes
      BY <1>8, IInvRemains DEF ReceivePoll, Goes, Remains
    <2> QED BY <2>1, <2>2 DEF Advances
  <1>9. ASSUME NEW a \in App, NEW o, Restart(a, o)
        PROVE  Advances
    <2>1. AllMoveOn
      BY <1>9, SomeStop DEF Restart
    <2>2. Goes
      BY <1>9, IInvRemains DEF Restart, Goes, Remains
    <2> QED BY <2>1, <2>2 DEF Advances
  <1> QED BY <1>1, <1>3, <1>4, <1>5, <1>6, <1>7, <1>8, <1>9 DEF Receive

\* The loops over manager.workers move the records on.
LEMMA TickWorkersAdvances ==
  ASSUME IInv, ManagerAssumption, TickWorkers
  PROVE  Advances
  <1> USE DEF Visit, processVars, serviceVars
  <1>1. ASSUME NEW w \in todo, NEW o, TickRetired(w, o)
        PROVE  Advances
    <2> DEFINE r == Lifecycle(w, worker[w], o)
               killed == r.killed \/ (r.life = "launched" /\ w \in o.late)
               n == [r EXCEPT !.killed = killed]
    <2>1. w \in Worker /\ worker[w] \in WorkerRecord /\ Obeys(w, worker[w])
      BY DEF IInv, TypeOK
    <2>2. Follows(w, worker[w], r) /\ (w \in o.late /\ r.life = "launched" => r.stopSent)
      BY <1>1, <2>1, LifecycleFollows DEF TickRetired, Active
    <2>3. worker' = [worker EXCEPT ![w] = n]
      BY <1>1 DEF TickRetired
    <2> HIDE DEF r
    <2>4. r \in WorkerRecord /\ Obeys(w, r) /\ killed \in BOOLEAN
      BY <2>1, <2>2 DEF Follows, WorkerRecord
    <2>5. killed => r.notice # "none"
      BY <2>2, <2>4 DEF Obeys
    <2> HIDE DEF killed
    <2>6. Follows(w, r, n)
      BY <2>4, <2>5 DEF Follows, WorkerRecord, Obeys, IsActive, PhaseOf, Promise!MovesOn
    <2>7. AllMoveOn
      BY <1>1, <2>1, <2>2, <2>3, <2>6, FollowsOn, OneChanges DEF TickRetired
    <2>8. Goes
      BY <1>1, IInvRemains DEF TickRetired, Goes, Remains
    <2> QED BY <2>7, <2>8 DEF Advances
  <1>2. ASSUME NEW w \in todo, NEW o, NEW dial \in BOOLEAN
        PROVE  LET r == Lifecycle(w, worker[w], o)
               IN  w \in Worker /\ Follows(w, worker[w], [r EXCEPT !.probing = @ \/ dial])
    <2> DEFINE r == Lifecycle(w, worker[w], o)
               probing == r.probing \/ dial
               n == [r EXCEPT !.probing = probing]
    <2>1. w \in Worker /\ Follows(w, worker[w], r)
      BY LifecycleFollows DEF IInv, TypeOK
    <2> HIDE DEF r
    <2>2. r \in WorkerRecord /\ probing \in BOOLEAN
      BY <2>1 DEF Follows, WorkerRecord
    <2> HIDE DEF probing
    <2>3. Follows(w, r, n)
      BY <2>1, <2>2 DEF Follows, WorkerRecord, Obeys, IsActive, PhaseOf, Promise!MovesOn
    <2>4. Follows(w, worker[w], n)
      BY <2>1, <2>3, FollowsOn
    <2> QED BY <2>1, <2>4 DEF r, probing
  <1>3. ASSUME NEW w \in todo, NEW o, NEW dial \in BOOLEAN, TickActive(w, o, dial)
        PROVE  Advances
    <2>1. AllMoveOn
      BY <1>2, <1>3, OneChanges DEF TickActive
    <2>2. Goes
      BY <1>3, IInvRemains DEF TickActive, Dial, Goes, Remains
    <2> QED BY <2>1, <2>2 DEF Advances
  <1>4. ASSUME NEW w \in todo, NEW o, NEW dial \in BOOLEAN, NEW p, TickOverdue(w, o, p, dial)
        PROVE  Advances
    <2> DEFINE r == [Lifecycle(w, worker[w], o) EXCEPT !.probing = @ \/ dial]
    <2>1. w \in Worker /\ Follows(w, worker[w], r)
      BY <1>2
    <2>2. Fail(w, r, p) /\ stream' = stream
      BY <1>4 DEF TickOverdue
    <2> HIDE DEF r
    <2>3. AllMoveOn
      BY <2>1, <2>2, FailMoves
    <2>4. demand' \subseteq App /\ throttled' \subseteq App
      BY <2>1, <2>2, ChargeTypes DEF Fail
    <2>5. Goes
      BY <1>4, <2>4, IInvRemains DEF TickOverdue, Dial, Goes, Remains
    <2> QED BY <2>3, <2>5 DEF Advances
  <1>5. ASSUME NEW w \in todo, NEW o, TickStopping(w, o)
        PROVE  Advances
    <2>1. w \in Worker /\ Follows(w, worker[w], Stop(w, worker[w], o))
      BY StopFollows DEF IInv, TypeOK
    <2>2. AllMoveOn
      BY <1>5, <2>1, OneChanges, NoneChanges DEF TickStopping
    <2>3. Goes
      BY <1>5, IInvRemains DEF TickStopping, Goes, Remains
    <2> QED BY <2>2, <2>3 DEF Advances
  <1>6. CASE TickWorkersStopping
    BY <1>6, NoneChanges, IInvRemains DEF TickWorkersStopping, Goes, Remains, Advances, RetainedWorkers
  <1>7. CASE EndStopping
    BY <1>7, NoneChanges, IInvRemains DEF EndStopping, Goes, Remains, Advances
  <1>8. ASSUME NEW w \in todo, NEW o \in Oracle({w}),
               \/ TickRetired(w, o)
               \/ \E dial \in BOOLEAN : TickActive(w, o, dial)
               \/ \E dial \in BOOLEAN, p \in Oracle({w}) : TickOverdue(w, o, p, dial)
               \/ TickStopping(w, o)
        PROVE  Advances
    BY <1>1, <1>3, <1>4, <1>5, <1>8
  <1> QED BY <1>6, <1>7, <1>8 DEF TickWorkers

-----------------------------------------------------------------------------
(* The loop over manager.services *)

\* A launch takes a reserved worker that is not retiring to a running one.
LEMMA LaunchedRecord ==
  ASSUME ManagerAssumption, NEW w \in Worker, NEW r \in WorkerRecord, NEW o,
         r.life = "reserved", ~r.stopping, Obeys(w, r)
  PROVE  LET n == Lifecycle(w, Launched(w, r), o)
         IN  /\ n \in WorkerRecord /\ Obeys(w, n)
             /\ n.life = "launched" /\ ~n.stopping /\ ~n.telemetry
  <1> DEFINE base == ReadyBy[AppOf[w]] = "started"
             s == [r EXCEPT !.life = "launched", !.baseReady = base]
  <1>1. Launched(w, r) = s
    BY DEF Launched
  <1>2. base \in BOOLEAN
    OBVIOUS
  <1> HIDE DEF base
  <1>3. s \in WorkerRecord /\ Obeys(w, s) /\ s.life = "launched" /\ ~s.stopping /\ ~s.telemetry
    BY <1>2 DEF WorkerRecord, Obeys
  <1> HIDE DEF s
  <1>4. Follows(w, s, Lifecycle(w, s, o)) /\ Lifecycle(w, s, o) = CheckReady(w, s, o)
    BY <1>3, LifecycleFollows DEF Lifecycle
  <1>5. ~Lifecycle(w, s, o).stopping
    BY <1>3, <1>4 DEF CheckReady, WorkerRecord
  <1> QED BY <1>1, <1>3, <1>4, <1>5 DEF Follows

\* A service step moves the records on, or starts one worker that finds room.
LEMMA TickServicesSteps ==
  ASSUME IInv, ManagerAssumption, TickServices
  PROVE  Advances \/ (Goes /\ \E w \in Worker : Spawns(w))
  <1> USE DEF processVars, serviceVars
  <1>1. CASE TickActivation
    <2>1. Wanted \subseteq App /\ UNION {DOMAIN Condition[a] : a \in Wanted} \subseteq App
      BY DEF Wanted, ManagerAssumption
    <2> QED BY <1>1, <2>1, NoneChanges, IInvRemains DEF TickActivation, Goes, Remains, Advances
  <1>2. ASSUME NEW a \in queue, NEW o, TickUnavailable(a, o)
        PROVE  Advances
    <2>1. AllMoveOn
      BY <1>2, SomeStop DEF TickUnavailable
    <2>2. Goes
      BY <1>2, IInvRemains DEF TickUnavailable, Goes, Remains
    <2> QED BY <2>1, <2>2 DEF Advances
  <1>3. ASSUME NEW a \in queue, NEW o, NEW S, NEW F, TickService(a, S, F, o)
        PROVE  Advances
    <2>1. Remains /\ ~stopping /\ worker \in [Worker -> WorkerRecord]
      BY <1>3, IInvRemains DEF TickService, Remains, IInv, TypeOK
    <2>2. ASSUME NEW w \in S
          PROVE  w \in Worker /\ worker[w].life = "reserved" /\ ~worker[w].stopping
      BY <1>3 DEF TickService, ActivePool, Active, IsActive
    <2>3. ASSUME NEW w \in Worker, w \in S
          PROVE  worker'[w] \in WorkerRecord /\ MovesOn(w)
      <3> DEFINE n == Lifecycle(w, Launched(w, worker[w]), o)
      <3>1. worker[w] \in WorkerRecord /\ Obeys(w, worker[w])
        BY <2>1 DEF IInv
      <3>2. /\ n \in WorkerRecord /\ Obeys(w, n)
            /\ n.life = "launched" /\ ~n.stopping /\ ~n.telemetry
        BY <2>2, <2>3, <3>1, LaunchedRecord
      <3>3. worker'[w] = n /\ stream'[w] = "first"
        BY <1>3, <2>3 DEF TickService
      <3> HIDE DEF n
      <3> QED BY <2>1, <2>2, <2>3, <3>2, <3>3
            DEF MovesOn, IsActive, PhaseOf, Promise!MovesOn
    <2>4. ASSUME NEW w \in Worker, w \notin S
          PROVE  worker'[w] \in WorkerRecord /\ MovesOn(w)
      <3>1. worker'[w] \in {Stop(w, worker[w], o), worker[w]} /\ stream'[w] = stream[w]
        BY <1>3, <2>4 DEF TickService
      <3>2. Follows(w, worker[w], worker'[w])
        BY <2>1, <3>1, StopFollows, FollowsItself
      <3> QED BY <3>1, <3>2, FollowsMoves DEF Follows
    <2>5. Typed
      BY <1>3, <2>3, <2>4 DEF Typed, TickService, IInv, TypeOK
    <2>6. Goes
      BY <1>3, <2>1 DEF TickService, Goes, Remains
    <2> QED BY <2>3, <2>4, <2>5, <2>6 DEF Advances, AllMoveOn
  <1>4. ASSUME NEW saturated \in BOOLEAN, NEW spawns \in BOOLEAN, Growth(saturated, spawns),
               demand' \subseteq App, throttled' \subseteq App
        PROVE  Goes
    <2>1. ActivePool(current) \subseteq Worker
      BY DEF ActivePool
    <2>2. Cardinality(ActivePool(current)) \in Nat
      BY <2>1, FS_Subset, FS_CardinalityType, FiniteAssumption
    <2> QED BY <1>4, <2>2, IInvRemains DEF Growth, Goes, Remains
  <1>5. Unmet \subseteq App /\ throttled \cup {current} \subseteq App /\ demand \ {current} \subseteq App
    BY IInvRemains DEF Remains, Unmet
  <1>6. ASSUME NEW saturated \in BOOLEAN, NoSpawn(saturated) \/ SpawnFails(saturated)
        PROVE  Advances
    <2>1. AllMoveOn
      BY <1>6, NoneChanges DEF NoSpawn, SpawnFails
    <2>2. Goes
      BY <1>4, <1>5, <1>6, IInvRemains DEF NoSpawn, SpawnFails, Remains
    <2> QED BY <2>1, <2>2 DEF Advances
  <1>7. ASSUME NEW saturated \in BOOLEAN, NEW w \in Free(current), NEW n,
               Growth(saturated, TRUE), n \in WorkerRecord, Obeys(w, n), IsActive(n), ~n.telemetry,
               worker' = [worker EXCEPT ![w] = n],
               stream' = [stream EXCEPT ![w] = IF n.life = "launched" THEN "first" ELSE stream[w]]
        PROVE  Spawns(w)
    <2>1. w \in Worker /\ AppOf[w] = current /\ worker[w].life = "absent" /\ stream[w] = "none"
      BY <1>7 DEF Free, Retained, IInv, Supervised, TypeOK
    <2>2. Typed /\ worker'[w] = n /\ ~stopping
      BY <1>7, <2>1, IInvRemains DEF Typed, IInv, TypeOK, Growth, Remains
    <2>3. Cardinality(ActivePool(current)) < MaxWorkers[current]
      BY <1>7 DEF Growth, Grows
    <2>4. n.life = "launched" <=> stream'[w] # "none"
      BY <1>7, <2>1 DEF IInv, TypeOK
    <2>5. \A v \in Worker \ {w} : worker'[v] = worker[v] /\ stream'[v] = stream[v]
      BY <1>7 DEF IInv, TypeOK
    <2> QED BY <1>7, <2>1, <2>2, <2>3, <2>4, <2>5 DEF Spawns
  <1>8. ASSUME NEW saturated \in BOOLEAN, NEW w \in Free(current), NEW o, SpawnLaunched(w, saturated, o)
        PROVE  Goes /\ Spawns(w)
    <2> DEFINE n == Lifecycle(w, Launched(w, Fresh), o)
    <2>1. w \in Worker /\ Fresh.life = "reserved" /\ ~Fresh.stopping /\ Obeys(w, Fresh)
      BY DEF Free, Fresh, Obeys
    <2>2. /\ n \in WorkerRecord /\ Obeys(w, n)
          /\ n.life = "launched" /\ ~n.stopping /\ ~n.telemetry
      BY <2>1, FreshRecords, LaunchedRecord
    <2>3. /\ worker' = [worker EXCEPT ![w] = n] /\ stream' = [stream EXCEPT ![w] = "first"]
          /\ Growth(saturated, TRUE) /\ demand' = demand \ {current} /\ throttled' = throttled
      BY <1>8 DEF SpawnLaunched
    <2> HIDE DEF n
    <2>4. Spawns(w)
      BY <1>7, <2>2, <2>3 DEF IsActive
    <2>5. Goes
      BY <1>4, <1>5, <2>3, IInvRemains DEF Remains
    <2> QED BY <2>4, <2>5
  <1>9. ASSUME NEW saturated \in BOOLEAN, NEW w \in Free(current), SpawnReserved(w, saturated)
        PROVE  Goes /\ Spawns(w)
    <2>1. Obeys(w, Fresh) /\ IsActive(Fresh) /\ ~Fresh.telemetry /\ Fresh.life # "launched"
      BY DEF Fresh, Obeys, IsActive
    <2>2. /\ worker' = [worker EXCEPT ![w] = Fresh] /\ stream' = [stream EXCEPT ![w] = stream[w]]
          /\ Growth(saturated, TRUE) /\ demand' = Unmet /\ throttled' = throttled
      BY <1>9 DEF SpawnReserved, IInv, TypeOK
    <2>3. Spawns(w)
      BY <1>7, <2>1, <2>2, FreshRecords
    <2>4. Goes
      BY <1>4, <1>5, <2>2, IInvRemains DEF Remains
    <2> QED BY <2>3, <2>4
  <1>10. ASSUME NEW I, NEW o, TickIdle(I, o)
        PROVE  Advances
    <2>1. AllMoveOn
      BY <1>10, SomeStop DEF TickIdle
    <2>2. AnyApp \in App
      BY DEF AnyApp, ManagerAssumption
    <2>3. Goes
      BY <1>10, <2>2, IInvRemains DEF TickIdle, Goes, Remains
    <2> QED BY <2>1, <2>3 DEF Advances
  <1>11. CASE EndTick
    BY <1>11, NoneChanges, IInvRemains DEF EndTick, Goes, Remains, Advances
  <1>12. ASSUME NEW a \in queue, NEW o \in Oracle(Pool(a)),
               \/ TickUnavailable(a, o)
               \/ \E S \in SUBSET ActivePool(a), F \in SUBSET ActivePool(a) : TickService(a, S, F, o)
        PROVE  Advances
    BY <1>2, <1>3, <1>12
  <1>13. ASSUME NEW saturated \in BOOLEAN,
                \/ NoSpawn(saturated)
                \/ SpawnFails(saturated)
                \/ \E w \in Free(current) :
                     \/ SpawnReserved(w, saturated)
                     \/ \E o \in Oracle({w}) : SpawnLaunched(w, saturated, o)
         PROVE  Advances \/ (Goes /\ \E w \in Worker : Spawns(w))
    BY <1>6, <1>8, <1>9, <1>13 DEF Free
  <1> QED BY <1>1, <1>10, <1>11, <1>12, <1>13 DEF TickServices

-----------------------------------------------------------------------------
(* The inductive invariant *)

\* At the start nothing runs.
LEMMA Initially == ManagerAssumption /\ Init => IInv
  <1> SUFFICES ASSUME ManagerAssumption, Init PROVE IInv
    OBVIOUS
  <1>1. AnyApp \in App
    BY DEF AnyApp, ManagerAssumption
  <1>2. TypeOK
    BY <1>1, FreshRecords DEF Init, TypeOK
  <1> QED BY <1>2 DEF Init, IInv, Supervised, Obeys, Heard, Staged, Absent, Fresh

\* The four kinds of steps the loop takes.
LEMMA StepKinds ==
  ASSUME IInv, ManagerAssumption, Next
  PROVE  \/ Advances
         \/ Goes /\ \E w \in Worker : Spawns(w)
         \/ AllMoveOn /\ Shutdown
         \/ AllMoveOn /\ Return
         \/ UNCHANGED vars
  <1> USE DEF processVars, serviceVars, tickVars
  <1>1. CASE Receive
    BY <1>1, ReceiveAdvances
  <1>2. CASE Tick
    BY <1>2, NoneChanges, IInvRemains
       DEF Tick, BeginTick, Selecting, RetainedWorkers, Advances, Goes, Remains
  <1>3. CASE Shutdown
    BY <1>3, NoneChanges DEF Shutdown, BeginTick
  <1>4. CASE Return
    BY <1>4, NoneChanges DEF Return
  <1>5. CASE TickWorkers
    BY <1>5, TickWorkersAdvances
  <1>6. CASE TickServices
    BY <1>6, TickServicesSteps
  <1>7. ASSUME NEW a \in App, BackoffElapses(a) PROVE Advances
    BY <1>7, NoneChanges, IInvRemains DEF BackoffElapses, Advances, Goes, Remains
  <1>8. CASE Returned
    BY <1>8 DEF Returned
  <1> QED BY <1>1, <1>2, <1>3, <1>4, <1>5, <1>6, <1>7, <1>8 DEF Next

\* Steps that move the records on keep what is owed to the processes.
LEMMA MovesKeep ==
  ASSUME IInv, AllMoveOn
  PROVE  Supervised' /\ Heard' /\ \A w \in Worker : Obeys(w, worker'[w])
  BY DEF AllMoveOn, MovesOn, Supervised, Heard

\* The types of the next state, from its two parts.
LEMMA RemainsTyped == Typed /\ Remains' => TypeOK'
  BY DEF Typed, Remains, TypeOK

\* Every step keeps the invariant.
LEMMA IInvKept ==
  ASSUME IInv, ManagerAssumption, [Next]_vars
  PROVE  IInv'
  <1>1. CASE Advances
    <2>1. Typed /\ Remains' /\ stage' # "returned"
      BY <1>1 DEF Advances, AllMoveOn, Goes
    <2>2. Staged'
      BY <2>1 DEF Staged, Remains
    <2> QED BY <1>1, <2>1, <2>2, MovesKeep, RemainsTyped DEF IInv, Advances
  <1>2. ASSUME Goes, NEW w \in Worker, Spawns(w) PROVE IInv'
    <2>1. Typed /\ Remains' /\ stage' # "returned"
      BY <1>2 DEF Spawns, Goes
    <2>2. Staged'
      BY <2>1 DEF Staged, Remains
    <2>3. ASSUME NEW v \in Worker
          PROVE  /\ Obeys(v, worker'[v])
                 /\ worker'[v].life = "launched" <=> stream'[v] # "none"
                 /\ stream'[v] = "first" => ~worker'[v].telemetry
      BY <1>2 DEF Spawns, IInv, Supervised, Heard
    <2> QED BY <2>1, <2>2, <2>3, RemainsTyped DEF IInv, Supervised, Heard
  <1>3. CASE AllMoveOn /\ (Shutdown \/ Return)
    <2>1. Typed /\ (Remains \/ stage' = "returned")
      BY <1>3, IInvRemains DEF AllMoveOn
    <2>2. TypeOK' /\ Staged'
      <3>1. CASE Shutdown
        BY <1>3, <2>1, <3>1, IInvRemains
           DEF Shutdown, BeginTick, serviceVars, processVars, TypeOK, Typed, Remains, Staged, RetainedWorkers
      <3>2. CASE Return
        BY <1>3, <2>1, <3>2, IInvRemains
           DEF Return, serviceVars, processVars, TypeOK, Typed, Remains, Staged, Drained, RetainedWorkers, Retained
      <3> QED BY <1>3, <3>1, <3>2
    <2> QED BY <1>3, <2>2, MovesKeep DEF IInv
  <1>4. CASE UNCHANGED vars
    BY <1>4 DEF vars, IInv, TypeOK, Supervised, Heard, Staged, Drained, RetainedWorkers, Retained, Obeys
  <1> QED BY <1>1, <1>2, <1>3, <1>4, StepKinds

\* The invariant holds in every behaviour of the manager.
THEOREM Invariant == Spec => []IInv
  <1>1. Init => IInv
    BY Initially, ManagerAssumption
  <1>2. IInv /\ [Next]_vars => IInv'
    BY IInvKept, ManagerAssumption
  <1> QED BY <1>1, <1>2, PTL DEF Spec

\* Every variable keeps its type.
THEOREM TypeCorrect == Spec => []TypeOK
  <1>1. IInv => TypeOK
    BY DEF IInv
  <1> QED BY <1>1, Invariant, PTL

\* manager.workers, the processes and their goroutines agree: startProcess,
\* handle and lifecycle never lose a process and never keep a dead one.
THEOREM SupervisedAlways == Spec => []Supervised
  <1>1. IInv => Supervised
    BY DEF IInv
  <1> QED BY <1>1, Invariant, PTL

\* The stop line is sent after an accepted handshake only, and the kill after
\* stop_timeout only to a process that was told to stop.
THEOREM StopProtocolAlways == Spec => []StopProtocol
  <1>1. IInv => StopProtocol
    BY DEF IInv, StopProtocol, Obeys
  <1> QED BY <1>1, Invariant, PTL

\* run() returns with no process and no goroutine of a worker left.
THEOREM NothingLeftAlways == Spec => []NothingLeft
  <1>1. IInv => NothingLeft
    BY DEF IInv, NothingLeft, Staged, Drained, RetainedWorkers, Retained, Supervised
  <1> QED BY <1>1, Invariant, PTL

-----------------------------------------------------------------------------
(* Capacity *)

\* Pools are finite, so that counting them means something.
LEMMA PoolsFinite == \A a : IsFiniteSet(ActivePool(a)) /\ Cardinality(ActivePool(a)) \in Nat
  BY FiniteAssumption, FS_Subset, FS_CardinalityType DEF ActivePool

\* A spawn finds room, and no other step adds to a pool.
LEMMA CapacityKept ==
  ASSUME IInv, ManagerAssumption, Capacity, [Next]_vars
  PROVE  Capacity'
  <1> SUFFICES ASSUME NEW a \in App PROVE Cardinality(ActivePool(a)') <= MaxWorkers[a]
    BY DEF Capacity
  <1>1. /\ IsFiniteSet(ActivePool(a)) /\ Cardinality(ActivePool(a)) \in Nat
        /\ Cardinality(ActivePool(a)) <= MaxWorkers[a] /\ MaxWorkers[a] \in Nat
    BY PoolsFinite DEF Capacity, ManagerAssumption
  <1>2. ASSUME ActivePool(a)' \subseteq ActivePool(a)
        PROVE  Cardinality(ActivePool(a)') <= MaxWorkers[a]
    <2>1. /\ Cardinality(ActivePool(a)') <= Cardinality(ActivePool(a))
          /\ Cardinality(ActivePool(a)') \in Nat
      BY <1>1, <1>2, FS_Subset, FS_CardinalityType
    <2> QED BY <1>1, <2>1
  <1>3. CASE AllMoveOn
    <2>1. ActivePool(a)' \subseteq ActivePool(a)
      BY <1>3 DEF AllMoveOn, MovesOn, ActivePool, Active
    <2> QED BY <1>2, <2>1
  <1>4. ASSUME NEW w \in Worker, Spawns(w)
        PROVE  Cardinality(ActivePool(a)') <= MaxWorkers[a]
    <2>1. CASE AppOf[w] # a
      <3>1. ActivePool(a)' \subseteq ActivePool(a)
        BY <1>4, <2>1 DEF Spawns, ActivePool, Active
      <3> QED BY <1>2, <3>1
    <2>2. CASE AppOf[w] = a
      <3>1. ActivePool(a)' = ActivePool(a) \cup {w} /\ w \notin ActivePool(a)
        BY <1>4, <2>2 DEF Spawns, ActivePool, Active, IsActive
      <3>2. Cardinality(ActivePool(a) \cup {w}) = Cardinality(ActivePool(a)) + 1
        BY <1>1, <3>1, FS_AddElement
      <3>3. Cardinality(ActivePool(a)) < MaxWorkers[a]
        BY <1>4, <2>2 DEF Spawns
      <3> QED BY <1>1, <3>1, <3>2, <3>3
    <2> QED BY <2>1, <2>2
  <1>5. CASE UNCHANGED vars
    <2>1. ActivePool(a)' \subseteq ActivePool(a)
      BY <1>5 DEF vars, ActivePool, Active
    <2> QED BY <1>2, <2>1
  <1> QED BY <1>3, <1>4, <1>5, StepKinds DEF Advances

\* Whatever the workers do and however the loop is scheduled, no app has more
\* than max_workers workers that are not retiring.
THEOREM CapacityAlways == Spec => []Capacity
  <1>1. Init => Capacity
    <2> SUFFICES ASSUME Init, NEW a \in App PROVE Cardinality(ActivePool(a)) <= MaxWorkers[a]
      BY DEF Capacity
    <2>1. ActivePool(a) = {}
      BY DEF Init, ActivePool, Active, IsActive, Absent, Fresh
    <2> QED BY <2>1, FS_EmptySet, ManagerAssumption DEF ManagerAssumption
  <1>2. IInv /\ Capacity /\ [Next]_vars => Capacity'
    BY CapacityKept, ManagerAssumption
  <1> QED BY <1>1, <1>2, Invariant, PTL DEF Spec

-----------------------------------------------------------------------------
(* The promise is kept *)

\* The instance counts as the manager does.
LEMMA SameCardinality == \A S : Promise!Cardinality(S) = Cardinality(S)
  BY DEF Promise!Cardinality, Cardinality

\* A step of the manager is a step of the worker pool, or none.
LEMMA StepImplements ==
  ASSUME IInv, ManagerAssumption, [Next]_vars
  PROVE  [Promise!Next]_Promise!pool
  <1> DEFINE phase == [w \in Worker |-> PhaseOf(worker[w])]
  <1>1. ASSUME AllMoveOn
        PROVE  /\ phase' \in [Worker -> {"absent", "reserved", "launched", "retiring", "exited"}]
               /\ \A w \in Worker :
                    /\ Promise!MovesOn(phase[w], phase'[w])
                    /\ stopping /\ phase'[w] = "launched" => phase[w] = "launched"
    <2>1. \A w \in Worker : PhaseOf(worker'[w]) \in {"absent", "reserved", "launched", "retiring", "exited"}
      BY <1>1 DEF AllMoveOn, Typed, WorkerRecord, PhaseOf
    <2> QED BY <1>1, <2>1 DEF AllMoveOn, MovesOn
  <1>2. CASE Advances
    <2>1. stopping' = stopping /\ (stage' = "returned") = (stage = "returned")
      BY <1>2 DEF Advances, Goes
    <2>2. Promise!Advance
      BY <1>1, <1>2, <2>1 DEF Promise!Advance, Advances
    <2> QED BY <2>2 DEF Promise!Next
  <1>3. ASSUME Goes, NEW w \in Worker, Spawns(w) PROVE Promise!Next
    <2>1. stopping' = stopping /\ (stage' = "returned") = (stage = "returned")
      BY <1>3 DEF Goes
    <2>2. Promise!Members(AppOf[w]) = ActivePool(AppOf[w])
      BY DEF Promise!Members, Promise!Running, ActivePool, Active, IsActive, PhaseOf
    <2> DEFINE p == PhaseOf(worker'[w])
    <2>3. p \in Promise!Running /\ phase[w] = "absent"
      BY <1>3 DEF Spawns, PhaseOf, Promise!Running, IsActive
    <2>4. phase' = [phase EXCEPT ![w] = p]
      BY <1>3 DEF Spawns
    <2>5. Promise!Start(w, p)
      BY <1>3, <2>1, <2>2, <2>3, <2>4, SameCardinality DEF Promise!Start, Spawns
    <2> QED BY <2>3, <2>5 DEF Promise!Next
  <1>4. CASE Shutdown
    <2>1. Promise!Close
      BY <1>4 DEF Shutdown, BeginTick, Selecting, Promise!Close
    <2> QED BY <2>1 DEF Promise!Next
  <1>5. CASE Return
    <2>1. Promise!End
      BY <1>5 DEF Return, Drained, RetainedWorkers, Retained, PhaseOf, Promise!End
    <2> QED BY <2>1 DEF Promise!Next
  <1>6. CASE UNCHANGED vars
    BY <1>6 DEF vars, Promise!pool
  <1> QED BY <1>2, <1>3, <1>4, <1>5, <1>6, StepKinds

\* The manager implements the worker pool, for every configuration.
THEOREM Implements == Spec => ImplementsPool
  <1>1. Init => Promise!Init
    BY DEF Init, Promise!Init, PhaseOf, Absent, Fresh
  <1>2. IInv /\ [Next]_vars => [Promise!Next]_Promise!pool
    BY StepImplements, ManagerAssumption
  <1> QED BY <1>1, <1>2, Invariant, PTL DEF Spec, ImplementsPool, Promise!Spec
=============================================================================
