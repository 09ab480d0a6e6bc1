--------------------------- MODULE ManagerStepProofs ---------------------------
(***************************************************************************)
(* What a step of the manager may never do, for every set of apps, workers *)
(* and every configuration.                                                *)
(*                                                                         *)
(* The argument goes through the few actions that can do what a property   *)
(* is about: those that charge an app, drop its demand or retire idle      *)
(* workers.  What they need of the state beyond the invariant of           *)
(* ManagerProofs is that workers which are not active are not ready, and   *)
(* that the count of the idle loop is never too large.                     *)
(***************************************************************************)
EXTENDS ManagerProofs

-----------------------------------------------------------------------------
(* Demand *)

\* Workers that were active and are left alone still are.
LEMMA UnmetMet ==
  ASSUME IInv, NEW a \in demand \ Unmet,
         \A w \in ActivePool(current) : worker'[w] = worker[w]
  PROVE  \E w \in Worker : AppOf[w] = a /\ IsActive(worker'[w])
<1>1. a = current /\ ActivePool(current) # {}
  BY DEF Unmet
<1>2. PICK w \in ActivePool(current) : TRUE
  BY <1>1
<1>3. QED BY <1>1, <1>2 DEF ActivePool, Active

\* Demand is dropped for an app whose worker is launched, or active already.
LEMMA DemandStep ==
  ASSUME IInv, ManagerAssumption, Next, NEW a \in demand \ demand'
  PROVE  \E w \in Worker : AppOf[w] = a /\ IsActive(worker'[w])
<1>0. ASSUME NEW w, NEW r, Charge(w, r) PROVE FALSE
  BY <1>0 DEF Charge, serviceVars
<1>1. ~Receive /\ ~Tick /\ ~Shutdown /\ ~Return /\ ~Returned /\ ~TickWorkers
  <2>1. /\ \A w, ok, o : ~ReceiveHandshake(w, ok, o)
        /\ \A w, q, o : ~ReceiveStart(w, q, o) /\ ~ReceiveEnd(w, q, o)
        /\ \A w, o : ~ReceiveInvalid(w, o) /\ ~ReceiveStreamError(w, o)
        /\ \A w, o : ~ReceiveExit(w, o) /\ ~ReceiveHookFailure(w, o)
    BY <1>0 DEF ReceiveHandshake, ReceiveStart, ReceiveEnd, ReceiveInvalid, ReceiveStreamError,
       ReceiveExit, ReceiveHookFailure, Fail, serviceVars
  <2>2. /\ \A w, ok : ~ReceiveProbe(w, ok)
        /\ \A b : ~ReceivePoll(b) /\ \A o : ~Restart(b, o)
    BY DEF ReceiveProbe, ReceivePoll, Restart, serviceVars
  <2>3. ~Receive
    BY <2>1, <2>2 DEF Receive
  <2>4. /\ \A w, o : ~TickRetired(w, o) /\ ~TickStopping(w, o)
        /\ \A w, o, dial : ~TickActive(w, o, dial)
        /\ \A w, o, p, dial : ~TickOverdue(w, o, p, dial)
    BY <1>0 DEF TickRetired, TickStopping, TickActive, TickOverdue, Fail, serviceVars
  <2>5. ~TickWorkers
    BY <2>4 DEF TickWorkers, TickWorkersStopping, EndStopping, serviceVars
  <2>6. QED
    BY <2>3, <2>5 DEF Tick, Shutdown, BeginTick, Return, Returned, vars, serviceVars
<1>2. ASSUME NEW b \in queue, NEW o, NEW S, NEW F, S \subseteq ActivePool(b), TickService(b, S, F, o)
      PROVE  \E w \in Worker : AppOf[w] = a /\ IsActive(worker'[w])
  <2>1. S # {} /\ a = b
    BY <1>2 DEF TickService
  <2>2. PICK w \in S : TRUE
    BY <2>1
  <2>3. /\ w \in Worker /\ AppOf[w] = b
        /\ worker[w].life = "reserved" /\ ~worker[w].stopping
    BY <1>2, <2>2 DEF TickService, ActivePool, Active, IsActive
  <2>4. worker[w] \in WorkerRecord /\ Obeys(w, worker[w])
    BY <2>3 DEF IInv, TypeOK
  <2>5. worker'[w] = Lifecycle(w, Launched(w, worker[w]), o)
    BY <1>2, <2>2, <2>3 DEF TickService
  <2>6. IsActive(worker'[w])
    BY <2>3, <2>4, <2>5, LaunchedRecord DEF IsActive
  <2>7. QED BY <2>1, <2>3, <2>6
<1>3. ASSUME NEW saturated \in BOOLEAN, NoSpawn(saturated) \/ SpawnFails(saturated)
      PROVE  \E w \in Worker : AppOf[w] = a /\ IsActive(worker'[w])
  <2>1. worker' = worker /\ a \in demand \ Unmet
    BY <1>3 DEF NoSpawn, SpawnFails
  <2>2. QED BY <2>1, UnmetMet
<1>4. ASSUME NEW saturated \in BOOLEAN, NEW w \in Free(current), SpawnReserved(w, saturated)
      PROVE  \E v \in Worker : AppOf[v] = a /\ IsActive(worker'[v])
  <2>1. worker' = [worker EXCEPT ![w] = Fresh] /\ a \in demand \ Unmet
    BY <1>4 DEF SpawnReserved
  <2>2. w \notin ActivePool(current)
    BY DEF Free, Retained, ActivePool, Active, IsActive
  <2>3. \A v \in ActivePool(current) : worker'[v] = worker[v]
    BY <2>1, <2>2 DEF ActivePool, IInv, TypeOK
  <2>4. QED BY <2>1, <2>3, UnmetMet
<1>5. ASSUME NEW saturated \in BOOLEAN, NEW w \in Free(current), NEW o, SpawnLaunched(w, saturated, o)
      PROVE  \E v \in Worker : AppOf[v] = a /\ IsActive(worker'[v])
  <2>1. a = current /\ w \in Worker /\ AppOf[w] = current
    BY <1>5 DEF SpawnLaunched, Free
  <2>2. worker'[w] = Lifecycle(w, Launched(w, Fresh), o)
    BY <1>5, <2>1 DEF SpawnLaunched, IInv, TypeOK
  <2>3. Fresh.life = "reserved" /\ ~Fresh.stopping /\ Obeys(w, Fresh)
    BY DEF Fresh, Obeys
  <2>4. IsActive(worker'[w])
    BY <2>1, <2>2, <2>3, FreshRecords, LaunchedRecord DEF IsActive
  <2>5. QED BY <2>1, <2>4
<1>6. /\ \A b, o : ~TickUnavailable(b, o)
      /\ \A I, o : ~TickIdle(I, o)
      /\ ~TickActivation /\ ~EndTick /\ \A b : ~BackoffElapses(b)
  BY DEF TickUnavailable, TickIdle, TickActivation, EndTick, BackoffElapses, serviceVars
<1>7. QED
  BY <1>1, <1>2, <1>3, <1>4, <1>5, <1>6 DEF Next, TickServices

\* service.demand is set to false only when a worker of the app is there to meet
\* the demand, main.go:2949-2951 and the starts before it.
THEOREM DemandMetAlways == Spec => DemandMet
<1>1. IInv /\ [Next]_vars =>
        [\A a \in demand \ demand' :
           \E w \in Worker : AppOf[w] = a /\ IsActive(worker'[w])]_vars
  BY DemandStep, ManagerAssumption
<1>2. QED BY <1>1, Invariant, PTL DEF Spec, DemandMet

-----------------------------------------------------------------------------
(* Idle retirement *)

\* The count of the idle loop was taken before this tick's spawn: it may be too
\* small, and is never too large.
Counted == stage = "idle" => available <= Cardinality(ActivePool(current))

\* The services of a tick come to the idle loop through the growth decision only.
LEMMA IdleEntered ==
  ASSUME Next, stage' = "idle"
  PROVE  /\ \E saturated, spawns \in BOOLEAN : Growth(saturated, spawns)
         /\ \/ worker' = worker
            \/ \E w \in Free(current) : \E n : worker' = [worker EXCEPT ![w] = n]
<1>1. ~Receive /\ ~Tick /\ ~Shutdown /\ ~Return /\ ~Returned
  <2>1. ~Receive
    <3>1. Receive => Receives
      BY DEF Receive, ReceiveHandshake, ReceiveStart, ReceiveEnd, ReceiveInvalid, ReceiveStreamError,
         ReceiveExit, ReceiveHookFailure, ReceiveProbe, ReceivePoll, Restart
    <3>2. QED BY <3>1 DEF Receives, Selecting, tickVars
  <2>2. QED BY <2>1 DEF Tick, Shutdown, BeginTick, Return, Returned, vars
<1>2. ~TickWorkers /\ \A a \in App : ~BackoffElapses(a)
  <2>1. /\ \A w, o : ~TickRetired(w, o) /\ ~TickStopping(w, o)
        /\ \A w, o, dial : ~TickActive(w, o, dial)
        /\ \A w, o, p, dial : ~TickOverdue(w, o, p, dial)
    BY DEF TickRetired, TickStopping, TickActive, TickOverdue, Visit
  <2>2. ~TickWorkersStopping /\ ~EndStopping /\ \A a \in App : ~BackoffElapses(a)
    BY DEF TickWorkersStopping, EndStopping, BackoffElapses, tickVars
  <2>3. QED BY <2>1, <2>2 DEF TickWorkers
<1>3. /\ \A a, o : ~TickUnavailable(a, o)
      /\ \A a, S, F, o : ~TickService(a, S, F, o)
      /\ \A I, o : ~TickIdle(I, o)
      /\ ~TickActivation /\ ~EndTick
  BY DEF TickUnavailable, TickService, TickIdle, TickActivation, EndTick
<1>4. PICK saturated \in BOOLEAN :
        \/ NoSpawn(saturated)
        \/ SpawnFails(saturated)
        \/ \E w \in Free(current) :
             \/ SpawnReserved(w, saturated)
             \/ \E o \in Oracle({w}) : SpawnLaunched(w, saturated, o)
  BY <1>1, <1>2, <1>3 DEF Next, TickServices
<1>5. \E spawns \in BOOLEAN : Growth(saturated, spawns)
  BY <1>4 DEF NoSpawn, SpawnFails, SpawnReserved, SpawnLaunched
<1>6. worker' = worker \/ \E w \in Free(current) : \E n : worker' = [worker EXCEPT ![w] = n]
  BY <1>4 DEF NoSpawn, SpawnFails, SpawnReserved, SpawnLaunched
<1>7. QED BY <1>5, <1>6

LEMMA CountedKept == ASSUME IInv, Counted, [Next]_vars PROVE Counted'
<1>1. CASE UNCHANGED vars
  BY <1>1 DEF vars, Counted, ActivePool, Active
<1>2. CASE Next
  <2> SUFFICES ASSUME stage' = "idle" PROVE available' <= Cardinality(ActivePool(current)')
    BY DEF Counted
  <2>1. PICK saturated, spawns \in BOOLEAN : Growth(saturated, spawns)
    BY <1>2, IdleEntered
  <2>2. available' = Cardinality(ActivePool(current)) /\ current' = current
    BY <2>1 DEF Growth
  <2>3. \A v \in ActivePool(current) : worker'[v] = worker[v]
    <3>1. ASSUME NEW w \in Free(current), NEW v \in ActivePool(current) PROVE w # v
      BY <3>1 DEF Free, Retained, ActivePool, Active, IsActive
    <3>2. QED BY <1>2, <3>1, IdleEntered DEF ActivePool, IInv, TypeOK
  <2>4. ActivePool(current) \subseteq ActivePool(current)'
    BY <2>2, <2>3 DEF ActivePool, Active
  <2>5. IsFiniteSet(ActivePool(current)')
    BY <2>2, FiniteAssumption, FS_Subset DEF ActivePool
  <2>6. QED BY <2>2, <2>4, <2>5, FS_Subset
<1>3. QED BY <1>1, <1>2

\* The workers the idle loop leaves are at least the floor.
LEMMA IdleStep ==
  ASSUME IInv, ManagerAssumption, Counted, Next, stage = "idle", worker' # worker
  PROVE  LET left == Cardinality({w \in ActivePool(current) : ~worker'[w].stopping})
         IN  /\ left >= MinWorkers[current]
             /\ current \in Startup \cup required => left >= 1
<1>1. ~Receive /\ ~Tick /\ ~Shutdown /\ ~Return /\ ~Returned
  BY DEF Receive, ReceiveHandshake, ReceiveStart, ReceiveEnd, ReceiveInvalid, ReceiveStreamError,
     ReceiveExit, ReceiveHookFailure, ReceiveProbe, ReceivePoll, Restart, Receives, Selecting,
     Tick, Shutdown, BeginTick, Return, Returned
<1>2. ~TickWorkers /\ \A a \in App : ~BackoffElapses(a)
  BY DEF TickWorkers, TickRetired, TickActive, TickOverdue, TickStopping, Visit,
     TickWorkersStopping, EndStopping, BackoffElapses
<1>3. PICK I \in SUBSET ActivePool(current) : \E o \in Oracle(I) : TickIdle(I, o)
  BY <1>1, <1>2 DEF Next, TickServices, TickActivation, TickUnavailable, TickService, NoSpawn,
     SpawnFails, SpawnReserved, SpawnLaunched, Growth, EndTick
<1>4. PICK o \in Oracle(I) : TickIdle(I, o)
  BY <1>3
<1>5. worker' = [w \in Worker |-> IF w \in I THEN Stop(w, worker[w], o) ELSE worker[w]]
  BY <1>4 DEF TickIdle
<1>6. I # {}
  BY <1>5 DEF IInv, TypeOK
<1>7. Cardinality(I) + Floor(current) <= available
  BY <1>4, <1>6 DEF TickIdle
<1> DEFINE pool == ActivePool(current)
           left == {w \in pool : ~worker'[w].stopping}
<1>8. pool \ I \subseteq left /\ left \subseteq pool
  BY <1>5 DEF ActivePool, Active, IsActive
<1>9. /\ IsFiniteSet(pool) /\ Cardinality(pool) \in Nat
      /\ available <= Cardinality(pool) /\ available \in Nat
  BY PoolsFinite DEF Counted, IInv, TypeOK
<1> HIDE DEF pool
<1>10. /\ IsFiniteSet(I) /\ Cardinality(I) \in Nat
       /\ Cardinality(pool \ I) = Cardinality(pool) - Cardinality(I)
       /\ Cardinality(pool \ I) \in Nat
  <2>1. I \subseteq pool /\ pool \cap I = I
    BY DEF pool
  <2>2. IsFiniteSet(I) /\ Cardinality(I) \in Nat /\ IsFiniteSet(pool \ I)
    BY <1>9, <2>1, FS_Subset, FS_CardinalityType, FS_Difference
  <2>3. QED BY <1>9, <2>1, <2>2, FS_Difference, FS_CardinalityType
<1>11. Cardinality(left) \in Nat /\ Cardinality(pool \ I) <= Cardinality(left)
  BY <1>8, <1>9, FS_Subset, FS_CardinalityType
<1>12. /\ Floor(current) \in Nat /\ Floor(current) >= MinWorkers[current]
       /\ MinWorkers[current] \in Nat
       /\ current \in Startup \cup required => Floor(current) >= 1
  BY DEF Floor, ManagerAssumption, IInv, TypeOK
<1> HIDE DEF left
<1>13. Cardinality(left) >= Floor(current)
  BY <1>7, <1>9, <1>10, <1>11, <1>12
<1>14. Cardinality(left) >= MinWorkers[current] /\ (current \in Startup \cup required => Cardinality(left) >= 1)
  BY <1>11, <1>12, <1>13
<1>15. QED BY <1>14 DEF left, pool

\* The idle loop, main.go:2957-2975, leaves the minimum, and one worker of a startup
\* service or of a required dependency.
THEOREM IdleKeepsMinimumAlways == Spec => IdleKeepsMinimum
<1>1. Init => Counted
  BY DEF Init, Counted
<1>2. IInv /\ Counted /\ [Next]_vars => Counted'
  BY CountedKept
<1>3. IInv /\ Counted /\ [Next]_vars =>
        [stage = "idle" /\ worker' # worker =>
           LET left == Cardinality({w \in ActivePool(current) : ~worker'[w].stopping})
           IN  /\ left >= MinWorkers[current]
               /\ current \in Startup \cup required => left >= 1]_vars
  BY IdleStep, ManagerAssumption
<1>4. QED BY <1>1, <1>2, <1>3, Invariant, PTL DEF Spec, IdleKeepsMinimum

-----------------------------------------------------------------------------
(* Retirement *)

Retiring(r) == r.life # "absent" /\ ~IsActive(r)

Quiet(r) == IsActive(r) \/ ~r.ready

\* What may become of the record of a retiring worker.
Fades(r, n) ==
  \/ n = Absent
  \/ /\ n.life \in {r.life, "exited"}
     /\ r.stopping => n.stopping
     /\ r.notice \in {"none", n.notice}

\* The helpers take r to n: no retiring record comes back.
Rests(r, n) ==
  /\ n \in WorkerRecord
  /\ Quiet(r) => Quiet(n)
  /\ Retiring(r) => Fades(r, n)
  /\ r.life = "absent" => n.life = "absent"

\* A forgotten worker is not ready.
LEMMA AbsentQuiet == Quiet(Absent) /\ Absent \in WorkerRecord /\ Absent.life = "absent"
  BY FreshRecords DEF Quiet, Absent, Fresh

\* Changes elsewhere in the record do not matter.
LEMMA AlikeRests ==
  ASSUME NEW r \in WorkerRecord, NEW n \in WorkerRecord, r.life # "absent",
         n.life = r.life, n.stopping = r.stopping, n.ready = r.ready, n.notice = r.notice
  PROVE  Rests(r, n)
  BY DEF Rests, Quiet, Retiring, Fades, IsActive

\* What became of a retiring record goes on fading.
LEMMA RestsOn ==
  ASSUME NEW r, NEW n, NEW m, r.life # "absent", n.life # "absent", Rests(r, n), Rests(n, m)
  PROVE  Rests(r, m)
<1>1. ASSUME Retiring(r) PROVE Fades(r, m)
  <2>1. n # Absent
    BY AbsentQuiet
  <2>2. /\ n.life \in {r.life, "exited"} /\ (r.stopping => n.stopping)
        /\ r.notice \in {"none", n.notice}
    BY <1>1, <2>1 DEF Rests, Fades
  <2>3. Retiring(n)
    BY <1>1, <2>2 DEF Retiring, IsActive, Rests, WorkerRecord
  <2>4. QED BY <2>2, <2>3 DEF Rests, Fades
<1>2. QED BY <1>1 DEF Rests

\* lifecycle() never takes a retiring record back.
LEMMA LifecycleRests ==
  ASSUME NEW w \in Worker, NEW r \in WorkerRecord, NEW o, Obeys(w, r), Quiet(r)
  PROVE  Rests(r, Lifecycle(w, r, o))
<1>1. CASE r.life = "exited"
  <2>1. Lifecycle(w, r, o) \in {Absent, r}
    BY <1>1 DEF Lifecycle
  <2>2. QED BY <1>1, <2>1, AbsentQuiet, AlikeRests DEF Rests, Fades
<1>2. CASE r.life \in {"reserved", "launched"} /\ r.stopping
  <2> DEFINE n == Retire(w, r, o)
             m == SignalStop(w, r, o)
  <2>1. Lifecycle(w, r, o) = n
    BY <1>2 DEF Lifecycle
  <2>2. \/ n = r
        \/ ~r.stopSent /\ n = [r EXCEPT !.stopSent = TRUE, !.life = "exited"]
        \/ ~r.stopSent /\ n = [r EXCEPT !.stopSent = TRUE, !.notice = m]
    BY DEF Retire
  <2>3. n \in WorkerRecord
    BY <1>2, RetireFollows DEF Follows
  <2>4. ~r.stopSent => r.notice = "none"
    BY DEF Obeys
  <2> HIDE DEF n, m
  <2>5. /\ n.life \in {r.life, "exited"} /\ n.stopping /\ n.ready = r.ready
        /\ r.notice \in {"none", n.notice}
    BY <1>2, <2>2, <2>4 DEF WorkerRecord
  <2>6. ~r.ready
    BY <1>2 DEF Quiet, IsActive
  <2>7. QED BY <1>2, <2>1, <2>3, <2>5, <2>6 DEF Rests, Quiet, Fades
<1>3. CASE r.life = "launched" /\ ~r.stopping
  <2> DEFINE n == CheckReady(w, r, o)
  <2>1. Lifecycle(w, r, o) = n
    BY <1>3 DEF Lifecycle
  <2>2. n \in WorkerRecord
    BY CheckReadyFollows DEF Follows
  <2>3. n.life = "launched" /\ ~n.stopping
    BY <1>3 DEF CheckReady, WorkerRecord
  <2> HIDE DEF n
  <2>4. QED BY <1>3, <2>1, <2>2, <2>3 DEF Rests, Quiet, Retiring, IsActive
<1>4. CASE r.life = "reserved" /\ ~r.stopping
  <2>1. Lifecycle(w, r, o) = r
    BY <1>4 DEF Lifecycle
  <2>2. QED BY <1>4, <2>1, AlikeRests
<1>5. CASE r.life = "absent"
  <2>1. Lifecycle(w, r, o) = r
    BY <1>5 DEF Lifecycle
  <2>2. QED BY <1>5, <2>1 DEF Rests, Retiring
<1>6. QED BY <1>1, <1>2, <1>3, <1>4, <1>5 DEF WorkerRecord

\* Neither does stop().
LEMMA StopRests ==
  ASSUME NEW w \in Worker, NEW r \in WorkerRecord, NEW o, Obeys(w, r), Quiet(r)
  PROVE  Rests(r, Stop(w, r, o))
<1>1. CASE r.stopping \/ r.life = "absent"
  <2>1. Stop(w, r, o) = r
    BY <1>1 DEF Stop
  <2>2. CASE r.life # "absent"
    BY <2>1, <2>2, AlikeRests
  <2>3. CASE r.life = "absent"
    BY <2>1, <2>3 DEF Rests, Retiring
  <2>4. QED BY <2>2, <2>3
<1>2. CASE ~r.stopping /\ r.life # "absent"
  <2> DEFINE s == [r EXCEPT !.stopping = TRUE, !.ready = FALSE]
             p == [o EXCEPT !.late = {}]
  <2>1. Stop(w, r, o) = Lifecycle(w, s, p)
    BY <1>2 DEF Stop
  <2>2. /\ s \in WorkerRecord /\ Obeys(w, s) /\ ~s.ready /\ s.stopping
        /\ s.life = r.life /\ s.notice = r.notice
    BY DEF WorkerRecord, Obeys
  <2> HIDE DEF s, p
  <2>3. Quiet(s) /\ Rests(r, s)
    BY <1>2, <2>2 DEF Rests, Quiet, Fades
  <2>4. Rests(s, Lifecycle(w, s, p))
    BY <2>2, <2>3, LifecycleRests
  <2>5. QED BY <1>2, <2>1, <2>2, <2>3, <2>4, RestsOn
<1>3. QED BY <1>1, <1>2

\* Workers that are not active are not ready.
AllQuiet == \A w \in Worker : Quiet(worker[w])

Remaining(w) == Quiet(worker'[w]) /\ (Retiring(worker[w]) => Fades(worker[w], worker'[w]) /\ ~worker'[w].ready)

\* What the helpers leave of a record is what remains of it in a step.
LEMMA RestsRemaining ==
  ASSUME IInv, AllQuiet, NEW w \in Worker, Rests(worker[w], worker'[w])
  PROVE  Remaining(w)
<1>1. Quiet(worker'[w]) /\ (Retiring(worker[w]) => Fades(worker[w], worker'[w]))
  BY DEF AllQuiet, Rests
<1>2. ASSUME Retiring(worker[w]) PROVE ~IsActive(worker'[w])
  BY <1>1, <1>2, AbsentQuiet DEF Fades, Retiring, IsActive, IInv, TypeOK, WorkerRecord
<1>3. QED BY <1>1, <1>2 DEF Remaining, Quiet

\* A record that stays remains.
LEMMA StaysRemaining ==
  ASSUME IInv, AllQuiet, NEW w \in Worker, worker'[w] = worker[w]
  PROVE  Remaining(w)
<1>1. worker[w] \in WorkerRecord /\ Quiet(worker[w])
  BY DEF IInv, TypeOK, AllQuiet
<1>2. CASE worker[w].life # "absent"
  BY <1>1, <1>2, AlikeRests, RestsRemaining
<1>3. CASE worker[w].life = "absent"
  BY <1>1, <1>3 DEF Remaining, Retiring
<1>4. QED BY <1>2, <1>3

\* A step that takes one record to another.
LEMMA OneRemaining ==
  ASSUME IInv, AllQuiet, NEW w \in Worker, NEW n, worker' = [worker EXCEPT ![w] = n],
         Rests(worker[w], n)
  PROVE  \A v \in Worker : Remaining(v)
<1>1. ASSUME NEW v \in Worker PROVE Remaining(v)
  <2>1. CASE v = w
    BY <2>1, RestsRemaining DEF IInv, TypeOK
  <2>2. CASE v # w
    BY <2>2, StaysRemaining DEF IInv, TypeOK
  <2>3. QED BY <2>1, <2>2
<1>2. QED BY <1>1

\* A step that makes one record active that was absent, or active already.
LEMMA OneActive ==
  ASSUME IInv, AllQuiet, NEW w \in Worker, NEW n, worker' = [worker EXCEPT ![w] = n],
         ~Retiring(worker[w]), Quiet(n)
  PROVE  \A v \in Worker : Remaining(v)
<1>1. ASSUME NEW v \in Worker PROVE Remaining(v)
  <2>1. CASE v = w
    BY <2>1 DEF Remaining, IInv, TypeOK
  <2>2. CASE v # w
    BY <2>2, StaysRemaining DEF IInv, TypeOK
  <2>3. QED BY <2>1, <2>2
<1>2. QED BY <1>1

\* A step that stops some workers.
LEMMA SomeRemaining ==
  ASSUME IInv, AllQuiet, NEW S, NEW o,
         worker' = [w \in Worker |-> IF w \in S THEN Stop(w, worker[w], o) ELSE worker[w]]
  PROVE  \A v \in Worker : Remaining(v)
<1>1. ASSUME NEW v \in Worker PROVE Remaining(v)
  <2>1. CASE v \in S
    BY <2>1, StopRests, RestsRemaining DEF IInv, TypeOK, AllQuiet
  <2>2. CASE v \notin S
    BY <2>2, StaysRemaining
  <2>3. QED BY <2>1, <2>2
<1>2. QED BY <1>1

\* A failure: r is the record of a launched or active worker, but for what does not matter.
LEMMA FailRemaining ==
  ASSUME IInv, AllQuiet, NEW w \in Worker, NEW r \in WorkerRecord, NEW o,
         Rests(worker[w], r), Obeys(w, r), worker[w].life # "absent", r.life # "absent", Fail(w, r, o)
  PROVE  \A v \in Worker : Remaining(v)
<1>1. Rests(r, Stop(w, r, o))
  BY StopRests DEF Rests, AllQuiet
<1>2. Rests(worker[w], Stop(w, r, o))
  BY <1>1, RestsOn
<1>3. QED BY <1>2, OneRemaining DEF Fail

\* What the manager receives takes no retiring worker back.
LEMMA ReceiveRemaining ==
  ASSUME IInv, ManagerAssumption, AllQuiet, Receive
  PROVE  \A v \in Worker : Remaining(v)
<1> DEFINE Kept == \A v \in Worker : Remaining(v)
<1>0. ASSUME NEW w \in Worker
      PROVE  /\ worker[w] \in WorkerRecord /\ Obeys(w, worker[w]) /\ Quiet(worker[w])
             /\ stream[w] # "none" => worker[w].life = "launched"
  BY DEF IInv, TypeOK, AllQuiet, Supervised
<1>1. ASSUME NEW w \in Worker, NEW o, worker[w].life # "absent", Fail(w, worker[w], o)
      PROVE  Kept
  BY <1>0, <1>1, AlikeRests, FailRemaining
<1>2. ASSUME NEW w \in Worker, NEW ok \in BOOLEAN, NEW o, ReceiveHandshake(w, ok, o)
      PROVE  Kept
  <2> DEFINE up == worker[w].baseReady \/ (ok /\ ReadyBy[AppOf[w]] = "event")
             r == [worker[w] EXCEPT !.telemetry = ok, !.baseReady = up]
  <2>1. up \in BOOLEAN /\ worker[w] \in WorkerRecord
    BY <1>0 DEF WorkerRecord
  <2>2. Fail(w, r, o) \/ worker' = [worker EXCEPT ![w] = r]
    BY <1>2 DEF ReceiveHandshake
  <2> HIDE DEF up
  <2>3. worker[w].life = "launched" /\ ~worker[w].telemetry /\ Obeys(w, worker[w])
    BY <1>2 DEF ReceiveHandshake, IInv, Supervised, Heard
  <2>4. /\ r \in WorkerRecord /\ Obeys(w, r) /\ r.life = "launched" /\ r.ready = worker[w].ready
        /\ r.stopping = worker[w].stopping /\ r.notice = worker[w].notice
    BY <2>1, <2>3 DEF WorkerRecord, Obeys
  <2> HIDE DEF r
  <2>5. Rests(worker[w], r)
    BY <2>1, <2>3, <2>4, AlikeRests
  <2>6. QED BY <2>2, <2>3, <2>4, <2>5, FailRemaining, OneRemaining
<1>3. ASSUME NEW w \in Worker, NEW q \in Request, NEW o, ReceiveStart(w, q, o) \/ ReceiveEnd(w, q, o)
      PROVE  Kept
  <2> DEFINE more == worker[w].active \cup {q}
             less == worker[w].active \ {q}
  <2>1. /\ worker[w] \in WorkerRecord /\ more \subseteq Request /\ less \subseteq Request
        /\ worker[w].life = "launched"
    BY <1>0, <1>3 DEF ReceiveStart, ReceiveEnd, WorkerRecord
  <2>2. \/ Fail(w, worker[w], o)
        \/ worker' = [worker EXCEPT ![w] = [worker[w] EXCEPT !.active = more]]
        \/ worker' = [worker EXCEPT ![w] = [worker[w] EXCEPT !.active = less]]
    BY <1>3 DEF ReceiveStart, ReceiveEnd
  <2> HIDE DEF more, less
  <2>3. ASSUME NEW A, A \subseteq Request PROVE Rests(worker[w], [worker[w] EXCEPT !.active = A])
    <3> DEFINE n == [worker[w] EXCEPT !.active = A]
    <3>1. /\ n \in WorkerRecord /\ n.life = worker[w].life /\ n.ready = worker[w].ready
          /\ n.stopping = worker[w].stopping /\ n.notice = worker[w].notice
      BY <2>1, <2>3 DEF WorkerRecord
    <3> HIDE DEF n
    <3>2. Rests(worker[w], n)
      BY <2>1, <3>1, AlikeRests
    <3>3. QED BY <3>2 DEF n
  <2>4. QED BY <1>1, <2>1, <2>2, <2>3, OneRemaining
<1>4. ASSUME NEW w \in Worker, NEW o,
             ReceiveInvalid(w, o) \/ ReceiveStreamError(w, o) \/ ReceiveHookFailure(w, o)
      PROVE  Kept
  <2>1. Fail(w, worker[w], o) /\ worker[w].life # "absent"
    BY <1>0, <1>4 DEF ReceiveInvalid, ReceiveStreamError, ReceiveHookFailure, Active, IsActive
  <2>2. QED BY <1>1, <2>1
<1>5. ASSUME NEW w \in Worker, NEW o, ReceiveExit(w, o)
      PROVE  Kept
  <2> DEFINE r == [worker[w] EXCEPT !.life = "exited", !.ready = FALSE]
             n == Lifecycle(w, r, o)
  <2>1. /\ worker[w].life = "launched" /\ worker' = [worker EXCEPT ![w] = n]
        /\ worker[w] \in WorkerRecord /\ Obeys(w, worker[w])
    BY <1>0, <1>5 DEF ReceiveExit
  <2> HIDE DEF n
  <2>2. /\ r \in WorkerRecord /\ Obeys(w, r) /\ ~r.ready /\ r.life = "exited"
        /\ r.stopping = worker[w].stopping /\ r.notice = worker[w].notice
    BY <2>1 DEF WorkerRecord, Obeys
  <2> USE DEF n
  <2> HIDE DEF r
  <2>3. Quiet(r) /\ Rests(worker[w], r)
    BY <2>1, <2>2 DEF Quiet, Rests, Fades
  <2>4. Rests(r, n)
    BY <2>2, <2>3, LifecycleRests
  <2> HIDE DEF n
  <2>5. QED BY <2>1, <2>2, <2>3, <2>4, RestsOn, OneRemaining
<1>6. ASSUME NEW w \in Worker, NEW ok \in BOOLEAN, ReceiveProbe(w, ok)
      PROVE  Kept
  <2> DEFINE up == worker[w].baseReady \/ ok
             n == [worker[w] EXCEPT !.probing = FALSE, !.baseReady = up]
  <2>1. \/ worker' = worker
        \/ worker[w].life # "absent" /\ worker' = [worker EXCEPT ![w] = n]
    BY <1>6 DEF ReceiveProbe, Retained
  <2>2. up \in BOOLEAN /\ worker[w] \in WorkerRecord
    BY <1>0 DEF WorkerRecord
  <2> HIDE DEF up
  <2>3. /\ n \in WorkerRecord /\ n.life = worker[w].life /\ n.ready = worker[w].ready
        /\ n.stopping = worker[w].stopping /\ n.notice = worker[w].notice
    BY <2>2 DEF WorkerRecord
  <2> HIDE DEF n
  <2>4. QED BY <2>1, <2>2, <2>3, AlikeRests, OneRemaining, StaysRemaining
<1>7. ASSUME NEW a \in App, ReceivePoll(a) \/ \E o \in Oracle(Pool(a)) : Restart(a, o)
      PROVE  Kept
  <2>1. CASE ReceivePoll(a)
    BY <2>1, StaysRemaining DEF ReceivePoll
  <2>2. ASSUME NEW o, Restart(a, o) PROVE Kept
    BY <2>2, SomeRemaining DEF Restart
  <2>3. QED BY <1>7, <2>1, <2>2
<1>8. QED BY <1>2, <1>3, <1>4, <1>5, <1>6, <1>7 DEF Receive

\* Neither do the loops over manager.workers.
LEMMA TickWorkersRemaining ==
  ASSUME IInv, ManagerAssumption, AllQuiet, TickWorkers
  PROVE  \A v \in Worker : Remaining(v)
<1> DEFINE Kept == \A v \in Worker : Remaining(v)
<1>0. ASSUME NEW w \in todo, NEW o
      PROVE  /\ w \in Worker /\ worker[w] \in WorkerRecord /\ Obeys(w, worker[w])
             /\ Follows(w, worker[w], Lifecycle(w, worker[w], o))
             /\ Rests(worker[w], Lifecycle(w, worker[w], o))
             /\ Quiet(Lifecycle(w, worker[w], o))
  BY LifecycleFollows, LifecycleRests DEF IInv, TypeOK, AllQuiet, Rests
<1>1. ASSUME NEW w \in todo, NEW o, TickRetired(w, o)
      PROVE  Kept
  <2> DEFINE r == Lifecycle(w, worker[w], o)
             killed == r.killed \/ (r.life = "launched" /\ w \in o.late)
             n == [r EXCEPT !.killed = killed]
  <2>1. worker' = [worker EXCEPT ![w] = n]
    BY <1>1 DEF TickRetired
  <2>2. r \in WorkerRecord /\ Rests(worker[w], r) /\ w \in Worker /\ killed \in BOOLEAN
    BY <1>0 DEF Rests, WorkerRecord
  <2>3. r.life = "absent" => killed = r.killed
    BY <2>2 DEF WorkerRecord
  <2> HIDE DEF r, killed
  <2>4. CASE r.life = "absent"
    <3>1. n = r
      BY <2>2, <2>3, <2>4 DEF WorkerRecord
    <3>2. QED BY <2>1, <2>2, <3>1, OneRemaining
  <2>5. CASE r.life # "absent"
    <3>1. /\ n \in WorkerRecord /\ n.life = r.life /\ n.ready = r.ready
          /\ n.stopping = r.stopping /\ n.notice = r.notice
      BY <2>2 DEF WorkerRecord
    <3> HIDE DEF n
    <3>2. Rests(r, n)
      BY <2>2, <2>5, <3>1, AlikeRests
    <3>3. worker[w].life # "absent"
      BY <2>2, <2>5 DEF Rests
    <3>4. QED BY <2>1, <2>2, <2>5, <3>2, <3>3, RestsOn, OneRemaining
  <2>6. QED BY <2>4, <2>5
<1>2. ASSUME NEW w \in todo, NEW o, NEW dial \in BOOLEAN, Active(w)
      PROVE  LET n == [Lifecycle(w, worker[w], o) EXCEPT !.probing = @ \/ dial]
             IN  /\ n \in WorkerRecord /\ Obeys(w, n) /\ Quiet(n)
                 /\ n.life # "absent" /\ worker[w].life # "absent"
                 /\ ~Retiring(worker[w])
  <2> DEFINE r == Lifecycle(w, worker[w], o)
             probing == r.probing \/ dial
             n == [r EXCEPT !.probing = probing]
  <2>1. worker[w].life \in {"reserved", "launched"} /\ ~worker[w].stopping /\ ~Retiring(worker[w])
    BY <1>2 DEF Active, IsActive, Retiring
  <2>2. r \in WorkerRecord /\ Obeys(w, r) /\ Quiet(r) /\ probing \in BOOLEAN
    BY <1>0 DEF Follows, WorkerRecord
  <2>3. r.life # "absent"
    <3>1. r = worker[w] \/ r = CheckReady(w, worker[w], o)
      BY <2>1 DEF Lifecycle
    <3>2. QED BY <1>0, <2>1, <3>1 DEF CheckReady, WorkerRecord
  <2> HIDE DEF r, probing
  <2>4. n \in WorkerRecord /\ Obeys(w, n) /\ Quiet(n) /\ n.life # "absent"
    BY <2>2, <2>3 DEF WorkerRecord, Obeys, Quiet, IsActive
  <2>5. QED BY <2>1, <2>4 DEF r, probing
<1>3. ASSUME NEW w \in todo, NEW o, NEW dial \in BOOLEAN, TickActive(w, o, dial)
      PROVE  Kept
  <2> DEFINE n == [Lifecycle(w, worker[w], o) EXCEPT !.probing = @ \/ dial]
  <2>1. worker' = [worker EXCEPT ![w] = n] /\ Active(w)
    BY <1>3 DEF TickActive
  <2>2. Quiet(n) /\ ~Retiring(worker[w]) /\ w \in Worker
    BY <1>0, <1>2, <2>1
  <2> HIDE DEF n
  <2>3. QED BY <2>1, <2>2, OneActive
<1>4. ASSUME NEW w \in todo, NEW o, NEW dial \in BOOLEAN, NEW p, TickOverdue(w, o, p, dial)
      PROVE  Kept
  <2> DEFINE n == [Lifecycle(w, worker[w], o) EXCEPT !.probing = @ \/ dial]
  <2>1. Fail(w, n, p) /\ Active(w)
    BY <1>4 DEF TickOverdue
  <2>2. /\ n \in WorkerRecord /\ Obeys(w, n) /\ Quiet(n)
        /\ ~Retiring(worker[w]) /\ w \in Worker
    BY <1>0, <1>2, <2>1
  <2> HIDE DEF n
  <2>3. Quiet(Stop(w, n, p))
    BY <2>2, StopRests DEF Rests
  <2>4. QED BY <2>1, <2>2, <2>3, OneActive DEF Fail
<1>5. ASSUME NEW w \in todo, NEW o, TickStopping(w, o)
      PROVE  Kept
  <2>1. w \in Worker /\ Rests(worker[w], Stop(w, worker[w], o))
    BY <1>0, StopRests DEF AllQuiet
  <2>2. QED BY <1>5, <2>1, OneRemaining, StaysRemaining DEF TickStopping
<1>6. CASE TickWorkersStopping \/ EndStopping
  BY <1>6, StaysRemaining DEF TickWorkersStopping, EndStopping
<1>7. ASSUME NEW w \in todo, NEW o \in Oracle({w}),
             \/ TickRetired(w, o)
             \/ \E dial \in BOOLEAN : TickActive(w, o, dial)
             \/ \E dial \in BOOLEAN, p \in Oracle({w}) : TickOverdue(w, o, p, dial)
             \/ TickStopping(w, o)
      PROVE  Kept
  BY <1>1, <1>3, <1>4, <1>5, <1>7
<1>8. QED BY <1>6, <1>7 DEF TickWorkers

\* Neither do the services of a tick.
LEMMA TickServicesRemaining ==
  ASSUME IInv, ManagerAssumption, AllQuiet, TickServices
  PROVE  \A v \in Worker : Remaining(v)
<1> DEFINE Kept == \A v \in Worker : Remaining(v)
<1>1. CASE TickActivation \/ EndTick
  BY <1>1, StaysRemaining DEF TickActivation, EndTick
<1>2. ASSUME NEW a \in queue, NEW o, TickUnavailable(a, o)
      PROVE  Kept
  BY <1>2, SomeRemaining DEF TickUnavailable
<1>3. ASSUME NEW a \in queue, NEW o, NEW S, NEW F, TickService(a, S, F, o)
      PROVE  Kept
  <2> SUFFICES ASSUME NEW w \in Worker PROVE Remaining(w)
    OBVIOUS
  <2>0. worker[w] \in WorkerRecord /\ Obeys(w, worker[w]) /\ Quiet(worker[w])
    BY DEF IInv, TypeOK, AllQuiet
  <2>1. CASE w \in S
    <3>1. worker[w].life = "reserved" /\ ~worker[w].stopping
      BY <1>3, <2>1 DEF TickService, ActivePool, Active, IsActive
    <3>2. worker'[w] = Lifecycle(w, Launched(w, worker[w]), o)
      BY <1>3, <2>1 DEF TickService
    <3>3. IsActive(worker'[w])
      BY <2>0, <3>1, <3>2, LaunchedRecord DEF IsActive
    <3>4. QED BY <3>1, <3>3 DEF Remaining, Quiet, Retiring, IsActive
  <2>2. CASE w \notin S /\ w \in F
    <3>1. worker'[w] = Stop(w, worker[w], o)
      BY <1>3, <2>2 DEF TickService
    <3>2. QED BY <2>0, <3>1, StopRests, RestsRemaining
  <2>3. CASE w \notin S /\ w \notin F
    <3>1. worker'[w] = worker[w]
      BY <1>3, <2>3 DEF TickService
    <3>2. QED BY <3>1, StaysRemaining
  <2>4. QED BY <2>1, <2>2, <2>3
<1>4. ASSUME NEW saturated \in BOOLEAN, NoSpawn(saturated) \/ SpawnFails(saturated)
      PROVE  Kept
  BY <1>4, StaysRemaining DEF NoSpawn, SpawnFails
<1>5. ASSUME NEW saturated \in BOOLEAN, NEW w \in Free(current),
             \/ SpawnReserved(w, saturated)
             \/ \E o \in Oracle({w}) : SpawnLaunched(w, saturated, o)
      PROVE  Kept
  <2>1. w \in Worker /\ ~Retiring(worker[w])
    BY DEF Free, Retained, Retiring
  <2>2. CASE SpawnReserved(w, saturated)
    <3>1. worker' = [worker EXCEPT ![w] = Fresh] /\ Quiet(Fresh)
      BY <2>2 DEF SpawnReserved, Quiet, Fresh
    <3>2. QED BY <2>1, <3>1, OneActive
  <2>3. ASSUME NEW o, SpawnLaunched(w, saturated, o) PROVE Kept
    <3> DEFINE n == Lifecycle(w, Launched(w, Fresh), o)
    <3>1. worker' = [worker EXCEPT ![w] = n]
      BY <2>3 DEF SpawnLaunched
    <3>2. Fresh.life = "reserved" /\ ~Fresh.stopping /\ Obeys(w, Fresh)
      BY DEF Fresh, Obeys
    <3>3. Quiet(n)
      BY <2>1, <3>2, FreshRecords, LaunchedRecord DEF IsActive, Quiet
    <3> HIDE DEF n
    <3>4. QED BY <2>1, <3>1, <3>3, OneActive
  <2>4. QED BY <1>5, <2>2, <2>3
<1>6. ASSUME NEW I, NEW o, TickIdle(I, o)
      PROVE  Kept
  BY <1>6, SomeRemaining DEF TickIdle
<1>7. QED BY <1>1, <1>2, <1>3, <1>4, <1>5, <1>6 DEF TickServices

\* No step takes a retiring worker back.
LEMMA StepRemaining ==
  ASSUME IInv, ManagerAssumption, AllQuiet, [Next]_vars
  PROVE  \A v \in Worker : Remaining(v)
<1>1. CASE Receive
  BY <1>1, ReceiveRemaining
<1>2. CASE TickWorkers
  BY <1>2, TickWorkersRemaining
<1>3. CASE TickServices
  BY <1>3, TickServicesRemaining
<1>4. CASE Tick \/ Shutdown \/ Return \/ (\E a \in App : BackoffElapses(a)) \/ Returned \/ UNCHANGED vars
  BY <1>4, StaysRemaining DEF Tick, Shutdown, BeginTick, Return, BackoffElapses, Returned, vars
<1>5. QED BY <1>1, <1>2, <1>3, <1>4 DEF Next

\* lifecycle() and stop(), main.go:1904-1965 and 2593-2624, and everything that calls them,
\* never take a retiring worker back and never tell it twice to stop.
THEOREM RetiresForGoodAlways == Spec => RetiresForGood
<1>1. Init => AllQuiet
  BY AbsentQuiet DEF Init, AllQuiet
<1>2. IInv /\ AllQuiet /\ [Next]_vars => AllQuiet'
  BY StepRemaining, ManagerAssumption DEF Remaining, AllQuiet
<1>3. IInv /\ AllQuiet /\ [Next]_vars =>
        [\A w \in Worker : Retained(w) /\ ~Active(w) =>
           \/ worker'[w] = Absent
           \/ /\ worker'[w].life \in {worker[w].life, "exited"}
              /\ worker[w].stopping => worker'[w].stopping
              /\ ~worker'[w].ready
              /\ worker[w].notice \in {"none", worker'[w].notice}]_vars
  BY StepRemaining, ManagerAssumption DEF Remaining, Fades, Retiring, Retained, Active
<1>4. QED BY <1>1, <1>2, <1>3, Invariant, PTL DEF Spec, RetiresForGood

-----------------------------------------------------------------------------
(* Backoff *)

\* A charge that puts an app in backoff is for a worker of it that was not stopping.
LEMMA Charged ==
  ASSUME NEW w, NEW r, Charge(w, r), NEW a \in throttled' \ throttled
  PROVE  a = AppOf[w] /\ ~r.stopping
  BY DEF Charge, serviceVars

\* A failure that puts an app in backoff costs it an active worker.
LEMMA FailCharges ==
  ASSUME IInv, NEW w \in Worker, NEW r \in WorkerRecord, NEW o, Fail(w, r, o),
         worker[w].life \in {"reserved", "launched"}, worker[w].stopping => r.stopping,
         NEW a \in throttled' \ throttled
  PROVE  AppOf[w] = a /\ Active(w) /\ ~IsActive(worker'[w])
<1>1. a = AppOf[w] /\ ~r.stopping
  BY Charged DEF Fail
<1>2. worker'[w] = Stop(w, r, o)
  BY DEF Fail, IInv, TypeOK
<1>3. QED BY <1>1, <1>2, StopFollows DEF Active, IsActive

\* So does one that leaves the rest of the record alone.
LEMMA OwnFailCharges ==
  ASSUME IInv, NEW w \in Worker, NEW o, Fail(w, worker[w], o),
         worker[w].life \in {"reserved", "launched"}, NEW a \in throttled' \ throttled
  PROVE  AppOf[w] = a /\ Active(w) /\ ~IsActive(worker'[w])
<1> DEFINE r == worker[w]
<1>1. r \in WorkerRecord /\ Fail(w, r, o) /\ r.stopping = worker[w].stopping
  BY DEF IInv, TypeOK
<1> HIDE DEF r
<1>2. QED BY <1>1, FailCharges

\* Nothing else puts an app in backoff but a launch that fails.
LEMMA ChargedStep ==
  ASSUME IInv, ManagerAssumption, Next, NEW a \in throttled' \ throttled
  PROVE  \/ \E w \in Worker : AppOf[w] = a /\ Active(w) /\ ~IsActive(worker'[w])
         \/ stage = "growth" /\ current = a /\ a \in Unlaunchable
<1> DEFINE Lost == \E w \in Worker : AppOf[w] = a /\ Active(w) /\ ~IsActive(worker'[w])
<1>0. ASSUME NEW w \in Worker
      PROVE  /\ worker[w] \in WorkerRecord /\ Obeys(w, worker[w])
             /\ stream[w] # "none" => worker[w].life = "launched"
  BY DEF IInv, TypeOK, Supervised
<1>2. CASE Receive
  <2>1. ASSUME NEW w \in Worker, NEW ok \in BOOLEAN, NEW o, ReceiveHandshake(w, ok, o)
        PROVE  Lost
    <3> DEFINE up == worker[w].baseReady \/ (ok /\ ReadyBy[AppOf[w]] = "event")
               r == [worker[w] EXCEPT !.telemetry = ok, !.baseReady = up]
    <3>1. up \in BOOLEAN /\ worker[w] \in WorkerRecord /\ worker[w].life = "launched"
      BY <1>0, <2>1 DEF WorkerRecord, ReceiveHandshake
    <3>2. Fail(w, r, o) \/ throttled' = throttled
      BY <2>1 DEF ReceiveHandshake, serviceVars
    <3> HIDE DEF up
    <3>3. r \in WorkerRecord /\ r.stopping = worker[w].stopping
      BY <3>1 DEF WorkerRecord
    <3> HIDE DEF r
    <3>4. QED BY <3>1, <3>2, <3>3, FailCharges
  <2>2. ASSUME NEW w \in Worker, NEW q, NEW o, ReceiveStart(w, q, o) \/ ReceiveEnd(w, q, o)
        PROVE  Lost
    <3>1. Fail(w, worker[w], o) \/ throttled' = throttled
      BY <2>2 DEF ReceiveStart, ReceiveEnd, serviceVars
    <3>2. worker[w].life = "launched"
      BY <1>0, <2>2 DEF ReceiveStart, ReceiveEnd
    <3>3. Fail(w, worker[w], o) /\ worker[w].life \in {"reserved", "launched"}
      BY <3>1, <3>2
    <3>4. AppOf[w] = a /\ Active(w) /\ ~IsActive(worker'[w])
      BY <3>3, OwnFailCharges
    <3>5. QED BY <3>4
  <2>3. ASSUME NEW w \in Worker, NEW o,
               ReceiveInvalid(w, o) \/ ReceiveStreamError(w, o) \/ ReceiveHookFailure(w, o)
        PROVE  Lost
    <3>1. Fail(w, worker[w], o) /\ worker[w].life \in {"reserved", "launched"}
      BY <1>0, <2>3 DEF ReceiveInvalid, ReceiveStreamError, ReceiveHookFailure, Active, IsActive
    <3>2. AppOf[w] = a /\ Active(w) /\ ~IsActive(worker'[w])
      BY <3>1, OwnFailCharges
    <3>3. QED BY <3>2
  <2>4. ASSUME NEW w \in Worker, NEW o, ReceiveExit(w, o)
        PROVE  Lost
    <3> DEFINE r == [worker[w] EXCEPT !.life = "exited", !.ready = FALSE]
    <3>1. a = AppOf[w] /\ ~worker[w].stopping /\ worker[w].life = "launched"
      BY <1>0, <2>4, Charged DEF ReceiveExit
    <3>2. worker'[w] = Lifecycle(w, r, o)
      BY <2>4 DEF ReceiveExit, IInv, TypeOK
    <3>0. worker[w] \in WorkerRecord
      BY <1>0
    <3>3. r \in WorkerRecord /\ r.life = "exited"
      BY <3>0 DEF WorkerRecord
    <3> HIDE DEF r
    <3>4. Lifecycle(w, r, o) \in {Absent, r}
      BY <3>3 DEF Lifecycle
    <3>5. ~IsActive(worker'[w])
      BY <3>2, <3>3, <3>4, AbsentQuiet DEF IsActive
    <3>6. QED BY <3>1, <3>5 DEF Active, IsActive
  <2>5. /\ \A w, ok : ~ReceiveProbe(w, ok)
        /\ \A b : ~ReceivePoll(b) /\ \A o : ~Restart(b, o)
    BY DEF ReceiveProbe, ReceivePoll, Restart, serviceVars
  <2>6. QED BY <1>2, <2>1, <2>2, <2>3, <2>4, <2>5 DEF Receive
<1>3. CASE TickWorkers
  <2>1. /\ \A w, o : ~TickRetired(w, o) /\ ~TickStopping(w, o)
        /\ \A w, o, dial : ~TickActive(w, o, dial)
        /\ ~TickWorkersStopping /\ ~EndStopping
    BY DEF TickRetired, TickStopping, TickActive, TickWorkersStopping, EndStopping, serviceVars
  <2>2. ASSUME NEW w \in todo, NEW o, NEW p, NEW dial \in BOOLEAN, TickOverdue(w, o, p, dial)
        PROVE  Lost
    <3> DEFINE r == Lifecycle(w, worker[w], o)
               probing == r.probing \/ dial
               n == [r EXCEPT !.probing = probing]
    <3>1. w \in Worker /\ Active(w) /\ Fail(w, n, p)
      BY <2>2 DEF TickOverdue, IInv, TypeOK
    <3>2. r \in WorkerRecord /\ probing \in BOOLEAN
      BY <1>0, <3>1, LifecycleFollows DEF Follows, WorkerRecord
    <3> HIDE DEF r, probing
    <3>3. n \in WorkerRecord
      BY <3>2 DEF WorkerRecord
    <3> HIDE DEF n
    <3>4. QED BY <3>1, <3>3, FailCharges DEF Active, IsActive
  <2>3. ASSUME NEW w \in todo, NEW o \in Oracle({w}),
               \/ TickRetired(w, o)
               \/ \E dial \in BOOLEAN : TickActive(w, o, dial)
               \/ \E dial \in BOOLEAN, p \in Oracle({w}) : TickOverdue(w, o, p, dial)
               \/ TickStopping(w, o)
        PROVE  Lost
    BY <2>1, <2>2, <2>3
  <2>4. QED BY <1>3, <2>1, <2>3 DEF TickWorkers
<1>4. CASE TickServices
  <2>1. ASSUME NEW b \in queue, NEW o, NEW S, NEW F, S \subseteq ActivePool(b), F \subseteq ActivePool(b),
               TickService(b, S, F, o)
        PROVE  Lost
    <3>1. F # {} /\ a = b /\ S \cap F = {}
      BY <2>1 DEF TickService
    <3>2. PICK w \in F : TRUE
      BY <3>1
    <3>3. w \in Worker /\ AppOf[w] = a /\ Active(w) /\ w \notin S
      BY <2>1, <3>1, <3>2 DEF ActivePool
    <3>4. worker'[w] = Stop(w, worker[w], o)
      BY <2>1, <3>2, <3>3 DEF TickService
    <3>5. QED BY <1>0, <3>3, <3>4, StopFollows
  <2>2. ASSUME NEW saturated, SpawnFails(saturated)
        PROVE  stage = "growth" /\ current = a /\ a \in Unlaunchable
    BY <2>2 DEF SpawnFails, Growth
  <2>3. /\ \A b, o : ~TickUnavailable(b, o)
        /\ \A saturated : ~NoSpawn(saturated)
        /\ \A w, saturated : ~SpawnReserved(w, saturated) /\ \A o : ~SpawnLaunched(w, saturated, o)
        /\ \A I, o : ~TickIdle(I, o)
        /\ ~TickActivation /\ ~EndTick
    BY DEF TickUnavailable, NoSpawn, SpawnReserved, SpawnLaunched, TickIdle, TickActivation,
       EndTick, serviceVars
  <2>4. QED BY <1>4, <2>1, <2>2, <2>3 DEF TickServices
<1>5. ~Tick /\ ~Shutdown /\ ~Return /\ ~Returned /\ \A b : ~BackoffElapses(b)
  BY DEF Tick, Shutdown, BeginTick, Return, Returned, BackoffElapses, vars, serviceVars
<1>6. QED BY <1>2, <1>3, <1>4, <1>5 DEF Next

\* service.backoff is entered for a worker lost while not retiring or for a failed
\* launch: the failures handle, checkReady, hooks and startProcess report.
THEOREM ChargedOnceAlways == Spec => ChargedOnce
<1>1. IInv /\ [Next]_vars =>
        [\A a \in throttled' \ throttled :
           \/ \E w \in Worker : AppOf[w] = a /\ Active(w) /\ ~IsActive(worker'[w])
           \/ stage = "growth" /\ current = a /\ a \in Unlaunchable]_vars
  BY ChargedStep, ManagerAssumption
<1>2. QED BY <1>1, Invariant, PTL DEF Spec, ChargedOnce

=============================================================================
