------------------------------ MODULE GatedProofs ------------------------------
(***************************************************************************)
(* No process runs before its pre_start hooks have passed, and none is     *)
(* ready before its start and readiness hooks have, for any number of      *)
(* workers, generations and triggers.                                      *)
(*                                                                         *)
(* The argument: asking for hooks and cancelling them leaves the results   *)
(* of all runs as they are; a run that has passed is not started again,    *)
(* unless it is a health check; so the result of a run can close no gate,  *)
(* and the records of a worker change behind open gates only.              *)
(***************************************************************************)
EXTENDS HooksProofs

Gating == {"pre_start", "post_start", "readiness"}

Behind(st, w, r) ==
  /\ \A s \in {w, r.cycle} :
       /\ r.life = "running" => Passes(st, s, "pre_start")
       /\ r.ready => Passes(st, s, "post_start") /\ Passes(st, s, "readiness")
  /\ r.ready => r.life = "running"

\* A run that has passed does not run again.
CalmRun(b, r) ==
  /\ r.running /\ Event[b] \notin Periodic => ~r.done
  /\ r.running /\ Event[b] = "readiness" => ~r.success
  /\ r.success => r.done

Calm(st) == \A s \in Scope, b \in Binding : CalmRun(b, st.run[s][b])

Based(st) == \A w \in Worker : st.child[w].life # "absent" => st.child[w].cycle \in Cycle

Firm(st) ==
  /\ Typed(st) /\ Based(st) /\ Calm(st)
  /\ \A w \in Worker : Behind(st, w, st.child[w])

SameResults(st, after) ==
  \A s \in Scope, b \in Binding :
    /\ after.run[s][b].done <=> st.run[s][b].done
    /\ after.run[s][b].success <=> st.run[s][b].success

Settled(st, after) ==
  Typed(after) /\ after.child = st.child /\ Calm(after) /\ SameResults(st, after)

-----------------------------------------------------------------------------
(* Asking for hooks and cancelling them *)

LEMMA PassesSame ==
  ASSUME NEW st, NEW after, SameResults(st, after), NEW s \in Scope, NEW event \in Gating,
         Passes(st, s, event)
  PROVE  Passes(after, s, event)
BY DEF Passes, Gating, Bound, SameResults

LEMMA SettledTransitive ==
  ASSUME NEW st, NEW middle, NEW after, Settled(st, middle), Settled(middle, after)
  PROVE  Settled(st, after)
BY DEF Settled, SameResults

LEMMA PhaseSettled ==
  ASSUME NEW st, Typed(st), Calm(st), NEW s \in Scope, NEW event, NEW due
  PROVE  Settled(st, Phase(st, s, event, due))
<1> DEFINE starts == Starts(st, s, event, due)
           after == Phase(st, s, event, due)
<1>1. /\ Typed(after) /\ after.child = st.child
      /\ after.run = [st.run EXCEPT ![s] = Asked(st, s, event, starts)]
  BY PhaseTyped
<1>2. \A b \in starts : b \in Binding /\ MayStart(st.run[s][b], b, due)
  BY DEF Starts, Bound
<1> HIDE DEF starts, after
<1>3. st.run \in Runs
  BY DEF Typed, States
<1>4. \A t \in Scope, b \in Binding :
        /\ t # s => after.run[t] = st.run[t]
        /\ after.run[s][b] = IF b \in starts THEN [st.run[s][b] EXCEPT !.made = TRUE, !.running = TRUE]
                             ELSE IF b \in Bound(s, event) THEN [st.run[s][b] EXCEPT !.made = TRUE]
                             ELSE st.run[s][b]
  BY <1>1, <1>3 DEF Runs, Asked
<1>5. \A b \in Binding : st.run[s][b] \in AnyRun
  BY <1>3 DEF Runs
<1>6. ASSUME NEW b \in Binding
      PROVE  /\ after.run[s][b].done <=> st.run[s][b].done
             /\ after.run[s][b].success <=> st.run[s][b].success
             /\ after.run[s][b].running => b \in starts \/ st.run[s][b].running
  <2> DEFINE q == st.run[s][b]
  <2>1. q \in AnyRun
    BY <1>5
  <2>2. after.run[s][b] = IF b \in starts THEN [q EXCEPT !.made = TRUE, !.running = TRUE]
                          ELSE IF b \in Bound(s, event) THEN [q EXCEPT !.made = TRUE] ELSE q
    BY <1>4
  <2> HIDE DEF q
  <2>3. CASE b \in starts
    BY <2>1, <2>2, <2>3 DEF AnyRun, q
  <2>4. CASE b \notin starts
    BY <2>1, <2>2, <2>4 DEF AnyRun, q
  <2>5. QED BY <2>3, <2>4
<1>7. SameResults(st, after)
  BY <1>4, <1>6 DEF SameResults
<1>8. ASSUME NEW t \in Scope, NEW b \in Binding PROVE CalmRun(b, after.run[t][b])
  <2>0. CASE ~after.run[t][b].running
    BY <1>7, <2>0 DEF SameResults, Calm, CalmRun
  <2>1. CASE st.run[t][b].running
    BY <1>7, <2>1 DEF SameResults, Calm, CalmRun
  <2>2. CASE after.run[t][b].running /\ ~st.run[t][b].running
    <3>1. t = s /\ b \in starts
      BY <1>4, <1>6, <2>2
    <3>2. MayStart(st.run[s][b], b, due)
      BY <1>2, <3>1
    <3>3. /\ Event[b] \notin Periodic => ~st.run[s][b].done
          /\ Event[b] = "readiness" => ~st.run[s][b].done \/ ~st.run[s][b].success
      BY <3>2 DEF MayStart, Periodic
    <3>4. ~st.run[s][b].done => ~st.run[s][b].success
      BY DEF Calm, CalmRun
    <3>5. QED BY <1>6, <3>1, <3>3, <3>4 DEF CalmRun
  <2>3. QED BY <2>0, <2>1, <2>2
<1>9. Calm(after)
  BY <1>8 DEF Calm
<1>10. QED BY <1>1, <1>7, <1>9 DEF Settled, after

LEMMA CancelSettled ==
  ASSUME NEW st, Typed(st), Calm(st), NEW s \in Scope, NEW events
  PROVE  Settled(st, Cancel(st, s, events))
<1> DEFINE after == Cancel(st, s, events)
<1>1. /\ Typed(after) /\ after.child = st.child
      /\ after.run = [st.run EXCEPT ![s] = Told(st, s, events)]
  BY CancelTyped
<1> HIDE DEF after
<1>2. st.run \in Runs
  BY DEF Typed, States
<1>3. \A b \in Binding : st.run[s][b] \in AnyRun
  BY <1>2 DEF Runs
<1>4. \A b \in Binding : after.run[s][b] \in {st.run[s][b], [st.run[s][b] EXCEPT !.cancelled = TRUE]}
  BY <1>1, <1>2 DEF Runs, Told
<1>5. \A b \in Binding :
        /\ after.run[s][b].done <=> st.run[s][b].done
        /\ after.run[s][b].success <=> st.run[s][b].success
        /\ after.run[s][b].running <=> st.run[s][b].running
  BY <1>3, <1>4 DEF AnyRun
<1>6. \A t \in Scope : t # s => after.run[t] = st.run[t]
  BY <1>1, <1>2 DEF Runs
<1>7. SameResults(st, after) /\ Calm(after)
  BY <1>5, <1>6 DEF SameResults, Calm, CalmRun
<1>8. QED BY <1>1, <1>7 DEF Settled, after

-----------------------------------------------------------------------------
(* Firm states *)

LEMMA SettledFirm ==
  ASSUME NEW st, Firm(st), NEW after, Settled(st, after)
  PROVE  Firm(after)
<1>1. ASSUME NEW w \in Worker PROVE Behind(after, w, st.child[w])
  <2> DEFINE r == st.child[w]
  <2>1. Behind(st, w, r) /\ (r.life # "absent" => r.cycle \in Scope) /\ w \in Scope
    BY DEF Firm, Based, Scope
  <2> HIDE DEF r
  <2>2. \A s \in {w, r.cycle} : r.life = "running" => s \in Scope
    BY <2>1
  <2>3. \A s \in {w, r.cycle} : r.life = "running" => Passes(after, s, "pre_start")
    BY <2>1, <2>2, PassesSame DEF Behind, Settled, Gating
  <2>4. \A s \in {w, r.cycle} : r.ready => Passes(after, s, "post_start") /\ Passes(after, s, "readiness")
    BY <2>1, <2>2, PassesSame DEF Behind, Settled, Gating
  <2>5. Behind(after, w, r)
    BY <2>1, <2>3, <2>4 DEF Behind
  <2>6. QED BY <2>5 DEF r
<1>2. QED BY <1>1 DEF Firm, Settled, Based

LEMMA PutFirm ==
  ASSUME NEW st, Firm(st), NEW w \in Worker, NEW r \in Child,
         r.life = "absent" \/ r.cycle \in Cycle, Behind(st, w, r)
  PROVE  LET after == Put(st, w, r)
         IN  Firm(after) /\ after.child[w] = r /\ after.run = st.run
<1> DEFINE after == Put(st, w, r)
<1>1. Typed(after) /\ after.child = [st.child EXCEPT ![w] = r] /\ after.run = st.run
  BY PutTyped DEF Firm
<1> HIDE DEF after
<1>2. \A v \in Worker : after.child[v] = IF v = w THEN r ELSE st.child[v]
  BY <1>1 DEF Firm, Typed, States, Children
<1>3. \A s, event : Passes(st, s, event) => Passes(after, s, event)
  BY <1>1 DEF Passes
<1>4. \A v \in Worker : Behind(after, v, after.child[v])
  BY <1>2, <1>3 DEF Firm, Behind
<1>5. Based(after) /\ Calm(after)
  BY <1>1, <1>2 DEF Firm, Based, Calm
<1>6. QED BY <1>1, <1>2, <1>4, <1>5 DEF Firm, after

LEMMA RetireFirm ==
  ASSUME NEW st, Firm(st), NEW c \in Cycle
  PROVE  Firm(Retire(st, c)) /\ Retire(st, c).child = st.child
<1> DEFINE after == Retire(st, c)
<1>1. Typed(after) /\ after.child = st.child /\ after.run = st.run
  BY RetireTyped DEF Firm
<1> HIDE DEF after
<1>2. Settled(st, after)
  BY <1>1 DEF Settled, Firm, Calm, SameResults
<1>3. QED BY <1>1, <1>2, SettledFirm DEF after

LEMMA PhaseFirm ==
  ASSUME NEW st, Firm(st), NEW s \in Scope, NEW event, NEW due
  PROVE  LET after == Phase(st, s, event, due)
         IN  Firm(after) /\ Settled(st, after) /\ after.child = st.child
<1> DEFINE after == Phase(st, s, event, due)
<1>1. Settled(st, after)
  BY PhaseSettled DEF Firm
<1> HIDE DEF after
<1>2. QED BY <1>1, SettledFirm DEF Settled, after

LEMMA CancelFirm ==
  ASSUME NEW st, Firm(st), NEW s \in Scope, NEW events
  PROVE  LET after == Cancel(st, s, events)
         IN  Firm(after) /\ Settled(st, after) /\ after.child = st.child
<1> DEFINE after == Cancel(st, s, events)
<1>1. Settled(st, after)
  BY CancelSettled DEF Firm
<1> HIDE DEF after
<1>2. QED BY <1>1, SettledFirm DEF Settled, after

\* The record of a worker, and the scopes of one that is there.
LEMMA WorkerFirm ==
  ASSUME NEW st, Firm(st), NEW w \in Worker
  PROVE  /\ st.child[w] \in Child /\ w \in Scope /\ Behind(st, w, st.child[w])
         /\ st.child[w].life # "absent" => st.child[w].cycle \in Cycle
BY HooksAssumption DEF Firm, Typed, States, Children, Based, Scope, Child

-----------------------------------------------------------------------------
(* Lifecycle *)

\* A record that neither starts to run nor becomes ready may replace another of
\* its generation.
LEMMA LessFirm ==
  ASSUME NEW st, Firm(st), NEW w \in Worker, st.child[w].life # "absent", NEW r \in Child,
         r.cycle = st.child[w].cycle,
         r.life = "running" => st.child[w].life = "running",
         r.ready => st.child[w].ready /\ r.life = "running"
  PROVE  LET after == Put(st, w, r)
         IN  Firm(after) /\ after.child[w] = r
BY WorkerFirm, PutFirm DEF Behind

LEMMA GoneFirm ==
  ASSUME NEW st, Firm(st), NEW w \in Worker
  PROVE  Firm(Put(st, w, Absent))
<1>1. Absent \in Child /\ Absent.life = "absent" /\ ~Absent.ready
  BY DEF Absent, Child
<1>2. Behind(st, w, Absent)
  BY <1>1 DEF Behind
<1>3. QED BY <1>1, <1>2, PutFirm

LEMMA FarewellFirm ==
  ASSUME NEW st, Firm(st), NEW w \in Worker, st.child[w].life # "absent", NEW due
  PROVE  Firm(Farewell(st, w, due))
<1> DEFINE c == st.child[w].cycle
           told == CancelPhase(st, w, "pre_stop")
           worker == Phase(told, w, "post_stop", due)
           last == CancelPhase(worker, c, "pre_stop")
           both == IF AllExited(st, c) THEN Phase(last, c, "post_stop", due) ELSE worker
<1>1. w \in Scope /\ c \in Scope
  BY WorkerFirm DEF Scope
<1>2. Firm(told)
  BY <1>1, CancelFirm DEF CancelPhase
<1> HIDE DEF told
<1>3. Firm(worker)
  BY <1>1, <1>2, PhaseFirm
<1> HIDE DEF worker
<1>4. Firm(last)
  BY <1>1, <1>3, CancelFirm DEF CancelPhase
<1> HIDE DEF last
<1>5. Firm(Phase(last, c, "post_stop", due))
  BY <1>1, <1>4, PhaseFirm
<1>6. Firm(both)
  BY <1>3, <1>5
<1>7. Farewell(st, w, due) \in {both, Put(both, w, Absent)}
  BY DEF Farewell, told, worker, last
<1> HIDE DEF both
<1>8. QED BY <1>6, <1>7, GoneFirm

LEMMA DrainingFirm ==
  ASSUME NEW st, Firm(st), NEW w \in Worker, NEW late \in BOOLEAN, NEW due,
         st.child[w].life # "absent"
  PROVE  Firm(Draining(st, w, late, due))
<1> DEFINE c == st.child[w].cycle
           worker == Phase(st, w, "pre_stop", due)
           both == IF c \in st.retired THEN Phase(worker, c, "pre_stop", due) ELSE worker
           sent == [st.child[w] EXCEPT !.stopSent = TRUE,
                                       !.life = IF @ = "pending" THEN "exited" ELSE @]
<1>1. w \in Scope /\ c \in Scope /\ st.child[w] \in Child /\ Behind(st, w, st.child[w])
  BY WorkerFirm DEF Scope
<1>2. Firm(worker) /\ worker.child = st.child
  BY <1>1, PhaseFirm
<1> HIDE DEF worker
<1>3. Firm(both) /\ both.child = st.child
  BY <1>1, <1>2, PhaseFirm
<1>4. Draining(st, w, late, due) \in {both, Put(both, w, sent)}
  BY DEF Draining, worker
<1>5. /\ sent \in Child /\ sent.cycle = st.child[w].cycle
      /\ sent.life = "running" => st.child[w].life = "running"
      /\ sent.ready => st.child[w].ready /\ sent.life = "running"
  BY <1>1 DEF Child, Behind
<1> HIDE DEF both, sent
<1>6. Firm(Put(both, w, sent))
  BY <1>3, <1>5, LessFirm
<1>7. QED BY <1>3, <1>4, <1>6

LEMMA CheckingFirm ==
  ASSUME NEW st, Firm(st), NEW w \in Worker, NEW dependencies \in BOOLEAN, NEW due,
         st.child[w].life = "running"
  PROVE  Firm(Checking(st, w, dependencies, due))
<1> DEFINE c == st.child[w].cycle
           Both(before, event) == Phase(Phase(before, w, event, due), c, event, due)
           PassBoth(after, event) == Passes(after, w, event) /\ Passes(after, c, event)
           started == Both(st, "post_start")
           checked == Both(started, "readiness")
           healthy == Both(checked, "health")
<1>1. w \in Scope /\ c \in Scope /\ st.child[w] \in Child /\ Behind(st, w, st.child[w]) /\ c \in Cycle
  BY WorkerFirm DEF Scope
<1>2. ASSUME NEW before, Firm(before), NEW event
      PROVE  Firm(Both(before, event)) /\ Settled(before, Both(before, event))
  <2> DEFINE worker == Phase(before, w, event, due)
  <2>1. Firm(worker) /\ Settled(before, worker)
    BY <1>1, <1>2, PhaseFirm
  <2> HIDE DEF worker
  <2>2. Firm(Phase(worker, c, event, due)) /\ Settled(worker, Phase(worker, c, event, due))
    BY <1>1, <2>1, PhaseFirm
  <2>3. QED BY <2>1, <2>2, SettledTransitive DEF worker
<1> HIDE DEF Both
<1>3. Firm(started) /\ Settled(st, started)
  BY <1>2
<1> HIDE DEF started
<1>4. Firm(checked) /\ Settled(started, checked)
  BY <1>2, <1>3
<1> HIDE DEF checked
<1>5. Firm(healthy) /\ Settled(checked, healthy)
  BY <1>2, <1>4
<1> HIDE DEF healthy
<1>6. started.child = st.child /\ checked.child = st.child /\ healthy.child = st.child
  BY <1>3, <1>4, <1>5 DEF Settled
<1>7. ASSUME NEW after, Firm(after), after.child = st.child PROVE Firm(Ready(after, w, FALSE))
  <2> DEFINE r == [st.child[w] EXCEPT !.ready = FALSE]
  <2>1. r \in Child /\ r.cycle = st.child[w].cycle /\ r.life = st.child[w].life /\ ~r.ready
    BY <1>1 DEF Child
  <2>2. Ready(after, w, FALSE) = Put(after, w, r)
    BY <1>7 DEF Ready
  <2> HIDE DEF r
  <2>3. /\ r.cycle = after.child[w].cycle /\ after.child[w].life = "running"
        /\ after.child[w].life # "absent"
    BY <1>7, <2>1
  <2>4. Firm(Put(after, w, r))
    BY <1>7, <2>1, <2>3, LessFirm
  <2>5. QED BY <2>2, <2>4
<1>8. ASSUME PassBoth(started, "post_start"), PassBoth(checked, "readiness"), NEW ready \in BOOLEAN
      PROVE  Firm(Ready(healthy, w, ready))
  <2> DEFINE r == [st.child[w] EXCEPT !.ready = ready]
  <2>1. r \in Child /\ r.cycle = c /\ r.life = "running"
    BY <1>1 DEF Child
  <2>2. Ready(healthy, w, ready) = Put(healthy, w, r)
    BY <1>6 DEF Ready
  <2>3. SameResults(started, checked) /\ SameResults(checked, healthy)
    BY <1>4, <1>5 DEF Settled
  <2>4. PassBoth(checked, "post_start")
    BY <1>1, <1>8, <2>3, PassesSame DEF Gating
  <2>5. PassBoth(healthy, "post_start") /\ PassBoth(healthy, "readiness")
    BY <1>1, <1>8, <2>3, <2>4, PassesSame DEF Gating
  <2>6. Behind(healthy, w, st.child[w])
    BY <1>5, <1>6 DEF Firm
  <2> HIDE DEF r
  <2>7. Behind(healthy, w, r)
    BY <2>1, <2>5, <2>6 DEF Behind
  <2>8. QED BY <1>1, <1>5, <2>1, <2>2, <2>7, PutFirm
<1>9. \/ Checking(st, w, dependencies, due) \in {Ready(started, w, FALSE), Ready(checked, w, FALSE)}
      \/ /\ PassBoth(started, "post_start") /\ PassBoth(checked, "readiness")
         /\ Checking(st, w, dependencies, due) =
              Ready(healthy, w, PassBoth(healthy, "health") /\ dependencies)
  BY DEF Checking, Both, started, checked, healthy
<1>10. (PassBoth(healthy, "health") /\ dependencies) \in BOOLEAN
  OBVIOUS
<1> HIDE DEF PassBoth
<1>11. QED BY <1>3, <1>4, <1>6, <1>7, <1>8, <1>9, <1>10

LEMMA LifecycleFirm ==
  ASSUME NEW st, Firm(st), NEW w \in Worker, NEW late \in BOOLEAN, NEW dependencies \in BOOLEAN,
         NEW due, st.child[w].life # "absent"
  PROVE  Firm(Lifecycle(st, w, late, dependencies, due))
BY FarewellFirm, DrainingFirm, CheckingFirm DEF Lifecycle

LEMMA CancelChecksFirm ==
  ASSUME NEW st, Firm(st), NEW s \in Scope
  PROVE  Firm(CancelChecks(st, s)) /\ CancelChecks(st, s).child = st.child
BY CancelFirm DEF CancelChecks

LEMMA RetireCycleFirm ==
  ASSUME NEW st, Firm(st), NEW c \in Cycle
  PROVE  Firm(RetireCycle(st, c)) /\ RetireCycle(st, c).child = st.child
<1> DEFINE retiring == Retire(st, c)
<1>1. Firm(retiring) /\ retiring.child = st.child
  BY RetireFirm
<1> HIDE DEF retiring
<1>2. c \in Scope
  BY DEF Scope
<1>3. Firm(CancelChecks(retiring, c)) /\ CancelChecks(retiring, c).child = st.child
  BY <1>1, <1>2, CancelChecksFirm
<1>4. RetireCycle(st, c) \in {st, CancelChecks(retiring, c)}
  BY DEF RetireCycle, retiring
<1>5. QED BY <1>3, <1>4

\* A worker that is not active any more: what stop() and the exit have in common.
LEMMA LeavingFirm ==
  ASSUME NEW st, Firm(st), NEW w \in Worker, st.child[w].life # "absent", NEW r \in Child,
         r.cycle = st.child[w].cycle, ~r.ready, r.life # "absent",
         r.life = "running" => st.child[w].life = "running", NEW due
  PROVE  Firm(Lifecycle(RetireCycle(CancelChecks(Put(st, w, r), w), st.child[w].cycle),
                        w, FALSE, FALSE, due))
<1> DEFINE c == st.child[w].cycle
           put == Put(st, w, r)
           told == CancelChecks(put, w)
           left == RetireCycle(told, c)
<1>1. w \in Scope /\ c \in Cycle
  BY WorkerFirm
<1>2. Firm(put) /\ put.child[w] = r
  BY LessFirm
<1> HIDE DEF put
<1>3. Firm(told) /\ told.child = put.child
  BY <1>1, <1>2, CancelChecksFirm
<1> HIDE DEF told
<1>4. Firm(left) /\ left.child = told.child
  BY <1>1, <1>3, RetireCycleFirm
<1> HIDE DEF left
<1>5. left.child[w].life # "absent" /\ FALSE \in BOOLEAN
  BY <1>2, <1>3, <1>4
<1>6. Firm(Lifecycle(left, w, FALSE, FALSE, due))
  BY <1>4, <1>5, LifecycleFirm
<1>7. QED BY <1>6 DEF left, told, put

LEMMA StopFirm ==
  ASSUME NEW st, Firm(st), NEW w \in Worker, NEW due
  PROVE  Firm(Stop(st, w, due))
<1> DEFINE r == [st.child[w] EXCEPT !.stopping = TRUE, !.ready = FALSE]
<1>1. CASE st.child[w].stopping \/ st.child[w].life = "absent"
  BY <1>1 DEF Stop
<1>2. CASE ~(st.child[w].stopping \/ st.child[w].life = "absent")
  <2>1. r \in Child /\ r.cycle = st.child[w].cycle /\ ~r.ready /\ r.life = st.child[w].life
    BY WorkerFirm DEF Child
  <2>2. Stop(st, w, due) = Lifecycle(RetireCycle(CancelChecks(Put(st, w, r), w), st.child[w].cycle),
                                     w, FALSE, FALSE, due)
    BY <1>2 DEF Stop
  <2> HIDE DEF r
  <2>3. QED BY <1>2, <2>1, <2>2, LeavingFirm
<1>3. QED BY <1>1, <1>2

-----------------------------------------------------------------------------
(* Launching *)

LEMMA PreStartFirm ==
  ASSUME NEW st, Firm(st), NEW w \in Worker, st.child[w].life # "absent"
  PROVE  Firm(PreStart(st, w)) /\ PreStart(st, w).child = st.child
<1> DEFINE c == st.child[w].cycle
           first == Phase(st, c, "pre_start", {})
<1>1. w \in Scope /\ c \in Scope
  BY WorkerFirm DEF Scope
<1>2. Firm(first) /\ first.child = st.child
  BY <1>1, PhaseFirm
<1> HIDE DEF first
<1>3. Firm(Phase(first, w, "pre_start", {})) /\ Phase(first, w, "pre_start", {}).child = st.child
  BY <1>1, <1>2, PhaseFirm
<1>4. QED BY <1>3 DEF PreStart, first

\* A process is launched behind its hooks.
LEMMA StartedFirm ==
  ASSUME NEW st, Firm(st), NEW w \in Worker, st.child[w].life = "pending", MayLaunch(st, w),
         NEW base \in BOOLEAN, NEW dependencies \in BOOLEAN, NEW due
  PROVE  Firm(Started(st, w, base, dependencies, due))
<1> DEFINE r == [st.child[w] EXCEPT !.life = "running", !.baseReady = base]
           put == Put(st, w, r)
<1>1. st.child[w] \in Child /\ Behind(st, w, st.child[w]) /\ st.child[w].cycle \in Cycle
  BY WorkerFirm
<1>2. r \in Child /\ r.cycle = st.child[w].cycle /\ r.life = "running" /\ ~r.ready
  BY <1>1 DEF Child, Behind
<1>3. Started(st, w, base, dependencies, due) = Lifecycle(put, w, FALSE, dependencies, due)
  BY DEF Started
<1> HIDE DEF r
<1>4. Behind(st, w, r)
  BY <1>2 DEF MayLaunch, Behind
<1>5. Firm(put) /\ put.child[w] = r
  BY <1>1, <1>2, <1>4, PutFirm
<1> HIDE DEF put
<1>6. FALSE \in BOOLEAN /\ put.child[w].life # "absent"
  BY <1>2, <1>5
<1>7. QED BY <1>3, <1>5, <1>6, LifecycleFirm

LEMMA ForgetFirm ==
  ASSUME NEW st, Firm(st), NEW w \in Worker, st.child[w].life # "absent"
  PROVE  Firm(Forget(st, w))
<1> DEFINE c == st.child[w].cycle
           put == Put(st, w, Absent)
           gone == CancelChecks(put, w)
           retiring == Retire(gone, c)
<1>1. w \in Scope /\ c \in Cycle /\ c \in Scope
  BY WorkerFirm DEF Scope
<1>2. Firm(put)
  BY GoneFirm
<1> HIDE DEF put
<1>3. Firm(gone)
  BY <1>1, <1>2, CancelChecksFirm
<1> HIDE DEF gone
<1>4. Firm(retiring)
  BY <1>1, <1>3, RetireFirm
<1> HIDE DEF retiring
<1>5. Firm(CancelChecks(retiring, c))
  BY <1>1, <1>4, CancelChecksFirm
<1>6. Forget(st, w) \in {gone, CancelChecks(retiring, c)}
  BY DEF Forget, gone, put, retiring
<1>7. QED BY <1>3, <1>5, <1>6

\* A new worker, whose scope and whose new generation have no runs.
LEMMA ReserveFirm ==
  ASSUME NEW st, Sound(st), Firm(st), NEW w \in Worker, NEW c \in Cycle,
         st.child[w].life = "absent",
         \A b \in Binding : ~st.run[w][b].running,
         IF c = current
         THEN c \notin st.retired
         ELSE Members(st, c) = {} /\ \A b \in Binding : ~st.run[c][b].running
  PROVE  LET after == Reserve(st, w, c)
         IN  Firm(after) /\ after.child[w].life = "pending"
<1> DEFINE r == [Absent EXCEPT !.life = "pending", !.cycle = c]
           none == [b \in Binding |-> NoRun]
           runs == [st.run EXCEPT ![w] = none, ![c] = IF c = current THEN @ ELSE none]
           after == Reserve(st, w, c)
<1>1. Typed(after)
  BY ReserveSound DEF Sound
<1>2. st \in States /\ w # c /\ w \in Scope /\ c \in Scope
  BY HooksAssumption DEF Sound, Typed, Scope
<1>3. r.life = "pending" /\ ~r.ready /\ r.cycle = c
  BY DEF Absent
<1>4. \A b \in Binding : CalmRun(b, none[b])
  BY DEF NoRun, CalmRun
<1>5. after.child = [st.child EXCEPT ![w] = r] /\ after.run = runs
  BY DEF Reserve
<1> HIDE DEF after, r, none
<1>6. \A v \in Worker : after.child[v] = IF v = w THEN r ELSE st.child[v]
  BY <1>2, <1>5 DEF States, Children
<1>7. \A s \in Scope : after.run[s] = IF s = w \/ (s = c /\ c # current) THEN none ELSE st.run[s]
  BY <1>2, <1>5 DEF States, Runs
<1>8. Calm(after)
  BY <1>4, <1>7 DEF Calm, Firm
<1>9. Based(after)
  BY <1>3, <1>6 DEF Based, Firm
<1>10. ASSUME NEW v \in Worker PROVE Behind(after, v, after.child[v])
  <2>1. CASE v = w
    BY <1>3, <1>6, <2>1 DEF Behind
  <2>2. CASE v # w /\ st.child[v].life = "absent"
    BY <1>6, <2>2 DEF Firm, Behind
  <2>3. CASE v # w /\ st.child[v].life # "absent"
    <3> DEFINE d == st.child[v].cycle
    <3>1. d \in Cycle /\ d \in Scope /\ v \in Scope /\ v # c /\ d # w
      BY <2>3, HooksAssumption DEF Firm, Based, Scope
    <3>2. c # current => d # c
      BY <2>3 DEF Members
    <3>3. after.run[v] = st.run[v] /\ after.run[d] = st.run[d]
      BY <1>7, <2>3, <3>1, <3>2
    <3>4. after.child[v] = st.child[v] /\ Behind(st, v, st.child[v])
      BY <1>6, <2>3 DEF Firm
    <3>5. QED BY <3>3, <3>4 DEF Behind, Passes
  <2>4. QED BY <2>1, <2>2, <2>3
<1>11. QED BY <1>1, <1>3, <1>6, <1>8, <1>9, <1>10 DEF Firm, after

-----------------------------------------------------------------------------
(* The system *)

LEMMA BecomesFirm ==
  ASSUME NEW st, Firm(st), Become(st) PROVE Firm(Now)'
<1>1. st \in States
  BY DEF Firm, Typed
<1>2. Now' = st
  BY <1>1 DEF Become, Now, States
<1>3. QED BY <1>2

LEMMA SpawnFirm ==
  ASSUME HInv, Firm(Now), NEW w \in Worker, NEW c \in Cycle, NEW launches \in BOOLEAN,
         NEW base \in BOOLEAN, NEW dependencies \in BOOLEAN, NEW due,
         Spawn(w, c, launches, base, dependencies, due)
  PROVE  Firm(Now)'
<1> DEFINE reserved == Reserve(Now, w, c)
           asked == PreStart(reserved, w)
<1>1. IF c = current
      THEN c \notin retired
      ELSE Members(Now, c) = {} /\ \A b \in Binding : ~run[c][b].running
  BY HooksAssumption DEF Spawn, CycleFor, Unused
<1>2. Firm(reserved) /\ reserved.child[w].life = "pending"
  BY <1>1, ReserveFirm, Fields DEF HInv, Spawn, Unused
<1> HIDE DEF reserved
<1>3. Firm(asked) /\ asked.child[w].life = "pending"
  BY <1>2, PreStartFirm
<1>4. \/ Become(asked)
      \/ MayLaunch(asked, w) /\ Become(Started(asked, w, base, dependencies, due))
      \/ Become(Forget(asked, w))
  BY DEF Spawn, reserved
<1> HIDE DEF asked
<1>5. MayLaunch(asked, w) => Firm(Started(asked, w, base, dependencies, due))
  BY <1>3, StartedFirm
<1>6. Firm(Forget(asked, w))
  BY <1>3, ForgetFirm
<1>7. QED BY <1>3, <1>4, <1>5, <1>6, BecomesFirm

LEMMA LaunchFirm ==
  ASSUME Firm(Now), NEW w \in Worker, NEW launches \in BOOLEAN, NEW base \in BOOLEAN,
         NEW dependencies \in BOOLEAN, NEW due, Launch(w, launches, base, dependencies, due)
  PROVE  Firm(Now)'
<1> DEFINE asked == PreStart(Now, w)
<1>1. Now.child[w].life = "pending"
  BY Fields DEF Launch, Launchable
<1>2. Firm(asked) /\ asked.child[w].life = "pending"
  BY <1>1, PreStartFirm
<1>3. \/ Become(asked)
      \/ MayLaunch(asked, w) /\ Become(Started(asked, w, base, dependencies, due))
      \/ Become(Stop(asked, w, due))
  BY DEF Launch
<1> HIDE DEF asked
<1>4. MayLaunch(asked, w) => Firm(Started(asked, w, base, dependencies, due))
  BY <1>2, StartedFirm
<1>5. Firm(Stop(asked, w, due))
  BY <1>2, StopFirm
<1>6. QED BY <1>2, <1>3, <1>4, <1>5, BecomesFirm

LEMMA ExitFirm ==
  ASSUME Firm(Now), NEW w \in Worker, NEW due, Exit(w, due)
  PROVE  Firm(Now)'
<1> DEFINE r == [child[w] EXCEPT !.life = "exited", !.ready = FALSE]
           after == Lifecycle(RetireCycle(CancelChecks(Put(Now, w, r), w), child[w].cycle),
                              w, FALSE, FALSE, due)
<1>1. Now.child[w] = child[w] /\ child[w] \in Child /\ child[w].life = "running"
  BY WorkerFirm, Fields DEF Exit
<1>2. r \in Child /\ r.life = "exited" /\ ~r.ready /\ r.cycle = child[w].cycle
  BY <1>1 DEF Child
<1>3. Become(after)
  BY DEF Exit
<1> HIDE DEF r
<1>4. Firm(after)
  BY <1>1, <1>2, LeavingFirm
<1> HIDE DEF after
<1>5. QED BY <1>3, <1>4, BecomesFirm

LEMMA BaseReadyFirm ==
  ASSUME Firm(Now), NEW w \in Worker, BaseReady(w)
  PROVE  Firm(Now)'
<1> DEFINE r == [child[w] EXCEPT !.baseReady = TRUE]
           put == Put(Now, w, r)
<1>1. /\ Now.child[w] = child[w] /\ child[w] \in Child /\ child[w].life = "running"
      /\ Behind(Now, w, child[w])
  BY WorkerFirm, Fields DEF BaseReady
<1>2. r \in Child /\ r.life = "running" /\ r.cycle = child[w].cycle /\ (r.ready <=> child[w].ready)
  BY <1>1 DEF Child
<1>3. child' = [child EXCEPT ![w] = r] /\ UNCHANGED <<retired, run, tasks>>
  <2>1. child' = [child EXCEPT ![w].baseReady = TRUE] /\ child \in Children
    BY Fields DEF BaseReady, Firm, Typed, States
  <2>2. child' = [child EXCEPT ![w] = r]
    BY <2>1 DEF Children
  <2>3. QED BY <2>2 DEF BaseReady
<1> HIDE DEF r
<1>4. Firm(put)
  BY <1>1, <1>2, LessFirm
<1>5. /\ put.child = [Now.child EXCEPT ![w] = r]
      /\ put.retired = Now.retired /\ put.run = Now.run /\ put.tasks = Now.tasks
  BY <1>2, PutTyped DEF Firm
<1>6. Become(put)
  BY <1>3, <1>5, Fields DEF Become
<1> HIDE DEF put
<1>7. QED BY <1>4, <1>6, BecomesFirm

\* The run whose result arrives has not passed, so that no gate it is part of is
\* open, and none of the others closes.
LEMMA ResultFirm ==
  ASSUME HInv, HInv', Firm(Now), NEW s \in Scope, NEW b \in Binding, NEW ok \in BOOLEAN,
         Result(s, b, ok)
  PROVE  Firm(Now)'
<1> DEFINE finished == Finished(run[s][b], b, ok)
           after == Now'
<1>1. run \in Runs /\ run[s][b] \in AnyRun /\ run[s][b].running
  BY Fields DEF Firm, Typed, States, Runs, Result
<1>2. ~finished.running /\ (finished.success => finished.done)
  <2>1. CalmRun(b, run[s][b])
    BY Fields DEF Firm, Calm
  <2>2. CASE run[s][b].cancelled
    BY <1>1, <2>1, <2>2 DEF Finished, AnyRun, CalmRun
  <2>3. CASE ~run[s][b].cancelled
    <3> DEFINE n == IF ok THEN 0
                    ELSE IF run[s][b].failures = Threshold[b] THEN run[s][b].failures
                    ELSE run[s][b].failures + 1
    <3>1. finished = [run[s][b] EXCEPT !.running = FALSE, !.done = TRUE, !.success = ok, !.failures = n]
      BY <2>3 DEF Finished
    <3> HIDE DEF n, finished
    <3>2. QED BY <1>1, <3>1 DEF AnyRun
  <2>4. QED BY <2>2, <2>3
<1>3. run' = [run EXCEPT ![s][b] = finished] /\ child' = child
  BY DEF Result
<1> HIDE DEF finished
<1>4. \A t \in Scope, d \in Binding :
        run'[t][d] = IF t = s /\ d = b THEN finished ELSE run[t][d]
  BY <1>1, <1>3 DEF Runs
<1>5. after.child = child /\ after.run = run'
  BY <1>3 DEF Now
<1>6. Typed(after)
  <2>1. Typed(Now)'
    BY DEF HInv, Sound
  <2>2. QED BY <2>1
<1> HIDE DEF after
<1>7. Calm(after)
  BY <1>2, <1>4, <1>5, Fields DEF Firm, Calm, CalmRun
<1>8. ASSUME NEW t \in Scope, NEW event \in Gating, Passes(Now, t, event)
      PROVE  Passes(after, t, event)
  <2>1. event # "health" /\ (event \in Periodic => event = "readiness")
    BY DEF Gating, Periodic
  <2>2. ASSUME t = s, b \in Bound(t, event) \cap Awaited PROVE FALSE
    <3>1. Event[b] = event
      BY <2>2 DEF Bound
    <3>2. CalmRun(b, run[s][b])
      BY Fields DEF Firm, Calm
    <3>3. \/ run[s][b].done /\ run[s][b].success
          \/ event \notin Periodic /\ run[s][b].done
      BY <1>8, <2>1, <2>2, Fields DEF Passes
    <3>4. QED BY <1>1, <2>1, <3>1, <3>2, <3>3 DEF CalmRun
  <2>3. \A d \in Bound(t, event) \cap Awaited : after.run[t][d] = run[t][d]
    BY <1>4, <1>5, <2>2 DEF Bound
  <2>4. QED BY <1>8, <2>3, Fields DEF Passes
<1>9. Based(after)
  BY <1>5, Fields DEF Firm, Based
<1>10. ASSUME NEW w \in Worker PROVE Behind(after, w, after.child[w])
  <2> DEFINE r == child[w]
  <2>1. Behind(Now, w, r) /\ (r.life # "absent" => r.cycle \in Scope) /\ w \in Scope
    BY Fields DEF Firm, Based, Scope
  <2>2. after.child[w] = r
    BY <1>5
  <2> HIDE DEF r
  <2>3. \A t \in {w, r.cycle} : r.life = "running" => t \in Scope
    BY <2>1
  <2>4. \A t \in {w, r.cycle} : r.life = "running" => Passes(after, t, "pre_start")
    BY <2>1, <2>3, <1>8 DEF Behind, Gating
  <2>5. \A t \in {w, r.cycle} : r.ready => Passes(after, t, "post_start") /\ Passes(after, t, "readiness")
    BY <2>1, <2>3, <1>8 DEF Behind, Gating
  <2>6. QED BY <2>1, <2>2, <2>4, <2>5 DEF Behind
<1>11. Firm(after)
  BY <1>6, <1>7, <1>9, <1>10 DEF Firm
<1>12. QED BY <1>11 DEF after

LEMMA FirmInitially == Init => Firm(Now)
<1> SUFFICES ASSUME Init PROVE Firm(Now)
  OBVIOUS
<1>1. Typed(Now)
  BY Initially DEF HInv, Sound
<1>2. Absent.life = "absent" /\ ~Absent.ready
  BY DEF Absent
<1>3. \A w \in Worker : Now.child[w] = Absent
  BY Fields DEF Init
<1>4. \A s \in Scope, b \in Binding : Now.run[s][b] = NoRun
  BY Fields DEF Init
<1>5. Calm(Now)
  BY <1>4 DEF Calm, CalmRun, NoRun
<1>6. QED BY <1>1, <1>2, <1>3, <1>5 DEF Firm, Based, Behind

LEMMA FirmKept == HInv /\ Firm(Now) /\ [Next]_vars => Firm(Now)'
<1> SUFFICES ASSUME HInv, Firm(Now), [Next]_vars PROVE Firm(Now)'
  OBVIOUS
<1>1. ASSUME NEW w \in Worker, NEW due \in Due, NEW late \in BOOLEAN,
             NEW dependencies \in BOOLEAN, Tick(w, late, dependencies, due)
      PROVE  Firm(Now)'
  BY <1>1, LifecycleFirm, BecomesFirm, Fields DEF Tick
<1>2. ASSUME NEW w \in Worker, NEW due \in Due, StopWorker(w, due) \/ Restart(w, due)
      PROVE  Firm(Now)'
  BY <1>2, StopFirm, BecomesFirm DEF StopWorker, Restart
<1>3. ASSUME NEW s \in Scope, NEW b \in Binding, NEW ok \in BOOLEAN, Result(s, b, ok)
      PROVE  Firm(Now)'
  BY <1>3, ResultFirm, ResultSound
<1>4. ASSUME Shutdown \/ Return \/ Returned \/ UNCHANGED vars
      PROVE  Firm(Now)'
  <2>1. Now' = Now
    BY <1>4 DEF Shutdown, Return, Returned, vars, Now
  <2>2. QED BY <2>1
<1>5. QED BY <1>1, <1>2, <1>3, <1>4, SpawnFirm, LaunchFirm, ExitFirm, BaseReadyFirm DEF Next

-----------------------------------------------------------------------------
(* The theorem *)

\* A process runs behind the pre_start hooks of its generation and its own, and is
\* ready behind their start and readiness hooks: main.go:1838-1865, 1947-1958 and 2046-2050.
THEOREM GatedAlways == Spec => []Gated
<1>1. HInv /\ Firm(Now) => Gated
  <2>1. ASSUME Firm(Now) PROVE \A w \in Worker : Behind(Now, w, child[w])
    BY <2>1, Fields DEF Firm
  <2>2. QED BY <2>1 DEF Gated, Behind
<1>2. QED BY <1>1, FirmInitially, FirmKept, Invariant, PTL DEF Spec

=============================================================================
