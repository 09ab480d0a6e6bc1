------------------------------ MODULE HooksProofs ------------------------------
(***************************************************************************)
(* The generations of an app, and the hooks that run for them, for any     *)
(* number of workers, generations and triggers.                            *)
(*                                                                         *)
(* A handler composes helpers that map a state of the manager to another.  *)
(* The inductive invariant is therefore a predicate on such states, Sound, *)
(* and a lemma for each helper shows that it takes sound states to sound   *)
(* ones; the proof that a step of the system keeps it has one step per     *)
(* handler.                                                                *)
(*                                                                         *)
(* That Hooks implements WorkerPool goes the same way: each helper moves   *)
(* every worker forward through its life (Onward), and only a spawn takes  *)
(* an absent one into service.                                             *)
(***************************************************************************)
EXTENDS Hooks, FiniteSetTheorems, TLAPS

AnyRun ==
  [made : BOOLEAN, running : BOOLEAN, done : BOOLEAN, success : BOOLEAN,
   cancelled : BOOLEAN, failures : Nat]

Children == [Worker -> Child]
Runs == [Scope -> [Binding -> AnyRun]]

States == [child : Children, retired : SUBSET Cycle, run : Runs, tasks : Int]

Typed(st) == st \in States /\ \A s \in Scope, b \in Binding : st.run[s][b] \in Run(b)

Retirement(st) ==
  \A w \in Worker : st.child[w].life # "absent" =>
    /\ st.child[w].cycle \in Cycle
    /\ st.child[w].cycle \in st.retired <=> ActiveMembers(st, st.child[w].cycle) = {}

Over(st, c) == c \in st.retired /\ \A w \in Members(st, c) : st.child[w].life = "exited"

Buried(st) ==
  \A c \in Cycle, b \in Binding : Event[b] = "post_stop" /\ st.run[c][b].made => Over(st, c)

InService(st, s) ==
  IF s \in Worker THEN IsActive(st.child[s]) ELSE ActiveMembers(st, s) # {}

Checked(st) ==
  \A s \in Scope, b \in Binding :
    Event[b] \notin StopEvents /\ st.run[s][b].running /\ ~st.run[s][b].cancelled => InService(st, s)

\* Only runs that were made are started: cancelling reaches all that run.
Made(st) == \A s \in Scope, b \in Binding : st.run[s][b].running => st.run[s][b].made

Goroutines(st) == {x \in Scope \X Binding : st.run[x[1]][x[2]].running}

Counted(st) == st.tasks = Cardinality(Goroutines(st))

Sound(st) ==
  Typed(st) /\ Retirement(st) /\ Buried(st) /\ Checked(st) /\ Made(st) /\ Counted(st)

-----------------------------------------------------------------------------
(* Runs *)

\* A run keeps its type when it is made, started or cancelled.
LEMMA RunTyped ==
  ASSUME NEW b \in Binding, NEW r \in AnyRun, r \in Run(b)
  PROVE  /\ [r EXCEPT !.made = TRUE] \in AnyRun \cap Run(b)
         /\ [r EXCEPT !.made = TRUE, !.running = TRUE] \in AnyRun \cap Run(b)
         /\ [r EXCEPT !.cancelled = TRUE] \in AnyRun \cap Run(b)
BY DEF AnyRun, Run

\* The runs of a scope may be replaced by others of their type.
LEMMA RunsTyped ==
  ASSUME NEW st, Typed(st), NEW s \in Scope, NEW runs,
         runs \in [Binding -> AnyRun], \A b \in Binding : runs[b] \in Run(b)
  PROVE  /\ Typed([st EXCEPT !.run[s] = runs])
         /\ [st EXCEPT !.run[s] = runs].child = st.child
         /\ [st EXCEPT !.run[s] = runs].retired = st.retired
         /\ [st EXCEPT !.run[s] = runs].run = [st.run EXCEPT ![s] = runs]
         /\ [st EXCEPT !.run[s] = runs].tasks = st.tasks
<1>1. [st EXCEPT !.run[s] = runs] =
        [child |-> st.child, retired |-> st.retired,
         run |-> [st.run EXCEPT ![s] = runs], tasks |-> st.tasks]
  <2>1. st \in States
    BY DEF Typed
  <2> QED  BY ONLY <2>1, s \in Scope DEF States
<1>2. [st EXCEPT !.run[s] = runs] \in States
  BY <1>1 DEF Typed, States, Runs
<1>3. \A t \in Scope, b \in Binding : [st EXCEPT !.run[s] = runs].run[t][b] \in Run(b)
  BY <1>1 DEF Typed, States, Runs
<1> QED  BY <1>1, <1>2, <1>3 DEF Typed

\* Goroutines may be added to the count.
LEMMA TasksTyped ==
  ASSUME NEW st, Typed(st), NEW n \in Nat
  PROVE  LET after == [st EXCEPT !.tasks = @ + n]
         IN  /\ Typed(after)
             /\ after.child = st.child
             /\ after.retired = st.retired
             /\ after.run = st.run
             /\ after.tasks = st.tasks + n
<1>1. st \in States
  BY DEF Typed
<1>2. [st EXCEPT !.tasks = @ + n] =
        [child |-> st.child, retired |-> st.retired, run |-> st.run, tasks |-> st.tasks + n]
  BY ONLY <1>1, n \in Nat DEF States
<1>3. [st EXCEPT !.tasks = @ + n] \in States
  BY <1>1 DEF States
<1> QED  BY <1>2, <1>3 DEF Typed

\* A phase of hooks starts runs and touches nothing else.
LEMMA PhaseTyped ==
  ASSUME NEW st, Typed(st), NEW s \in Scope, NEW event, NEW due
  PROVE  LET starts == Starts(st, s, event, due)
             after == Phase(st, s, event, due)
         IN  /\ Typed(after)
             /\ after.child = st.child
             /\ after.retired = st.retired
             /\ after.run = [st.run EXCEPT ![s] = Asked(st, s, event, starts)]
             /\ IsFiniteSet(starts)
             /\ after.tasks = st.tasks + Cardinality(starts)
<1> DEFINE starts == Starts(st, s, event, due)
           runs == Asked(st, s, event, starts)
           asked == Begin(st, s, event, starts)
           after == Phase(st, s, event, due)
<1>1. IsFiniteSet(starts)
  BY FiniteHooks, FS_Subset DEF Bound, Starts
<1>2. Cardinality(starts) \in Nat
  BY <1>1, FS_CardinalityType
<1>3. \A b \in Binding : st.run[s][b] \in AnyRun /\ st.run[s][b] \in Run(b)
  BY DEF Typed, States, Runs
<1>4. \A b \in Binding : runs[b] \in AnyRun /\ runs[b] \in Run(b)
  <2> HIDE DEF starts
  <2> QED  BY <1>3, RunTyped DEF Asked
<1>5. runs \in [Binding -> AnyRun]
  <2> HIDE DEF starts
  <2> QED  BY <1>4 DEF Asked
<1>6. after = [asked EXCEPT !.tasks = @ + Cardinality(starts)]
  BY DEF Phase
<1> HIDE DEF starts, runs, after
<1>7. /\ Typed(asked)
      /\ asked.child = st.child
      /\ asked.retired = st.retired
      /\ asked.run = [st.run EXCEPT ![s] = runs]
      /\ asked.tasks = st.tasks
  BY <1>4, <1>5, RunsTyped DEF Begin, runs
<1> HIDE DEF asked
<1> QED  BY <1>1, <1>2, <1>6, <1>7, TasksTyped DEF after, starts, runs

\* Cancelling marks runs and touches nothing else.
LEMMA CancelTyped ==
  ASSUME NEW st, Typed(st), NEW s \in Scope, NEW events
  PROVE  LET after == Cancel(st, s, events)
         IN  /\ Typed(after)
             /\ after.child = st.child
             /\ after.retired = st.retired
             /\ after.run = [st.run EXCEPT ![s] = Told(st, s, events)]
             /\ after.tasks = st.tasks
<1> DEFINE runs == Told(st, s, events)
<1>1. \A b \in Binding : st.run[s][b] \in AnyRun /\ st.run[s][b] \in Run(b)
  BY DEF Typed, States, Runs
<1>2. \A b \in Binding : runs[b] \in AnyRun /\ runs[b] \in Run(b)
  BY <1>1, RunTyped DEF Told
<1>3. runs \in [Binding -> AnyRun]
  BY <1>2 DEF Told
<1>4. Cancel(st, s, events) = [st EXCEPT !.run[s] = runs]
  BY DEF Cancel
<1> HIDE DEF runs
<1>5. QED  BY <1>2, <1>3, <1>4, RunsTyped DEF runs

\* Hooks are started and told to end without touching a worker.
LEMMA PhaseChild ==
  ASSUME NEW st, Typed(st), NEW s \in Scope, NEW event, NEW due,
         NEW after, after = Phase(st, s, event, due)
  PROVE  Typed(after) /\ after.child = st.child
<1> DEFINE starts == Starts(st, s, event, due)
<1>1. /\ Typed(Phase(st, s, event, due))
      /\ Phase(st, s, event, due).child = st.child
      /\ Phase(st, s, event, due).retired = st.retired
      /\ Phase(st, s, event, due).run = [st.run EXCEPT ![s] = Asked(st, s, event, starts)]
      /\ IsFiniteSet(starts)
      /\ Phase(st, s, event, due).tasks = st.tasks + Cardinality(starts)
  BY PhaseTyped
<1> QED  BY <1>1

LEMMA CancelChild ==
  ASSUME NEW st, Typed(st), NEW s \in Scope, NEW event,
         NEW after, after = CancelPhase(st, s, event)
  PROVE  Typed(after) /\ after.child = st.child
<1>1. /\ Typed(Cancel(st, s, {event}))
      /\ Cancel(st, s, {event}).child = st.child
      /\ Cancel(st, s, {event}).retired = st.retired
      /\ Cancel(st, s, {event}).run = [st.run EXCEPT ![s] = Told(st, s, {event})]
      /\ Cancel(st, s, {event}).tasks = st.tasks
  BY CancelTyped
<1> QED  BY <1>1 DEF CancelPhase

LEMMA ToldChild ==
  ASSUME NEW st, Typed(st), NEW s \in Scope, NEW events \in SUBSET Events,
         NEW after, after = Cancel(st, s, events)
  PROVE  Typed(after) /\ after.child = st.child
<1>1. /\ Typed(Cancel(st, s, events))
      /\ Cancel(st, s, events).child = st.child
      /\ Cancel(st, s, events).retired = st.retired
      /\ Cancel(st, s, events).run = [st.run EXCEPT ![s] = Told(st, s, events)]
      /\ Cancel(st, s, events).tasks = st.tasks
  BY CancelTyped
<1> QED  BY <1>1

-----------------------------------------------------------------------------
(* Sound states *)

\* Who is a member, is active or is over depends on the workers only.
LEMMA SameWorkers ==
  ASSUME NEW st, NEW after, after.child = st.child, after.retired = st.retired
  PROVE  /\ \A c : Members(after, c) = Members(st, c)
         /\ \A c : ActiveMembers(after, c) = ActiveMembers(st, c)
         /\ \A s : InService(after, s) = InService(st, s)
         /\ \A c : Over(after, c) = Over(st, c)
         /\ Retirement(after) = Retirement(st)
BY DEF Members, ActiveMembers, InService, Over, Retirement

\* There are finitely many goroutines.
LEMMA GoroutinesFinite == ASSUME NEW st PROVE IsFiniteSet(Goroutines(st))
<1>1. IsFiniteSet(Scope)
  BY FiniteHooks, FS_Union DEF Scope
<1>2. IsFiniteSet(Scope \X Binding)
  BY <1>1, FiniteHooks, FS_Product
<1>3. Goroutines(st) \in SUBSET (Scope \X Binding)
  BY DEF Goroutines
<1> QED  BY <1>2, <1>3, FS_Subset

\* phase() is asked for checks of what is in service only, and for the post_stop
\* hooks of a generation when it is over; each run it starts is counted.
LEMMA PhaseSound ==
  ASSUME NEW st, Sound(st), NEW s \in Scope, NEW event, NEW due,
         event \in StopEvents \/ InService(st, s),
         event = "post_stop" /\ s \in Cycle => Over(st, s)
  PROVE  LET after == Phase(st, s, event, due)
         IN  Sound(after) /\ after.child = st.child /\ after.retired = st.retired
<1> DEFINE starts == Starts(st, s, event, due)
           runs == Asked(st, s, event, starts)
           after == Phase(st, s, event, due)
<1>1. /\ Typed(after)
      /\ after.child = st.child
      /\ after.retired = st.retired
      /\ after.run = [st.run EXCEPT ![s] = runs]
      /\ IsFiniteSet(starts)
      /\ after.tasks = st.tasks + Cardinality(starts)
  BY PhaseTyped DEF Sound
<1>2. /\ \A c : Over(after, c) = Over(st, c)
      /\ \A t : InService(after, t) = InService(st, t)
      /\ Retirement(after) = Retirement(st)
  <2> HIDE DEF after
  <2> QED  BY <1>1, SameWorkers
<1>3. \A b \in starts : b \in Bound(s, event) /\ Event[b] = event /\ ~st.run[s][b].running
  BY DEF Starts, Bound, MayStart
<1>4. starts \subseteq Binding
  BY DEF Starts, Bound
<1>5. \A t \in Scope, b \in Binding :
        after.run[t][b] = IF t = s THEN runs[b] ELSE st.run[t][b]
  BY <1>1 DEF Sound, Typed, States, Runs
<1>6. \A b \in Binding :
        /\ (runs[b].running <=> st.run[s][b].running \/ b \in starts)
        /\ (runs[b].cancelled <=> st.run[s][b].cancelled)
        /\ (runs[b].made <=> st.run[s][b].made \/ b \in Bound(s, event))
  <2> SUFFICES ASSUME NEW b \in Binding
               PROVE  /\ (runs[b].running <=> st.run[s][b].running \/ b \in starts)
                      /\ (runs[b].cancelled <=> st.run[s][b].cancelled)
                      /\ (runs[b].made <=> st.run[s][b].made \/ b \in Bound(s, event))
    OBVIOUS
  <2>1. st.run[s][b] \in AnyRun
    BY DEF Sound, Typed, States, Runs
  <2> HIDE DEF starts
  <2>2. runs[b] = IF b \in starts THEN [st.run[s][b] EXCEPT !.made = TRUE, !.running = TRUE]
                  ELSE IF b \in Bound(s, event) THEN [st.run[s][b] EXCEPT !.made = TRUE]
                  ELSE st.run[s][b]
    BY DEF Asked
  <2>3. b \in starts => b \in Bound(s, event)
    BY <1>3
  <2> HIDE DEF runs
  <2> QED  BY <2>1, <2>2, <2>3 DEF AnyRun
<1>7. \A b \in Bound(s, event) : Event[b] = event
  BY DEF Bound
<1> HIDE DEF starts, runs, after
<1>8. Buried(after)
  BY <1>2, <1>5, <1>6, <1>7 DEF Sound, Buried, Scope
<1>9. Checked(after)
  BY <1>2, <1>3, <1>5, <1>6 DEF Sound, Checked
<1>10. Made(after)
  BY <1>3, <1>5, <1>6 DEF Sound, Made
<1>11. Counted(after)
  <2>1. Goroutines(after) = Goroutines(st) \cup ({s} \X starts)
    BY <1>4, <1>5, <1>6 DEF Goroutines
  <2>2. Goroutines(st) \cap ({s} \X starts) = {}
    BY <1>3 DEF Goroutines
  <2>3. IsFiniteSet({s}) /\ Cardinality({s}) = 1
    BY FS_Singleton
  <2>4. Cardinality(starts) \in Nat
    BY <1>1, FS_CardinalityType
  <2>5. IsFiniteSet({s} \X starts) /\ Cardinality({s} \X starts) = Cardinality(starts)
    BY <1>1, <2>3, <2>4, FS_Product
  <2>6. Cardinality(Goroutines(st)) \in Nat
    BY GoroutinesFinite, FS_CardinalityType
  <2>7. Cardinality(Goroutines(st) \cup ({s} \X starts)) =
          Cardinality(Goroutines(st)) + Cardinality({s} \X starts)
          - Cardinality(Goroutines(st) \cap ({s} \X starts))
    BY ONLY <2>5, GoroutinesFinite, FS_Union
  <2>8. Cardinality(Goroutines(after)) = Cardinality(Goroutines(st)) + Cardinality(starts)
    <3>1. Cardinality(Goroutines(st) \cap ({s} \X starts)) = 0
      BY ONLY <2>2, FS_EmptySet
    <3>2. Cardinality(Goroutines(after)) = Cardinality(Goroutines(st) \cup ({s} \X starts))
      BY <2>1
    <3> QED  BY ONLY <2>4, <2>5, <2>6, <2>7, <3>1, <3>2
  <2> QED  BY <1>1, <2>8 DEF Sound, Counted
<1>12. Sound(after)
  BY <1>1, <1>2, <1>8, <1>9, <1>10, <1>11 DEF Sound
<1> QED  BY <1>1, <1>12 DEF after

\* Cancelling ends no run: it makes the made runs of the events not count.
LEMMA CancelRuns ==
  ASSUME NEW st, Typed(st), Made(st), NEW s \in Scope, NEW events
  PROVE  LET after == Cancel(st, s, events)
         IN  /\ Typed(after) /\ Made(after)
             /\ after.child = st.child /\ after.retired = st.retired
             /\ after.tasks = st.tasks /\ Goroutines(after) = Goroutines(st)
             /\ \A t \in Scope, b \in Binding :
                  /\ after.run[t][b].running <=> st.run[t][b].running
                  /\ after.run[t][b].made <=> st.run[t][b].made
                  /\ st.run[t][b].cancelled => after.run[t][b].cancelled
             /\ \A b \in Binding :
                  Event[b] \in events /\ after.run[s][b].running => after.run[s][b].cancelled
<1> DEFINE runs == Told(st, s, events)
           after == Cancel(st, s, events)
<1>1. /\ Typed(after)
      /\ after.child = st.child
      /\ after.retired = st.retired
      /\ after.run = [st.run EXCEPT ![s] = runs]
      /\ after.tasks = st.tasks
  BY CancelTyped
<1>2. \A t \in Scope, b \in Binding :
        after.run[t][b] = IF t = s THEN runs[b] ELSE st.run[t][b]
  BY <1>1 DEF Typed, States, Runs
<1>3. \A b \in Binding :
        /\ runs[b].running <=> st.run[s][b].running
        /\ runs[b].made <=> st.run[s][b].made
        /\ runs[b].cancelled <=> (st.run[s][b].cancelled \/ (Event[b] \in events /\ st.run[s][b].made))
  <2> SUFFICES ASSUME NEW b \in Binding
               PROVE  /\ runs[b].running <=> st.run[s][b].running
                      /\ runs[b].made <=> st.run[s][b].made
                      /\ runs[b].cancelled <=>
                           (st.run[s][b].cancelled \/ (Event[b] \in events /\ st.run[s][b].made))
    OBVIOUS
  <2>1. st.run[s][b] \in AnyRun
    BY DEF Typed, States, Runs
  <2>2. runs[b] = IF Event[b] \in events /\ st.run[s][b].made
                  THEN [st.run[s][b] EXCEPT !.cancelled = TRUE]
                  ELSE st.run[s][b]
    BY DEF Told
  <2> HIDE DEF runs
  <2> QED  BY <2>1, <2>2 DEF AnyRun
<1> HIDE DEF runs, after
<1>4. /\ \A t \in Scope, b \in Binding :
           /\ after.run[t][b].running <=> st.run[t][b].running
           /\ after.run[t][b].made <=> st.run[t][b].made
           /\ st.run[t][b].cancelled => after.run[t][b].cancelled
      /\ \A b \in Binding :
           Event[b] \in events /\ after.run[s][b].running => after.run[s][b].cancelled
      /\ Made(after)
  BY <1>2, <1>3 DEF Made
<1>5. Goroutines(after) = Goroutines(st)
  BY <1>2, <1>3 DEF Goroutines
<1> QED  BY <1>1, <1>4, <1>5 DEF after

\* Cancelling leaves a sound state sound.
LEMMA CancelSound ==
  ASSUME NEW st, Sound(st), NEW s \in Scope, NEW events
  PROVE  LET after == Cancel(st, s, events)
         IN  Sound(after) /\ after.child = st.child /\ after.retired = st.retired
<1> DEFINE after == Cancel(st, s, events)
<1>1. /\ Typed(after) /\ Made(after)
      /\ after.child = st.child /\ after.retired = st.retired
      /\ after.tasks = st.tasks /\ Goroutines(after) = Goroutines(st)
      /\ \A t \in Scope, b \in Binding :
           /\ after.run[t][b].running <=> st.run[t][b].running
           /\ after.run[t][b].made <=> st.run[t][b].made
           /\ st.run[t][b].cancelled => after.run[t][b].cancelled
  BY CancelRuns DEF Sound
<1> HIDE DEF after
<1>2. /\ \A c : Over(after, c) = Over(st, c)
      /\ \A t : InService(after, t) = InService(st, t)
      /\ Retirement(after) = Retirement(st)
  BY <1>1, SameWorkers
<1>3. Buried(after) /\ Checked(after)
  BY <1>1, <1>2 DEF Sound, Buried, Checked, Scope
<1> QED  BY <1>1, <1>2, <1>3 DEF Sound, Counted, after

-----------------------------------------------------------------------------
(* Workers *)

\* A worker may be replaced by another record of its type.
LEMMA PutTyped ==
  ASSUME NEW st, Typed(st), NEW w \in Worker, NEW r \in Child
  PROVE  LET after == Put(st, w, r)
         IN  /\ Typed(after)
             /\ after.child = [st.child EXCEPT ![w] = r]
             /\ after.retired = st.retired
             /\ after.run = st.run
             /\ after.tasks = st.tasks
<1> DEFINE children == [st.child EXCEPT ![w] = r]
<1>1. st \in States
  BY DEF Typed
<1>2. Put(st, w, r) = [st EXCEPT !.child[w] = r]
  BY DEF Put
<1>3. [st EXCEPT !.child[w] = r] =
        [child |-> [st.child EXCEPT ![w] = r], retired |-> st.retired,
         run |-> st.run, tasks |-> st.tasks]
  BY ONLY <1>1, w \in Worker DEF States
<1>4. children \in Children
  BY <1>1 DEF States, Children
<1> HIDE DEF children
<1>5. Put(st, w, r) = [child |-> children, retired |-> st.retired,
                       run |-> st.run, tasks |-> st.tasks]
  BY <1>2, <1>3 DEF children
<1>6. Put(st, w, r) \in States
  BY <1>1, <1>4, <1>5 DEF States
<1> QED  BY <1>5, <1>6 DEF Typed, children

\* A generation may be marked retiring.
LEMMA RetireTyped ==
  ASSUME NEW st, Typed(st), NEW c \in Cycle
  PROVE  LET after == Retire(st, c)
         IN  /\ Typed(after)
             /\ after.child = st.child
             /\ after.retired = st.retired \cup {c}
             /\ after.run = st.run
             /\ after.tasks = st.tasks
<1>1. st \in States
  BY DEF Typed
<1>2. Retire(st, c) = [child |-> st.child, retired |-> st.retired \cup {c},
                       run |-> st.run, tasks |-> st.tasks]
  BY ONLY <1>1 DEF States, Retire
<1>3. Retire(st, c) \in States
  BY <1>1, <1>2 DEF States
<1> QED  BY <1>2, <1>3 DEF Typed

\* A change of a worker that leaves it in its generation, as active as it was,
\* matters to nobody; so does its end.
LEMMA PutSound ==
  ASSUME NEW st, Sound(st), NEW w \in Worker, NEW r \in Child,
         IsActive(r) <=> IsActive(st.child[w]),
         r.life = "absent" \/ (st.child[w].life # "absent" /\ r.cycle = st.child[w].cycle),
         st.child[w].life = "exited" => r.life \in {"exited", "absent"}
  PROVE  LET after == Put(st, w, r)
         IN  /\ Sound(after)
             /\ after.child = [st.child EXCEPT ![w] = r]
             /\ after.retired = st.retired
<1> DEFINE after == Put(st, w, r)
<1>1. /\ Typed(after)
      /\ after.child = [st.child EXCEPT ![w] = r]
      /\ after.retired = st.retired
      /\ after.run = st.run
      /\ after.tasks = st.tasks
  BY PutTyped DEF Sound
<1> HIDE DEF after
<1>2. \A v \in Worker : after.child[v] = IF v = w THEN r ELSE st.child[v]
  BY <1>1 DEF Sound, Typed, States, Children
<1>3. \A c : ActiveMembers(after, c) = ActiveMembers(st, c)
  BY <1>2 DEF ActiveMembers, Members, IsActive
<1>4. \A c \in Cycle : Over(st, c) => Over(after, c)
  BY <1>1, <1>2 DEF Over, Members
<1>5. \A s \in Scope : InService(after, s) <=> InService(st, s)
  BY <1>2, <1>3 DEF InService
<1>6. Retirement(after)
  BY <1>1, <1>2, <1>3 DEF Sound, Retirement
<1>7. Buried(after) /\ Checked(after) /\ Made(after) /\ Counted(after)
  BY <1>1, <1>4, <1>5 DEF Sound, Buried, Checked, Made, Counted, Goroutines
<1> QED  BY <1>1, <1>6, <1>7 DEF Sound, after

\* A worker that is not active any more, or gone: its checks are cancelled, and those of
\* its generation with it when that has no active member left.
LEMMA Deactivated ==
  ASSUME NEW st, Sound(st), NEW w \in Worker, NEW r \in Child,
         st.child[w].life # "absent", ~IsActive(r),
         r.life = "absent" \/ r.cycle = st.child[w].cycle,
         st.child[w].life = "exited" => r.life = "exited"
  PROVE  LET after == RetireCycle(CancelChecks(Put(st, w, r), w), st.child[w].cycle)
         IN  Sound(after) /\ after.child = [st.child EXCEPT ![w] = r]
<1> DEFINE c == st.child[w].cycle
           put == Put(st, w, r)
           told == CancelChecks(put, w)
           retiring == Retire(told, c)
           over == CancelChecks(retiring, c)
<1>1. c \in Cycle /\ c \in Scope /\ c \notin Worker /\ w \in Scope
  BY HooksAssumption DEF Sound, Retirement, Scope
<1> HIDE DEF c
<1>2. /\ Typed(put)
      /\ put.child = [st.child EXCEPT ![w] = r]
      /\ put.retired = st.retired
      /\ put.run = st.run
      /\ put.tasks = st.tasks
  BY PutTyped DEF Sound
<1> HIDE DEF put
<1>3. Made(put) /\ Goroutines(put) = Goroutines(st)
  BY <1>2 DEF Sound, Made, Goroutines
<1>4. /\ Typed(told) /\ Made(told)
      /\ told.child = put.child /\ told.retired = put.retired
      /\ told.tasks = put.tasks /\ Goroutines(told) = Goroutines(put)
      /\ \A t \in Scope, b \in Binding :
           /\ told.run[t][b].running <=> put.run[t][b].running
           /\ told.run[t][b].made <=> put.run[t][b].made
           /\ put.run[t][b].cancelled => told.run[t][b].cancelled
      /\ \A b \in Binding :
           Event[b] \in Events \ StopEvents /\ told.run[w][b].running => told.run[w][b].cancelled
  BY <1>1, <1>2, <1>3, CancelRuns DEF CancelChecks
<1> HIDE DEF told
<1>5. \A v \in Worker : told.child[v] = IF v = w THEN r ELSE st.child[v]
  BY <1>2, <1>4 DEF Sound, Typed, States, Children
<1>6. /\ ActiveMembers(told, c) = ActiveMembers(st, c) \ {w}
      /\ \A d : d # c => ActiveMembers(told, d) = ActiveMembers(st, d)
  BY <1>5 DEF ActiveMembers, Members, IsActive, c
<1>7. \A d \in Cycle : Over(st, d) => Over(told, d)
  BY <1>2, <1>4, <1>5 DEF Over, Members
<1>8. \A b \in Binding : Event[b] \in Events
  BY HooksAssumption
<1>9. \A s \in Scope, b \in Binding :
        Event[b] \notin StopEvents /\ told.run[s][b].running /\ ~told.run[s][b].cancelled =>
          s # w /\ InService(st, s)
  BY <1>2, <1>4, <1>8 DEF Sound, Checked
<1>10. CASE ActiveMembers(told, c) # {}
  <2>1. \A s \in Scope : s # w /\ InService(st, s) => InService(told, s)
    BY <1>5, <1>6, <1>10 DEF InService
  <2>2. Checked(told)
    BY <1>9, <2>1 DEF Checked
  <2>3. Buried(told)
    BY <1>2, <1>4, <1>7 DEF Sound, Buried, Scope
  <2>4. ActiveMembers(st, c) # {} /\ c \notin told.retired
    BY <1>2, <1>4, <1>6, <1>10 DEF Sound, Retirement, c
  <2>5. Retirement(told)
    BY <1>1, <1>2, <1>4, <1>5, <1>6, <1>10, <2>4 DEF Sound, Retirement, c
  <2>6. Sound(told)
    BY <1>2, <1>3, <1>4, <2>2, <2>3, <2>5 DEF Sound, Counted
  <2>7. RetireCycle(told, c) = told
    BY <1>10 DEF RetireCycle
  <2> QED  BY <1>2, <1>4, <2>6, <2>7 DEF told, put, c
<1>11. CASE ActiveMembers(told, c) = {}
  <2>1. /\ Typed(retiring)
        /\ retiring.child = told.child
        /\ retiring.retired = told.retired \cup {c}
        /\ retiring.run = told.run
        /\ retiring.tasks = told.tasks
    BY <1>1, <1>4, RetireTyped
  <2> HIDE DEF retiring
  <2>2. Made(retiring) /\ Goroutines(retiring) = Goroutines(told)
    BY <1>4, <2>1 DEF Made, Goroutines
  <2>3. /\ Typed(over) /\ Made(over)
        /\ over.child = retiring.child /\ over.retired = retiring.retired
        /\ over.tasks = retiring.tasks /\ Goroutines(over) = Goroutines(retiring)
        /\ \A t \in Scope, b \in Binding :
             /\ over.run[t][b].running <=> retiring.run[t][b].running
             /\ over.run[t][b].made <=> retiring.run[t][b].made
             /\ retiring.run[t][b].cancelled => over.run[t][b].cancelled
        /\ \A b \in Binding :
             Event[b] \in Events \ StopEvents /\ over.run[c][b].running => over.run[c][b].cancelled
    BY <1>1, <2>1, <2>2, CancelRuns DEF CancelChecks
  <2> HIDE DEF over
  <2>4. \A d : ActiveMembers(over, d) = ActiveMembers(told, d) /\ Members(over, d) = Members(told, d)
    BY <2>1, <2>3 DEF ActiveMembers, Members
  <2>5. \A s \in Scope : s \notin {w, c} /\ InService(st, s) => InService(over, s)
    BY <1>5, <1>6, <2>1, <2>3, <2>4 DEF InService
  <2>6. Checked(over)
    BY <1>8, <1>9, <2>1, <2>3, <2>5 DEF Checked
  <2>7. Buried(over)
    BY <1>2, <1>4, <1>7, <2>1, <2>3, <2>4 DEF Sound, Buried, Over, Scope
  <2>8. Retirement(over)
    BY <1>1, <1>2, <1>4, <1>5, <1>6, <1>11, <2>1, <2>3, <2>4 DEF Sound, Retirement, c
  <2>9. Sound(over)
    BY <1>2, <1>3, <1>4, <2>1, <2>2, <2>3, <2>6, <2>7, <2>8 DEF Sound, Counted
  <2>10. RetireCycle(told, c) = over
    BY <1>11 DEF RetireCycle, over, retiring
  <2> QED  BY <1>2, <1>4, <2>1, <2>3, <2>9, <2>10 DEF told, put, c
<1> QED  BY <1>10, <1>11

-----------------------------------------------------------------------------
(* Lifecycle *)

\* The record of a worker is typed, and it is part of a generation while it is there.
LEMMA WorkerTyped ==
  ASSUME NEW st, Sound(st), NEW w \in Worker
  PROVE  /\ st.child[w] \in Child
         /\ w \in Scope /\ w \notin Cycle
         /\ st.child[w].life # "absent" =>
              /\ st.child[w].cycle \in Cycle
              /\ st.child[w].cycle \in Scope
              /\ st.child[w].cycle \notin Worker
              /\ w \in Members(st, st.child[w].cycle)
         /\ IsActive(st.child[w]) =>
              /\ InService(st, w) /\ InService(st, st.child[w].cycle)
              /\ st.child[w].life # "absent"
<1>1. st.child[w] \in Child
  BY DEF Sound, Typed, States, Children
<1>2. w \in Scope /\ w \notin Cycle
  BY HooksAssumption DEF Scope
<1>3. st.child[w].life # "absent" =>
        /\ st.child[w].cycle \in Cycle
        /\ st.child[w].cycle \in Scope
        /\ st.child[w].cycle \notin Worker
        /\ w \in Members(st, st.child[w].cycle)
  BY HooksAssumption DEF Sound, Retirement, Scope, Members
<1>4. IsActive(st.child[w]) =>
        /\ InService(st, w) /\ InService(st, st.child[w].cycle)
        /\ st.child[w].life # "absent"
  BY <1>3 DEF IsActive, InService, ActiveMembers
<1> QED  BY <1>1, <1>2, <1>3, <1>4

\* An exited worker runs post_stop hooks, those of its generation when all of it
\* has exited, and goes away.
LEMMA FarewellSound ==
  ASSUME NEW st, Sound(st), NEW w \in Worker, st.child[w].life = "exited", NEW due
  PROVE  Sound(Farewell(st, w, due))
<1> DEFINE c == st.child[w].cycle
           told == CancelPhase(st, w, "pre_stop")
           worker == Phase(told, w, "post_stop", due)
           both == IF AllExited(st, c)
                   THEN Phase(CancelPhase(worker, c, "pre_stop"), c, "post_stop", due)
                   ELSE worker
<1>1. /\ w \in Scope /\ w \notin Cycle
      /\ c \in Cycle /\ c \in Scope /\ w \in Members(st, c)
      /\ st.child[w] \in Child
  BY WorkerTyped
<1>2. Sound(told) /\ told.child = st.child /\ told.retired = st.retired
  BY <1>1, CancelSound DEF CancelPhase
<1> HIDE DEF told
<1>3. Sound(worker) /\ worker.child = st.child /\ worker.retired = st.retired
  BY <1>1, <1>2, PhaseSound DEF StopEvents
<1> HIDE DEF worker
<1>4. Sound(both) /\ both.child = st.child
  <2>1. CASE AllExited(st, c)
    <3> DEFINE last == CancelPhase(worker, c, "pre_stop")
    <3>1. Sound(last) /\ last.child = st.child /\ last.retired = st.retired
      BY <1>1, <1>3, CancelSound DEF CancelPhase
    <3> HIDE DEF last
    <3>2. ActiveMembers(st, c) = {}
      BY <2>1 DEF AllExited, ActiveMembers, IsActive
    <3>3. c \in st.retired
      BY <3>2 DEF Sound, Retirement
    <3>4. Over(last, c)
      BY <2>1, <3>1, <3>3 DEF Over, AllExited, Members
    <3>5. /\ Sound(Phase(last, c, "post_stop", due))
          /\ Phase(last, c, "post_stop", due).child = last.child
      BY <1>1, <3>1, <3>4, PhaseSound DEF StopEvents
    <3> QED  BY <2>1, <3>1, <3>5 DEF last
  <2>2. CASE ~AllExited(st, c)
    BY <1>3, <2>2
  <2> QED  BY <2>1, <2>2
<1>5. Farewell(st, w, due) \in {both, Put(both, w, Absent)}
  BY DEF Farewell, told, worker
<1> HIDE DEF both
<1>6. Absent \in Child /\ Absent.life = "absent" /\ ~IsActive(Absent)
  BY DEF Absent, Child, IsActive
<1>7. ~IsActive(both.child[w]) /\ both.child[w].life = "exited"
  BY <1>4 DEF IsActive
<1>8. Sound(Put(both, w, Absent))
  BY <1>4, <1>6, <1>7, PutSound
<1> QED  BY <1>4, <1>5, <1>8

\* A stopping worker runs pre_stop hooks and is told to stop.
LEMMA DrainingSound ==
  ASSUME NEW st, Sound(st), NEW w \in Worker, NEW late \in BOOLEAN, NEW due,
         st.child[w].life \in {"pending", "running"}, st.child[w].stopping
  PROVE  Sound(Draining(st, w, late, due))
<1> DEFINE c == st.child[w].cycle
           worker == Phase(st, w, "pre_stop", due)
           both == IF c \in st.retired THEN Phase(worker, c, "pre_stop", due) ELSE worker
           sent == [st.child[w] EXCEPT !.stopSent = TRUE,
                                       !.life = IF @ = "pending" THEN "exited" ELSE @]
<1>1. w \in Scope /\ w \notin Cycle /\ c \in Scope /\ st.child[w] \in Child
  BY WorkerTyped
<1>2. Sound(worker) /\ worker.child = st.child /\ worker.retired = st.retired
  BY <1>1, PhaseSound DEF StopEvents
<1> HIDE DEF worker
<1>3. Sound(both) /\ both.child = st.child
  BY <1>1, <1>2, PhaseSound DEF StopEvents
<1>4. Draining(st, w, late, due) \in {both, Put(both, w, sent)}
  BY DEF Draining, worker
<1>5. /\ sent \in Child /\ ~IsActive(sent) /\ ~IsActive(st.child[w])
      /\ sent.cycle = st.child[w].cycle /\ sent.life # "absent"
  BY <1>1 DEF Child, IsActive
<1> HIDE DEF both, sent
<1>6. Sound(Put(both, w, sent))
  BY <1>3, <1>5, PutSound
<1> QED  BY <1>3, <1>4, <1>6

\* A worker in service runs its checks, which decide whether it is ready.
LEMMA CheckingSound ==
  ASSUME NEW st, Sound(st), NEW w \in Worker, NEW dependencies \in BOOLEAN, NEW due,
         IsActive(st.child[w])
  PROVE  Sound(Checking(st, w, dependencies, due))
<1> DEFINE c == st.child[w].cycle
           Both(before, event) == Phase(Phase(before, w, event, due), c, event, due)
           started == Both(st, "post_start")
           checked == Both(started, "readiness")
           healthy == Both(checked, "health")
<1>1. w \in Scope /\ c \in Scope /\ st.child[w] \in Child /\ st.child[w].life # "absent"
  BY WorkerTyped
<1>2. ASSUME NEW before, Sound(before), before.child = st.child, NEW event, event # "post_stop"
      PROVE  Sound(Both(before, event)) /\ Both(before, event).child = st.child
  <2> DEFINE worker == Phase(before, w, event, due)
  <2>1. InService(before, w) /\ InService(before, c)
    BY <1>2, WorkerTyped
  <2>2. Sound(worker) /\ worker.child = st.child /\ worker.retired = before.retired
    BY <1>1, <1>2, <2>1, PhaseSound
  <2> HIDE DEF worker
  <2>3. InService(worker, c)
    BY <1>2, <2>1, <2>2, SameWorkers
  <2>4. Sound(Phase(worker, c, event, due)) /\ Phase(worker, c, event, due).child = st.child
    BY <1>1, <1>2, <2>2, <2>3, PhaseSound
  <2> QED  BY <2>4 DEF worker
<1> HIDE DEF Both
<1>3. Sound(started) /\ started.child = st.child
  BY <1>2
<1> HIDE DEF started
<1>4. Sound(checked) /\ checked.child = st.child
  BY <1>2, <1>3
<1> HIDE DEF checked
<1>5. Sound(healthy) /\ healthy.child = st.child
  BY <1>2, <1>4
<1> HIDE DEF healthy
<1>6. ASSUME NEW before, Sound(before), before.child = st.child, NEW ready \in BOOLEAN
      PROVE  Sound(Ready(before, w, ready))
  <2> DEFINE r == [st.child[w] EXCEPT !.ready = ready]
  <2>1. r \in Child /\ r.life = st.child[w].life /\ r.cycle = st.child[w].cycle
        /\ (IsActive(r) <=> IsActive(st.child[w])) /\ st.child[w].life # "exited"
    BY <1>1 DEF Child, IsActive
  <2>2. Ready(before, w, ready) = Put(before, w, r)
    BY <1>6 DEF Ready
  <2> HIDE DEF r
  <2>3. /\ IsActive(r) <=> IsActive(before.child[w])
        /\ before.child[w].life # "absent" /\ r.cycle = before.child[w].cycle
        /\ before.child[w].life # "exited"
    BY <1>1, <1>6, <2>1
  <2>4. Sound(Put(before, w, r))
    BY <1>6, <2>1, <2>3, PutSound
  <2> QED  BY <2>2, <2>4
<1>7. \E ready \in BOOLEAN :
        Checking(st, w, dependencies, due) \in
          {Ready(started, w, FALSE), Ready(checked, w, FALSE), Ready(healthy, w, ready)}
  <2> DEFINE ready == Passes(healthy, w, "health") /\ Passes(healthy, c, "health") /\ dependencies
  <2>1. ready \in BOOLEAN
    OBVIOUS
  <2>2. Checking(st, w, dependencies, due) \in
          {Ready(started, w, FALSE), Ready(checked, w, FALSE), Ready(healthy, w, ready)}
    BY DEF Checking, Both, started, checked, healthy
  <2> HIDE DEF ready
  <2> QED  BY <2>1, <2>2
<1> QED  BY <1>3, <1>4, <1>5, <1>6, <1>7

\* lifecycle() keeps the state sound.
LEMMA LifecycleSound ==
  ASSUME NEW st, Sound(st), NEW w \in Worker, NEW late \in BOOLEAN, NEW dependencies \in BOOLEAN, NEW due,
         st.child[w].life # "absent"
  PROVE  Sound(Lifecycle(st, w, late, dependencies, due))
<1>1. st.child[w] \in Child
  BY WorkerTyped
<1>2. CASE st.child[w].life = "exited"
  BY <1>2, FarewellSound DEF Lifecycle
<1>3. CASE st.child[w].life \in {"pending", "running"} /\ st.child[w].stopping
  BY <1>3, DrainingSound DEF Lifecycle
<1>4. CASE st.child[w].life = "running" /\ ~st.child[w].stopping
  BY <1>4, CheckingSound DEF Lifecycle, IsActive
<1>5. CASE st.child[w].life = "pending" /\ ~st.child[w].stopping
  BY <1>5 DEF Lifecycle
<1> QED  BY <1>1, <1>2, <1>3, <1>4, <1>5 DEF Child

\* stop() keeps the state sound.
LEMMA StopSound ==
  ASSUME NEW st, Sound(st), NEW w \in Worker, NEW due
  PROVE  Sound(Stop(st, w, due))
<1> DEFINE r == [st.child[w] EXCEPT !.stopping = TRUE, !.ready = FALSE]
           told == RetireCycle(CancelChecks(Put(st, w, r), w), st.child[w].cycle)
<1>1. CASE st.child[w].stopping \/ st.child[w].life = "absent"
  BY <1>1 DEF Stop
<1>2. CASE ~st.child[w].stopping /\ st.child[w].life # "absent"
  <2>1. /\ r \in Child /\ ~IsActive(r)
        /\ r.life = st.child[w].life /\ r.cycle = st.child[w].cycle
    <3>1. st.child[w] \in Child
      BY WorkerTyped
    <3> QED  BY <3>1 DEF Child, IsActive
  <2>2. Stop(st, w, due) = Lifecycle(told, w, FALSE, FALSE, due)
    BY <1>2 DEF Stop
  <2> HIDE DEF r
  <2>3. Sound(told) /\ told.child = [st.child EXCEPT ![w] = r]
    BY <1>2, <2>1, Deactivated
  <2> HIDE DEF told
  <2>4. told.child[w] = r
    BY <2>3 DEF Sound, Typed, States, Children
  <2>5. told.child[w].life # "absent" /\ FALSE \in BOOLEAN
    BY <1>2, <2>1, <2>4
  <2>6. Sound(Lifecycle(told, w, FALSE, FALSE, due))
    BY <2>3, <2>5, LifecycleSound
  <2> QED  BY <2>2, <2>6
<1> QED  BY <1>1, <1>2

-----------------------------------------------------------------------------
(* Launching *)

\* The pre_start hooks of a worker that waits for its launch.
LEMMA PreStartSound ==
  ASSUME NEW st, Sound(st), NEW w \in Worker, IsActive(st.child[w])
  PROVE  Sound(PreStart(st, w)) /\ PreStart(st, w).child = st.child
<1> DEFINE c == st.child[w].cycle
           first == Phase(st, c, "pre_start", {})
<1>1. w \in Scope /\ c \in Scope /\ InService(st, c) /\ InService(st, w)
  BY WorkerTyped
<1>2. Sound(first) /\ first.child = st.child /\ first.retired = st.retired
  BY <1>1, PhaseSound
<1> HIDE DEF first
<1>3. InService(first, w)
  BY <1>1, <1>2, SameWorkers
<1>4. /\ Sound(Phase(first, w, "pre_start", {}))
      /\ Phase(first, w, "pre_start", {}).child = st.child
  BY <1>1, <1>2, <1>3, PhaseSound
<1> QED  BY <1>4 DEF PreStart, first

\* A worker whose process has been launched.
LEMMA StartedSound ==
  ASSUME NEW st, Sound(st), NEW w \in Worker, IsActive(st.child[w]),
         NEW base \in BOOLEAN, NEW dependencies \in BOOLEAN, NEW due
  PROVE  Sound(Started(st, w, base, dependencies, due))
<1> DEFINE r == [st.child[w] EXCEPT !.life = "running", !.baseReady = base]
           put == Put(st, w, r)
<1>1. /\ r \in Child /\ IsActive(r) /\ r.life = "running" /\ r.cycle = st.child[w].cycle
      /\ st.child[w].life \notin {"exited", "absent"}
  <2>1. st.child[w] \in Child
    BY WorkerTyped
  <2> QED  BY <2>1 DEF Child, IsActive
<1>2. Started(st, w, base, dependencies, due) = Lifecycle(put, w, FALSE, dependencies, due)
  BY DEF Started
<1> HIDE DEF r
<1>3. Sound(put) /\ put.child = [st.child EXCEPT ![w] = r]
  BY <1>1, PutSound
<1> HIDE DEF put
<1>4. put.child[w] = r
  BY <1>3 DEF Sound, Typed, States, Children
<1>5. put.child[w].life # "absent" /\ FALSE \in BOOLEAN
  BY <1>1, <1>4
<1>6. Sound(Lifecycle(put, w, FALSE, dependencies, due))
  BY <1>3, <1>5, LifecycleSound
<1> QED  BY <1>2, <1>6

\* A worker that could not be launched by spawn(), the only member of its
\* generation or one beside others that are active.
LEMMA ForgetSound ==
  ASSUME NEW st, Sound(st), NEW w \in Worker, IsActive(st.child[w]),
         \/ Members(st, st.child[w].cycle) = {w}
         \/ ActiveMembers(st, st.child[w].cycle) \ {w} # {}
  PROVE  Sound(Forget(st, w))
<1> DEFINE c == st.child[w].cycle
           gone == CancelChecks(Put(st, w, Absent), w)
<1>1. Absent \in Child /\ Absent.life = "absent" /\ ~IsActive(Absent)
  BY DEF Absent, Child, IsActive
<1>2. st.child[w].life \notin {"exited", "absent"}
  BY DEF IsActive
<1>3. Sound(RetireCycle(gone, c))
  BY <1>1, <1>2, Deactivated
<1>4. gone.child = [st.child EXCEPT ![w] = Absent]
  <2> DEFINE put == Put(st, w, Absent)
             told == Cancel(put, w, Events \ StopEvents)
  <2>1. Typed(put) /\ put.child = [st.child EXCEPT ![w] = Absent]
    BY <1>1, PutTyped DEF Sound
  <2>2. w \in Scope
    BY DEF Scope
  <2> HIDE DEF put
  <2>3. told.child = put.child
    BY <2>1, <2>2, ToldChild
  <2>4. gone = told
    BY DEF CancelChecks, put
  <2> QED  BY <2>1, <2>3, <2>4
<1> HIDE DEF gone
<1>5. \A v \in Worker : gone.child[v] = IF v = w THEN Absent ELSE st.child[v]
  BY <1>4 DEF Sound, Typed, States, Children
<1>6. /\ Members(gone, c) = Members(st, c) \ {w}
      /\ ActiveMembers(gone, c) = ActiveMembers(st, c) \ {w}
  BY <1>1, <1>5 DEF Members, ActiveMembers
<1>7. Members(gone, c) = {} <=> ActiveMembers(gone, c) = {}
  BY <1>6 DEF ActiveMembers
<1>8. Forget(st, w) = RetireCycle(gone, c)
  BY <1>7 DEF Forget, RetireCycle, gone
<1> QED  BY <1>3, <1>8

\* A new worker: the first member of a new generation, or one more of one in service.
LEMMA ReserveSound ==
  ASSUME NEW st, Sound(st), NEW w \in Worker, NEW c \in Cycle,
         st.child[w].life = "absent",
         \A b \in Binding : ~st.run[w][b].running,
         IF c = current
         THEN c \notin st.retired
         ELSE Members(st, c) = {} /\ \A b \in Binding : ~st.run[c][b].running
  PROVE  LET after == Reserve(st, w, c)
         IN  /\ Sound(after)
             /\ IsActive(after.child[w]) /\ after.child[w].cycle = c
             /\ Members(after, c) = {w} \/ ActiveMembers(after, c) \ {w} # {}
<1> DEFINE r == [Absent EXCEPT !.life = "pending", !.cycle = c]
           none == [b \in Binding |-> NoRun]
           runs == [st.run EXCEPT ![w] = none, ![c] = IF c = current THEN @ ELSE none]
           after == Reserve(st, w, c)
<1>1. st \in States /\ w # c /\ w \in Scope /\ c \in Scope
  BY HooksAssumption DEF Sound, Typed, Scope
<1>2. r \in Child /\ IsActive(r) /\ r.cycle = c /\ r.life = "pending"
  BY DEF Absent, Child, IsActive
<1>3. \A b \in Binding : none[b] \in AnyRun /\ none[b] \in Run(b) /\ ~none[b].running /\ ~none[b].made
  <2> SUFFICES ASSUME NEW b \in Binding
               PROVE  NoRun \in AnyRun /\ NoRun \in Run(b) /\ ~NoRun.running /\ ~NoRun.made
    OBVIOUS
  <2>1. Threshold[b] \in Nat \ {0}
    BY HooksAssumption
  <2> QED  BY <2>1 DEF NoRun, AnyRun, Run
<1>4. after = [child |-> [st.child EXCEPT ![w] = r], retired |-> st.retired \ {c},
               run |-> runs, tasks |-> st.tasks]
  BY DEF Reserve
<1>5. none \in [Binding -> AnyRun]
  BY <1>3
<1> HIDE DEF r, none
<1>6. \A s \in Scope :
        runs[s] = IF s = w \/ (s = c /\ c # current) THEN none ELSE st.run[s]
  BY <1>1 DEF States, Runs
<1>7. runs \in Runs
  BY <1>1, <1>5 DEF States, Runs
<1> HIDE DEF runs, after
<1>8. \A v \in Worker : after.child[v] = IF v = w THEN r ELSE st.child[v]
  BY <1>1, <1>4 DEF States, Children
<1>9. after \in States
  BY <1>1, <1>2, <1>4, <1>7 DEF States, Children
<1>10. Typed(after)
  BY <1>3, <1>4, <1>6, <1>9 DEF Sound, Typed
<1>11. /\ Members(after, c) = Members(st, c) \cup {w}
       /\ ActiveMembers(after, c) = ActiveMembers(st, c) \cup {w}
       /\ \A d : d # c => Members(after, d) = Members(st, d) /\ ActiveMembers(after, d) = ActiveMembers(st, d)
  BY <1>2, <1>8 DEF Members, ActiveMembers
<1>12. c = current => \A v \in Members(st, c) : ActiveMembers(st, c) # {}
  BY DEF Sound, Retirement, Members
<1>13. w \notin Members(st, c)
  BY DEF Members
<1>14. Members(after, c) = {w} \/ ActiveMembers(after, c) \ {w} # {}
  BY <1>11, <1>12, <1>13 DEF ActiveMembers
<1>15. Retirement(after)
  <2>1. c \notin after.retired /\ ActiveMembers(after, c) # {}
    BY <1>4, <1>11
  <2>2. after.child[w].cycle = c
    BY <1>2, <1>8
  <2>3. ASSUME NEW v \in Worker, v # w, after.child[v].life # "absent", after.child[v].cycle # c
        PROVE  /\ after.child[v].cycle \in Cycle
               /\ after.child[v].cycle \in after.retired <=>
                    ActiveMembers(after, after.child[v].cycle) = {}
    <3> DEFINE d == after.child[v].cycle
    <3>1. after.child[v] = st.child[v]
      BY <1>8, <2>3
    <3>2. d \in Cycle /\ (d \in st.retired <=> ActiveMembers(st, d) = {})
      BY <2>3, <3>1 DEF Sound, Retirement
    <3> HIDE DEF d
    <3>3. ActiveMembers(after, d) = ActiveMembers(st, d)
      BY <1>11, <2>3 DEF d
    <3>4. d \in after.retired <=> d \in st.retired
      BY <1>4, <2>3 DEF d
    <3> QED  BY <3>2, <3>3, <3>4 DEF d
  <2> QED  BY <2>1, <2>2, <2>3 DEF Retirement
<1>16. \A d \in Cycle \ {c} : Over(st, d) => Over(after, d)
  BY <1>4, <1>8, <1>11, <1>13 DEF Over, Members
<1>17. Buried(after)
  <2> SUFFICES ASSUME NEW d \in Cycle, NEW b \in Binding,
                      Event[b] = "post_stop", after.run[d][b].made
               PROVE  Over(after, d)
    BY DEF Buried
  <2>1. d \in Scope /\ d # w
    BY HooksAssumption DEF Scope
  <2>2. after.run[d] = IF d = c /\ c # current THEN none ELSE st.run[d]
    BY <1>4, <1>6, <2>1
  <2>3. st.run[d][b].made /\ (d = c => c = current)
    BY <1>3, <2>2
  <2>4. Over(st, d)
    BY <2>3 DEF Sound, Buried
  <2>5. d # c
    BY <2>3, <2>4 DEF Over
  <2> QED  BY <1>16, <2>4, <2>5
<1>18. \A s \in Scope, b \in Binding :
         /\ after.run[s][b].running <=> st.run[s][b].running
         /\ after.run[s][b].running => s # w /\ after.run[s] = st.run[s]
  BY <1>3, <1>4, <1>6
<1>19. Checked(after)
  <2> SUFFICES ASSUME NEW s \in Scope, NEW b \in Binding,
                      Event[b] \notin StopEvents, after.run[s][b].running, ~after.run[s][b].cancelled
               PROVE  InService(after, s)
    BY DEF Checked
  <2>1. s # w /\ InService(st, s)
    BY <1>18 DEF Sound, Checked
  <2> QED  BY <1>8, <1>11, <2>1 DEF InService
<1>20. Made(after)
  BY <1>18 DEF Sound, Made
<1>21. Goroutines(after) = Goroutines(st)
  BY <1>18 DEF Goroutines
<1>22. Sound(after)
  BY <1>4, <1>10, <1>15, <1>17, <1>19, <1>20, <1>21 DEF Sound, Counted
<1> QED  BY <1>2, <1>8, <1>14, <1>22 DEF after

-----------------------------------------------------------------------------
(* The system *)

HInv ==
  /\ Sound(Now)
  /\ todo \subseteq Worker
  /\ current \in Cycle \cup {NoCycle}
  /\ phase \in {"serving", "stopping", "returned"}

\* What a handler makes of a sound state is the next state.
LEMMA Becomes ==
  ASSUME NEW st, Sound(st), Become(st)
  PROVE  Sound(Now)'
<1>1. st \in States
  BY DEF Sound, Typed
<1>2. Now' = st
  BY <1>1 DEF Become, Now, States
<1> QED  BY <1>2

\* Initially there is no worker and no run.
LEMMA Initially == Init => HInv
<1> SUFFICES ASSUME Init PROVE HInv
  OBVIOUS
<1>1. Absent \in Child /\ Absent.life = "absent"
  BY DEF Absent, Child
<1>2. \A b \in Binding : NoRun \in AnyRun /\ NoRun \in Run(b) /\ ~NoRun.running /\ ~NoRun.made
  BY HooksAssumption DEF NoRun, AnyRun, Run
<1>3. /\ Now.child = child /\ Now.retired = {} /\ Now.run = run /\ Now.tasks = 0
      /\ \A w \in Worker : child[w] = Absent
      /\ \A s \in Scope, b \in Binding : run[s][b] = NoRun
  BY DEF Init, Now
<1>4. Now \in States
  BY <1>1, <1>2 DEF Init, Now, States, Children, Runs
<1>5. Typed(Now)
  BY <1>2, <1>3, <1>4 DEF Typed
<1>6. Retirement(Now) /\ Buried(Now) /\ Checked(Now) /\ Made(Now)
  BY <1>1, <1>2, <1>3 DEF Retirement, Buried, Checked, Made, Scope
<1>7. Goroutines(Now) = {}
  BY <1>2, <1>3 DEF Goroutines
<1>8. Counted(Now)
  BY <1>3, <1>7, FS_EmptySet DEF Counted
<1> QED  BY <1>5, <1>6, <1>8 DEF Init, HInv, Sound

\* A step that leaves the state as it is.
LEMMA Same ==
  ASSUME Sound(Now), UNCHANGED <<child, retired, run, tasks>>
  PROVE  Sound(Now)'
<1>1. Now' = Now
  BY DEF Now
<1> QED  BY <1>1

\* The fields of the manager's state.
LEMMA Fields ==
  Now.child = child /\ Now.retired = retired /\ Now.run = run /\ Now.tasks = tasks
BY DEF Now

\* A finished run has its type, does not run, and was made if it was before.
LEMMA FinishedTyped ==
  ASSUME NEW b \in Binding, NEW r \in AnyRun, r \in Run(b), NEW ok \in BOOLEAN
  PROVE  /\ Finished(r, b, ok) \in AnyRun /\ Finished(r, b, ok) \in Run(b)
         /\ ~Finished(r, b, ok).running
         /\ Finished(r, b, ok).made <=> r.made
<1>1. Threshold[b] \in Nat \ {0}
  BY HooksAssumption
<1>2. CASE r.cancelled
  BY <1>2 DEF Finished, AnyRun, Run
<1>3. CASE ~r.cancelled
  <2> DEFINE n == IF ok THEN 0 ELSE IF r.failures = Threshold[b] THEN r.failures ELSE r.failures + 1
  <2>1. n \in 0 .. Threshold[b] /\ n \in Nat
    BY <1>1 DEF Run
  <2>2. Finished(r, b, ok) =
          [r EXCEPT !.running = FALSE, !.done = TRUE, !.success = ok, !.failures = n]
    BY <1>3 DEF Finished
  <2> HIDE DEF n
  <2> QED  BY <2>1, <2>2 DEF AnyRun, Run
<1> QED  BY <1>2, <1>3

\* The result of a hook ends one run, which was counted.
LEMMA ResultSound ==
  ASSUME HInv, NEW s \in Scope, NEW b \in Binding, NEW ok \in BOOLEAN, Result(s, b, ok)
  PROVE  HInv'
<1> DEFINE finished == Finished(run[s][b], b, ok)
<1>1. Sound(Now) /\ Typed(Now) /\ Now \in States
  BY DEF HInv, Sound, Typed
<1>2. run \in Runs /\ run[s][b] \in AnyRun /\ run[s][b] \in Run(b)
  BY <1>1, Fields DEF Typed, States, Runs
<1>3. /\ finished \in AnyRun /\ finished \in Run(b) /\ ~finished.running
      /\ finished.made <=> run[s][b].made
  BY <1>2, FinishedTyped
<1> HIDE DEF finished
<1>4. /\ child' = child /\ retired' = retired /\ tasks' = tasks - 1
      /\ run' = [run EXCEPT ![s][b] = finished]
      /\ run[s][b].running
  BY DEF Result, finished
<1>5. \A t \in Scope, d \in Binding :
        run'[t][d] = IF t = s /\ d = b THEN finished ELSE run[t][d]
  BY <1>2, <1>4 DEF Runs
<1>6. run' \in Runs
  BY <1>2, <1>3, <1>4 DEF Runs
<1>7. /\ Now'.child = child /\ Now'.retired = retired
      /\ Now'.run = run' /\ Now'.tasks = tasks - 1
  BY <1>4 DEF Now
<1>8. Now' \in States
  BY <1>1, <1>4, <1>6 DEF Now, States
<1>9. Typed(Now')
  BY <1>1, <1>3, <1>5, <1>7, <1>8, Fields DEF Typed
<1> DEFINE after == Now'
<1>10. /\ \A c : Over(after, c) = Over(Now, c)
       /\ \A t : InService(after, t) = InService(Now, t)
       /\ Retirement(after) = Retirement(Now)
  BY <1>7, Fields, SameWorkers
<1>11. Buried(after) /\ Checked(after) /\ Made(after)
  BY <1>1, <1>3, <1>5, <1>7, <1>10, Fields DEF Sound, Buried, Checked, Made, Scope
<1>12. Goroutines(after) = Goroutines(Now) \ {<<s, b>>} /\ <<s, b>> \in Goroutines(Now)
  BY <1>3, <1>4, <1>5, <1>7, Fields DEF Goroutines
<1>13. Cardinality(Goroutines(after)) = Cardinality(Goroutines(Now)) - 1
  BY <1>12, GoroutinesFinite, FS_RemoveElement
<1>14. Sound(after)
  BY <1>1, <1>7, <1>9, <1>10, <1>11, <1>13, Fields DEF Sound, Counted
<1>15. Sound(Now)'
  BY <1>14
<1>16. todo' \subseteq Worker
  BY DEF Result, Members, Scope
<1>17. current' = current /\ phase' = phase
  BY DEF Result
<1> QED  BY <1>15, <1>16, <1>17 DEF HInv

\* spawn() keeps the invariant, whether the hooks let the worker launch or not.
LEMMA SpawnSound ==
  ASSUME HInv, NEW w \in Worker, NEW c \in Cycle, NEW launches \in BOOLEAN, NEW base \in BOOLEAN,
         NEW dependencies \in BOOLEAN, NEW due, Spawn(w, c, launches, base, dependencies, due)
  PROVE  HInv'
<1> DEFINE reserved == Reserve(Now, w, c)
           asked == PreStart(reserved, w)
           started == Started(asked, w, base, dependencies, due)
<1>1. IF c = current
      THEN c \notin retired
      ELSE Members(Now, c) = {} /\ \A b \in Binding : ~run[c][b].running
  BY HooksAssumption DEF Spawn, CycleFor, Unused
<1>2. /\ Sound(reserved)
      /\ IsActive(reserved.child[w]) /\ reserved.child[w].cycle = c
      /\ Members(reserved, c) = {w} \/ ActiveMembers(reserved, c) \ {w} # {}
  BY <1>1, ReserveSound, Fields DEF HInv, Spawn, Unused
<1> HIDE DEF reserved
<1>3. Sound(asked) /\ asked.child = reserved.child
  BY <1>2, PreStartSound
<1> HIDE DEF asked
<1>4. IsActive(asked.child[w]) /\ asked.child[w].cycle = c
  BY <1>2, <1>3
<1>5. Members(asked, c) = {w} \/ ActiveMembers(asked, c) \ {w} # {}
  BY <1>2, <1>3 DEF Members, ActiveMembers
<1>6. Sound(started)
  BY <1>3, <1>4, StartedSound
<1>7. Sound(Forget(asked, w))
  BY <1>3, <1>4, <1>5, ForgetSound
<1>8. Become(asked) \/ Become(started) \/ Become(Forget(asked, w))
  BY DEF Spawn, asked, reserved
<1> HIDE DEF started
<1>9. Sound(Now)'
  BY <1>3, <1>6, <1>7, <1>8, Becomes
<1>10. todo' = todo /\ current' = c /\ phase' = phase
  BY DEF Spawn
<1> QED  BY <1>9, <1>10 DEF HInv

\* The tick that launches a reserved worker keeps the invariant.
LEMMA LaunchSound ==
  ASSUME HInv, NEW w \in Worker, NEW launches \in BOOLEAN, NEW base \in BOOLEAN,
         NEW dependencies \in BOOLEAN, NEW due, Launch(w, launches, base, dependencies, due)
  PROVE  HInv'
<1> DEFINE asked == PreStart(Now, w)
           started == Started(asked, w, base, dependencies, due)
<1>1. IsActive(Now.child[w]) /\ Sound(Now)
  BY Fields DEF HInv, Launch, Launchable, IsActive
<1>2. Sound(asked) /\ asked.child = Now.child
  BY <1>1, PreStartSound
<1> HIDE DEF asked
<1>3. Sound(started)
  BY <1>1, <1>2, StartedSound
<1>4. Sound(Stop(asked, w, due))
  BY <1>2, StopSound
<1>5. Become(asked) \/ Become(started) \/ Become(Stop(asked, w, due))
  BY DEF Launch, asked
<1> HIDE DEF started
<1>6. Sound(Now)'
  BY <1>2, <1>3, <1>4, <1>5, Becomes
<1>7. todo' = todo /\ current' = current /\ phase' = phase
  BY DEF Launch
<1> QED  BY <1>6, <1>7 DEF HInv

\* The exit of a process keeps the invariant.
LEMMA ExitSound ==
  ASSUME HInv, NEW w \in Worker, NEW due, Exit(w, due)
  PROVE  HInv'
<1> DEFINE r == [child[w] EXCEPT !.life = "exited", !.ready = FALSE]
           checked == RetireCycle(CancelChecks(Put(Now, w, r), w), child[w].cycle)
<1>1. Sound(Now) /\ Now.child[w] = child[w] /\ child[w] \in Child /\ child[w].life = "running"
  BY WorkerTyped, Fields DEF HInv, Exit
<1>2. r \in Child /\ ~IsActive(r) /\ r.life = "exited" /\ r.cycle = child[w].cycle
  BY <1>1 DEF Child, IsActive
<1>3. Become(Lifecycle(checked, w, FALSE, FALSE, due))
  BY DEF Exit
<1> HIDE DEF r
<1>4. Sound(checked) /\ checked.child = [Now.child EXCEPT ![w] = r]
  BY <1>1, <1>2, Deactivated
<1> HIDE DEF checked
<1>5. checked.child[w] = r
  BY <1>1, <1>4 DEF Sound, Typed, States, Children
<1>6. checked.child[w].life # "absent" /\ FALSE \in BOOLEAN
  BY <1>2, <1>5
<1>7. Sound(Lifecycle(checked, w, FALSE, FALSE, due))
  BY <1>4, <1>6, LifecycleSound
<1>8. Sound(Now)'
  BY <1>3, <1>7, Becomes
<1>9. todo' = todo /\ current' = current /\ phase' = phase
  BY DEF Exit
<1> QED  BY <1>8, <1>9 DEF HInv

\* A worker that becomes ready to be checked keeps the invariant.
LEMMA BaseReadySound ==
  ASSUME HInv, NEW w \in Worker, BaseReady(w)
  PROVE  HInv'
<1> DEFINE r == [child[w] EXCEPT !.baseReady = TRUE]
           put == Put(Now, w, r)
<1>1. Sound(Now) /\ Now.child[w] = child[w] /\ child[w] \in Child /\ child[w].life = "running"
  BY WorkerTyped, Fields DEF HInv, BaseReady
<1>2. /\ r \in Child /\ (IsActive(r) <=> IsActive(child[w]))
      /\ r.life = "running" /\ r.cycle = child[w].cycle
  BY <1>1 DEF Child, IsActive
<1>3. child' = [child EXCEPT ![w] = r] /\ UNCHANGED <<retired, run, tasks, todo, current, phase>>
  <2>1. child' = [child EXCEPT ![w].baseReady = TRUE]
    BY DEF BaseReady
  <2>2. child \in Children
    BY <1>1, Fields DEF Sound, Typed, States
  <2>3. child' = [child EXCEPT ![w] = r]
    BY <2>1, <2>2 DEF Children
  <2> QED  BY <2>3 DEF BaseReady
<1> HIDE DEF r
<1>4. Sound(put)
  BY <1>1, <1>2, PutSound
<1>5. Typed(Now)
  BY <1>1 DEF Sound
<1>6. /\ put.child = [Now.child EXCEPT ![w] = r]
      /\ put.retired = Now.retired /\ put.run = Now.run /\ put.tasks = Now.tasks
  BY <1>2, <1>5, PutTyped
<1>7. Become(put)
  BY <1>3, <1>6, Fields DEF Become
<1> HIDE DEF put
<1>8. Sound(Now)'
  BY <1>4, <1>7, Becomes
<1> QED  BY <1>3, <1>8 DEF HInv

\* Every step keeps the invariant.
LEMMA HInvKept == HInv /\ [Next]_vars => HInv'
<1> SUFFICES ASSUME HInv, [Next]_vars PROVE HInv'
  OBVIOUS
<1>1. Sound(Now) /\ FALSE \in BOOLEAN
  BY DEF HInv
<1>2. ASSUME NEW w \in Worker, NEW c \in Cycle, NEW due \in Due, NEW base \in BOOLEAN,
             NEW launches \in BOOLEAN, NEW dependencies \in BOOLEAN,
             Spawn(w, c, launches, base, dependencies, due)
      PROVE  HInv'
  BY <1>2, SpawnSound
<1>3. ASSUME NEW w \in Worker, NEW due \in Due, NEW base \in BOOLEAN,
             NEW launches \in BOOLEAN, NEW dependencies \in BOOLEAN,
             Launch(w, launches, base, dependencies, due)
      PROVE  HInv'
  BY <1>3, LaunchSound
<1>4. ASSUME NEW w \in Worker, NEW due \in Due, NEW late \in BOOLEAN,
             NEW dependencies \in BOOLEAN, Tick(w, late, dependencies, due)
      PROVE  HInv'
  <2>1. Now.child[w].life # "absent" /\ Become(Lifecycle(Now, w, late, dependencies, due))
    BY <1>4, Fields DEF Tick
  <2>2. Sound(Now)'
    BY <1>1, <2>1, LifecycleSound, Becomes
  <2> QED  BY <1>4, <2>2 DEF HInv, Tick
<1>5. ASSUME NEW w \in Worker, NEW due \in Due, StopWorker(w, due)
      PROVE  HInv'
  <2>1. Sound(Now)'
    BY <1>1, <1>5, StopSound, Becomes DEF StopWorker
  <2> QED  BY <1>5, <2>1 DEF HInv, StopWorker
<1>6. ASSUME NEW w \in Worker, NEW due \in Due, Exit(w, due)
      PROVE  HInv'
  BY <1>6, ExitSound
<1>7. ASSUME NEW w \in Worker, NEW due \in Due, Restart(w, due)
      PROVE  HInv'
  <2>1. Sound(Now)'
    BY <1>1, <1>7, StopSound, Becomes DEF Restart
  <2> QED  BY <1>7, <2>1 DEF HInv, Restart
<1>8. ASSUME NEW w \in Worker, BaseReady(w)
      PROVE  HInv'
  BY <1>8, BaseReadySound
<1>9. ASSUME NEW s \in Scope, NEW b \in Binding, NEW ok \in BOOLEAN, Result(s, b, ok)
      PROVE  HInv'
  BY <1>9, ResultSound
<1>10. ASSUME Shutdown \/ Return \/ UNCHANGED vars
       PROVE  HInv'
  <2>1. UNCHANGED <<child, retired, run, tasks, todo, current>>
    BY <1>10 DEF Shutdown, Return, vars
  <2>2. Sound(Now)'
    BY <1>1, <2>1, Same
  <2> QED  BY <1>10, <2>1, <2>2 DEF HInv, Shutdown, Return, vars
<1> QED  BY <1>2, <1>3, <1>4, <1>5, <1>6, <1>7, <1>8, <1>9, <1>10 DEF Next, Returned

\* The states of the manager are sound in every behaviour.
THEOREM Invariant == Spec => []HInv
BY Initially, HInvKept, PTL DEF Spec

\* Every variable keeps its type: no count of goroutines is ever negative.
THEOREM TypeCorrect == Spec => []TypeOK
<1>1. HInv => TypeOK
  <2> SUFFICES ASSUME HInv PROVE TypeOK
    OBVIOUS
  <2>1. Now \in States /\ \A s \in Scope, b \in Binding : run[s][b] \in Run(b)
    BY Fields DEF HInv, Sound, Typed
  <2>2. child \in [Worker -> Child] /\ retired \subseteq Cycle /\ run \in [Scope -> [Binding -> AnyRun]]
    BY <2>1, Fields DEF States, Children, Runs
  <2>3. run \in [Scope -> [Binding -> UNION {Run(b) : b \in Binding}]]
    BY <2>1, <2>2
  <2>4. tasks \in Nat
    <3>1. tasks = Cardinality(Goroutines(Now))
      BY Fields DEF HInv, Sound, Counted
    <3> QED  BY <3>1, GoroutinesFinite, FS_CardinalityType
  <2> QED  BY <2>1, <2>2, <2>3, <2>4 DEF HInv, TypeOK
<1> QED  BY <1>1, Invariant, PTL

\* A generation retires exactly when its last active member stops, exits or fails to start.
THEOREM GenerationsAlways == Spec => []Generations
<1>1. HInv => Generations
  BY Fields DEF HInv, Sound, Retirement, Generations
<1> QED  BY <1>1, Invariant, PTL

\* Nothing is alive in a generation whose post_stop hooks have begun.
THEOREM LastWordsAlways == Spec => []LastWords
<1>1. HInv => LastWords
  BY Fields DEF HInv, Sound, Buried, Over, LastWords
<1> QED  BY <1>1, Invariant, PTL

\* What is retired is not checked any more: no late failure restarts anybody.
THEOREM ChecksCancelledAlways == Spec => []ChecksCancelled
<1>1. HInv => ChecksCancelled
  BY Fields DEF HInv, Sound, Checked, InService, ChecksCancelled
<1> QED  BY <1>1, Invariant, PTL

\* run() waits for the goroutines of all hooks, and for no other.
THEOREM TasksCountedAlways == Spec => []TasksCounted
<1>1. HInv => TasksCounted
  BY Fields DEF HInv, Sound, Counted, Goroutines, TasksCounted
<1> QED  BY <1>1, Invariant, PTL

-----------------------------------------------------------------------------
(* The refinement of WorkerPool *)

\* A worker moves forward through its life and is not launched.
Later(r, n) ==
  /\ Promise!MovesOn(LifeOf(r), LifeOf(n))
  /\ LifeOf(n) = "launched" => LifeOf(r) = "launched"

Onward(st, after) == \A v \in Worker : Later(st.child[v], after.child[v])

LEMMA LaterItself == ASSUME NEW r PROVE Later(r, r)
BY DEF Later, Promise!MovesOn

LEMMA LaterOn ==
  ASSUME NEW r \in Child, NEW n \in Child, NEW m \in Child, Later(r, n), Later(n, m)
  PROVE  Later(r, m)
BY DEF Later, Promise!MovesOn, Promise!Running, LifeOf, Child

LEMMA OnwardOn ==
  ASSUME NEW st, NEW mid, NEW after, Sound(st), Sound(mid), Sound(after),
         Onward(st, mid), Onward(mid, after)
  PROVE  Onward(st, after)
<1> SUFFICES ASSUME NEW v \in Worker PROVE Later(st.child[v], after.child[v])
  BY DEF Onward
<1>1. /\ st.child[v] \in Child /\ mid.child[v] \in Child /\ after.child[v] \in Child
      /\ Later(st.child[v], mid.child[v]) /\ Later(mid.child[v], after.child[v])
  BY WorkerTyped DEF Onward
<1> QED  BY <1>1, LaterOn

\* A helper that replaces the record of one worker.
LEMMA OnwardOne ==
  ASSUME NEW st, Sound(st), NEW after, NEW w \in Worker, NEW r,
         after.child = [st.child EXCEPT ![w] = r], Later(st.child[w], r)
  PROVE  Onward(st, after)
<1> SUFFICES ASSUME NEW v \in Worker PROVE Later(st.child[v], after.child[v])
  BY DEF Onward
<1>1. after.child[v] = IF v = w THEN r ELSE st.child[v]
  BY DEF Sound, Typed, States, Children
<1> QED  BY <1>1, LaterItself

LEMMA FarewellOnward ==
  ASSUME NEW st, Sound(st), NEW w \in Worker, st.child[w].life = "exited", NEW due
  PROVE  Onward(st, Farewell(st, w, due))
<1> DEFINE c == st.child[w].cycle
           told == CancelPhase(st, w, "pre_stop")
           worker == Phase(told, w, "post_stop", due)
           last == CancelPhase(worker, c, "pre_stop")
           ended == Phase(last, c, "post_stop", due)
           both == IF AllExited(st, c) THEN ended ELSE worker
<1>1. w \in Scope /\ c \in Scope
  BY WorkerTyped
<1>2. Typed(told) /\ told.child = st.child
  BY <1>1, CancelChild DEF Sound
<1>3. Typed(worker) /\ worker.child = st.child
  <2> HIDE DEF told
  <2> QED  BY <1>1, <1>2, PhaseChild
<1>4. Typed(last) /\ last.child = st.child
  <2> HIDE DEF worker
  <2> QED  BY <1>1, <1>3, CancelChild
<1>5. Typed(ended) /\ ended.child = st.child
  <2> HIDE DEF last
  <2> QED  BY <1>1, <1>4, PhaseChild
<1> HIDE DEF ended, worker
<1>11. Typed(both) /\ both.child = st.child
  BY <1>3, <1>5
<1>6. Farewell(st, w, due) \in {both, Put(both, w, Absent)}
  BY DEF Farewell, told, worker, last, ended
<1> HIDE DEF both
<1>7. Absent \in Child /\ Later(st.child[w], Absent)
  BY DEF Absent, Child, Later, LifeOf, Promise!MovesOn
<1>8. Put(both, w, Absent).child = [st.child EXCEPT ![w] = Absent]
  BY <1>11, <1>7, PutTyped
<1>9. Onward(st, both)
  BY <1>11, LaterItself DEF Onward
<1>10. Onward(st, Put(both, w, Absent))
  BY <1>7, <1>8, OnwardOne
<1> QED  BY <1>6, <1>9, <1>10

LEMMA DrainingOnward ==
  ASSUME NEW st, Sound(st), NEW w \in Worker, NEW late \in BOOLEAN, NEW due,
         st.child[w].life \in {"pending", "running"}, st.child[w].stopping
  PROVE  Onward(st, Draining(st, w, late, due))
<1> DEFINE c == st.child[w].cycle
           worker == Phase(st, w, "pre_stop", due)
           both == IF c \in st.retired THEN Phase(worker, c, "pre_stop", due) ELSE worker
           sent == [st.child[w] EXCEPT !.stopSent = TRUE,
                                       !.life = IF @ = "pending" THEN "exited" ELSE @]
<1>1. w \in Scope /\ c \in Scope /\ st.child[w] \in Child
  BY WorkerTyped
<1>2. Typed(worker) /\ worker.child = st.child
  BY <1>1, PhaseChild DEF Sound
<1>3. Typed(both) /\ both.child = st.child
  <2> HIDE DEF worker
  <2>1. Typed(Phase(worker, c, "pre_stop", due)) /\ Phase(worker, c, "pre_stop", due).child = st.child
    BY <1>1, <1>2, PhaseChild
  <2> QED  BY <1>2, <2>1
<1>4. Draining(st, w, late, due) \in {both, Put(both, w, sent)}
  BY DEF Draining
<1> HIDE DEF worker
<1>5. sent \in Child /\ Later(st.child[w], sent)
  BY <1>1 DEF Child, Later, LifeOf, Promise!MovesOn, Promise!Running
<1> HIDE DEF both, sent
<1>6. Put(both, w, sent).child = [st.child EXCEPT ![w] = sent]
  BY <1>3, <1>5, PutTyped
<1>7. Onward(st, both)
  BY <1>3, LaterItself DEF Onward
<1>8. Onward(st, Put(both, w, sent))
  BY <1>5, <1>6, OnwardOne
<1> QED  BY <1>4, <1>7, <1>8

\* Checks only decide whether a worker is ready.
Readied(r, ready) == [r EXCEPT !.ready = ready]

CheckedAs(st, after, w) ==
  \E ready \in BOOLEAN : after.child = [st.child EXCEPT ![w] = Readied(st.child[w], ready)]

LEMMA CheckingChild ==
  ASSUME NEW st, Sound(st), NEW w \in Worker, NEW dependencies \in BOOLEAN, NEW due,
         IsActive(st.child[w])
  PROVE  CheckedAs(st, Checking(st, w, dependencies, due), w)
<1> DEFINE c == st.child[w].cycle
           Both(before, event) == Phase(Phase(before, w, event, due), c, event, due)
           started == Both(st, "post_start")
           checked == Both(started, "readiness")
           healthy == Both(checked, "health")
           ready == Passes(healthy, w, "health") /\ Passes(healthy, c, "health") /\ dependencies
<1>1. w \in Scope /\ c \in Scope /\ st.child[w] \in Child
  BY WorkerTyped
<1>2. ASSUME NEW before, Typed(before), before.child = st.child, NEW event
      PROVE  Typed(Both(before, event)) /\ Both(before, event).child = st.child
  <2> DEFINE worker == Phase(before, w, event, due)
  <2>1. Typed(worker) /\ worker.child = st.child
    BY <1>1, <1>2, PhaseChild
  <2> HIDE DEF worker
  <2>2. Typed(Phase(worker, c, event, due)) /\ Phase(worker, c, event, due).child = st.child
    BY <1>1, <2>1, PhaseChild
  <2> QED  BY <2>2 DEF worker
<1>3. Checking(st, w, dependencies, due) \in
        {Ready(started, w, FALSE), Ready(checked, w, FALSE), Ready(healthy, w, ready)}
  BY DEF Checking
<1>4. ready \in BOOLEAN
  OBVIOUS
<1> HIDE DEF Both, ready
<1>5. Typed(started) /\ started.child = st.child
  BY <1>2 DEF Sound
<1> HIDE DEF started
<1>6. Typed(checked) /\ checked.child = st.child
  BY <1>2, <1>5
<1> HIDE DEF checked
<1>7. Typed(healthy) /\ healthy.child = st.child
  BY <1>2, <1>6
<1> HIDE DEF healthy
<1>8. ASSUME NEW mid, Typed(mid), mid.child = st.child, NEW value \in BOOLEAN
      PROVE  Ready(mid, w, value).child = [st.child EXCEPT ![w] = [st.child[w] EXCEPT !.ready = value]]
  <2> DEFINE r == [st.child[w] EXCEPT !.ready = value]
  <2>1. r \in Child
    BY <1>1 DEF Child
  <2>2. Ready(mid, w, value) = Put(mid, w, r)
    BY <1>8 DEF Ready
  <2> HIDE DEF r
  <2>3. Put(mid, w, r).child = [mid.child EXCEPT ![w] = r]
    BY <1>8, <2>1, PutTyped
  <2> QED  BY <1>8, <2>2, <2>3 DEF r
<1> DEFINE after == Checking(st, w, dependencies, due)
<1> HIDE DEF after
<1>9. \E value \in BOOLEAN :
        after.child = [st.child EXCEPT ![w] = [st.child[w] EXCEPT !.ready = value]]
  <2>1. CASE after = Ready(started, w, FALSE)
    BY <1>5, <1>8, <2>1
  <2>2. CASE after = Ready(checked, w, FALSE)
    BY <1>6, <1>8, <2>2
  <2>3. CASE after = Ready(healthy, w, ready)
    BY <1>4, <1>7, <1>8, <2>3
  <2> QED  BY <1>3, <2>1, <2>2, <2>3 DEF after
<1> QED  BY <1>9 DEF after, CheckedAs, Readied

LEMMA LifecycleOnward ==
  ASSUME NEW st, Sound(st), NEW w \in Worker, NEW late \in BOOLEAN, NEW dependencies \in BOOLEAN,
         NEW due, st.child[w].life # "absent"
  PROVE  Onward(st, Lifecycle(st, w, late, dependencies, due))
<1>1. st.child[w] \in Child
  BY WorkerTyped
<1>2. CASE st.child[w].life = "exited"
  BY <1>2, FarewellOnward DEF Lifecycle
<1>3. CASE st.child[w].life \in {"pending", "running"} /\ st.child[w].stopping
  BY <1>3, DrainingOnward DEF Lifecycle
<1>4. CASE st.child[w].life = "running" /\ ~st.child[w].stopping
  <2> DEFINE after == Checking(st, w, dependencies, due)
  <2>4. CheckedAs(st, after, w)
    BY <1>4, CheckingChild DEF IsActive
  <2>1. PICK ready \in BOOLEAN :
          after.child = [st.child EXCEPT ![w] = Readied(st.child[w], ready)]
    <3> HIDE DEF after
    <3> QED  BY <2>4 DEF CheckedAs
  <2>2. Later(st.child[w], Readied(st.child[w], ready))
    BY <1>1, <1>4 DEF Child, Later, LifeOf, Promise!MovesOn, Readied
  <2>3. Onward(st, Checking(st, w, dependencies, due))
    BY <2>1, <2>2, OnwardOne
  <2> QED  BY <1>4, <2>3 DEF Lifecycle
<1>5. CASE st.child[w].life = "pending" /\ ~st.child[w].stopping
  BY <1>5, LaterItself DEF Lifecycle, Onward
<1> QED  BY <1>1, <1>2, <1>3, <1>4, <1>5 DEF Child

LEMMA StopOnward ==
  ASSUME NEW st, Sound(st), NEW w \in Worker, NEW due
  PROVE  Onward(st, Stop(st, w, due))
<1> DEFINE r == [st.child[w] EXCEPT !.stopping = TRUE, !.ready = FALSE]
           told == RetireCycle(CancelChecks(Put(st, w, r), w), st.child[w].cycle)
<1>1. CASE st.child[w].stopping \/ st.child[w].life = "absent"
  BY <1>1, LaterItself DEF Stop, Onward
<1>2. CASE ~st.child[w].stopping /\ st.child[w].life # "absent"
  <2>1. /\ r \in Child /\ ~IsActive(r) /\ Later(st.child[w], r)
        /\ r.life = st.child[w].life /\ r.cycle = st.child[w].cycle
    <3>1. st.child[w] \in Child
      BY WorkerTyped
    <3> QED  BY <1>2, <3>1 DEF Child, IsActive, Later, LifeOf, Promise!MovesOn, Promise!Running
  <2>2. Stop(st, w, due) = Lifecycle(told, w, FALSE, FALSE, due)
    BY <1>2 DEF Stop
  <2> HIDE DEF r
  <2>3. Sound(told) /\ told.child = [st.child EXCEPT ![w] = r]
    BY <1>2, <2>1, Deactivated
  <2> HIDE DEF told
  <2>4. told.child[w] = r
    BY <2>3 DEF Sound, Typed, States, Children
  <2>5. told.child[w].life # "absent" /\ FALSE \in BOOLEAN
    BY <1>2, <2>1, <2>4
  <2>6. Onward(told, Lifecycle(told, w, FALSE, FALSE, due)) /\ Sound(Lifecycle(told, w, FALSE, FALSE, due))
    BY <2>3, <2>5, LifecycleOnward, LifecycleSound
  <2>7. Onward(st, told)
    BY <2>1, <2>3, OnwardOne
  <2> QED  BY <2>2, <2>3, <2>6, <2>7, OnwardOn
<1> QED  BY <1>1, <1>2

\* A process that has been launched is not told to stop by what follows.
LaunchedIn(st, after, w) ==
  \E n \in Child : after.child = [st.child EXCEPT ![w] = n] /\ LifeOf(n) = "launched"

LEMMA StartedChild ==
  ASSUME NEW st, Sound(st), NEW w \in Worker, IsActive(st.child[w]),
         NEW base \in BOOLEAN, NEW dependencies \in BOOLEAN, NEW due
  PROVE  LaunchedIn(st, Started(st, w, base, dependencies, due), w)
<1> DEFINE r == [st.child[w] EXCEPT !.life = "running", !.baseReady = base]
           put == Put(st, w, r)
<1>1. /\ r \in Child /\ IsActive(r) /\ r.life = "running" /\ r.cycle = st.child[w].cycle
      /\ ~r.stopping /\ st.child[w].life \notin {"exited", "absent"}
  <2>1. st.child[w] \in Child
    BY WorkerTyped
  <2> QED  BY <2>1 DEF Child, IsActive
<1>2. Started(st, w, base, dependencies, due) = Lifecycle(put, w, FALSE, dependencies, due)
  BY DEF Started
<1> HIDE DEF r
<1>3. Sound(put) /\ put.child = [st.child EXCEPT ![w] = r]
  BY <1>1, PutSound
<1> HIDE DEF put
<1>4. put.child[w] = r
  BY <1>3 DEF Sound, Typed, States, Children
<1>5. Lifecycle(put, w, FALSE, dependencies, due) = Checking(put, w, dependencies, due)
  BY <1>1, <1>4 DEF Lifecycle
<1> DEFINE after == Checking(put, w, dependencies, due)
<1>9. CheckedAs(put, after, w)
  BY <1>1, <1>3, <1>4, CheckingChild
<1>6. PICK ready \in BOOLEAN : after.child = [put.child EXCEPT ![w] = Readied(put.child[w], ready)]
  <2> HIDE DEF after
  <2> QED  BY <1>9 DEF CheckedAs
<1> DEFINE n == Readied(r, ready)
<1>7. n \in Child /\ LifeOf(n) = "launched"
  BY <1>1 DEF Child, LifeOf, Readied
<1>8. Started(st, w, base, dependencies, due).child = [st.child EXCEPT ![w] = n]
  <2> HIDE DEF n
  <2>1. [put.child EXCEPT ![w] = n] = [st.child EXCEPT ![w] = n]
    BY <1>3 DEF Sound, Typed, States, Children
  <2> QED  BY <1>2, <1>4, <1>5, <1>6, <2>1 DEF n
<1> QED  BY <1>7, <1>8 DEF LaunchedIn

LEMMA ForgetChild ==
  ASSUME NEW st, Sound(st), NEW w \in Worker, IsActive(st.child[w])
  PROVE  Forget(st, w).child = [st.child EXCEPT ![w] = Absent]
<1> DEFINE c == st.child[w].cycle
           put == Put(st, w, Absent)
           gone == Cancel(put, w, Events \ StopEvents)
           retiring == Retire(gone, c)
           over == Cancel(retiring, c, Events \ StopEvents)
<1>1. w \in Scope /\ c \in Scope /\ c \in Cycle /\ Absent \in Child
  <2>1. Absent \in Child
    BY DEF Absent, Child
  <2>2. c \in Cycle
    BY WorkerTyped DEF IsActive
  <2> QED  BY <2>1, <2>2 DEF Scope
<1>2. Typed(put) /\ put.child = [st.child EXCEPT ![w] = Absent]
  BY <1>1, PutTyped DEF Sound
<1>3. Typed(gone) /\ gone.child = put.child
  <2> HIDE DEF put
  <2> QED  BY <1>1, <1>2, ToldChild
<1>4. Typed(retiring) /\ retiring.child = gone.child
  <2> HIDE DEF gone
  <2> QED  BY <1>1, <1>3, RetireTyped
<1>5. over.child = retiring.child
  <2> HIDE DEF retiring
  <2> QED  BY <1>1, <1>4, ToldChild
<1>6. Forget(st, w) \in {gone, over}
  BY DEF Forget, CancelChecks
<1> HIDE DEF over, retiring, gone, put
<1> QED  BY <1>2, <1>3, <1>4, <1>5, <1>6

\* What spawn() reserves, before its hooks.
Fresh(c) == [Absent EXCEPT !.life = "pending", !.cycle = c]

LEMMA SpawnReserved ==
  ASSUME HInv, NEW w \in Worker, NEW c \in Cycle, NEW launches \in BOOLEAN, NEW base \in BOOLEAN,
         NEW dependencies \in BOOLEAN, NEW due, Spawn(w, c, launches, base, dependencies, due)
  PROVE  /\ Sound(PreStart(Reserve(Now, w, c), w))
         /\ IsActive(PreStart(Reserve(Now, w, c), w).child[w])
         /\ PreStart(Reserve(Now, w, c), w).child = [child EXCEPT ![w] = Fresh(c)]
<1> DEFINE reserved == Reserve(Now, w, c)
<1>1. IF c = current
      THEN c \notin retired
      ELSE Members(Now, c) = {} /\ \A b \in Binding : ~run[c][b].running
  BY HooksAssumption DEF Spawn, CycleFor, Unused
<1>2. Sound(reserved) /\ IsActive(reserved.child[w])
  BY <1>1, ReserveSound, Fields DEF HInv, Spawn, Unused
<1>3. reserved.child = [child EXCEPT ![w] = Fresh(c)]
  BY Fields DEF Reserve, Fresh
<1> HIDE DEF reserved
<1>4. Sound(PreStart(reserved, w)) /\ PreStart(reserved, w).child = reserved.child
  BY <1>2, PreStartSound
<1> DEFINE asked == PreStart(reserved, w)
<1>5. Sound(asked) /\ asked.child = reserved.child
  BY <1>4
<1> HIDE DEF asked
<1>6. /\ Sound(asked) /\ IsActive(asked.child[w])
      /\ asked.child = [child EXCEPT ![w] = Fresh(c)]
  BY <1>2, <1>3, <1>5
<1> QED  BY <1>6 DEF asked, reserved

LEMMA SameCardinality == \A S : Promise!Cardinality(S) = Cardinality(S)
BY DEF Promise!Cardinality, Cardinality

LEMMA SpawnStarts ==
  ASSUME HInv, NEW w \in Worker, NEW c \in Cycle, NEW launches \in BOOLEAN, NEW base \in BOOLEAN,
         NEW dependencies \in BOOLEAN, NEW due, Spawn(w, c, launches, base, dependencies, due)
  PROVE  UNCHANGED Promise!pool \/ \E p \in Promise!Running : Promise!Start(w, p)
<1> DEFINE asked == PreStart(Reserve(Now, w, c), w)
           started == Started(asked, w, base, dependencies, due)
           fresh == Fresh(c)
<1>1. /\ phase = "serving" /\ UNCHANGED phase /\ child[w].life = "absent"
      /\ child \in [Worker -> Child]
  BY Fields DEF Spawn, HInv, Sound, Typed, States, Children
<1>2. Sound(asked) /\ IsActive(asked.child[w]) /\ asked.child = [child EXCEPT ![w] = fresh]
  BY SpawnReserved
<1>3. child' \in {asked.child, started.child, Forget(asked, w).child}
  BY DEF Spawn, Become
<1> HIDE DEF asked
<1>4. LifeOf(fresh) = "reserved" /\ fresh \in Child
  BY DEF Absent, LifeOf, Child, Fresh
<1> HIDE DEF fresh
<1>5. ASSUME NEW n, child' = [child EXCEPT ![w] = n], LifeOf(n) \in Promise!Running
      PROVE  Promise!Start(w, LifeOf(n))
  <2>1. [v \in Worker |-> LifeOf(child[v])]' =
          [[v \in Worker |-> LifeOf(child[v])] EXCEPT ![w] = LifeOf(n)]
    BY <1>1, <1>5
  <2>2. [v \in Worker |-> LifeOf(child[v])][w] = "absent"
    BY <1>1 DEF LifeOf
  <2>3. Cardinality(Promise!Members("app")) < Cardinality(Worker)
    <3>1. Promise!Members("app") \subseteq Worker \ {w}
      BY <2>2 DEF Promise!Members, Promise!Running
    <3>2. /\ Cardinality(Promise!Members("app")) \in Nat /\ Cardinality(Worker) \in Nat
          /\ Cardinality(Promise!Members("app")) <= Cardinality(Worker)
          /\ Cardinality(Promise!Members("app")) # Cardinality(Worker)
      BY <3>1, FiniteHooks, FS_Subset, FS_CardinalityType
    <3> QED  BY <3>2
  <2>4. UNCHANGED <<phase # "serving", phase = "returned">>
    BY <1>1
  <2> QED  BY <1>1, <2>1, <2>2, <2>3, <2>4, SameCardinality DEF Promise!Start
<1>6. CASE child' = asked.child
  BY <1>2, <1>4, <1>5, <1>6 DEF Promise!Running
<1>7. CASE child' = started.child
  <2>3. LaunchedIn(asked, started, w)
    BY <1>2, StartedChild
  <2>1. PICK n \in Child : started.child = [asked.child EXCEPT ![w] = n] /\ LifeOf(n) = "launched"
    <3> HIDE DEF started
    <3> QED  BY <2>3 DEF LaunchedIn
  <2>2. child' = [child EXCEPT ![w] = n]
    BY <1>1, <1>2, <1>7, <2>1
  <2> QED  BY <1>5, <2>1, <2>2 DEF Promise!Running
<1>8. CASE child' = Forget(asked, w).child
  <2>4. Forget(asked, w).child = [asked.child EXCEPT ![w] = Absent]
    BY <1>2, ForgetChild
  <2>1. child' = [child EXCEPT ![w] = Absent]
    BY <1>1, <1>2, <1>8, <2>4
  <2>2. \A v \in Worker : LifeOf(child'[v]) = LifeOf(child[v])
    BY <1>1, <2>1 DEF LifeOf, Absent
  <2>3. [v \in Worker |-> LifeOf(child[v])]' = [v \in Worker |-> LifeOf(child[v])]
    BY <2>2
  <2> QED  BY <1>1, <2>3 DEF Promise!pool
<1> QED  BY <1>3, <1>6, <1>7, <1>8

LEMMA AdvanceSeen ==
  ASSUME HInv, HInv', UNCHANGED phase,
         \A v \in Worker :
           /\ Promise!MovesOn(LifeOf(child[v]), LifeOf(child'[v]))
           /\ phase # "serving" /\ LifeOf(child'[v]) = "launched" => LifeOf(child[v]) = "launched"
  PROVE  Promise!Advance
<1>1. child' \in [Worker -> Child]
  BY Fields DEF HInv, Sound, Typed, States, Children, Now
<1>2. \A v \in Worker : LifeOf(child'[v]) \in {"absent", "reserved", "launched", "retiring", "exited"}
  BY <1>1 DEF LifeOf, Child
<1>3. UNCHANGED <<phase # "serving", phase = "returned">>
  OBVIOUS
<1> QED  BY <1>2, <1>3 DEF Promise!Advance

LEMMA BecomesOnward ==
  ASSUME HInv, HInv', UNCHANGED phase, NEW st, Onward(Now, st), Become(st)
  PROVE  Promise!Advance
<1>1. child' = st.child
  BY DEF Become
<1>2. \A v \in Worker : Later(child[v], child'[v])
  BY <1>1, Fields DEF Onward
<1> QED  BY <1>2, AdvanceSeen DEF Later

\* The launch of a reserved worker, which only happens in service.
LEMMA LaunchSeen ==
  ASSUME HInv, HInv', NEW w \in Worker, NEW launches \in BOOLEAN, NEW base \in BOOLEAN,
         NEW dependencies \in BOOLEAN, NEW due, Launch(w, launches, base, dependencies, due)
  PROVE  Promise!Advance
<1> DEFINE asked == PreStart(Now, w)
           started == Started(asked, w, base, dependencies, due)
           stopped == Stop(asked, w, due)
<1>1. /\ phase = "serving" /\ UNCHANGED phase /\ child[w].life = "pending" /\ ~child[w].stopping
      /\ child \in [Worker -> Child]
  BY Fields DEF Launch, Launchable, HInv, Sound, Typed, States, Children
<1>2. IsActive(Now.child[w]) /\ Sound(Now) /\ Now.child = child
  BY <1>1, Fields DEF HInv, IsActive
<1>3. Sound(asked) /\ asked.child = child
  BY <1>2, PreStartSound
<1>4. Become(asked) \/ Become(started) \/ Become(stopped)
  BY DEF Launch
<1> HIDE DEF asked
<1>5. CASE Become(asked)
  <2>1. Onward(Now, asked)
    BY <1>2, <1>3, LaterItself DEF Onward
  <2> QED  BY <1>1, <1>5, <2>1, BecomesOnward
<1>6. CASE Become(started)
  <2>5. LaunchedIn(asked, started, w)
    BY <1>2, <1>3, StartedChild
  <2>1. PICK n \in Child : started.child = [asked.child EXCEPT ![w] = n] /\ LifeOf(n) = "launched"
    <3> HIDE DEF started
    <3> QED  BY <2>5 DEF LaunchedIn
  <2>2. child' = [child EXCEPT ![w] = n]
    BY <1>3, <1>6, <2>1 DEF Become
  <2>3. LifeOf(child[w]) = "reserved"
    BY <1>1 DEF LifeOf
  <2>4. \A v \in Worker : Promise!MovesOn(LifeOf(child[v]), LifeOf(child'[v]))
    BY <1>1, <2>1, <2>2, <2>3 DEF Promise!MovesOn
  <2> QED  BY <1>1, <2>4, AdvanceSeen
<1>7. CASE Become(stopped)
  <2>1. Onward(asked, stopped)
    BY <1>3, StopOnward
  <2>2. Onward(Now, stopped)
    BY <1>2, <1>3, <2>1 DEF Onward
  <2> HIDE DEF stopped
  <2> QED  BY <1>1, <1>7, <2>2, BecomesOnward
<1> QED  BY <1>4, <1>5, <1>6, <1>7

LEMMA ExitSeen ==
  ASSUME HInv, HInv', NEW w \in Worker, NEW due, Exit(w, due)
  PROVE  Promise!Advance
<1> DEFINE r == [child[w] EXCEPT !.life = "exited", !.ready = FALSE]
           checked == RetireCycle(CancelChecks(Put(Now, w, r), w), child[w].cycle)
           after == Lifecycle(checked, w, FALSE, FALSE, due)
<1>1. Sound(Now) /\ Now.child[w] = child[w] /\ child[w] \in Child /\ child[w].life = "running"
  BY WorkerTyped, Fields DEF HInv, Exit
<1>2. /\ r \in Child /\ ~IsActive(r) /\ r.life = "exited" /\ r.cycle = child[w].cycle
      /\ Later(child[w], r)
  BY <1>1 DEF Child, IsActive, Later, LifeOf, Promise!MovesOn
<1>3. Become(after) /\ UNCHANGED phase
  BY DEF Exit
<1> HIDE DEF r
<1>4. Sound(checked) /\ checked.child = [Now.child EXCEPT ![w] = r]
  BY <1>1, <1>2, Deactivated
<1> HIDE DEF checked
<1>5. checked.child[w] = r
  BY <1>1, <1>4 DEF Sound, Typed, States, Children
<1>6. checked.child[w].life # "absent" /\ FALSE \in BOOLEAN
  BY <1>2, <1>5
<1>7. Sound(after) /\ Onward(checked, after)
  BY <1>4, <1>6, LifecycleSound, LifecycleOnward
<1> HIDE DEF after
<1>8. Onward(Now, checked)
  BY <1>1, <1>2, <1>4, OnwardOne
<1>9. Onward(Now, after)
  BY <1>1, <1>4, <1>7, <1>8, OnwardOn
<1> QED  BY <1>3, <1>9, BecomesOnward

LEMMA PoolStep ==
  ASSUME HInv, HInv', [Next]_vars
  PROVE  [Promise!Next]_Promise!pool
<1> DEFINE Seen == UNCHANGED Promise!pool
<1>1. Sound(Now) /\ FALSE \in BOOLEAN
  BY DEF HInv
<1>2. ASSUME NEW w \in Worker, NEW c \in Cycle, NEW due \in Due, NEW base \in BOOLEAN,
             NEW launches \in BOOLEAN, NEW dependencies \in BOOLEAN,
             Spawn(w, c, launches, base, dependencies, due)
      PROVE  Seen \/ Promise!Next
  BY <1>2, SpawnStarts DEF Promise!Next
<1>3. ASSUME NEW w \in Worker, NEW due \in Due, NEW base \in BOOLEAN,
             NEW launches \in BOOLEAN, NEW dependencies \in BOOLEAN,
             Launch(w, launches, base, dependencies, due)
      PROVE  Promise!Advance
  BY <1>3, LaunchSeen
<1>4. ASSUME NEW w \in Worker, NEW due \in Due, NEW late \in BOOLEAN,
             NEW dependencies \in BOOLEAN, Tick(w, late, dependencies, due)
      PROVE  Promise!Advance
  <2>1. /\ Now.child[w].life # "absent" /\ Become(Lifecycle(Now, w, late, dependencies, due))
        /\ UNCHANGED phase
    BY <1>4, Fields DEF Tick
  <2> QED  BY <1>1, <2>1, LifecycleOnward, BecomesOnward
<1>5. ASSUME NEW w \in Worker, NEW due \in Due, StopWorker(w, due) \/ Restart(w, due)
      PROVE  Promise!Advance
  <2>1. Become(Stop(Now, w, due)) /\ UNCHANGED phase
    BY <1>5 DEF StopWorker, Restart
  <2> QED  BY <1>1, <2>1, StopOnward, BecomesOnward
<1>6. ASSUME NEW w \in Worker, NEW due \in Due, Exit(w, due)
      PROVE  Promise!Advance
  BY <1>6, ExitSeen
<1>7. ASSUME \/ \E w \in Worker : BaseReady(w)
             \/ \E s \in Scope, b \in Binding, ok \in BOOLEAN : Result(s, b, ok)
             \/ Returned \/ UNCHANGED vars
      PROVE  Seen
  <2>1. UNCHANGED phase /\ \A v \in Worker : LifeOf(child'[v]) = LifeOf(child[v])
    <3>1. child \in [Worker -> Child]
      BY Fields DEF HInv, Sound, Typed, States, Children
    <3> QED  BY <1>7, <3>1 DEF BaseReady, Result, Returned, vars, LifeOf, Child
  <2>2. [v \in Worker |-> LifeOf(child[v])]' = [v \in Worker |-> LifeOf(child[v])]
    BY <2>1
  <2> QED  BY <2>1, <2>2 DEF Promise!pool
<1>8. ASSUME Shutdown PROVE Promise!Close
  BY <1>8 DEF Shutdown, Promise!Close
<1>9. ASSUME Return PROVE Promise!End
  BY <1>9 DEF Return, Promise!End, LifeOf
<1> HIDE DEF Seen
<1>10. Seen \/ Promise!Next
  BY <1>2, <1>3, <1>4, <1>5, <1>6, <1>7, <1>8, <1>9 DEF Next, Promise!Next
<1> QED  BY <1>10 DEF Seen

\* Hooks keep the promise of the manager: they hold a worker back or let it go, and
\* none of them, late or failing, makes it live on, live again or start after
\* shutdown began (main.go:1904-1965, 2011-2058).
THEOREM Implements == Spec => ImplementsPool
<1>1. Init => Promise!Init
  <2> SUFFICES ASSUME Init PROVE Promise!Init
    OBVIOUS
  <2>1. \A v \in Worker : LifeOf(child[v]) = "absent"
    BY DEF Init, LifeOf, Absent
  <2> QED  BY <2>1 DEF Init, Promise!Init
<1>2. HInv /\ HInv' /\ [Next]_vars => [Promise!Next]_Promise!pool
  BY PoolStep
<1> QED  BY <1>1, <1>2, Invariant, PTL DEF Spec, ImplementsPool, Promise!Spec
=============================================================================
