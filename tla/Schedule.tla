------------------------------- MODULE Schedule -------------------------------
(***************************************************************************)
(* Scheduled apps: parseSchedule(), schedule.next(), schedule.matches(),   *)
(* scheduleDue() and its use in tick(), and what apply() does to a         *)
(* schedule and to the executions that are still unfinished.               *)
(*                                                                         *)
(* The clock and the ticks are explicit, so that a tick may be late by any *)
(* time.  The executions of an app are counted: those of its record that   *)
(* are not stopping (with those whose pre-start hooks still run), those of *)
(* its record that are, and those of records that apply() has dropped.     *)
(* How an execution starts, stops and ends is Manager's and Hooks'.        *)
(***************************************************************************)
EXTENDS Integers, Sequences

CONSTANTS
  App,
  Config,      \* configurations of an app
  NoConfig,
  Expression,  \* the parsed text of `schedule`, NoConfig where there is none
  Limit,       \* 1, or max_workers with overlap
  Address,     \* `listen`
  Initial,     \* the configuration of each app at the start
  Minute,      \* ticks of the model's clock in a minute
  Calendar,    \* the local time of each minute, as the five values cron looks at
  Horizon,     \* bound: the last moment
  MaxExecutions \* bound: unfinished executions of an app while it has no schedule

\* An expression is a period or five lists of items like 1, 2-5, 1-9/2, * and */3.
Field == 1..5
Lowest == <<0, 0, 1, 1, 0>>
Highest == <<59, 23, 31, 12, 7>>
Item == [star : BOOLEAN, first : 0..59, last : 0..59, step : Nat \ {0}]

ASSUME ScheduleAssumption ==
  /\ NoConfig \notin Config
  /\ Limit \in [Config -> Nat \ {0}]
  /\ Minute \in Nat \ {0} /\ MaxExecutions \in Nat \ {0}
  /\ Horizon \in Nat /\ Minute <= Horizon + 1
  /\ \A m \in 0 .. (Horizon \div Minute) : \A i \in Field : Calendar[m][i] \in Nat
  /\ Initial \in [App -> Config \cup {NoConfig}]

Periodic(c) == Expression[c].kind = "every"
Cron(c) == Expression[c].kind = "cron"

ASSUME ExpressionAssumption ==
  \A c \in Config :
    /\ Expression[c].kind \in {"none", "every", "cron"}
    /\ Periodic(c) => Expression[c].period \in Nat \ {0}
    /\ Cron(c) => /\ \A i \in Field : Len(Expression[c].fields[i]) > 0
                  /\ \A i \in Field :
                       \A k \in DOMAIN Expression[c].fields[i] : Expression[c].fields[i][k] \in Item

VARIABLES
  now,
  config,     \* of each record in manager.services
  nextRun, scheduled,
  active,     \* executions of the record that are not stopping
  draining,   \* those that are
  retired,    \* executions of records that are gone
  stopping,   \* the supervisor is
  looked,     \* history: when the schedule was installed or looked at last
  installed,  \* history: when it was installed
  fired       \* history: apps for which the last step has accepted an occurrence

vars == <<now, config, nextRun, scheduled, active, draining, retired, stopping,
          looked, installed, fired>>

Executions(a) == active[a] + draining[a] + retired[a]

-----------------------------------------------------------------------------
(* Expressions *)

\* The bits the loop sets.
Marked(first, last, step) ==
  LET mark[n \in first..last] == {n} \cup (IF step > last - n THEN {} ELSE mark[n + step])
  IN  mark[first]

CronField(field, minimum, maximum) ==
  UNION {IF field[k].star THEN Marked(minimum, maximum, field[k].step)
         ELSE Marked(field[k].first, field[k].last, field[k].step) : k \in DOMAIN field}

\* What cronField() refuses; a single value is a range of one and takes no step.
FieldOK(field, minimum, maximum) ==
  \A k \in DOMAIN field :
    \/ field[k].star
    \/ /\ minimum <= field[k].first /\ field[k].first <= field[k].last
       /\ field[k].last <= maximum

Wild(field) == field[1].star

ParseSchedule(c) ==
  Cron(c) => \A i \in Field : FieldOK(Expression[c].fields[i], Lowest[i], Highest[i])

\* Load() has parsed the configuration of the start as well.
ASSUME InitialAssumption ==
  \A a \in App : Initial[a] # NoConfig => ParseSchedule(Initial[a])

\* values are those of a moment: minute, hour, day, month, weekday.
Matches(c, values) ==
  LET fields == Expression[c].fields
      mask(i) == CronField(fields[i], Lowest[i], Highest[i])
      matched(i) == values[i] \in mask(i) \/ (i = 5 /\ values[5] = 0 /\ 7 \in mask(5))
      days == IF Wild(fields[3]) \/ Wild(fields[5]) THEN matched(3) /\ matched(5)
              ELSE matched(3) \/ matched(5)
  IN  matched(1) /\ matched(2) /\ matched(4) /\ days

MinuteOf(t) == t \div Minute

Never == -1

NextSlot(c, t) ==
  IF Periodic(c) THEN t + Expression[c].period
  ELSE IF Cron(c) THEN (MinuteOf(t) + 1) * Minute
  ELSE Never

-----------------------------------------------------------------------------
(* A tick *)

Due(a) == config[a] # NoConfig /\ nextRun[a] # Never /\ now >= nextRun[a]

\* Variant: a tick that is late shifts the schedule.
AdvancedDrifting(a) == NextSlot(config[a], now)

Advanced(a) ==
  IF Periodic(config[a])
    THEN LET period == Expression[config[a]].period
         IN  now + (period - ((now - nextRun[a]) % period))
    ELSE NextSlot(config[a], now)

\* Variant: only the executions of the record count.
HasRoomRecord(a) == active[a] + draining[a] < Limit[config[a]]

HasRoom(a) == Executions(a) < Limit[config[a]]

\* scheduleDue() makes a reservation.
Accepted ==
  {a \in App : /\ Due(a)
               /\ Cron(config[a]) => Matches(config[a], Calendar[MinuteOf(now)])
               /\ ~scheduled[a] /\ HasRoom(a)}

\* ready are the apps whose dependencies are met: their reserved executions are
\* started, or their start fails; the executions of the others are stopped.
Tick(ready, failing) ==
  LET reserved == {a \in App : scheduled[a] \/ a \in Accepted}
      starts == (reserved \cap ready) \ failing
  IN  /\ ~stopping
      /\ failing \subseteq reserved \cap ready
      /\ nextRun' = [a \in App |-> IF Due(a) THEN Advanced(a) ELSE nextRun[a]]
      /\ scheduled' = [a \in App |-> a \in reserved \ ready]
      /\ active' = [a \in App |-> IF config[a] # NoConfig /\ a \notin ready THEN 0
                                  ELSE IF a \in starts THEN active[a] + 1 ELSE active[a]]
      /\ draining' = [a \in App |-> IF config[a] # NoConfig /\ a \notin ready
                                    THEN draining[a] + active[a] ELSE draining[a]]
      /\ looked' = [a \in App |-> now]
      /\ fired' = Accepted
      /\ UNCHANGED <<now, config, retired, stopping, installed>>

\* A record without a schedule: reconcile() spawns for other reasons.
Grow(a) ==
  /\ ~stopping /\ config[a] # NoConfig
  /\ ~Periodic(config[a]) /\ ~Cron(config[a])
  /\ active[a] < Limit[config[a]] /\ Executions(a) < MaxExecutions
  /\ active' = [active EXCEPT ![a] = @ + 1]
  /\ fired' = {}
  /\ UNCHANGED <<now, config, nextRun, scheduled, draining, retired, stopping, looked, installed>>

-----------------------------------------------------------------------------
(* Executions, the clock and configurations *)

\* An execution is stopped for a reason of its own, or exits and waits for hooks.
Retire(a) ==
  /\ active[a] > 0
  /\ active' = [active EXCEPT ![a] = @ - 1]
  /\ draining' = [draining EXCEPT ![a] = @ + 1]
  /\ fired' = {}
  /\ UNCHANGED <<now, config, nextRun, scheduled, retired, stopping, looked, installed>>

\* The last thing one waits for has ended.
Finish(a) ==
  /\ \/ /\ draining[a] > 0
        /\ draining' = [draining EXCEPT ![a] = @ - 1]
        /\ UNCHANGED retired
     \/ /\ retired[a] > 0
        /\ retired' = [retired EXCEPT ![a] = @ - 1]
        /\ UNCHANGED draining
  /\ fired' = {}
  /\ UNCHANGED <<now, config, nextRun, scheduled, active, stopping, looked, installed>>

Pass ==
  /\ now < Horizon
  /\ now' = now + 1
  /\ fired' = {}
  /\ UNCHANGED <<config, nextRun, scheduled, active, draining, retired, stopping,
                 looked, installed>>

\* The record goes with its listener, and its executions keep it.
Dropped(a, c) ==
  config[a] # NoConfig /\ (IF c = NoConfig THEN TRUE ELSE Address[c] # Address[config[a]])

\* apply() for the app that changes; Load() has refused what does not parse.
Apply(a, c) ==
  /\ ~stopping /\ c # config[a]
  /\ c # NoConfig => ParseSchedule(c)
  /\ config' = [config EXCEPT ![a] = c]
  /\ nextRun' = [nextRun EXCEPT ![a] = IF c = NoConfig THEN Never ELSE NextSlot(c, now)]
  /\ scheduled' = [scheduled EXCEPT ![a] = FALSE]
  /\ active' = [active EXCEPT ![a] = 0]
  /\ draining' = [draining EXCEPT ![a] = IF Dropped(a, c) THEN 0 ELSE @ + active[a]]
  /\ retired' = [retired EXCEPT ![a] =
                   IF Dropped(a, c) THEN @ + draining[a] + active[a] ELSE @]
  /\ looked' = [looked EXCEPT ![a] = now]
  /\ installed' = [installed EXCEPT ![a] = now]
  /\ fired' = {}
  /\ UNCHANGED <<now, stopping>>

\* tick() no longer reaches the schedules; executions are stopped in their turn.
Shutdown ==
  /\ ~stopping
  /\ stopping' = TRUE
  /\ fired' = {}
  /\ UNCHANGED <<now, config, nextRun, scheduled, active, draining, retired, looked, installed>>

Over ==
  /\ stopping /\ \A a \in App : Executions(a) = 0
  /\ UNCHANGED vars

-----------------------------------------------------------------------------

Init ==
  /\ now \in 0..(Minute - 1)
  /\ config = Initial
  /\ nextRun = [a \in App |-> IF Initial[a] = NoConfig THEN Never ELSE NextSlot(Initial[a], now)]
  /\ scheduled = [a \in App |-> FALSE]
  /\ active = [a \in App |-> 0]
  /\ draining = [a \in App |-> 0]
  /\ retired = [a \in App |-> 0]
  /\ stopping = FALSE
  /\ looked = [a \in App |-> now]
  /\ installed = [a \in App |-> now]
  /\ fired = {}

Next ==
  \/ \E ready \in SUBSET App : \E failing \in SUBSET ready : Tick(ready, failing)
  \/ \E a \in App : Grow(a) \/ Retire(a) \/ Finish(a) \/ \E c \in Config \cup {NoConfig} : Apply(a, c)
  \/ Pass \/ Shutdown \/ Over

Spec == Init /\ [][Next]_vars

-----------------------------------------------------------------------------
(* Properties *)

TypeOK ==
  /\ now \in Nat
  /\ config \in [App -> Config \cup {NoConfig}]
  /\ nextRun \in [App -> Int]
  /\ scheduled \in [App -> BOOLEAN]
  /\ active \in [App -> Nat] /\ draining \in [App -> Nat] /\ retired \in [App -> Nat]
  /\ stopping \in BOOLEAN
  /\ looked \in [App -> Nat] /\ installed \in [App -> Nat]
  /\ fired \in SUBSET App

\* A reservation is for an execution that fits.
Reserved == \A a \in App : scheduled[a] => config[a] # NoConfig /\ HasRoom(a)

\* No scheduled execution starts that makes more than the limit of unfinished ones,
\* whatever configurations the others were started with.
WithinLimit ==
  [][\A a \in App :
       Executions(a)' > Executions(a) /\ (Periodic(config[a]) \/ Cron(config[a]))
         => Executions(a)' <= Limit[config[a]]]_vars

\* The moments of a schedule: a whole number of periods from its installation, or
\* the first of a minute.
IsSlot(a, t) ==
  LET c == config[a]
  IN  \/ Periodic(c) /\ t > installed[a] /\ (t - installed[a]) % Expression[c].period = 0
      \/ Cron(c) /\ t % Minute = 0

\* crontab(5): a list names the numbers of its ranges that steps reach from their
\* start, and with two restricted day fields either will do.
Names(field, i, v) ==
  \E k \in DOMAIN field :
    LET first == IF field[k].star THEN Lowest[i] ELSE field[k].first
        last == IF field[k].star THEN Highest[i] ELSE field[k].last
    IN  first <= v /\ v <= last /\ (v - first) % field[k].step = 0

Named(c, values) ==
  LET fields == Expression[c].fields
      day == Names(fields[3], 3, values[3])
      weekday == \/ Names(fields[5], 5, values[5])
                 \/ values[5] = 0 /\ Names(fields[5], 5, 7)
      restricted(field) == ~field[1].star
  IN  /\ \A i \in {1, 2, 4} : Names(fields[i], i, values[i])
      /\ (day /\ weekday) \/ (restricted(fields[3]) /\ restricted(fields[5]) /\ (day \/ weekday))

\* An occurrence is accepted exactly when a moment of the schedule has passed since
\* it was looked at last, the current minute is one the expression names, no other
\* waits and there is room: what is missed is not replayed, nothing runs twice,
\* and nothing is skipped for another reason.
EveryOccurrence ==
  [][\A a \in App :
       a \in fired' <=>
         /\ config'[a] = config[a] /\ config[a] # NoConfig
         /\ \E t \in (looked[a] + 1)..looked'[a] : IsSlot(a, t)
         /\ Cron(config[a]) => Named(config[a], Calendar[MinuteOf(now)])
         /\ ~scheduled[a] /\ Executions(a) < Limit[config[a]]]_vars
=============================================================================
