--------------------------- MODULE ScheduleProofs ---------------------------
(***************************************************************************)
(* What Schedule promises, for any apps, configurations, calendar and      *)
(* horizon: a reservation always fits, the executions of a schedule stay   *)
(* within its limit, a field of an expression names the values that        *)
(* crontab means, and every occurrence is seen, none twice.                *)
(*                                                                         *)
(* The argument: only a record whose configuration has a schedule gets a   *)
(* reservation, nothing but the reservation adds an execution to such a    *)
(* record, and an execution that moves between active, draining and        *)
(* retired still counts.  The loop that sets the bits of a field is a      *)
(* recursion that has one solution, the values the field should name.      *)
(* What a tick waits for is the first occurrence after the last look at    *)
(* the schedule (Ahead).                                                   *)
(***************************************************************************)
EXTENDS Schedule, WellFoundedInduction, TLAPS

-----------------------------------------------------------------------------
(* Types *)

LEMMA SlotType ==
  ASSUME NEW c \in Config, NEW t \in Nat PROVE NextSlot(c, t) \in Int
<1>1. Minute \in Nat \ {0} /\ (Periodic(c) => Expression[c].period \in Nat \ {0})
  BY ScheduleAssumption, ExpressionAssumption
<1>2. MinuteOf(t) \in Int
  BY <1>1 DEF MinuteOf
<1>3. (MinuteOf(t) + 1) * Minute \in Int
  BY <1>1, <1>2
<1>4. QED BY <1>1, <1>3 DEF NextSlot, Never

LEMMA AdvancedType ==
  ASSUME TypeOK, NEW a \in App, config[a] # NoConfig PROVE Advanced(a) \in Int
<1>1. config[a] \in Config /\ now \in Nat /\ nextRun[a] \in Int
  BY DEF TypeOK
<1>2. CASE Periodic(config[a])
  <2>1. Expression[config[a]].period \in Nat \ {0}
    BY <1>1, <1>2, ExpressionAssumption
  <2>2. ASSUME NEW p \in Nat \ {0}, NEW m \in Int PROVE m % p \in Int
    BY SMT
  <2>3. now - nextRun[a] \in Int
    BY <1>1
  <2>4. (now - nextRun[a]) % Expression[config[a]].period \in Int
    BY <2>1, <2>2, <2>3
  <2>5. QED BY <1>1, <1>2, <2>1, <2>4 DEF Advanced
<1>3. CASE ~Periodic(config[a])
  BY <1>1, <1>3, SlotType DEF Advanced
<1>4. QED BY <1>2, <1>3

LEMMA TickType ==
  ASSUME TypeOK, NEW ready \in SUBSET App, NEW failing \in SUBSET ready, Tick(ready, failing)
  PROVE  TypeOK'
<1>1. \A a \in App : Due(a) => config[a] # NoConfig
  BY DEF Due
<1>2. nextRun' \in [App -> Int]
  BY <1>1, AdvancedType DEF Tick, TypeOK
<1>3. active' \in [App -> Nat] /\ draining' \in [App -> Nat]
  BY DEF Tick, TypeOK
<1>4. scheduled' \in [App -> BOOLEAN]
  BY DEF Tick
<1>5. fired' \in SUBSET App
  BY DEF Tick, Accepted
<1>6. QED BY <1>2, <1>3, <1>4, <1>5 DEF Tick, TypeOK

LEMMA ApplyType ==
  ASSUME TypeOK, NEW a \in App, NEW c \in Config \cup {NoConfig}, Apply(a, c) PROVE TypeOK'
<1>1. (IF c = NoConfig THEN Never ELSE NextSlot(c, now)) \in Int
  BY SlotType DEF TypeOK, Never
<1>2. active' \in [App -> Nat] /\ draining' \in [App -> Nat] /\ retired' \in [App -> Nat]
  BY DEF Apply, TypeOK
<1>3. QED BY <1>1, <1>2 DEF Apply, TypeOK

LEMMA TypeStep == ASSUME TypeOK, [Next]_vars PROVE TypeOK'
<1>1. ASSUME NEW a \in App, Grow(a) \/ Retire(a) \/ Finish(a) PROVE TypeOK'
  <2>1. active[a] \in Nat /\ draining[a] \in Nat /\ retired[a] \in Nat
    BY DEF TypeOK
  <2>2. CASE Grow(a)
    BY <2>1, <2>2 DEF Grow, TypeOK
  <2>3. CASE Retire(a)
    <3>1. active[a] - 1 \in Nat
      BY <2>1, <2>3 DEF Retire
    <3>2. QED BY <2>1, <2>3, <3>1 DEF Retire, TypeOK
  <2>4. CASE Finish(a)
    <3>1. draining' \in [App -> Nat] /\ retired' \in [App -> Nat]
      BY <2>1, <2>4 DEF Finish, TypeOK
    <3>2. QED BY <2>4, <3>1 DEF Finish, TypeOK
  <2>5. QED BY <1>1, <2>2, <2>3, <2>4
<1>2. ASSUME Pass \/ Shutdown PROVE TypeOK'
  <2>1. CASE Pass
    BY <2>1 DEF Pass, TypeOK
  <2>2. CASE Shutdown
    BY <2>2 DEF Shutdown, TypeOK
  <2>3. QED BY <1>2, <2>1, <2>2
<1>3. ASSUME Over \/ UNCHANGED vars PROVE TypeOK'
  BY <1>3 DEF Over, vars, TypeOK
<1>4. QED BY <1>1, <1>2, <1>3, TickType, ApplyType DEF Next

-----------------------------------------------------------------------------
(* Reservations *)

Scheduled(a) == Periodic(config[a]) \/ Cron(config[a])

\* A record without a schedule has no next occurrence, hence no reservation.
Founded ==
  \A a \in App :
    /\ config[a] # NoConfig /\ nextRun[a] # Never => Scheduled(a)
    /\ scheduled[a] => Scheduled(a)

IInv == TypeOK /\ Founded /\ Reserved

LEMMA LimitType == ASSUME NEW c \in Config PROVE Limit[c] \in Nat \ {0}
BY ScheduleAssumption

LEMMA TickReserved ==
  ASSUME IInv, NEW ready \in SUBSET App, NEW failing \in SUBSET ready, Tick(ready, failing)
  PROVE  Founded' /\ Reserved'
<1> SUFFICES ASSUME NEW a \in App
             PROVE  /\ config'[a] # NoConfig /\ nextRun'[a] # Never => Scheduled(a)'
                    /\ scheduled'[a] => Scheduled(a)' /\ config'[a] # NoConfig /\ HasRoom(a)'
  BY DEF Founded, Reserved
<1>1. config' = config /\ (Scheduled(a)' <=> Scheduled(a))
  BY DEF Tick, Scheduled, Periodic, Cron
<1>2. ASSUME config[a] # NoConfig, nextRun'[a] # Never PROVE Scheduled(a)
  <2>1. CASE Due(a)
    BY <1>2, <2>1 DEF Due, IInv, Founded
  <2>2. CASE ~Due(a)
    BY <1>2, <2>2 DEF Tick, IInv, Founded
  <2>3. QED BY <2>1, <2>2
<1>3. ASSUME scheduled'[a] PROVE Scheduled(a) /\ config[a] # NoConfig /\ HasRoom(a)'
  <2>1. a \notin ready /\ (scheduled[a] \/ a \in Accepted)
    BY <1>3 DEF Tick
  <2>2. Scheduled(a) /\ config[a] # NoConfig /\ HasRoom(a)
    BY <2>1 DEF Accepted, Due, IInv, Founded, Reserved
  <2>3. active'[a] = 0 /\ draining'[a] = draining[a] + active[a] /\ retired' = retired
    BY <2>1, <2>2 DEF Tick
  <2>4. /\ active[a] \in Nat /\ draining[a] \in Nat /\ retired[a] \in Nat
        /\ Limit[config[a]] \in Nat
    BY <2>2, LimitType DEF IInv, TypeOK
  <2>5. QED BY <2>2, <2>3, <2>4, <1>1 DEF HasRoom, Executions
<1>4. QED BY <1>1, <1>2, <1>3

LEMMA ApplyReserved ==
  ASSUME IInv, NEW a \in App, NEW c \in Config \cup {NoConfig}, Apply(a, c)
  PROVE  Founded' /\ Reserved'
<1> SUFFICES ASSUME NEW b \in App
             PROVE  /\ config'[b] # NoConfig /\ nextRun'[b] # Never => Scheduled(b)'
                    /\ scheduled'[b] => Scheduled(b)' /\ config'[b] # NoConfig /\ HasRoom(b)'
  BY DEF Founded, Reserved
<1>1. CASE b = a
  <2>1. /\ config'[a] = c /\ ~scheduled'[a]
        /\ nextRun'[a] = IF c = NoConfig THEN Never ELSE NextSlot(c, now)
    BY DEF Apply, IInv, TypeOK
  <2>2. QED BY <1>1, <2>1 DEF NextSlot, Scheduled, Periodic, Cron
<1>2. CASE b # a
  <2>1. /\ config'[b] = config[b] /\ nextRun'[b] = nextRun[b] /\ scheduled'[b] = scheduled[b]
        /\ active'[b] = active[b] /\ draining'[b] = draining[b] /\ retired'[b] = retired[b]
    BY <1>2 DEF Apply, IInv, TypeOK
  <2>2. QED BY <2>1 DEF IInv, Founded, Reserved, Scheduled, Periodic, Cron, HasRoom, Executions
<1>3. QED BY <1>1, <1>2

\* The other steps keep every record and its schedule, and add an execution only
\* where there is none.
LEMMA OtherReserved ==
  ASSUME IInv, UNCHANGED <<config, nextRun, scheduled>>,
         \A a \in App : Scheduled(a) => Executions(a)' <= Executions(a),
         TypeOK'
  PROVE  Founded' /\ Reserved'
<1>1. Founded'
  BY DEF IInv, Founded, Scheduled, Periodic, Cron
<1>2. ASSUME NEW a \in App, scheduled[a] PROVE config[a] # NoConfig /\ HasRoom(a)'
  <2>1. Scheduled(a) /\ config[a] # NoConfig /\ Executions(a) < Limit[config[a]]
    BY <1>2 DEF IInv, Founded, Reserved, HasRoom
  <2>2. Executions(a)' <= Executions(a)
    BY <2>1
  <2>3. Executions(a) \in Nat /\ Executions(a)' \in Nat /\ Limit[config[a]] \in Nat
    BY <2>1, LimitType DEF IInv, TypeOK, Executions
  <2>4. HasRoom(a)' <=> Executions(a)' < Limit[config[a]]
    BY DEF HasRoom
  <2> HIDE DEF Executions
  <2>5. QED BY <2>1, <2>2, <2>3, <2>4
<1>3. QED BY <1>1, <1>2 DEF Reserved

LEMMA GrowFacts ==
  ASSUME IInv, NEW a \in App, Grow(a), NEW b \in App, Scheduled(b)
  PROVE  Executions(b)' = Executions(b)
<1>1. b # a
  BY DEF Grow, Scheduled
<1>2. QED BY <1>1 DEF Grow, Executions, IInv, TypeOK

LEMMA RetireFacts ==
  ASSUME IInv, NEW a \in App, Retire(a), NEW b \in App
  PROVE  Executions(b)' = Executions(b)
<1>1. active' = [active EXCEPT ![a] = @ - 1] /\ draining' = [draining EXCEPT ![a] = @ + 1]
      /\ retired' = retired
  BY DEF Retire
<1>2. active[b] \in Nat /\ draining[b] \in Nat /\ retired[b] \in Nat
  BY DEF IInv, TypeOK
<1>3. CASE b = a
  <2>1. active'[b] = active[b] - 1 /\ draining'[b] = draining[b] + 1
    BY <1>1, <1>3 DEF IInv, TypeOK
  <2>2. QED BY <1>1, <1>2, <2>1 DEF Executions
<1>4. CASE b # a
  BY <1>1, <1>4 DEF Executions, IInv, TypeOK
<1>5. QED BY <1>3, <1>4

LEMMA FinishFacts ==
  ASSUME IInv, NEW a \in App, Finish(a), NEW b \in App
  PROVE  Executions(b)' <= Executions(b)
<1>1. active[b] \in Nat /\ draining[b] \in Nat /\ retired[b] \in Nat
  BY DEF IInv, TypeOK
<1>2. active' = active
  BY DEF Finish
<1>3. \/ draining'[b] = draining[b] /\ retired'[b] = retired[b]
      \/ draining'[b] = draining[b] - 1 /\ retired'[b] = retired[b]
      \/ draining'[b] = draining[b] /\ retired'[b] = retired[b] - 1
  BY DEF Finish, IInv, TypeOK
<1>4. QED BY <1>1, <1>2, <1>3 DEF Executions

LEMMA ApplyFacts ==
  ASSUME IInv, NEW a \in App, NEW c \in Config \cup {NoConfig}, Apply(a, c), NEW b \in App
  PROVE  Executions(b)' = Executions(b)
<1>1. active[b] \in Nat /\ draining[b] \in Nat /\ retired[b] \in Nat
  BY DEF IInv, TypeOK
<1>2. CASE b = a
  <2>1. /\ active'[b] = 0
        /\ draining'[b] = IF Dropped(a, c) THEN 0 ELSE draining[b] + active[b]
        /\ retired'[b] = IF Dropped(a, c) THEN retired[b] + draining[b] + active[b] ELSE retired[b]
    BY <1>2 DEF Apply, IInv, TypeOK
  <2>2. QED BY <1>1, <2>1 DEF Executions
<1>3. CASE b # a
  BY <1>3 DEF Apply, Executions, IInv, TypeOK
<1>4. QED BY <1>2, <1>3

LEMMA InvStep == ASSUME IInv, [Next]_vars PROVE IInv'
<1>1. TypeOK'
  BY TypeStep DEF IInv
<1>2. \A a \in App : Executions(a) \in Nat
  BY DEF IInv, TypeOK, Executions
<1>3. ASSUME NEW a \in App, Grow(a) PROVE Founded' /\ Reserved'
  <2>1. \A b \in App : Scheduled(b) => Executions(b)' <= Executions(b)
    BY <1>2, <1>3, GrowFacts
  <2>2. UNCHANGED <<config, nextRun, scheduled>>
    BY <1>3 DEF Grow
  <2>3. QED BY <1>1, <2>1, <2>2, OtherReserved
<1>4. ASSUME NEW a \in App, Retire(a) PROVE Founded' /\ Reserved'
  <2>1. \A b \in App : Scheduled(b) => Executions(b)' <= Executions(b)
    BY <1>2, <1>4, RetireFacts
  <2>2. UNCHANGED <<config, nextRun, scheduled>>
    BY <1>4 DEF Retire
  <2>3. QED BY <1>1, <2>1, <2>2, OtherReserved
<1>5. ASSUME NEW a \in App, Finish(a) PROVE Founded' /\ Reserved'
  BY <1>1, <1>5, FinishFacts, OtherReserved DEF Finish
<1>6. ASSUME Pass \/ Shutdown \/ Over \/ UNCHANGED vars PROVE Founded' /\ Reserved'
  <2>1. UNCHANGED <<config, nextRun, scheduled, active, draining, retired>>
    BY <1>6 DEF Pass, Shutdown, Over, vars
  <2>2. \A a \in App : Executions(a)' = Executions(a)
    BY <2>1 DEF Executions
  <2>3. QED BY <1>1, <1>2, <2>1, <2>2, OtherReserved
<1>7. QED
  BY <1>1, <1>3, <1>4, <1>5, <1>6, TickReserved, ApplyReserved DEF Next, IInv

\* An occurrence adds one execution, and one that was reserved.
LEMMA TickWithin ==
  ASSUME IInv, NEW ready \in SUBSET App, NEW failing \in SUBSET ready, Tick(ready, failing),
         NEW a \in App, Scheduled(a), Executions(a)' > Executions(a)
  PROVE  Executions(a)' <= Limit[config[a]]
<1>1. active[a] \in Nat /\ draining[a] \in Nat /\ retired[a] \in Nat
  BY DEF IInv, TypeOK
<1>2. retired' = retired
  BY DEF Tick
<1>3. CASE config[a] # NoConfig /\ a \notin ready
  <2>1. active'[a] = 0 /\ draining'[a] = draining[a] + active[a]
    BY <1>3 DEF Tick
  <2>2. QED BY <1>1, <1>2, <2>1 DEF Executions
<1>4. CASE ~(config[a] # NoConfig /\ a \notin ready)
  <2>1. draining'[a] = draining[a]
    BY <1>4 DEF Tick
  <2>2. CASE scheduled[a] \/ a \in Accepted
    <3>1. config[a] # NoConfig /\ HasRoom(a)
      BY <2>2 DEF IInv, Reserved, Accepted, Due
    <3>2. active'[a] = active[a] \/ active'[a] = active[a] + 1
      BY <1>4 DEF Tick
    <3>3. Limit[config[a]] \in Nat
      BY <3>1, LimitType DEF IInv, TypeOK
    <3>4. QED BY <1>1, <1>2, <2>1, <3>1, <3>2, <3>3 DEF HasRoom, Executions
  <2>3. CASE ~(scheduled[a] \/ a \in Accepted)
    <3>1. active'[a] = active[a]
      BY <1>4, <2>3 DEF Tick
    <3>2. QED BY <1>1, <1>2, <2>1, <3>1 DEF Executions
  <2>4. QED BY <2>2, <2>3
<1>5. QED BY <1>3, <1>4

LEMMA WithinStep ==
  ASSUME IInv, [Next]_vars, NEW a \in App,
         Executions(a)' > Executions(a), Periodic(config[a]) \/ Cron(config[a])
  PROVE  Executions(a)' <= Limit[config[a]]
<1> USE DEF Scheduled
<1>1. Executions(a) \in Nat
  BY DEF IInv, TypeOK, Executions
<1>2. ASSUME Executions(a)' <= Executions(a) \/ Executions(a)' = Executions(a) PROVE FALSE
  <2>1. IInv'
    BY InvStep
  <2>2. Executions(a)' \in Nat
    BY <2>1 DEF IInv, TypeOK, Executions
  <2> HIDE DEF Executions
  <2>3. QED BY <1>1, <1>2, <2>2
<1>3. ASSUME NEW b \in App, Grow(b) PROVE FALSE
  BY <1>2, <1>3, GrowFacts
<1>4. ASSUME NEW b \in App, Retire(b) PROVE FALSE
  BY <1>2, <1>4, RetireFacts
<1>5. ASSUME NEW b \in App, Finish(b) PROVE FALSE
  BY <1>2, <1>5, FinishFacts
<1>6. ASSUME NEW b \in App, NEW c \in Config \cup {NoConfig}, Apply(b, c) PROVE FALSE
  BY <1>2, <1>6, ApplyFacts
<1>7. ASSUME Pass \/ Shutdown \/ Over \/ UNCHANGED vars PROVE FALSE
  BY <1>2, <1>7 DEF Pass, Shutdown, Over, vars, Executions
<1>8. QED BY <1>3, <1>4, <1>5, <1>6, <1>7, TickWithin DEF Next

-----------------------------------------------------------------------------
(* The theorems *)

LEMMA Inductive == Spec => []IInv
<1>1. Init => IInv
  <2> SUFFICES ASSUME Init PROVE IInv
    OBVIOUS
  <2>1. now \in Nat
    BY ScheduleAssumption DEF Init
  <2>2. nextRun \in [App -> Int]
    BY <2>1, SlotType, ScheduleAssumption DEF Init, Never
  <2>3. TypeOK
    BY <2>1, <2>2, ScheduleAssumption DEF Init, TypeOK
  <2>4. Founded
    BY DEF Init, Founded, Scheduled, NextSlot
  <2>5. Reserved
    BY DEF Init, Reserved
  <2>6. QED BY <2>3, <2>4, <2>5 DEF IInv
<1>2. IInv /\ [Next]_vars => IInv'
  BY InvStep
<1>3. QED BY <1>1, <1>2, PTL DEF Spec

\* Every variable keeps its type; the next occurrence of a late schedule stays a
\* moment (main.go:957-970).
THEOREM TypeCorrect == Spec => []TypeOK
<1>1. IInv => TypeOK
  BY DEF IInv
<1>2. QED BY <1>1, Inductive, PTL

\* An execution that was reserved still fits when it starts, however long its
\* dependencies have made it wait (main.go:971-985).
THEOREM ReservedAlways == Spec => []Reserved
<1>1. IInv => Reserved
  BY DEF IInv
<1>2. QED BY <1>1, Inductive, PTL

\* The executions of a schedule stay within its limit, those of replaced and
\* removed records included (main.go:971-985).
THEOREM WithinLimitAlways == Spec => WithinLimit
<1>1. IInv /\ [Next]_vars =>
        [\A a \in App :
           Executions(a)' > Executions(a) /\ (Periodic(config[a]) \/ Cron(config[a]))
             => Executions(a)' <= Limit[config[a]]]_vars
  BY WithinStep
<1>2. QED BY <1>1, Inductive, PTL DEF Spec, WithinLimit

-----------------------------------------------------------------------------
(* Remainders *)

\* Division with remainder.
LEMMA Division ==
  ASSUME NEW n \in Int, NEW d \in Int, d > 0
  PROVE  n = d * (n \div d) + (n % d) /\ n \div d \in Int /\ n % d \in 0 .. (d - 1)
OBVIOUS

\* The remainder is the only one.
LEMMA Remainder ==
  ASSUME NEW n \in Int, NEW d \in Int, d > 0, NEW q \in Int, NEW r \in Int,
         n = d * q + r, 0 <= r, r < d
  PROVE  n % d = r /\ n \div d = q
OBVIOUS

\* Multiples are those of some number.
LEMMA Multiple ==
  ASSUME NEW n \in Int, NEW d \in Int, d > 0, n % d = 0
  PROVE  \E q \in Int : n = d * q
OBVIOUS

LEMMA IsMultiple ==
  ASSUME NEW d \in Int, d > 0, NEW q \in Int, NEW n \in Int, n = d * q
  PROVE  n % d = 0
BY Remainder

\* There is none between two that follow each other.
LEMMA NoneBetween ==
  ASSUME NEW d \in Int, d > 0, NEW q \in Int, NEW k \in Int,
         d * q < d * k, d * k < d * (q + 1)
  PROVE  FALSE
<1>1. CASE k <= q
  <2>1. d * (q - k) >= 0
    BY <1>1
  <2>2. d * (q - k) = d * q - d * k
    OBVIOUS
  <2>3. QED BY <2>1, <2>2
<1>2. CASE k >= q + 1
  <2>1. d * (k - (q + 1)) >= 0
    BY <1>2
  <2>2. d * (k - (q + 1)) = d * k - d * (q + 1)
    OBVIOUS
  <2>3. QED BY <2>1, <2>2
<1>3. QED BY <1>1, <1>2

\* A step more or less keeps the remainder.
LEMMA ShiftedRemainder ==
  ASSUME NEW n \in Int, NEW d \in Int, d > 0
  PROVE  (n - d) % d = n % d
<1> DEFINE q == n \div d
           r == n % d
<1>1. n = d * q + r /\ q \in Int /\ r \in Int /\ 0 <= r /\ r < d
  BY Division
<1> HIDE DEF q, r
<1>2. n - d = d * (q - 1) + r /\ n - d \in Int /\ q - 1 \in Int
  BY <1>1
<1>3. (n - d) % d = r
  BY <1>1, <1>2, Remainder
<1>4. QED BY <1>3 DEF r

-----------------------------------------------------------------------------
(* The bits of a crontab field *)

\* The least number of a set, which is how a proof by induction is put here.
Less == {pair \in Nat \X Nat : pair[1] < pair[2]}

LEMMA LessFounded == IsWellFoundedOn(Less, Nat)
<1>1. OpToRel(<, Nat) = Less
  BY DEF Less, OpToRel
<1>2. QED BY <1>1, NatLessThanWellFounded

LEMMA Least ==
  ASSUME NEW T, T \subseteq Nat, T # {} PROVE \E x \in T : \A y \in T : x <= y
<1>1. PICK x \in T : \A y \in T : <<y, x>> \notin Less
  BY LessFounded, WFMin
<1>2. ASSUME NEW y \in T PROVE x <= y
  <2>1. x \in Nat /\ y \in Nat
    OBVIOUS
  <2>2. ~(y < x)
    BY <1>1, <2>1 DEF Less
  <2>3. QED BY <2>1, <2>2
<1>3. QED BY <1>2

\* The numbers that steps reach from first on.
Reached(first, last, step) == {v \in first .. last : (v - first) % step = 0}

LEMMA ReachedStep ==
  ASSUME NEW n \in Int, NEW last \in Int, n <= last, NEW step \in Nat \ {0}
  PROVE  Reached(n, last, step) =
           {n} \cup (IF step > last - n THEN {} ELSE Reached(n + step, last, step))
<1>1. ASSUME NEW v \in n .. last, v < n + step, v # n PROVE (v - n) % step # 0
  <2>1. v - n = step * 0 + (v - n) /\ 0 <= v - n /\ v - n < step
    BY <1>1
  <2>2. QED BY <1>1, <2>1, Remainder
<1>2. ASSUME NEW v \in Int PROVE (v - n) % step = (v - (n + step)) % step
  <2>1. v - (n + step) = (v - n) - step
    OBVIOUS
  <2>2. QED BY <2>1, ShiftedRemainder
<1>3. (n - n) % step = 0
  BY Remainder
<1> DEFINE more == IF step > last - n THEN {} ELSE Reached(n + step, last, step)
<1>4. ASSUME NEW v PROVE v \in Reached(n, last, step) <=> v = n \/ v \in more
  <2>1. CASE v \notin n .. last
    BY <2>1 DEF Reached
  <2>2. CASE v \in n .. last /\ v = n
    BY <1>3, <2>2 DEF Reached
  <2>3. CASE v \in n .. last /\ v # n /\ v < n + step
    BY <1>1, <2>3 DEF Reached
  <2>4. CASE v \in n .. last /\ v >= n + step
    <3>1. v # n /\ more = Reached(n + step, last, step) /\ v \in (n + step) .. last
      BY <2>4
    <3>2. (v - n) % step = (v - (n + step)) % step
      BY <1>2, <2>4
    <3> HIDE DEF more
    <3>3. QED BY <2>4, <3>1, <3>2 DEF Reached
  <2>5. QED BY <2>1, <2>2, <2>3, <2>4
<1>5. QED BY <1>4

\* A table of the loop's results: what it sets from each number on.
Marks(mark, first, last, step) ==
  mark = [n \in first .. last |-> {n} \cup (IF step > last - n THEN {} ELSE mark[n + step])]

\* There is one ...
LEMMA MarksExist ==
  ASSUME NEW first \in Int, NEW last \in Int, NEW step \in Nat \ {0}
  PROVE  Marks([n \in first .. last |-> Reached(n, last, step)], first, last, step)
<1> DEFINE mark == [n \in first .. last |-> Reached(n, last, step)]
<1>1. ASSUME NEW n \in first .. last
      PROVE  mark[n] = {n} \cup (IF step > last - n THEN {} ELSE mark[n + step])
  BY <1>1, ReachedStep
<1>2. QED BY <1>1 DEF Marks

\* ... and no other, by induction from the last number down.
LEMMA MarksUnique ==
  ASSUME NEW first \in Int, NEW last \in Int, NEW step \in Nat \ {0},
         NEW mark, Marks(mark, first, last, step), NEW n \in first .. last
  PROVE  mark[n] = Reached(n, last, step)
<1> DEFINE T == {k \in Nat : /\ last - k \in first .. last
                             /\ mark[last - k] # Reached(last - k, last, step)}
<1>1. ASSUME T # {} PROVE FALSE
  <2>1. PICK k \in T : \A j \in T : k <= j
    BY <1>1, Least
  <2>2. last - k \in first .. last /\ k \in Nat /\ mark[last - k] # Reached(last - k, last, step)
    OBVIOUS
  <2>3. mark[last - k] = {last - k} \cup (IF step > k THEN {} ELSE mark[last - k + step])
    BY <2>2 DEF Marks
  <2>4. CASE step > k
    BY <2>2, <2>3, <2>4, ReachedStep
  <2>5. CASE step <= k
    <3>1. /\ k - step \in Nat /\ k - step < k
          /\ last - (k - step) = last - k + step /\ last - k + step \in first .. last
      BY <2>2, <2>5
    <3>2. k - step \notin T
      BY <2>1, <3>1
    <3>3. mark[last - k + step] = Reached(last - k + step, last, step)
      BY <3>1, <3>2
    <3>4. QED BY <2>2, <2>3, <2>5, <3>3, ReachedStep
  <2>6. QED BY <2>2, <2>4, <2>5
<1>2. last - n \in Nat /\ last - (last - n) = n
  OBVIOUS
<1>3. QED BY <1>1, <1>2

\* The loop of cronField() sets the bits that steps reach.
LEMMA MarkedReached ==
  ASSUME NEW first \in Int, NEW last \in Int, first <= last, NEW step \in Nat \ {0}
  PROVE  Marked(first, last, step) = Reached(first, last, step)
<1> DEFINE mark == CHOOSE f : Marks(f, first, last, step)
<1>1. Marks(mark, first, last, step)
  BY MarksExist
<1>2. Marked(first, last, step) = mark[first]
  BY DEF Marked, Marks
<1>3. QED BY <1>1, <1>2, MarksUnique

\* What cronField() accepts, it turns into the numbers the list names.
LEMMA FieldNames ==
  ASSUME NEW i \in Field, NEW field, \A k \in DOMAIN field : field[k] \in Item,
         FieldOK(field, Lowest[i], Highest[i]), NEW v \in Int
  PROVE  v \in CronField(field, Lowest[i], Highest[i]) <=> Names(field, i, v)
<1>1. Lowest[i] \in Int /\ Highest[i] \in Int /\ Lowest[i] <= Highest[i]
  BY DEF Field, Lowest, Highest
<1> DEFINE bits(k) == IF field[k].star THEN Marked(Lowest[i], Highest[i], field[k].step)
                      ELSE Marked(field[k].first, field[k].last, field[k].step)
           first(k) == IF field[k].star THEN Lowest[i] ELSE field[k].first
           last(k) == IF field[k].star THEN Highest[i] ELSE field[k].last
<1>2. ASSUME NEW k \in DOMAIN field
      PROVE  v \in bits(k) <=> first(k) <= v /\ v <= last(k) /\ (v - first(k)) % field[k].step = 0
  <2>1. /\ field[k].star \in BOOLEAN /\ field[k].first \in Int /\ field[k].last \in Int
        /\ field[k].step \in Nat \ {0}
    BY DEF Item
  <2>2. /\ first(k) \in Int /\ last(k) \in Int /\ first(k) <= last(k)
        /\ bits(k) = Marked(first(k), last(k), field[k].step)
    BY <1>1, <2>1 DEF FieldOK
  <2> HIDE DEF bits, first, last
  <2>3. bits(k) = Reached(first(k), last(k), field[k].step)
    BY <2>1, <2>2, MarkedReached
  <2>4. QED BY <2>2, <2>3 DEF Reached
<1>3. CronField(field, Lowest[i], Highest[i]) = UNION {bits(k) : k \in DOMAIN field}
  BY DEF CronField
<1>4. Names(field, i, v) <=>
        \E k \in DOMAIN field :
          first(k) <= v /\ v <= last(k) /\ (v - first(k)) % field[k].step = 0
  BY DEF Names
<1> HIDE DEF bits, first, last
<1>5. QED BY <1>2, <1>3, <1>4

\* schedule.matches() is crontab(5) for every expression that Load() accepts and every
\* moment: the bit masks of parseSchedule(), main.go:838-955, with 7 for Sunday and the
\* rule for two restricted day fields.
THEOREM MatchesNamed ==
  ASSUME NEW c \in Config, Cron(c), ParseSchedule(c),
         NEW values, \A i \in Field : values[i] \in Int
  PROVE  Matches(c, values) <=> Named(c, values)
<1> DEFINE fields == Expression[c].fields
           mask(i) == CronField(fields[i], Lowest[i], Highest[i])
           matched(i) == values[i] \in mask(i) \/ (i = 5 /\ values[5] = 0 /\ 7 \in mask(5))
<1>1. ASSUME NEW i \in Field, NEW v \in Int
      PROVE  v \in mask(i) <=> Names(fields[i], i, v)
  BY ExpressionAssumption, FieldNames DEF ParseSchedule
<1>2. Matches(c, values) <=>
        /\ matched(1) /\ matched(2) /\ matched(4)
        /\ IF Wild(fields[3]) \/ Wild(fields[5]) THEN matched(3) /\ matched(5)
           ELSE matched(3) \/ matched(5)
  BY DEF Matches
<1>3. 1 \in Field /\ 2 \in Field /\ 3 \in Field /\ 4 \in Field /\ 5 \in Field
  BY DEF Field
<1>4. ASSUME NEW i \in {1, 2, 3, 4} PROVE matched(i) <=> Names(fields[i], i, values[i])
  BY <1>1, <1>3, <1>4 DEF Field
<1>5. matched(5) <=> Names(fields[5], 5, values[5]) \/ (values[5] = 0 /\ Names(fields[5], 5, 7))
  BY <1>1, <1>3
<1> HIDE DEF matched, mask
<1>6. Named(c, values) <=>
        /\ matched(1) /\ matched(2) /\ matched(4)
        /\ \/ matched(3) /\ matched(5)
           \/ ~Wild(fields[3]) /\ ~Wild(fields[5]) /\ (matched(3) \/ matched(5))
  BY <1>4, <1>5 DEF Named, Wild
<1>7. QED BY <1>2, <1>6

-----------------------------------------------------------------------------
(* Occurrences *)

SlotOf(c, from, t) ==
  \/ Periodic(c) /\ t > from /\ (t - from) % Expression[c].period = 0
  \/ Cron(c) /\ t % Minute = 0

\* t is the first moment after `since` of a schedule that was installed at `from`.
First(c, from, since, t) ==
  /\ SlotOf(c, from, t)
  /\ t > since
  /\ \A u \in Int : since < u /\ u < t => ~SlotOf(c, from, u)

LEMMA KindsDiffer == ASSUME NEW c \in Config PROVE ~(Periodic(c) /\ Cron(c))
BY DEF Periodic, Cron

\* schedule.next() names the first moment after now: of an interval that starts now,
\* or of a crontab.
LEMMA NextFirst ==
  ASSUME NEW c \in Config, NEW from \in Nat, NEW t \in Nat,
         Cron(c) \/ (Periodic(c) /\ from = t)
  PROVE  First(c, from, t, NextSlot(c, t))
<1>1. CASE Periodic(c) /\ from = t
  <2> DEFINE p == Expression[c].period
  <2>1. p \in Nat \ {0} /\ NextSlot(c, t) = t + p /\ ~Cron(c)
    BY <1>1, ExpressionAssumption, KindsDiffer DEF NextSlot
  <2> HIDE DEF p
  <2>2. (t + p - t) % p = 0
    BY <2>1, IsMultiple
  <2>3. ASSUME NEW u \in Int, t < u, u < t + p PROVE (u - t) % p # 0
    <3>1. u - t = p * 0 + (u - t) /\ 0 \in Int
      BY <2>1
    <3>2. QED BY <2>1, <2>3, <3>1, Remainder
  <2>4. SlotOf(c, from, t + p)
    BY <1>1, <2>1, <2>2 DEF SlotOf, p
  <2>5. ASSUME NEW u \in Int, t < u, u < t + p PROVE ~SlotOf(c, from, u)
    BY <1>1, <2>1, <2>3, <2>5 DEF SlotOf, p
  <2>6. QED BY <2>1, <2>4, <2>5 DEF First
<1>2. CASE Cron(c)
  <2> DEFINE q == t \div Minute
             r == t % Minute
  <2>1. Minute \in Int /\ Minute > 0 /\ ~Periodic(c)
    BY <1>2, ScheduleAssumption, KindsDiffer
  <2>2. t = Minute * q + r /\ q \in Int /\ r \in Int /\ 0 <= r /\ r < Minute
    BY <2>1, Division
  <2>3. NextSlot(c, t) = (q + 1) * Minute
    BY <1>2, <2>1 DEF NextSlot, MinuteOf
  <2> HIDE DEF q, r
  <2> DEFINE n == Minute * (q + 1)
  <2>4. n = (q + 1) * Minute /\ n \in Int /\ n = Minute * q + Minute
    BY <2>1, <2>2
  <2>5. n % Minute = 0
    BY <2>1, <2>2, <2>4, IsMultiple
  <2>6. n > t
    BY <2>1, <2>2, <2>4
  <2>7. ASSUME NEW u \in Int, t < u, u < n, u % Minute = 0 PROVE FALSE
    <3>1. PICK k \in Int : u = Minute * k
      BY <2>1, <2>7, Multiple
    <3>2. Minute * q < Minute * k /\ Minute * k < Minute * (q + 1)
      <4>1. Minute * q \in Int
        BY <2>1, <2>2
      <4>2. QED BY <2>1, <2>2, <2>7, <3>1, <4>1
    <3>3. QED BY <2>1, <2>2, <3>2, NoneBetween
  <2> HIDE DEF n
  <2>8. QED BY <1>2, <2>1, <2>3, <2>4, <2>5, <2>6, <2>7 DEF First, SlotOf
<1>3. QED BY <1>1, <1>2

\* A late tick advances an interval on its cadence: scheduleDue(), main.go:962-966.
LEMMA LateFirst ==
  ASSUME NEW c \in Config, Periodic(c), NEW from \in Nat, NEW next \in Int, SlotOf(c, from, next),
         NEW t \in Nat, t >= next
  PROVE  First(c, from, t, t + (Expression[c].period - ((t - next) % Expression[c].period)))
<1> DEFINE p == Expression[c].period
           q == (t - next) \div p
           r == (t - next) % p
           n == t + (p - r)
<1>1. p \in Int /\ p > 0 /\ ~Cron(c)
  BY ExpressionAssumption, KindsDiffer
<1>3. next > from /\ (next - from) % p = 0
  BY <1>1 DEF SlotOf
<1> HIDE DEF p
<1>2. t - next = p * q + r /\ q \in Int /\ r \in Int /\ 0 <= r /\ r < p
  BY <1>1, Division
<1> HIDE DEF q, r
<1>4. PICK k \in Int : next - from = p * k
  <2>1. next - from \in Int
    OBVIOUS
  <2>2. QED BY <1>1, <1>3, <2>1, Multiple
<1>5. p * q \in Int /\ p * k \in Int
  BY <1>1, <1>2
<1>6. n - from = p * (k + q + 1)
  <2>1. p * (k + q + 1) = p * k + p * q + p
    BY <1>1, <1>2
  <2>2. QED BY <1>1, <1>2, <1>4, <1>5, <2>1
<1>7. n \in Int /\ n > t /\ n > from /\ (n - from) % p = 0
  <2>1. n \in Int /\ n > t /\ n > from
    BY <1>1, <1>2, <1>3
  <2>2. QED BY <1>1, <1>2, <1>6, <2>1, IsMultiple
<1>8. ASSUME NEW u \in Int, t < u, u < n, (u - from) % p = 0 PROVE FALSE
  <2>1. PICK m \in Int : u - from = p * m
    BY <1>1, <1>8, Multiple
  <2>2. p * m \in Int /\ p * (k + q) = p * k + p * q /\ p * (k + q + 1) = p * k + p * q + p
    BY <1>1, <1>2
  <2>3. p * (k + q) < p * m
    BY <1>1, <1>2, <1>4, <1>5, <1>8, <2>1, <2>2
  <2>4. p * m < p * ((k + q) + 1)
    BY <1>1, <1>2, <1>4, <1>5, <1>8, <2>1, <2>2
  <2>5. QED BY <1>1, <1>2, <2>3, <2>4, NoneBetween
<1> HIDE DEF n
<1>9. First(c, from, t, n)
  BY <1>1, <1>7, <1>8 DEF First, SlotOf, p
<1>10. QED BY <1>9 DEF n, r, p

\* Whatever tick last looked at a schedule, its next occurrence is the first moment
\* after that tick; and no time is outside the calendar.
Ahead ==
  /\ now <= Horizon
  /\ \A a \in App :
       /\ installed[a] <= looked[a] /\ looked[a] <= now
       /\ config[a] # NoConfig => ParseSchedule(config[a])
       /\ config[a] # NoConfig /\ Scheduled(a)
            => First(config[a], installed[a], looked[a], nextRun[a])

\* A record that stays as it is, while time passes.
LEMMA StaysAhead ==
  ASSUME Ahead, TypeOK, now' \in Nat, now <= now', now' <= Horizon,
         UNCHANGED <<config, nextRun, looked, installed>>
  PROVE  Ahead'
<1>1. ASSUME NEW a \in App
      PROVE  /\ installed'[a] <= looked'[a] /\ looked'[a] <= now'
             /\ config'[a] # NoConfig => ParseSchedule(config'[a])
             /\ config'[a] # NoConfig /\ Scheduled(a)'
                  => First(config'[a], installed'[a], looked'[a], nextRun'[a])
  <2>1. looked[a] <= now'
    BY DEF Ahead, TypeOK
  <2>2. Scheduled(a)' <=> Scheduled(a)
    BY DEF Scheduled, Periodic, Cron
  <2>3. QED BY <2>1, <2>2 DEF Ahead
<1>2. QED BY <1>1 DEF Ahead, ParseSchedule, Cron, First, SlotOf, Periodic

\* A tick is the latest look, and advances what it finds due.
LEMMA TickAhead ==
  ASSUME IInv, Ahead, NEW ready \in SUBSET App, NEW failing \in SUBSET ready, Tick(ready, failing)
  PROVE  Ahead'
<1>1. /\ now' = now /\ config' = config /\ installed' = installed
      /\ looked' = [a \in App |-> now]
      /\ nextRun' = [a \in App |-> IF Due(a) THEN Advanced(a) ELSE nextRun[a]]
  BY DEF Tick
<1>2. ASSUME NEW a \in App, config[a] # NoConfig, Scheduled(a)
      PROVE  First(config[a], installed[a], now, nextRun'[a])
  <2>1. /\ config[a] \in Config /\ installed[a] \in Nat /\ now \in Nat /\ nextRun[a] \in Int
        /\ looked[a] \in Nat /\ looked[a] <= now
        /\ First(config[a], installed[a], looked[a], nextRun[a])
    BY <1>2 DEF IInv, TypeOK, Ahead
  <2>2. CASE ~Due(a)
    <3>1. nextRun'[a] = nextRun[a] /\ now < nextRun[a]
      BY <1>1, <1>2, <2>1, <2>2 DEF Due, First, Never
    <3>2. QED BY <2>1, <3>1 DEF First
  <2>3. CASE Due(a) /\ Periodic(config[a])
    <3>1. now >= nextRun[a] /\ nextRun'[a] = Advanced(a)
      BY <1>1, <2>3 DEF Due
    <3>2. SlotOf(config[a], installed[a], nextRun[a])
      BY <2>1 DEF First
    <3>3. QED BY <2>1, <2>3, <3>1, <3>2, LateFirst DEF Advanced
  <2>4. CASE Due(a) /\ Cron(config[a])
    <3>1. nextRun'[a] = NextSlot(config[a], now)
      BY <1>1, <2>1, <2>4, KindsDiffer DEF Advanced
    <3>2. QED BY <2>1, <2>4, <3>1, NextFirst
  <2>5. QED BY <1>2, <2>2, <2>3, <2>4 DEF Scheduled
<1>3. ASSUME NEW a \in App PROVE installed[a] <= now /\ looked'[a] = now /\ now <= now
  BY <1>1 DEF IInv, TypeOK, Ahead
<1>4. \A a \in App : Scheduled(a)' <=> Scheduled(a)
  BY <1>1 DEF Scheduled, Periodic, Cron
<1>5. QED BY <1>1, <1>2, <1>3, <1>4 DEF Ahead, ParseSchedule, Cron, First, SlotOf, Periodic

\* A schedule that is installed is looked at.
LEMMA ApplyAhead ==
  ASSUME IInv, Ahead, NEW a \in App, NEW c \in Config \cup {NoConfig}, Apply(a, c)
  PROVE  Ahead'
<1>1. /\ now' = now /\ now \in Nat
      /\ c # NoConfig => ParseSchedule(c)
  BY DEF Apply, IInv, TypeOK
<1>2. ASSUME NEW b \in App
      PROVE  /\ installed'[b] <= looked'[b] /\ looked'[b] <= now'
             /\ config'[b] # NoConfig => ParseSchedule(config'[b])
             /\ config'[b] # NoConfig /\ (Periodic(config'[b]) \/ Cron(config'[b]))
                  => First(config'[b], installed'[b], looked'[b], nextRun'[b])
  <2>1. CASE b = a
    <3>1. /\ config'[b] = c /\ installed'[b] = now /\ looked'[b] = now
          /\ c # NoConfig => nextRun'[b] = NextSlot(c, now)
      BY <2>1 DEF Apply, IInv, TypeOK
    <3>2. QED BY <1>1, <3>1, NextFirst
  <2>2. CASE b # a
    <3>1. /\ config'[b] = config[b] /\ installed'[b] = installed[b] /\ looked'[b] = looked[b]
          /\ nextRun'[b] = nextRun[b]
      BY <2>2 DEF Apply, IInv, TypeOK
    <3>2. QED BY <1>1, <3>1 DEF Ahead, Scheduled
  <2>3. QED BY <2>1, <2>2
<1>3. QED BY <1>1, <1>2 DEF Ahead, Scheduled, ParseSchedule, Cron, First, SlotOf, Periodic

LEMMA AheadStep == ASSUME IInv, Ahead, [Next]_vars PROVE Ahead'
<1>1. now \in Nat /\ Horizon \in Nat /\ now <= Horizon
  BY ScheduleAssumption DEF IInv, TypeOK, Ahead
<1>2. ASSUME NEW a \in App, Grow(a) \/ Retire(a) \/ Finish(a) PROVE Ahead'
  <2>1. UNCHANGED <<now, config, nextRun, looked, installed>>
    BY <1>2 DEF Grow, Retire, Finish
  <2>2. QED BY <1>1, <2>1, StaysAhead DEF IInv
<1>3. CASE Pass
  BY <1>1, <1>3, StaysAhead DEF Pass, IInv
<1>4. ASSUME Shutdown \/ Over \/ UNCHANGED vars PROVE Ahead'
  <2>1. UNCHANGED <<now, config, nextRun, looked, installed>>
    BY <1>4 DEF Shutdown, Over, vars
  <2>2. QED BY <1>1, <2>1, StaysAhead DEF IInv
<1>5. QED BY <1>2, <1>3, <1>4, TickAhead, ApplyAhead DEF Next

LEMMA AheadFirst == ASSUME Init PROVE Ahead
<1>1. now \in Nat /\ now <= Horizon
  BY ScheduleAssumption DEF Init
<1>2. ASSUME NEW a \in App, config[a] # NoConfig
      PROVE  ParseSchedule(config[a]) /\ (Scheduled(a) => First(config[a], now, now, nextRun[a]))
  <2>1. config[a] \in Config /\ nextRun[a] = NextSlot(config[a], now) /\ ParseSchedule(config[a])
    BY <1>2, ScheduleAssumption, InitialAssumption DEF Init
  <2>2. QED BY <1>1, <2>1, NextFirst DEF Scheduled
<1>3. QED BY <1>1, <1>2 DEF Ahead, Init

LEMMA AheadAlways == Spec => []Ahead
<1>1. Init => Ahead
  BY AheadFirst
<1>2. IInv /\ Ahead /\ [Next]_vars => Ahead'
  BY AheadStep
<1>3. QED BY <1>1, <1>2, Inductive, PTL DEF Spec

\* A tick finds due what has a moment since the last look.
LEMMA DueSlot ==
  ASSUME IInv, Ahead, NEW a \in App, config[a] # NoConfig
  PROVE  Due(a) <=> \E t \in (looked[a] + 1) .. now : IsSlot(a, t)
<1>1. looked[a] \in Nat /\ now \in Nat /\ nextRun[a] \in Int /\ config[a] \in Config
  BY DEF IInv, TypeOK
<1>2. \A t : IsSlot(a, t) <=> SlotOf(config[a], installed[a], t)
  BY DEF IsSlot, SlotOf
<1>3. CASE Scheduled(a)
  <2>1. First(config[a], installed[a], looked[a], nextRun[a])
    BY <1>3 DEF Ahead
  <2>2. Due(a) <=> now >= nextRun[a]
    BY <1>1, <2>1 DEF Due, First, Never
  <2>3. ASSUME now >= nextRun[a] PROVE \E t \in (looked[a] + 1) .. now : IsSlot(a, t)
    BY <1>1, <1>2, <2>1, <2>3 DEF First
  <2>4. ASSUME NEW t \in (looked[a] + 1) .. now, IsSlot(a, t) PROVE now >= nextRun[a]
    BY <1>1, <1>2, <2>1, <2>4 DEF First
  <2>5. QED BY <2>2, <2>3, <2>4
<1>4. CASE ~Scheduled(a)
  <2>1. ~Due(a)
    BY <1>4 DEF Due, IInv, Founded
  <2>2. \A t : ~IsSlot(a, t)
    BY <1>4 DEF IsSlot, Scheduled
  <2>3. QED BY <2>1, <2>2
<1>5. QED BY <1>3, <1>4

\* What a tick accepts.
LEMMA AcceptedNamed ==
  ASSUME IInv, Ahead, NEW a \in App
  PROVE  a \in Accepted <=>
           /\ config[a] # NoConfig
           /\ \E t \in (looked[a] + 1) .. now : IsSlot(a, t)
           /\ Cron(config[a]) => Named(config[a], Calendar[MinuteOf(now)])
           /\ ~scheduled[a] /\ Executions(a) < Limit[config[a]]
<1>1. ASSUME config[a] # NoConfig, Cron(config[a])
      PROVE  Matches(config[a], Calendar[MinuteOf(now)]) <=> Named(config[a], Calendar[MinuteOf(now)])
  <2>1. now \in Nat /\ now <= Horizon /\ Horizon \in Nat /\ Minute \in Nat \ {0}
    BY ScheduleAssumption DEF IInv, TypeOK, Ahead
  <2>2. MinuteOf(now) \in 0 .. (Horizon \div Minute)
    BY <2>1 DEF MinuteOf
  <2>3. \A i \in Field : Calendar[MinuteOf(now)][i] \in Int
    BY <2>2, ScheduleAssumption
  <2>4. config[a] \in Config /\ ParseSchedule(config[a])
    BY <1>1 DEF IInv, TypeOK, Ahead
  <2>5. QED BY <1>1, <2>3, <2>4, MatchesNamed
<1>2. Due(a) => config[a] # NoConfig
  BY DEF Due
<1>3. QED BY <1>1, <1>2, DueSlot DEF Accepted, HasRoom

LEMMA OccurrenceStep ==
  ASSUME IInv, Ahead, Next, vars' # vars, NEW a \in App
  PROVE  a \in fired' <=>
           /\ config'[a] = config[a] /\ config[a] # NoConfig
           /\ \E t \in (looked[a] + 1) .. looked'[a] : IsSlot(a, t)
           /\ Cron(config[a]) => Named(config[a], Calendar[MinuteOf(now)])
           /\ ~scheduled[a] /\ Executions(a) < Limit[config[a]]
<1>0. looked[a] \in Nat
  BY DEF IInv, TypeOK
<1>1. ASSUME NEW ready \in SUBSET App, NEW failing \in SUBSET ready, Tick(ready, failing)
      PROVE  fired' = Accepted /\ config' = config /\ looked'[a] = now
  BY <1>1 DEF Tick
<1>2. ASSUME NEW b \in App, NEW c \in Config \cup {NoConfig}, Apply(b, c)
      PROVE  fired' = {} /\ (config'[a] # config[a] \/ looked'[a] = looked[a])
  BY <1>2 DEF Apply, IInv, TypeOK
<1>3. ASSUME NEW b \in App, Grow(b) \/ Retire(b) \/ Finish(b)
      PROVE  fired' = {} /\ looked' = looked
  BY <1>3 DEF Grow, Retire, Finish
<1>4. ASSUME Pass \/ Shutdown PROVE fired' = {} /\ looked' = looked
  BY <1>4 DEF Pass, Shutdown
<1>5. ~Over
  BY DEF Over
<1>6. \/ fired' = Accepted /\ config' = config /\ looked'[a] = now
      \/ fired' = {} /\ (config'[a] # config[a] \/ looked'[a] = looked[a])
  BY <1>1, <1>2, <1>3, <1>4, <1>5 DEF Next
<1>7. CASE fired' = Accepted /\ config' = config /\ looked'[a] = now
  BY <1>7, AcceptedNamed
<1>8. CASE fired' = {} /\ (config'[a] # config[a] \/ looked'[a] = looked[a])
  BY <1>0, <1>8
<1>9. QED BY <1>6, <1>7, <1>8

\* scheduleDue() accepts each occurrence of every schedule once, late ticks and
\* replaced configurations included, and skips one for no reason but a lack of room
\* (main.go:957-985).
THEOREM EveryOccurrenceAlways == Spec => EveryOccurrence
<1>1. IInv /\ Ahead /\ [Next]_vars =>
        [\A a \in App :
           a \in fired' <=>
             /\ config'[a] = config[a] /\ config[a] # NoConfig
             /\ \E t \in (looked[a] + 1) .. looked'[a] : IsSlot(a, t)
             /\ Cron(config[a]) => Named(config[a], Calendar[MinuteOf(now)])
             /\ ~scheduled[a] /\ Executions(a) < Limit[config[a]]]_vars
  BY OccurrenceStep
<1>2. QED BY <1>1, Inductive, AheadAlways, PTL DEF Spec, EveryOccurrence

=============================================================================
