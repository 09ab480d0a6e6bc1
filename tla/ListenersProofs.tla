--------------------------- MODULE ListenersProofs ---------------------------
(***************************************************************************)
(* What Listeners promises, for any apps, configurations, snapshots and    *)
(* number of identifiers: nothing of a refused snapshot stays but, at      *)
(* worst, the owner of a path; listeners are never left without a          *)
(* notification, and paths have the permissions their services ask for.    *)
(*                                                                         *)
(* The argument: identifiers up to nextListener are used once each; an     *)
(* open socket is either that of a service or one apply() has staged; and  *)
(* while apply() works, what `finish` would restore is what the running    *)
(* configuration asks for, but for the owner of a disowned path.           *)
(*                                                                         *)
(* Seen through that, apply() does nothing until it commits, and then all  *)
(* at once: so Listeners implements Registry.                              *)
(***************************************************************************)
EXTENDS Listeners, TLAPS

USE DEF Id

-----------------------------------------------------------------------------
(* Types *)

\* apply() is refused, one way or the other.
Refusal == Refuse \/ \E a \in App : RefuseHalfway(a)

\* Only the path of a socket is changed.
Files == \A x \in Changed : permission[x] # NoFile

\* Both refusals are one as far as sockets and records go.
LEMMA RefusalEnds ==
  ASSUME TypeOK, Refusal
  PROVE  /\ applying # NoSnapshot /\ applying' = NoSnapshot
         /\ Forget(Abandoned)
         /\ opened' = [a \in App |-> 0] /\ undo' = [x \in Address |-> NoFile]
         /\ nextListener' \in Nat /\ nextListener' >= nextListener /\ nextListener' <= LastListener
         /\ IF poller = "unstarted" THEN phase' = "returning" /\ poller' = "ended"
                                    ELSE UNCHANGED <<phase, poller>>
         /\ UNCHANGED <<config, listener, listeners, demand, reported>>
         /\ fatal => fatal'
<1>1. nextListener' \in Nat /\ nextListener' >= nextListener /\ nextListener' <= LastListener
  <2>1. nextListener' \in {nextListener} \cup (IF MayNumber THEN {nextListener + 1} ELSE {})
    BY DEF Refusal, Refuse, RefuseHalfway, NextAfterRefusal
  <2>2. nextListener \in Nat /\ nextListener <= LastListener /\ LastListener \in Nat
    BY ListenersAssumption DEF TypeOK
  <2>3. QED BY <2>1, <2>2 DEF MayNumber
<1>2. PICK left : Refused(left)
  BY DEF Refusal, Refuse, RefuseHalfway
<1>3. applying # NoSnapshot
  BY DEF Refusal, Refuse, RefuseHalfway, Selecting
<1>4. QED BY <1>1, <1>2, <1>3 DEF Refused, serviceVars

\* What is left of the paths: all that was noted down is given back, except where
\* that fails; of the others one may have lost its owner, and then it is disowned.
Unrestored(left, owners, modes) ==
  /\ permission' = [x \in Address |-> IF x \in Unlinked(Abandoned) THEN NoFile
                                      ELSE Restored(left, owners, modes)[x]]
  /\ fatal' = (fatal \/ owners # {} \/ modes # {})
  /\ disowned \subseteq disowned' /\ disowned' \subseteq Address
  /\ \A x \in Changed : left[x] = permission[x]
  /\ \A x \in Address : left[x] # permission[x] =>
       /\ permission[x] # NoFile /\ left[x] # NoFile
       /\ left[x].mode = permission[x].mode
       /\ x \in disowned' \/ x \in Unlinked(Abandoned)

LEMMA ModeTypes ==
  ASSUME NEW c \in Config
  PROVE  Mode[c] \in Permission /\ Mode[c] # NoFile
         /\ Mode[c].owner \in Owner /\ Mode[c].mode \in FileMode
BY ListenersAssumption DEF Permission

LEMMA RefusalLeaves ==
  ASSUME TypeOK, Files, Refusal
  PROVE  \E left \in [Address -> Permission \cup {NoFile}] :
           \E owners \in SUBSET Changed, modes \in SUBSET Changed : Unrestored(left, owners, modes)
<1>1. CASE Refuse
  <2>1. permission \in [Address -> Permission \cup {NoFile}] /\ disowned \subseteq Address
    BY DEF TypeOK
  <2>2. PICK owners \in SUBSET Changed, modes \in SUBSET Changed :
          /\ permission' = [x \in Address |-> IF x \in Unlinked(Abandoned) THEN NoFile
                                              ELSE Restored(permission, owners, modes)[x]]
          /\ fatal' = (fatal \/ owners # {} \/ modes # {})
    BY <1>1 DEF Refuse, Refused
  <2>3. disowned' = disowned
    BY <1>1 DEF Refuse
  <2>4. Unrestored(permission, owners, modes)
    BY <2>1, <2>2, <2>3 DEF Unrestored
  <2>5. QED BY <2>1, <2>4
<1>2. ASSUME NEW a \in App, RefuseHalfway(a)
      PROVE  \E left \in [Address -> Permission \cup {NoFile}] :
               \E owners \in SUBSET Changed, modes \in SUBSET Changed : Unrestored(left, owners, modes)
  <2> DEFINE X == Listen[applying[a]]
             half == [owner |-> Mode[applying[a]].owner, mode |-> permission[X].mode]
             left == [permission EXCEPT ![X] = half]
  <2>1. applying[a] \in Config /\ X \in Address /\ undo[X] = NoFile
    <3>1. applying # NoSnapshot /\ NeedsPermission(applying, a) /\ undo[X] = NoFile
      BY <1>2 DEF RefuseHalfway, Selecting, Unpermitted
    <3>2. QED BY <3>1, ListenersAssumption DEF TypeOK, NeedsPermission, Listens
  <2>2. permission[X] # NoFile /\ permission[X] \in Permission
    BY <1>2, <2>1 DEF RefuseHalfway, TypeOK
  <2>3. half \in Permission /\ half # NoFile /\ half.mode = permission[X].mode
    <3>1. Mode[applying[a]].owner \in Owner /\ permission[X].mode \in FileMode
      BY <2>1, <2>2, ModeTypes DEF Permission
    <3>2. half \in Permission
      BY <3>1 DEF Permission
    <3>3. QED BY <3>2, ListenersAssumption
  <2>4. PICK owners \in SUBSET Changed, modes \in SUBSET Changed :
          /\ permission' = [x \in Address |-> IF x \in Unlinked(Abandoned) THEN NoFile
                                              ELSE Restored(left, owners, modes)[x]]
          /\ fatal' = (fatal \/ owners # {} \/ modes # {})
    BY <1>2 DEF RefuseHalfway, Refused
  <2>5. disowned' = disowned \cup ({X} \ Unlinked(Abandoned))
    BY <1>2 DEF RefuseHalfway
  <2> HIDE DEF half
  <2>6. /\ left \in [Address -> Permission \cup {NoFile}]
        /\ \A x \in Address : left[x] = IF x = X THEN half ELSE permission[x]
    BY <2>1, <2>3 DEF TypeOK
  <2> HIDE DEF left, X
  <2>7. Unrestored(left, owners, modes)
    <3>1. disowned \subseteq disowned' /\ disowned' \subseteq Address
      BY <2>1, <2>5 DEF TypeOK
    <3>2. \A x \in Changed : left[x] = permission[x]
      BY <2>1, <2>6 DEF Changed
    <3>3. QED BY <2>2, <2>3, <2>4, <2>5, <2>6, <3>1, <3>2 DEF Unrestored
  <2>8. QED BY <2>6, <2>7
<1>3. QED BY <1>1, <1>2 DEF Refusal

LEMMA RestoredType ==
  ASSUME TypeOK, Files, NEW left \in [Address -> Permission \cup {NoFile}],
         \A x \in Changed : left[x] = permission[x], NEW owners, NEW modes
  PROVE  Restored(left, owners, modes) \in [Address -> Permission \cup {NoFile}]
<1>1. ASSUME NEW x \in Changed
      PROVE  [owner |-> IF x \in owners THEN left[x].owner ELSE undo[x].owner,
              mode |-> IF x \in modes THEN left[x].mode ELSE undo[x].mode] \in Permission
  <2>1. left[x] \in Permission /\ undo[x] \in Permission
    BY <1>1 DEF Changed, Files, TypeOK
  <2>2. QED BY <2>1 DEF Permission
<1>2. QED BY <1>1 DEF Restored

LEMMA TypeStep == ASSUME TypeOK, Files, [Next]_vars PROVE TypeOK'
<1> USE ListenersAssumption DEF TypeOK
<1>1. ASSUME NEW s \in Snapshot, Begin(s) PROVE TypeOK'
  BY <1>1 DEF Begin, serviceVars, socketVars, eventVars
<1>2. ASSUME NEW a \in App, Open(a) PROVE TypeOK'
  <2>1. nextListener + 1 \in Id
    BY <1>2 DEF Open, MayNumber
  <2>2. applying \in Snapshot /\ applying[a] \in Config /\ Listen[applying[a]] \in Address
    BY <1>2 DEF Open, Missing, NeedsListener, Listens, Selecting
  <2>3. QED BY <1>2, <2>1, <2>2 DEF Open, serviceVars
<1>3. ASSUME NEW a \in App, Permit(a) PROVE TypeOK'
  <2>1. applying \in Snapshot /\ applying[a] \in Config /\ Listen[applying[a]] \in Address
    BY <1>3 DEF Permit, Unpermitted, NeedsPermission, Listens, Selecting
  <2>2. QED BY <1>3, <2>1 DEF Permit, serviceVars, socketVars, eventVars
<1>4. ASSUME Refusal PROVE TypeOK'
  <2>1. nextListener' \in 0 .. LastListener
    BY <1>4, RefusalEnds
  <2>2. permission' \in [Address -> Permission \cup {NoFile}] /\ fatal' \in BOOLEAN
        /\ disowned' \subseteq Address
    <3>1. PICK left \in [Address -> Permission \cup {NoFile}] :
            \E owners \in SUBSET Changed, modes \in SUBSET Changed : Unrestored(left, owners, modes)
      BY <1>4, RefusalLeaves
    <3>2. PICK owners \in SUBSET Changed, modes \in SUBSET Changed : Unrestored(left, owners, modes)
      BY <3>1
    <3>3. Restored(left, owners, modes) \in [Address -> Permission \cup {NoFile}]
      BY <3>2, RestoredType DEF Unrestored
    <3>4. QED BY <3>2, <3>3 DEF Unrestored
  <2>3. bound' \in [Id -> Address \cup {NoAddress}] /\ armed' \subseteq Id /\ rearm' \subseteq Id
        /\ backlog' \subseteq Id
    <3>1. /\ bound' = [i \in Id |-> IF i \in Abandoned THEN NoAddress ELSE bound[i]]
          /\ armed' = armed \ Abandoned /\ rearm' = rearm \ Abandoned /\ backlog' = backlog \ Abandoned
      BY <1>4, RefusalEnds DEF Forget
    <3>2. /\ bound \in [Id -> Address \cup {NoAddress}]
          /\ armed \subseteq Id /\ rearm \subseteq Id /\ backlog \subseteq Id
      OBVIOUS
    <3> HIDE DEF TypeOK
    <3>3. bound' \in [Id -> Address \cup {NoAddress}]
      BY <3>1, <3>2
    <3>4. armed' \subseteq Id /\ rearm' \subseteq Id /\ backlog' \subseteq Id
      BY <3>1, <3>2
    <3>5. QED BY <3>3, <3>4
  <2>4. phase' \in {"running", "stopping", "returning"} /\ poller' \in {"unstarted", "waiting", "ended"}
    BY <1>4, RefusalEnds
  <2>5. QED BY <1>4, <2>1, <2>2, <2>3, <2>4, RefusalEnds
<1>5. ASSUME Commit PROVE TypeOK'
  <2>1. applying \in Snapshot
    BY <1>5 DEF Commit, Selecting
  <2>2. listener' \in [App -> 0 .. LastListener]
    BY <1>5 DEF Commit, Adopted
  <2>3. listeners' \in [Id -> App \cup {NoApp}]
    BY <1>5 DEF Commit
  <2>4. bound' \in [Id -> Address \cup {NoAddress}] /\ armed' \subseteq Id /\ rearm' \subseteq Id
        /\ backlog' \subseteq Id
    BY <1>5 DEF Commit, Forget
  <2>5. QED BY <1>5, <2>1, <2>2, <2>3, <2>4 DEF Commit, StillDemanded
<1>6. ASSUME NEW i \in Id, Connect(i) \/ Accept(i) PROVE TypeOK'
  BY <1>6 DEF Connect, Accept, serviceVars, socketVars, applyVars
<1>7. ASSUME NEW i \in Id, HandleEvent(i) PROVE TypeOK'
  BY <1>7 DEF HandleEvent, Rearmed, serviceVars, socketVars, applyVars
<1>8. ASSUME NEW i \in Id, NEW event \in {"readable", "error"}, Report(i, event) PROVE TypeOK'
  BY <1>8 DEF Report, serviceVars, socketVars, applyVars
<1>9. ASSUME NEW i \in Id, NEW ok \in BOOLEAN, Rearm(i, ok) PROVE TypeOK'
  BY <1>9 DEF Rearm, serviceVars, socketVars, applyVars
<1>10. ASSUME NEW a \in App, Serve(a) PROVE TypeOK'
  BY <1>10 DEF Serve, serviceVars, socketVars, eventVars, applyVars
<1>11. ASSUME PollFails \/ PollEnds \/ Return PROVE TypeOK'
  BY <1>11 DEF PollFails, PollEnds, Return, serviceVars, socketVars, eventVars, applyVars
<1>12. ASSUME Shutdown PROVE TypeOK'
  <2>1. bound' \in [Id -> Address \cup {NoAddress}] /\ armed' \subseteq Id /\ rearm' \subseteq Id
        /\ backlog' \subseteq Id
    BY <1>12 DEF Shutdown, Forget
  <2>2. listeners' \in [Id -> App \cup {NoApp}] /\ listener' \in [App -> 0 .. LastListener]
    BY <1>12 DEF Shutdown
  <2>3. permission' \in [Address -> Permission \cup {NoFile}]
    BY <1>12 DEF Shutdown
  <2>4. QED BY <1>12, <2>1, <2>2, <2>3 DEF Shutdown
<1>13. ASSUME Returned \/ UNCHANGED vars PROVE TypeOK'
  BY <1>13 DEF Returned, vars
<1>14. QED
  <2> HIDE DEF TypeOK
  <2>1. QED
    BY <1>1, <1>2, <1>3, <1>4, <1>5, <1>6, <1>7, <1>8, <1>9, <1>10, <1>11, <1>12, <1>13
       DEF Next, Refusal

-----------------------------------------------------------------------------
(* Sockets, records and what is staged *)

\* Identifiers beyond the counter have never been used.
Numbered ==
  /\ \A i \in Id : i > nextListener =>
       /\ bound[i] = NoAddress /\ listeners[i] = NoApp
       /\ i \notin armed /\ i \notin rearm /\ reported[i] = "none"
  /\ \A a \in App : listener[a] <= nextListener /\ opened[a] <= nextListener

\* Nothing is staged between two calls of apply(), which only runs in service.
Quiet ==
  /\ applying = NoSnapshot =>
       (\A a \in App : opened[a] = 0) /\ (\A x \in Address : undo[x] = NoFile)
  /\ applying # NoSnapshot => phase = "running"

\* No address is bound twice.
BoundOnce ==
  \A i, j \in Id : bound[i] # NoAddress /\ bound[i] = bound[j] => i = j

Staging ==
  \A a \in App : opened[a] # 0 =>
    /\ NeedsListener(applying, a)
    /\ bound[opened[a]] = Listen[applying[a]]
    /\ listeners[opened[a]] = NoApp

\* Registered without its condition, and with what apply() has staged.
Serving ==
  /\ phase = "running" => \A a \in App : Listens(config, a) <=> listener[a] # 0
  /\ \A a \in App : listener[a] # 0 =>
       /\ Listens(config, a)
       /\ listeners[listener[a]] = a /\ bound[listener[a]] = Listen[config[a]]
  /\ \A i \in Id : listeners[i] # NoApp => listener[listeners[i]] = i
  /\ \A i \in Id : bound[i] # NoAddress => listeners[i] # NoApp \/ \E a \in App : opened[a] = i

Ledger == Numbered /\ Quiet /\ BoundOnce /\ Staging /\ Serving

\* Only open listeners are watched or to be armed.
Watched ==
  /\ \A i \in armed \cup rearm : bound[i] # NoAddress
  /\ NeverDeaf

\* What the path of a will have if apply() is refused: what its service asks for,
\* but for the owner of a disowned path.
Owned(a) ==
  LET x == Listen[config[a]]
  IN  /\ Settled(x) # NoFile
      /\ Settled(x).mode = Mode[config[a]].mode
      /\ Settled(x).owner = Mode[config[a]].owner \/ x \in disowned

\* That is what `finish` would restore, and apply() has given the path what the new
\* configuration asks for.
Paths ==
  phase = "running" /\ ~fatal =>
    /\ \A a \in App : listener[a] # 0 /\ Listen[config[a]] \in Unix => Owned(a)
    /\ \A x \in Address : undo[x] # NoFile =>
         \E a \in App : NeedsPermission(applying, a) /\ x = Listen[applying[a]]
                        /\ permission[x] = Mode[applying[a]]
    /\ \A x \in Address : permission[x] # NoFile => Taken(x)

IInv == TypeOK /\ Files /\ Ledger /\ Watched /\ Paths

-----------------------------------------------------------------------------
(* The ledger of sockets *)

LEMMA NeededAddress ==
  ASSUME TypeOK, Quiet, NEW a \in App, applying # NoSnapshot, NeedsListener(applying, a)
  PROVE  /\ applying \in Snapshot /\ applying[a] \in Config
         /\ Listen[applying[a]] \in Address /\ Listen[applying[a]] # NoAddress
BY ListenersAssumption DEF TypeOK, NeedsListener, Listens

LEMMA OpenedOnce ==
  ASSUME TypeOK, Ledger, NEW a \in App, NEW b \in App, opened[a] # 0, opened[a] = opened[b]
  PROVE  a = b
<1>1. applying # NoSnapshot
  BY DEF Ledger, Quiet
<1>2. /\ NeedsListener(applying, a) /\ NeedsListener(applying, b)
      /\ Listen[applying[a]] = Listen[applying[b]]
  BY DEF Ledger, Staging
<1>3. applying \in Snapshot
  BY <1>1 DEF TypeOK
<1>4. QED
  BY <1>2, <1>3, OneAddressEach DEF NeedsListener, Listens

LEMMA BeginLedger == ASSUME TypeOK, Ledger, NEW s \in Snapshot, Begin(s) PROVE Ledger'
<1> USE DEF Begin, serviceVars, socketVars, eventVars
<1>1. Numbered'
  BY DEF Ledger, Numbered, TypeOK
<1>2. Quiet'
  BY ListenersAssumption DEF Ledger, Quiet
<1>3. BoundOnce'
  BY DEF Ledger, BoundOnce
<1>4. Staging'
  BY DEF Ledger, Staging
<1>5. Serving'
  BY DEF Ledger, Serving, Quiet, Receiving, Selecting, Listens
<1>6. QED BY <1>1, <1>2, <1>3, <1>4, <1>5 DEF Ledger

LEMMA OpenLedger == ASSUME TypeOK, Ledger, NEW a \in App, Open(a) PROVE Ledger'
<1> DEFINE n == nextListener + 1
<1>1. n \in Id /\ nextListener \in Nat /\ nextListener < n
  BY ListenersAssumption DEF Open, MayNumber, TypeOK
<1>2. /\ applying # NoSnapshot /\ NeedsListener(applying, a) /\ opened[a] = 0
      /\ Listen[applying[a]] \in Address /\ Listen[applying[a]] # NoAddress
  <2>1. applying # NoSnapshot /\ NeedsListener(applying, a) /\ opened[a] = 0
    BY DEF Open, Missing, Selecting
  <2>2. QED BY <2>1, NeededAddress DEF Ledger
<1>3. /\ bound[n] = NoAddress /\ listeners[n] = NoApp /\ n \notin armed /\ n \notin rearm
      /\ reported[n] = "none"
  BY <1>1 DEF Ledger, Numbered
<1>4. /\ bound' = [bound EXCEPT ![n] = Listen[applying[a]]]
      /\ opened' = [opened EXCEPT ![a] = n]
      /\ nextListener' = n /\ armed' = armed \cup {n}
      /\ UNCHANGED <<config, listener, listeners, applying, undo, phase, rearm, reported>>
  BY DEF Open, serviceVars
<1>5. \A i \in Id : bound'[i] = IF i = n THEN Listen[applying[a]] ELSE bound[i]
  BY <1>4 DEF TypeOK
<1>6. \A b \in App : opened'[b] = IF b = a THEN n ELSE opened[b]
  BY <1>4 DEF TypeOK
<1>7. \A b \in App : opened[b] \in Nat /\ listener[b] \in Nat /\ opened[b] # n /\ listener[b] # n
  BY <1>1, ListenersAssumption DEF TypeOK, Ledger, Numbered
<1> HIDE DEF n
<1>8. Numbered'
  <2>1. \A i \in Id : i > n => i > nextListener /\ i # n
    BY <1>1 DEF n
  <2>2. ASSUME NEW i \in Id, i > nextListener'
        PROVE  /\ bound'[i] = NoAddress /\ listeners'[i] = NoApp
               /\ i \notin armed' /\ i \notin rearm' /\ reported'[i] = "none"
    <3>1. i > nextListener /\ i # n
      BY <2>1, <2>2, <1>4
    <3>2. QED BY <3>1, <1>4, <1>5 DEF Ledger, Numbered
  <2>3. \A b \in App : listener'[b] <= nextListener' /\ opened'[b] <= nextListener'
    BY <1>1, <1>4, <1>6, <1>7 DEF Ledger, Numbered, n
  <2>4. QED BY <2>2, <2>3 DEF Numbered
<1>9. Quiet'
  BY <1>2, <1>4 DEF Ledger, Quiet
<1>10. BoundOnce'
  <2>1. \A i \in Id : bound[i] # Listen[applying[a]]
    BY DEF Open, Taken
  <2>2. QED BY <2>1, <1>5 DEF Ledger, BoundOnce
<1>11. Staging'
  <2>1. ASSUME NEW b \in App, opened'[b] # 0
        PROVE  /\ NeedsListener(applying, b)
               /\ bound'[opened'[b]] = Listen[applying[b]]
               /\ listeners[opened'[b]] = NoApp
    <3>1. CASE b = a
      BY <3>1, <1>1, <1>2, <1>3, <1>5, <1>6
    <3>2. CASE b # a
      <4>1. opened'[b] = opened[b] /\ opened[b] # 0 /\ opened[b] \in Id /\ opened[b] # n
        BY <2>1, <3>2, <1>6, <1>7 DEF TypeOK
      <4>2. QED BY <4>1, <1>5 DEF Ledger, Staging
    <3>3. QED BY <3>1, <3>2
  <2>2. QED BY <2>1, <1>4 DEF Staging, NeedsListener, Listens, Stays
<1>12. Serving'
  <2>1. \A b \in App : listener[b] # 0 => listener[b] \in Id /\ bound'[listener[b]] = bound[listener[b]]
    BY <1>5, <1>7 DEF TypeOK
  <2>2. \A i \in Id : bound'[i] # NoAddress => listeners[i] # NoApp \/ \E b \in App : opened'[b] = i
    <3>1. SUFFICES ASSUME NEW i \in Id, bound'[i] # NoAddress, listeners[i] = NoApp
                   PROVE  \E b \in App : opened'[b] = i
      OBVIOUS
    <3>2. CASE i = n
      BY <3>2, <1>6
    <3>3. CASE i # n
      <4>1. PICK b \in App : opened[b] = i
        BY <3>1, <3>3, <1>5 DEF Ledger, Serving
      <4>2. b # a
        BY <4>1, <1>2, ListenersAssumption
      <4>3. QED BY <4>1, <4>2, <1>6
    <3>4. QED BY <3>2, <3>3
  <2>3. QED BY <2>1, <2>2, <1>4 DEF Ledger, Serving, Listens
<1>13. QED BY <1>8, <1>9, <1>10, <1>11, <1>12 DEF Ledger

LEMMA RefuseLedger == ASSUME TypeOK, Ledger, Refusal PROVE Ledger'
<1>1. /\ bound' = [i \in Id |-> IF i \in Abandoned THEN NoAddress ELSE bound[i]]
      /\ armed' = armed \ Abandoned /\ rearm' = rearm \ Abandoned
      /\ opened' = [a \in App |-> 0] /\ undo' = [x \in Address |-> NoFile]
      /\ applying' = NoSnapshot
      /\ UNCHANGED <<config, listener, listeners, reported>>
  BY RefusalEnds DEF Forget
<1>2. nextListener \in Nat /\ nextListener' \in Nat /\ nextListener' >= nextListener
  BY RefusalEnds, ListenersAssumption DEF TypeOK
<1>3. \A a \in App : listener[a] # 0 => listener[a] \in Id \ Abandoned
  BY ListenersAssumption DEF Ledger, Serving, Staging, Abandoned, TypeOK
<1>4. Numbered'
  <2>1. \A i \in Id : i > nextListener' => i > nextListener
    BY <1>2
  <2>2. \A a \in App : listener'[a] <= nextListener' /\ opened'[a] <= nextListener'
    BY <1>1, <1>2, ListenersAssumption DEF Ledger, Numbered, TypeOK
  <2>3. QED BY <1>1, <2>1, <2>2 DEF Ledger, Numbered
<1>5. Quiet'
  BY <1>1 DEF Quiet
<1>6. BoundOnce'
  BY <1>1 DEF Ledger, BoundOnce
<1>7. Staging'
  BY <1>1 DEF Staging
<1>8. Serving'
  <2>1. phase' = "running" => phase = "running"
    BY RefusalEnds
  <2>2. \A i \in Id : bound'[i] # NoAddress => listeners[i] # NoApp
    <3>1. SUFFICES ASSUME NEW i \in Id, bound'[i] # NoAddress, listeners[i] = NoApp PROVE FALSE
      OBVIOUS
    <3>2. i \notin Abandoned /\ bound[i] # NoAddress
      BY <3>1, <1>1
    <3>3. PICK a \in App : opened[a] = i
      BY <3>1, <3>2 DEF Ledger, Serving
    <3>4. i # 0
      OBVIOUS
    <3>5. QED BY <3>2, <3>3, <3>4 DEF Abandoned
  <2>3. QED BY <1>1, <1>3, <2>1, <2>2 DEF Ledger, Serving, Listens
<1>9. QED BY <1>4, <1>5, <1>6, <1>7, <1>8 DEF Ledger

\* What the commit of apply() makes of the staged listeners and the old ones.
LEMMA CommitFacts ==
  ASSUME TypeOK, Ledger, Commit
  PROVE  /\ applying \in Snapshot /\ phase = "running"
         /\ \A a \in App : opened[a] # 0 <=> NeedsListener(applying, a)
         /\ \A a \in App : opened[a] # 0 => opened[a] \in Id \ GivenUp /\ listeners'[opened[a]] = a
         /\ \A a \in App : Stays(applying, a) /\ listener[a] # 0 =>
              listener[a] \in Id \ GivenUp /\ opened[a] = 0 /\ listeners'[listener[a]] = a
<1>1. applying \in Snapshot /\ phase = "running"
  BY DEF Commit, Selecting, TypeOK, Ledger, Quiet
<1>2. \A a \in App : opened[a] # 0 <=> NeedsListener(applying, a)
  BY DEF Commit, Missing, Ledger, Staging
<1>3. \A a \in App : opened[a] # 0 => opened[a] \in Id \ GivenUp
  BY ListenersAssumption DEF GivenUp, Ledger, Staging, Serving, TypeOK
<1>4. ASSUME NEW a \in App, opened[a] # 0 PROVE listeners'[opened[a]] = a
  <2>1. \A b \in App : opened[b] = opened[a] => b = a
    BY <1>4, OpenedOnce
  <2>2. listeners'[opened[a]] = CHOOSE b \in App : opened[b] = opened[a]
    BY <1>3, <1>4 DEF Commit
  <2>3. QED BY <2>1, <2>2
<1>5. ASSUME NEW a \in App, Stays(applying, a), listener[a] # 0
      PROVE  listener[a] \in Id \ GivenUp /\ opened[a] = 0 /\ listeners'[listener[a]] = a
  <2>1. listener[a] \in Id /\ listeners[listener[a]] = a
    BY <1>5 DEF TypeOK, Ledger, Serving
  <2>2. \A b \in App : listener[b] = listener[a] => b = a
    BY <1>5, <2>1 DEF Ledger, Serving
  <2>3. listener[a] \notin GivenUp
    BY <1>5, <2>2 DEF GivenUp
  <2>4. opened[a] = 0
    BY <1>2, <1>5 DEF NeedsListener
  <2>5. \A b \in App : opened[b] # listener[a]
    BY <2>1, <1>5, ListenersAssumption DEF Ledger, Staging
  <2>6. listeners'[listener[a]] = listeners[listener[a]]
    BY <2>1, <2>3, <2>5 DEF Commit
  <2>7. QED BY <2>1, <2>3, <2>4, <2>6
<1>6. QED BY <1>1, <1>2, <1>3, <1>4, <1>5

LEMMA CommitLedger == ASSUME TypeOK, Ledger, Commit PROVE Ledger'
<1>1. /\ bound' = [i \in Id |-> IF i \in GivenUp THEN NoAddress ELSE bound[i]]
      /\ armed' = armed \ GivenUp /\ rearm' = rearm \ GivenUp
      /\ config' = applying /\ listener' = [a \in App |-> Adopted(a)]
      /\ opened' = [a \in App |-> 0] /\ undo' = [x \in Address |-> NoFile]
      /\ applying' = NoSnapshot
      /\ UNCHANGED <<nextListener, reported, phase>>
  BY DEF Commit, Forget
<1>2. \A i \in Id : listeners'[i] = IF i \in GivenUp THEN NoApp
                                    ELSE IF \E a \in App : opened[a] = i THEN CHOOSE a \in App : opened[a] = i
                                    ELSE listeners[i]
  BY DEF Commit
<1>3. \A a \in App : listener'[a] = Adopted(a)
  BY <1>1
<1>4. Numbered'
  <2>1. ASSUME NEW i \in Id, i > nextListener PROVE listeners'[i] = NoApp
    <3>1. \A a \in App : opened[a] # i
      BY <2>1, ListenersAssumption DEF Ledger, Numbered, TypeOK
    <3>2. QED BY <2>1, <3>1, <1>2 DEF Ledger, Numbered
  <2>2. \A a \in App : listener'[a] <= nextListener' /\ opened'[a] <= nextListener'
    <3>1. 0 <= nextListener
      BY ListenersAssumption DEF TypeOK
    <3>2. QED BY <3>1, <1>1, <1>3 DEF Ledger, Numbered, Adopted
  <2>3. QED BY <1>1, <2>1, <2>2 DEF Ledger, Numbered
<1>5. Quiet'
  BY <1>1 DEF Quiet
<1>6. BoundOnce'
  BY <1>1 DEF Ledger, BoundOnce
<1>7. Staging'
  BY <1>1 DEF Staging
<1>8. ASSUME NEW a \in App PROVE Listens(applying, a) <=> listener'[a] # 0
  <2>1. CASE NeedsListener(applying, a)
    BY <2>1, <1>3, CommitFacts DEF NeedsListener, Adopted
  <2>2. CASE ~NeedsListener(applying, a)
    <3>1. opened[a] = 0
      BY <2>2, CommitFacts
    <3>2. CASE Stays(applying, a)
      <4>1. Listens(applying, a) <=> Listens(config, a)
        BY <3>2 DEF Stays, Listens
      <4>2. QED BY <4>1, <3>1, <3>2, <1>3, CommitFacts DEF Adopted, Ledger, Serving
    <3>3. CASE ~Stays(applying, a)
      BY <3>1, <3>3, <2>2, <1>3 DEF Adopted, NeedsListener
    <3>4. QED BY <3>2, <3>3
  <2>3. QED BY <2>1, <2>2
<1>9. ASSUME NEW a \in App, listener'[a] # 0
      PROVE  listeners'[listener'[a]] = a /\ bound'[listener'[a]] = Listen[applying[a]]
  <2>1. CASE opened[a] # 0
    BY <2>1, <1>1, <1>3, CommitFacts DEF Adopted, Ledger, Staging
  <2>2. CASE opened[a] = 0
    <3>1. Stays(applying, a) /\ listener[a] # 0 /\ listener'[a] = listener[a]
      BY <2>2, <1>3, <1>9 DEF Adopted
    <3>2. bound[listener[a]] = Listen[config[a]] /\ Listen[config[a]] = Listen[applying[a]]
      BY <3>1 DEF Ledger, Serving, Stays
    <3>3. QED BY <3>1, <3>2, <1>1, CommitFacts
  <2>3. QED BY <2>1, <2>2
<1>10. ASSUME NEW i \in Id, listeners'[i] # NoApp PROVE listener'[listeners'[i]] = i
  <2>1. i \notin GivenUp
    BY <1>2, <1>10
  <2>2. CASE \E a \in App : opened[a] = i
    <3>1. PICK a \in App : opened[a] = i
      BY <2>2
    <3>2. opened[a] # 0
      BY <3>1
    <3>3. listeners'[i] = a
      BY <3>1, <3>2, CommitFacts
    <3>4. QED BY <3>1, <3>2, <3>3, <1>3 DEF Adopted
  <2>3. CASE \A a \in App : opened[a] # i
    <3>0. listeners'[i] = listeners[i]
      BY <2>1, <2>3, <1>2
    <3>1. listeners'[i] = listeners[i] /\ listeners[i] \in App /\ listener[listeners[i]] = i
      <4>1. listeners[i] # NoApp
        BY <3>0, <1>10
      <4>2. listeners[i] \in App
        BY <4>1 DEF TypeOK
      <4>3. QED BY <3>0, <4>1, <4>2 DEF Ledger, Serving
    <3>2. Stays(applying, listeners[i])
      BY <2>1, <3>1 DEF GivenUp
    <3>3. opened[listeners[i]] = 0
      BY <3>1, <3>2, CommitFacts
    <3>4. QED BY <3>1, <3>2, <3>3, <1>3 DEF Adopted
  <2>4. QED BY <2>2, <2>3
<1>11. ASSUME NEW i \in Id, bound'[i] # NoAddress PROVE listeners'[i] # NoApp
  <2>1. i \notin GivenUp /\ bound[i] # NoAddress
    BY <1>1, <1>11
  <2>2. CASE \E a \in App : opened[a] = i
    <3>1. PICK a \in App : opened[a] = i
      BY <2>2
    <3>2. opened[a] # 0
      BY <3>1
    <3>3. QED BY <3>1, <3>2, CommitFacts, ListenersAssumption
  <2>3. CASE \A a \in App : opened[a] # i
    BY <2>1, <2>3, <1>2 DEF Ledger, Serving
  <2>4. QED BY <2>2, <2>3
<1>12. Serving'
  BY <1>1, <1>8, <1>9, <1>10, <1>11 DEF Serving, Listens
<1>13. QED BY <1>4, <1>5, <1>6, <1>7, <1>12 DEF Ledger

LEMMA ShutdownLedger == ASSUME TypeOK, Ledger, Shutdown PROVE Ledger'
<1> DEFINE ids == {listener[a] : a \in App} \ {0}
<1>1. /\ bound' = [i \in Id |-> IF i \in ids THEN NoAddress ELSE bound[i]]
      /\ armed' = armed \ ids /\ rearm' = rearm \ ids
      /\ listeners' = [i \in Id |-> IF i \in ids THEN NoApp ELSE listeners[i]]
      /\ listener' = [a \in App |-> 0] /\ phase' = "stopping"
      /\ applying = NoSnapshot
      /\ UNCHANGED <<config, nextListener, reported, applying, opened, undo>>
  BY DEF Shutdown, Forget, Selecting
<1>2. Numbered'
  <2>1. \A a \in App : listener'[a] <= nextListener' /\ opened'[a] <= nextListener'
    BY <1>1, ListenersAssumption DEF Ledger, Numbered, TypeOK
  <2>2. QED BY <1>1, <2>1 DEF Ledger, Numbered
<1>3. Quiet'
  BY <1>1 DEF Ledger, Quiet
<1>4. BoundOnce'
  BY <1>1 DEF Ledger, BoundOnce
<1>5. Staging'
  BY <1>1 DEF Ledger, Staging, Quiet
<1>6. Serving'
  <2>1. ASSUME NEW i \in Id, listeners[i] # NoApp PROVE i \in ids
    <3>1. listeners[i] \in App
      BY <2>1 DEF TypeOK
    <3>2. listener[listeners[i]] = i
      BY <2>1 DEF Ledger, Serving
    <3>3. i # 0
      OBVIOUS
    <3>4. QED BY <3>1, <3>2, <3>3
  <2>2. \A i \in Id : bound[i] # NoAddress => listeners[i] # NoApp
    BY <1>1 DEF Ledger, Serving, Quiet
  <2>3. QED BY <1>1, <2>1, <2>2 DEF Serving
<1>7. QED BY <1>2, <1>3, <1>4, <1>5, <1>6 DEF Ledger

\* The other steps only move notifications about, and never to a listener that was
\* not open.
LEMMA OtherLedger ==
  ASSUME TypeOK, Ledger,
         UNCHANGED <<config, listener, listeners, nextListener, bound, applying, opened>>,
         applying = NoSnapshot => undo' = undo,
         applying # NoSnapshot => phase' = phase,
         phase' = "running" => phase = "running",
         \A i \in Id : i > nextListener =>
           /\ i \in armed' => i \in armed
           /\ i \in rearm' => i \in rearm
           /\ reported[i] = "none" => reported'[i] = "none"
  PROVE  Ledger'
<1>1. Numbered'
  BY DEF Ledger, Numbered
<1>2. Quiet'
  BY DEF Ledger, Quiet
<1>3. BoundOnce'
  BY DEF Ledger, BoundOnce
<1>4. Staging'
  BY DEF Ledger, Staging, NeedsListener, Listens, Stays
<1>5. Serving'
  BY DEF Ledger, Serving, Listens
<1>6. QED BY <1>1, <1>2, <1>3, <1>4, <1>5 DEF Ledger

LEMMA LedgerStep == ASSUME TypeOK, Ledger, [Next]_vars PROVE Ledger'
<1> USE DEF serviceVars, socketVars, eventVars, applyVars
<1>1. ASSUME NEW a \in App, Permit(a) PROVE Ledger'
  BY <1>1, OtherLedger DEF Permit, Selecting
<1>2. ASSUME NEW i \in Id, Connect(i) \/ Accept(i) PROVE Ledger'
  BY <1>2, OtherLedger DEF Connect, Accept
<1>3. ASSUME NEW i \in Id, NEW event \in {"readable", "error"}, Report(i, event) PROVE Ledger'
  <2>1. ~(i > nextListener)
    BY <1>3 DEF Report, Ledger, Numbered
  <2>2. QED BY <1>3, <2>1, OtherLedger DEF Report, TypeOK
<1>4. ASSUME NEW i \in Id, HandleEvent(i) PROVE Ledger'
  <2>1. ~(i > nextListener)
    BY <1>4 DEF HandleEvent, Ledger, Numbered
  <2>2. QED BY <1>4, <2>1, OtherLedger DEF HandleEvent, Rearmed, TypeOK
<1>5. ASSUME NEW i \in Id, NEW ok \in BOOLEAN, Rearm(i, ok) PROVE Ledger'
  <2>1. ~(i > nextListener)
    BY <1>5 DEF Rearm, Ledger, Numbered
  <2>2. QED BY <1>5, <2>1, OtherLedger DEF Rearm
<1>6. ASSUME NEW a \in App, Serve(a) PROVE Ledger'
  BY <1>6, OtherLedger DEF Serve
<1>7. ASSUME PollFails \/ PollEnds PROVE Ledger'
  BY <1>7, OtherLedger DEF PollFails, PollEnds
<1>8. ASSUME Return PROVE Ledger'
  BY <1>8, OtherLedger DEF Return, Receiving, Selecting
<1>9. ASSUME Returned \/ UNCHANGED vars PROVE Ledger'
  BY <1>9, OtherLedger DEF Returned, vars
<1>10. QED
  BY <1>1, <1>2, <1>3, <1>4, <1>5, <1>6, <1>7, <1>8, <1>9,
     BeginLedger, OpenLedger, RefuseLedger, CommitLedger, ShutdownLedger DEF Next, Refusal

-----------------------------------------------------------------------------
(* Notifications *)

\* Whatever the steps do to the notifications of other listeners, these are as
\* they were.
LEMMA SameWatch ==
  ASSUME Watched,
         UNCHANGED <<bound, armed, rearm, reported>>,
         phase' = "running" => phase = "running",
         ~fatal' => ~fatal
  PROVE  Watched'
BY DEF Watched, NeverDeaf

\* Closing a listener drops its registration.
LEMMA ForgetWatch ==
  ASSUME TypeOK, Watched, NEW ids, Forget(ids), reported' = reported,
         phase' = "running" => phase = "running",
         ~fatal' => ~fatal
  PROVE  Watched'
<1>1. \A i \in Id : bound'[i] # NoAddress => i \notin ids /\ bound'[i] = bound[i]
  BY DEF Forget
<1>2. \A i \in armed' \cup rearm' : bound'[i] # NoAddress
  BY DEF Forget, Watched, TypeOK
<1>3. NeverDeaf'
  BY <1>1 DEF Forget, Watched, NeverDeaf
<1>4. QED BY <1>2, <1>3 DEF Watched

LEMMA OpenWatch == ASSUME TypeOK, Ledger, Watched, NEW a \in App, Open(a) PROVE Watched'
<1> DEFINE n == nextListener + 1
<1>1. n \in Id /\ n > nextListener
  BY ListenersAssumption DEF Open, MayNumber, TypeOK
<1>2. bound[n] = NoAddress /\ n \notin armed /\ n \notin rearm /\ reported[n] = "none"
  BY <1>1 DEF Ledger, Numbered
<1>3. Listen[applying[a]] # NoAddress
  BY DEF Open, Missing, NeedsListener, Listens
<1>4. /\ bound' = [bound EXCEPT ![n] = Listen[applying[a]]] /\ armed' = armed \cup {n}
      /\ UNCHANGED <<rearm, reported, phase, fatal>>
  BY DEF Open
<1> HIDE DEF n
<1>5. \A i \in Id : bound'[i] = IF i = n THEN Listen[applying[a]] ELSE bound[i]
  BY <1>4 DEF TypeOK
<1>6. \A i \in armed' \cup rearm' : bound'[i] # NoAddress
  BY <1>1, <1>3, <1>4, <1>5 DEF Watched, TypeOK
<1>7. NeverDeaf'
  BY <1>1, <1>2, <1>4, <1>5 DEF Watched, NeverDeaf
<1>8. QED BY <1>6, <1>7 DEF Watched

\* While the manager selects, an open listener has a record and a recorded one
\* is open.
LEMMA RecordedOpen ==
  ASSUME TypeOK, Ledger, Selecting, NEW i \in Id
  PROVE  bound[i] # NoAddress <=> listeners[i] # NoApp
<1>1. i # 0
  OBVIOUS
<1>2. ASSUME bound[i] # NoAddress PROVE listeners[i] # NoApp
  BY <1>1, <1>2 DEF Ledger, Serving, Quiet, Selecting
<1>3. ASSUME listeners[i] # NoApp PROVE bound[i] # NoAddress
  <2>1. listeners[i] \in App /\ listener[listeners[i]] = i
    BY <1>3 DEF Ledger, Serving, TypeOK
  <2>2. QED BY <1>1, <2>1 DEF Ledger, Serving, Listens
<1>4. QED BY <1>2, <1>3

LEMMA HandleEventWatch ==
  ASSUME TypeOK, Ledger, Watched, NEW i \in Id, HandleEvent(i) PROVE Watched'
<1>1. bound[i] # NoAddress <=> listeners[i] # NoApp
  BY RecordedOpen DEF HandleEvent, Receiving
<1>2. /\ reported[i] # "none" /\ reported' = [reported EXCEPT ![i] = "none"]
      /\ rearm' = (IF listeners[i] # NoApp /\ reported[i] = "readable" THEN rearm \cup {i} ELSE rearm)
      /\ fatal' = (fatal \/ (listeners[i] # NoApp /\ reported[i] = "error"))
      /\ UNCHANGED <<bound, armed, phase>>
  BY DEF HandleEvent, Rearmed, socketVars
<1>3. \A j \in Id : reported'[j] = IF j = i THEN "none" ELSE reported[j]
  BY <1>2 DEF TypeOK
<1>4. reported[i] = "readable" \/ reported[i] = "error"
  BY <1>2 DEF TypeOK
<1>5. \A j \in armed' \cup rearm' : bound'[j] # NoAddress
  BY <1>1, <1>2 DEF Watched
<1>6. ASSUME phase = "running", ~fatal', NEW j \in Id, bound[j] # NoAddress
      PROVE  /\ j \in armed \/ reported'[j] # "none" \/ j \in rearm'
             /\ ~(j \in armed /\ reported'[j] # "none")
             /\ ~(j \in rearm' /\ (j \in armed \/ reported'[j] # "none"))
  <2>1. ~fatal
    BY <1>2, <1>6
  <2>2. CASE j = i
    <3>1. reported[i] = "readable" /\ rearm' = rearm \cup {i}
      BY <1>1, <1>2, <1>4, <1>6, <2>2
    <3>2. i \notin armed
      BY <1>2, <1>6, <2>1, <2>2 DEF Watched, NeverDeaf
    <3>3. QED BY <2>2, <3>1, <3>2, <1>3
  <2>3. CASE j # i
    <3>1. reported'[j] = reported[j] /\ (j \in rearm' <=> j \in rearm)
      BY <2>3, <1>2, <1>3
    <3>2. QED BY <3>1, <2>1, <1>6 DEF Watched, NeverDeaf
  <2>4. QED BY <2>2, <2>3
<1>7. NeverDeaf'
  BY <1>2, <1>6 DEF NeverDeaf
<1>8. QED BY <1>5, <1>7 DEF Watched

LEMMA WatchedStep == ASSUME TypeOK, Ledger, Watched, [Next]_vars PROVE Watched'
<1> USE DEF serviceVars, socketVars, eventVars, applyVars
<1>1. ASSUME NEW s \in Snapshot, Begin(s) PROVE Watched'
  BY <1>1, SameWatch DEF Begin
<1>2. ASSUME NEW a \in App, Permit(a) \/ Serve(a) PROVE Watched'
  BY <1>2, SameWatch DEF Permit, Serve
<1>3. ASSUME Refusal PROVE Watched'
  BY <1>3, RefusalEnds, ForgetWatch
<1>4. ASSUME Commit PROVE Watched'
  BY <1>4, ForgetWatch DEF Commit
<1>5. ASSUME NEW i \in Id, Connect(i) \/ Accept(i) PROVE Watched'
  BY <1>5, SameWatch DEF Connect, Accept
<1>6. ASSUME NEW i \in Id, NEW event \in {"readable", "error"}, Report(i, event) PROVE Watched'
  <2>1. \A j \in Id : reported'[j] = IF j = i THEN event ELSE reported[j]
    BY <1>6 DEF Report, TypeOK
  <2>2. i \in armed /\ armed' = armed \ {i} /\ UNCHANGED <<bound, rearm, phase, fatal>>
    BY <1>6 DEF Report
  <2>3. NeverDeaf'
    BY <2>1, <2>2 DEF Watched, NeverDeaf
  <2>4. QED BY <2>2, <2>3 DEF Watched
<1>7. ASSUME NEW i \in Id, NEW ok \in BOOLEAN, Rearm(i, ok) PROVE Watched'
  <2>1. /\ i \in rearm /\ rearm' = rearm \ {i} /\ UNCHANGED <<bound, reported, phase>>
        /\ armed' = (IF ok THEN armed \cup {i} ELSE armed) /\ fatal' = (fatal \/ ~ok)
    BY <1>7 DEF Rearm
  <2>2. NeverDeaf'
    BY <2>1 DEF Watched, NeverDeaf
  <2>3. QED BY <2>1, <2>2 DEF Watched
<1>8. ASSUME PollFails \/ PollEnds PROVE Watched'
  BY <1>8, SameWatch DEF PollFails, PollEnds
<1>9. ASSUME Shutdown PROVE Watched'
  BY <1>9, ForgetWatch DEF Shutdown
<1>10. ASSUME Return PROVE Watched'
  BY <1>10, SameWatch DEF Return
<1>11. ASSUME Returned \/ UNCHANGED vars PROVE Watched'
  BY <1>11, SameWatch DEF Returned, vars
<1>12. QED
  BY <1>1, <1>2, <1>3, <1>4, <1>5, <1>6, <1>7, <1>8, <1>9, <1>10, <1>11,
     OpenWatch, HandleEventWatch DEF Next, Refusal

-----------------------------------------------------------------------------
(* Owners and modes of socket paths *)

\* The parts of Paths, without its condition.
Restorable ==
  \A a \in App : listener[a] # 0 /\ Listen[config[a]] \in Unix => Owned(a)

Given ==
  \A x \in Address : undo[x] # NoFile =>
    \E a \in App : NeedsPermission(applying, a) /\ x = Listen[applying[a]]
                   /\ permission[x] = Mode[applying[a]]

NoneLeft == \A x \in Address : permission[x] # NoFile => Taken(x)

LEMMA FilesStep == ASSUME TypeOK, Ledger, Files, [Next]_vars PROVE Files'
<1> USE DEF serviceVars, socketVars, eventVars, applyVars
<1>1. ASSUME undo' = [x \in Address |-> NoFile] PROVE Files'
  BY <1>1 DEF Files, Changed
<1>2. ASSUME UNCHANGED <<permission, undo>> PROVE Files'
  BY <1>2 DEF Files, Changed
<1>3. ASSUME NEW a \in App, Open(a) PROVE Files'
  <2>1. undo' = undo /\ \A x \in Address : permission'[x] = permission[x] \/ permission'[x] = Plain
    BY <1>3 DEF Open, TypeOK
  <2>2. Plain # NoFile
    BY ListenersAssumption
  <2>3. QED BY <2>1, <2>2 DEF Files, Changed
<1>4. ASSUME NEW a \in App, Permit(a) PROVE Files'
  <2> DEFINE X == Listen[applying[a]]
  <2>1. Mode[applying[a]] # NoFile
    <3>1. applying # NoSnapshot /\ NeedsPermission(applying, a)
      BY <1>4 DEF Permit, Selecting, Unpermitted
    <3>2. applying[a] \in Config
      BY <3>1, ListenersAssumption DEF NeedsPermission, Listens, TypeOK
    <3>3. QED BY <3>2, ModeTypes
  <2>2. /\ undo' = [undo EXCEPT ![X] = permission[X]]
        /\ permission' = [permission EXCEPT ![X] = Mode[applying[a]]]
    BY <1>4 DEF Permit
  <2> HIDE DEF X
  <2>3. QED BY <2>1, <2>2 DEF Files, Changed, TypeOK
<1>5. ASSUME Shutdown PROVE Files'
  BY <1>5 DEF Shutdown, Selecting, Ledger, Quiet, Files, Changed
<1>6. QED
  <2>1. ASSUME NEW s \in Snapshot, Begin(s) PROVE Files'
    BY <2>1, <1>1 DEF Begin
  <2>2. ASSUME Refusal \/ Commit PROVE Files'
    BY <2>2, <1>1, RefusalEnds DEF Commit
  <2>3. ASSUME NEW i \in Id, NEW event \in {"readable", "error"}, NEW ok \in BOOLEAN,
               \/ Connect(i) \/ Accept(i) \/ HandleEvent(i) \/ Report(i, event) \/ Rearm(i, ok)
        PROVE  Files'
    BY <2>3, <1>2 DEF Connect, Accept, HandleEvent, Report, Rearm
  <2>4. ASSUME NEW a \in App, Serve(a) PROVE Files'
    BY <2>4, <1>2 DEF Serve
  <2>5. ASSUME PollFails \/ PollEnds \/ Return \/ Returned \/ UNCHANGED vars PROVE Files'
    BY <2>5, <1>2 DEF PollFails, PollEnds, Return, Returned, vars
  <2>6. QED
    BY <1>3, <1>4, <1>5, <2>1, <2>2, <2>3, <2>4, <2>5 DEF Next, Refusal

LEMMA SamePaths ==
  ASSUME Paths,
         UNCHANGED <<config, listener, bound, permission, applying, undo, disowned>>,
         phase' = "running" => phase = "running",
         ~fatal' => ~fatal
  PROVE  Paths'
BY DEF Paths, Owned, Settled, NeedsPermission, Listens, Stays, Taken

LEMMA BeginPaths == ASSUME TypeOK, Ledger, Paths, NEW s \in Snapshot, Begin(s) PROVE Paths'
<1>1. \A x \in Address : undo[x] = NoFile
  BY DEF Begin, Receiving, Selecting, Ledger, Quiet
<1>2. /\ undo' = [x \in Address |-> NoFile]
      /\ UNCHANGED <<config, listener, bound, permission, disowned, phase, fatal>>
  BY DEF Begin, serviceVars, socketVars
<1>3. undo' = undo
  BY <1>1, <1>2 DEF TypeOK
<1>4. QED BY <1>1, <1>2, <1>3 DEF Paths, Owned, Settled, Taken

LEMMA OpenPaths == ASSUME TypeOK, Ledger, Paths, NEW a \in App, Open(a) PROVE Paths'
<1> DEFINE n == nextListener + 1
           X == Listen[applying[a]]
<1>1. n \in Id /\ n > nextListener
  BY ListenersAssumption DEF Open, MayNumber, TypeOK
<1>2. bound[n] = NoAddress
  BY <1>1 DEF Ledger, Numbered
<1>3. /\ X \in Address /\ X # NoAddress /\ ~Taken(X)
      /\ bound' = [bound EXCEPT ![n] = X]
      /\ UNCHANGED <<config, listener, applying, undo, disowned, phase, fatal>>
      /\ permission' = (IF X \in Unix THEN [permission EXCEPT ![X] = Plain] ELSE permission)
  <2>1. applying # NoSnapshot /\ NeedsListener(applying, a)
    BY DEF Open, Missing, Selecting
  <2>2. QED BY <2>1, NeededAddress DEF Open, Ledger, serviceVars
<1> HIDE DEF n, X
<1>4. \A i \in Id : bound'[i] = IF i = n THEN X ELSE bound[i]
  BY <1>3 DEF TypeOK
<1>5. \A x \in Address : x # X => permission'[x] = permission[x]
  BY <1>3 DEF TypeOK
<1>6. SUFFICES ASSUME phase = "running", ~fatal PROVE Paths'
  BY <1>3 DEF Paths
<1>7. permission[X] = NoFile /\ undo[X] = NoFile
  <2>1. permission[X] = NoFile
    BY <1>3, <1>6 DEF Paths
  <2>2. ASSUME undo[X] # NoFile PROVE FALSE
    <3>1. PICK b \in App : NeedsPermission(applying, b) /\ permission[X] = Mode[applying[b]]
      BY <1>3, <1>6, <2>2 DEF Paths
    <3>2. applying[b] \in Config
      BY <3>1, ListenersAssumption DEF Open, Selecting, TypeOK, NeedsPermission, Listens
    <3>3. QED BY <2>1, <3>1, <3>2, ModeTypes
  <2>3. QED BY <2>1, <2>2
<1>8. Restorable'
  <2>1. ASSUME NEW b \in App, listener[b] # 0, Listen[config[b]] \in Unix
        PROVE  Listen[config[b]] \in Address /\ Listen[config[b]] # X
    <3>1. listener[b] \in Id /\ bound[listener[b]] = Listen[config[b]]
      BY <2>1 DEF Ledger, Serving, TypeOK
    <3>2. QED BY <2>1, <3>1, <1>3, ListenersAssumption DEF Taken
  <2>2. QED BY <2>1, <1>3, <1>5, <1>6 DEF Paths, Restorable, Owned, Settled
<1>9. Given'
  <2>1. SUFFICES ASSUME NEW x \in Address, undo[x] # NoFile
                 PROVE  \E b \in App : NeedsPermission(applying, b) /\ x = Listen[applying[b]]
                                       /\ permission'[x] = Mode[applying[b]]
    BY <1>3 DEF Given, NeedsPermission, Listens, Stays
  <2>2. permission'[x] = permission[x]
    BY <1>5, <1>7, <2>1
  <2>3. QED BY <1>6, <2>1, <2>2 DEF Paths
<1>10. NoneLeft'
  <2>1. SUFFICES ASSUME NEW x \in Address, permission'[x] # NoFile PROVE \E i \in Id : bound'[i] = x
    BY DEF NoneLeft, Taken
  <2>2. CASE x = X
    BY <2>2, <1>1, <1>4
  <2>3. CASE x # X
    <3>1. PICK i \in Id : bound[i] = x
      BY <2>1, <2>3, <1>5, <1>6 DEF Paths, Taken
    <3>2. i # n
      BY <3>1, <1>2, ListenersAssumption
    <3>3. QED BY <3>1, <3>2, <1>4
  <2>4. QED BY <2>2, <2>3
<1>11. QED BY <1>8, <1>9, <1>10 DEF Paths, Restorable, Given, NoneLeft

LEMMA PermitPaths == ASSUME TypeOK, Ledger, Paths, NEW a \in App, Permit(a) PROVE Paths'
<1> DEFINE X == Listen[applying[a]]
<1>1. /\ applying # NoSnapshot /\ Missing = {} /\ NeedsPermission(applying, a) /\ undo[X] = NoFile
      /\ undo' = [undo EXCEPT ![X] = permission[X]]
      /\ permission' = [permission EXCEPT ![X] = Mode[applying[a]]]
      /\ UNCHANGED <<config, listener, bound, applying, disowned, phase, fatal>>
  BY DEF Permit, Unpermitted, Selecting, serviceVars, socketVars
<1>2. applying[a] \in Config /\ Listens(applying, a) /\ X \in Address /\ X # NoAddress
  BY <1>1, ListenersAssumption DEF TypeOK, NeedsPermission, Listens
<1>3. Mode[applying[a]] # NoFile
  BY <1>2, ModeTypes
<1>4. phase = "running"
  BY <1>1 DEF Ledger, Quiet
<1>5. Taken(X)
  <2>1. CASE NeedsListener(applying, a)
    <3>1. opened[a] \in Id /\ bound[opened[a]] = X
      BY <2>1, <1>1 DEF Missing, Ledger, Staging, TypeOK
    <3>2. QED BY <3>1 DEF Taken
  <2>2. CASE ~NeedsListener(applying, a)
    <3>1. Stays(applying, a)
      BY <2>2, <1>2 DEF NeedsListener
    <3>2. Listens(config, a) /\ Listen[config[a]] = X
      BY <3>1, <1>2 DEF Stays, Listens
    <3>3. listener[a] \in Id /\ bound[listener[a]] = X
      BY <3>2, <1>4 DEF Ledger, Serving, TypeOK
    <3>4. QED BY <3>3 DEF Taken
  <2>3. QED BY <2>1, <2>2
<1> HIDE DEF X
<1>6. \A x \in Address : /\ undo'[x] = IF x = X THEN permission[X] ELSE undo[x]
                         /\ permission'[x] = IF x = X THEN Mode[applying[a]] ELSE permission[x]
  BY <1>1 DEF TypeOK
<1>7. SUFFICES ASSUME ~fatal PROVE Paths'
  BY <1>1 DEF Paths
<1>8. ASSUME NEW b \in App, listener[b] # 0, Listen[config[b]] \in Unix
      PROVE  Owned(b)'
  <2> DEFINE Y == Listen[config[b]]
  <2>1. Y \in Address
    BY <1>8, ListenersAssumption
  <2>2. Owned(b)
    BY <1>4, <1>7, <1>8 DEF Paths
  <2>3. Settled(Y) # NoFile
    BY <2>2 DEF Owned
  <2> HIDE DEF Y
  <2>4. Settled(Y)' = Settled(Y)
    <3>1. Y' = Y
      BY <1>1 DEF Y
    <3>2. QED BY <2>1, <2>3, <3>1, <1>1, <1>6 DEF Settled
  <2>5. QED BY <2>2, <2>4, <1>1 DEF Y, Owned
<1>9. Given'
  <2>1. SUFFICES ASSUME NEW x \in Address, undo'[x] # NoFile
                 PROVE  \E b \in App : NeedsPermission(applying, b) /\ x = Listen[applying[b]]
                                       /\ permission'[x] = Mode[applying[b]]
    BY <1>1 DEF Given, NeedsPermission, Listens, Stays
  <2>2. CASE x = X
    BY <2>2, <1>1, <1>6 DEF X
  <2>3. CASE x # X
    BY <2>1, <2>3, <1>4, <1>6, <1>7 DEF Paths
  <2>4. QED BY <2>2, <2>3
<1>10. ASSUME NEW x \in Address, permission'[x] # NoFile PROVE Taken(x)
  BY <1>10, <1>4, <1>5, <1>6, <1>7 DEF Paths
<1>11. QED BY <1>1, <1>8, <1>9, <1>10 DEF Paths, Given, Taken

LEMMA RefusePaths == ASSUME TypeOK, Files, Ledger, Paths, Refusal PROVE Paths'
<1>1. /\ bound' = [i \in Id |-> IF i \in Abandoned THEN NoAddress ELSE bound[i]]
      /\ opened' = [a \in App |-> 0] /\ undo' = [x \in Address |-> NoFile]
      /\ applying # NoSnapshot
      /\ phase' = "running" => phase = "running"
      /\ UNCHANGED <<config, listener>>
  BY RefusalEnds DEF Forget
<1>2. SUFFICES ASSUME phase' = "running", ~fatal' PROVE Paths'
  BY DEF Paths
<1>3. PICK left \in [Address -> Permission \cup {NoFile}] :
        \E owners \in SUBSET Changed, modes \in SUBSET Changed : Unrestored(left, owners, modes)
  BY RefusalLeaves
<1>4. PICK owners \in SUBSET Changed, modes \in SUBSET Changed : Unrestored(left, owners, modes)
  BY <1>3
<1>5. phase = "running" /\ ~fatal /\ owners = {} /\ modes = {}
  BY <1>1, <1>2, <1>4 DEF Unrestored
<1>6. \A x \in Address : permission'[x] = IF x \in Unlinked(Abandoned) THEN NoFile
                                         ELSE Restored(left, owners, modes)[x]
  BY <1>4 DEF Unrestored
<1>7. \A x \in Address : x \notin Changed => Restored(left, owners, modes)[x] = left[x]
  BY DEF Restored
<1>8. \A x \in Changed : /\ x \in Address /\ undo[x] \in Permission
                         /\ Restored(left, owners, modes)[x] = [owner |-> undo[x].owner, mode |-> undo[x].mode]
  BY <1>5 DEF Restored, Changed, TypeOK
<1>9. Restorable'
  <2>1. SUFFICES ASSUME NEW b \in App, listener[b] # 0, Listen[config[b]] \in Unix
                 PROVE  Owned(b)'
    BY <1>1 DEF Restorable
  <2> DEFINE Y == Listen[config[b]]
  <2>2. listener[b] \in Id /\ bound[listener[b]] = Y /\ listeners[listener[b]] = b
    BY <2>1 DEF Ledger, Serving, TypeOK
  <2>3. listener[b] \notin Abandoned
    BY <2>2, ListenersAssumption DEF Abandoned, Ledger, Staging
  <2>4. Y \in Address /\ Y # NoAddress
    BY <2>1, ListenersAssumption
  <2>5. Y \notin Unlinked(Abandoned)
    <3>1. \A i \in Abandoned : i \in Id
      BY DEF Abandoned, TypeOK
    <3>2. QED BY <2>2, <2>3, <2>4, <3>1 DEF Unlinked, Ledger, BoundOnce
  <2>6. Owned(b)
    BY <2>1, <1>5 DEF Paths
  <2>7. /\ Settled(Y) # NoFile
        /\ Settled(Y).mode = Mode[config[b]].mode
        /\ Settled(Y).owner = Mode[config[b]].owner \/ Y \in disowned
    BY <2>6 DEF Owned
  <2> HIDE DEF Y
  <2>8. /\ permission'[Y] # NoFile
        /\ permission'[Y].mode = Settled(Y).mode
        /\ permission'[Y].owner = Settled(Y).owner \/ Y \in disowned'
    <3>1. CASE Y \in Changed
      <4>1. permission'[Y] = [owner |-> undo[Y].owner, mode |-> undo[Y].mode] /\ Settled(Y) = undo[Y]
        BY <2>4, <2>5, <3>1, <1>6, <1>8 DEF Settled, Changed
      <4>2. undo[Y] \in Permission
        BY <3>1, <1>8
      <4>3. [owner |-> undo[Y].owner, mode |-> undo[Y].mode] \in Permission
        BY <4>2 DEF Permission
      <4>4. QED BY <4>1, <4>3, ListenersAssumption
    <3>2. CASE Y \notin Changed
      <4>1. permission'[Y] = left[Y] /\ Settled(Y) = permission[Y]
        BY <2>4, <2>5, <3>2, <1>6, <1>7 DEF Settled, Changed
      <4>2. CASE left[Y] = permission[Y]
        BY <4>1, <4>2, <2>7
      <4>3. CASE left[Y] # permission[Y]
        BY <4>1, <4>3, <2>4, <2>5, <1>4 DEF Unrestored
      <4>4. QED BY <4>2, <4>3
    <3>3. QED BY <3>1, <3>2
  <2>9. Settled(Y)' = permission'[Y] /\ Y' = Y
    BY <2>4, <1>1 DEF Settled, Y
  <2>10. disowned \subseteq disowned'
    BY <1>4 DEF Unrestored
  <2>11. QED BY <2>7, <2>8, <2>9, <2>10, <1>1 DEF Owned, Y
<1>10. NoneLeft'
  <2>1. SUFFICES ASSUME NEW x \in Address, permission'[x] # NoFile PROVE \E i \in Id : bound'[i] = x
    BY DEF NoneLeft, Taken
  <2>2. x \notin Unlinked(Abandoned)
    BY <2>1, <1>6
  <2>3. permission[x] # NoFile
    <3>1. CASE x \in Changed
      BY <3>1 DEF Files
    <3>2. CASE x \notin Changed
      <4>1. left[x] # NoFile
        BY <2>1, <2>2, <3>2, <1>6, <1>7
      <4>2. QED BY <4>1, <1>4 DEF Unrestored
    <3>3. QED BY <3>1, <3>2
  <2>4. PICK i \in Id : bound[i] = x
    BY <2>3, <1>5 DEF Paths, Taken
  <2>5. i \notin Abandoned
    BY <2>2, <2>4 DEF Unlinked
  <2>6. QED BY <2>4, <2>5, <1>1
<1>11. QED BY <1>1, <1>9, <1>10 DEF Paths, Restorable, NoneLeft

LEMMA CommitPaths == ASSUME TypeOK, Files, Ledger, Paths, Commit PROVE Paths'
<1>1. /\ bound' = [i \in Id |-> IF i \in GivenUp THEN NoAddress ELSE bound[i]]
      /\ permission' = [x \in Address |-> IF x \in Unlinked(GivenUp) THEN NoFile ELSE permission[x]]
      /\ opened' = [a \in App |-> 0] /\ undo' = [x \in Address |-> NoFile]
      /\ config' = applying /\ applying \in Snapshot
      /\ disowned' = disowned \ (Changed \cup Unlinked(GivenUp))
      /\ Unpermitted = {} /\ UNCHANGED <<phase, fatal>>
  BY DEF Commit, Forget, Selecting, TypeOK
<1>2. SUFFICES ASSUME phase = "running", ~fatal PROVE Paths'
  BY <1>1 DEF Paths
<1>3. TypeOK' /\ Serving'
  BY TypeStep, CommitLedger DEF Next, Ledger
<1>4. Restorable'
  <2>1. SUFFICES ASSUME NEW b \in App, listener'[b] # 0, Listen[applying[b]] \in Unix
                 PROVE  Owned(b)'
    BY <1>1 DEF Restorable
  <2> DEFINE Y == Listen[applying[b]]
  <2>2. Y \in Address /\ Y # NoAddress /\ Y \in Unix
    BY <2>1, ListenersAssumption
  <2>3. Listens(applying, b) /\ listener'[b] \in Id /\ bound'[listener'[b]] = Y
    <3>1. listener'[b] \in Id
      BY <1>3, <2>1 DEF TypeOK
    <3>2. Listens(config', b) /\ bound'[listener'[b]] = Listen[config'[b]]
      BY <1>3, <2>1 DEF Serving
    <3>3. QED BY <3>1, <3>2, <1>1 DEF Listens
  <2>4. listener'[b] \notin GivenUp /\ bound[listener'[b]] = Y
    BY <2>2, <2>3, <1>1
  <2>5. Y \notin Unlinked(GivenUp)
    <3>1. \A i \in GivenUp : i \in Id
      BY DEF GivenUp, TypeOK
    <3>2. QED BY <2>2, <2>3, <2>4, <3>1 DEF Unlinked, Ledger, BoundOnce
  <2>6. /\ permission[Y] # NoFile /\ permission[Y].mode = Mode[applying[b]].mode
        /\ permission[Y].owner = Mode[applying[b]].owner \/ Y \in disowned \ Changed
    <3>1. CASE undo[Y] # NoFile
      <4>1. PICK c \in App : /\ NeedsPermission(applying, c) /\ Y = Listen[applying[c]]
                             /\ permission[Y] = Mode[applying[c]]
        BY <3>1, <2>2, <1>2 DEF Paths
      <4>2. c = b
        BY <4>1, <2>2, <2>3, <1>1, OneAddressEach DEF NeedsPermission, Listens
      <4>3. applying[b] \in Config
        BY <2>3, <1>1, ListenersAssumption DEF Listens
      <4>4. QED BY <4>1, <4>2, <4>3, ModeTypes
    <3>2. CASE undo[Y] = NoFile
      <4>1. ~NeedsPermission(applying, b)
        BY <3>2, <1>1 DEF Unpermitted
      <4>2. Stays(applying, b) /\ Mode[config[b]] = Mode[applying[b]]
        BY <4>1, <2>2, <2>3 DEF NeedsPermission
      <4>3. Listens(config, b) /\ Listen[config[b]] = Y
        BY <4>2, <2>3 DEF Stays, Listens
      <4>4. listener[b] # 0
        BY <4>3, <1>2 DEF Ledger, Serving
      <4>5. Owned(b) /\ Settled(Y) = permission[Y] /\ Y \notin Changed
        BY <3>2, <4>3, <4>4, <2>2, <1>2 DEF Paths, Settled, Changed
      <4>6. QED BY <4>2, <4>3, <4>5 DEF Owned
    <3>3. QED BY <3>1, <3>2
  <2>7. permission'[Y] = permission[Y] /\ undo'[Y] = NoFile
    BY <2>2, <2>5, <1>1
  <2>8. Y \in disowned \ Changed => Y \in disowned'
    BY <2>5, <1>1
  <2>9. (Listen[config[b]])' = Y
    BY <1>1
  <2> HIDE DEF Y
  <2>10. Settled(Listen[config[b]])' = permission[Y]
    BY <2>7, <2>9 DEF Settled
  <2>11. (Mode[config[b]])' = Mode[applying[b]]
    BY <1>1
  <2>12. QED BY <2>6, <2>8, <2>9, <2>10, <2>11 DEF Owned
<1>5. NoneLeft'
  <2>1. SUFFICES ASSUME NEW x \in Address, permission'[x] # NoFile PROVE \E i \in Id : bound'[i] = x
    BY DEF NoneLeft, Taken
  <2>2. x \notin Unlinked(GivenUp) /\ permission[x] # NoFile
    BY <2>1, <1>1
  <2>3. PICK i \in Id : bound[i] = x
    BY <2>2, <1>2 DEF Paths, Taken
  <2>4. i \notin GivenUp
    BY <2>2, <2>3 DEF Unlinked
  <2>5. QED BY <2>3, <2>4, <1>1
<1>6. QED BY <1>1, <1>4, <1>5 DEF Paths, Restorable, NoneLeft

LEMMA PathsStep == ASSUME TypeOK, Files, Ledger, Paths, [Next]_vars PROVE Paths'
<1> USE DEF serviceVars, socketVars, eventVars, applyVars
<1>1. ASSUME NEW a \in App, Serve(a) PROVE Paths'
  BY <1>1, SamePaths DEF Serve
<1>2. ASSUME NEW i \in Id, Connect(i) \/ Accept(i) \/ HandleEvent(i) PROVE Paths'
  <2>1. UNCHANGED <<config, listener, bound, permission, applying, undo, disowned, phase>>
    BY <1>2 DEF Connect, Accept, HandleEvent
  <2>2. ~fatal' => ~fatal
    BY <1>2 DEF Connect, Accept, HandleEvent
  <2>3. QED BY <2>1, <2>2, SamePaths
<1>3. ASSUME NEW i \in Id, NEW event \in {"readable", "error"}, Report(i, event) PROVE Paths'
  BY <1>3, SamePaths DEF Report
<1>4. ASSUME NEW i \in Id, NEW ok \in BOOLEAN, Rearm(i, ok) PROVE Paths'
  BY <1>4, SamePaths DEF Rearm
<1>5. ASSUME PollFails \/ PollEnds PROVE Paths'
  BY <1>5, SamePaths DEF PollFails, PollEnds
<1>6. ASSUME Shutdown \/ Return PROVE Paths'
  BY <1>6 DEF Shutdown, Return, Paths
<1>7. ASSUME Returned \/ UNCHANGED vars PROVE Paths'
  BY <1>7, SamePaths DEF Returned, vars
<1>8. QED
  BY <1>1, <1>2, <1>3, <1>4, <1>5, <1>6, <1>7,
     BeginPaths, OpenPaths, PermitPaths, RefusePaths, CommitPaths DEF Next, Refusal

-----------------------------------------------------------------------------
(* The refinement of Registry *)

\* apply() ends before a fatal error is possible, the poller starts with the first
\* configuration, and shutdown leaves no listener.
Standing ==
  /\ applying # NoSnapshot => ~fatal
  /\ poller = "unstarted" => \A a \in App : config[a] = NoConfig
  /\ phase # "running" => \A a \in App : listener[a] = 0

LEMMA StandingStep == ASSUME TypeOK, Ledger, Standing, [Next]_vars PROVE Standing'
<1> USE DEF serviceVars, socketVars, eventVars, applyVars
<1>1. ASSUME NEW s \in Snapshot, Begin(s) PROVE Standing'
  BY <1>1 DEF Begin, Receiving, Selecting, Standing
<1>2. ASSUME NEW a \in App, Open(a) \/ Permit(a) \/ Serve(a) PROVE Standing'
  BY <1>2 DEF Open, Permit, Serve, Standing
<1>3. ASSUME Refusal PROVE Standing'
  <2>1. applying' = NoSnapshot /\ UNCHANGED <<config, listener>>
    BY <1>3, RefusalEnds
  <2>2. CASE poller = "unstarted"
    <3>1. \A a \in App : listener[a] = 0
      BY <2>2 DEF Standing, Ledger, Serving, Listens
    <3>2. poller' = "ended"
      BY <1>3, <2>2, RefusalEnds
    <3>3. QED BY <2>1, <3>1, <3>2 DEF Standing
  <2>3. CASE poller # "unstarted"
    BY <1>3, <2>1, <2>3, RefusalEnds DEF Standing
  <2>4. QED BY <2>2, <2>3
<1>4. ASSUME Commit PROVE Standing'
  <2>1. applying' = NoSnapshot /\ phase' = "running" /\ poller' # "unstarted"
    BY <1>4, CommitFacts DEF Commit
  <2>2. QED BY <2>1 DEF Standing
<1>5. ASSUME NEW i \in Id, Connect(i) \/ Accept(i) \/ HandleEvent(i) PROVE Standing'
  BY <1>5 DEF Connect, Accept, HandleEvent, Receiving, Selecting, Standing
<1>6. ASSUME NEW i \in Id, NEW event \in {"readable", "error"}, Report(i, event) PROVE Standing'
  BY <1>6 DEF Report, Standing
<1>7. ASSUME NEW i \in Id, NEW ok \in BOOLEAN, Rearm(i, ok) PROVE Standing'
  BY <1>7 DEF Rearm, Receiving, Selecting, Standing
<1>8. ASSUME PollFails \/ PollEnds PROVE Standing'
  BY <1>8 DEF PollFails, PollEnds, Receiving, Selecting, Standing
<1>9. ASSUME Shutdown PROVE Standing'
  BY <1>9 DEF Shutdown, Selecting, Standing
<1>10. ASSUME Return \/ Returned \/ UNCHANGED vars PROVE Standing'
  BY <1>10 DEF Return, Returned, vars, Standing
<1>11. QED
  BY <1>1, <1>2, <1>3, <1>4, <1>5, <1>6, <1>7, <1>8, <1>9, <1>10 DEF Next, Refusal

\* What a service's listener is to the outside.
LEMMA ServiceSocket ==
  ASSUME TypeOK, Ledger, NEW a \in App, listener[a] # 0
  PROVE  /\ listener[a] \in Id /\ listener[a] <= nextListener
         /\ listeners[listener[a]] = a
         /\ bound[listener[a]] = Listen[config[a]] /\ config[a] \in Config
         /\ AddressOf(a) = Listen[config[a]]
         /\ AddressOf(a) \in Address /\ AddressOf(a) # NoAddress
BY ListenersAssumption DEF TypeOK, Ledger, Numbered, Serving, Listens, AddressOf

LEMMA NoSocket ==
  ASSUME NEW a \in App, listener[a] = 0
  PROVE  AddressOf(a) = NoAddress /\ ModeOf(a) = NoFile
BY ListenersAssumption DEF AddressOf, ModeOf

\* A step that leaves the sockets and paths of services alone.
SameSockets ==
  /\ \A a \in App : AddressOf(a)' = AddressOf(a)
  /\ \A a \in App : ModeOf(a)' = ModeOf(a)

LEMMA Untouched ==
  ASSUME TypeOK, Ledger, UNCHANGED listener,
         \A a \in App : listener[a] # 0 => bound'[listener[a]] = bound[listener[a]],
         \A a \in App : AddressOf(a) \in Unix => Settled(AddressOf(a))' = Settled(AddressOf(a))
  PROVE  SameSockets
<1>1. \A a \in App : AddressOf(a)' = AddressOf(a)
  BY DEF AddressOf
<1>2. \A a \in App : ModeOf(a)' = ModeOf(a)
  BY <1>1 DEF ModeOf
<1>3. QED BY <1>1, <1>2 DEF SameSockets

LEMMA Unseen ==
  ASSUME SameSockets, Waiting' = Waiting, UNCHANGED <<config, demand, fatal>>,
         phase' = "running" <=> phase = "running"
  PROVE  UNCHANGED Promise!registry
<1>1. (phase # "running")' = (phase # "running")
  OBVIOUS
<1>2. QED BY <1>1 DEF Promise!registry, SameSockets

RInv == IInv /\ Standing

LEMMA BeginUnseen == ASSUME RInv, NEW s \in Snapshot, Begin(s) PROVE UNCHANGED Promise!registry
<1>1. /\ UNCHANGED <<config, listener, demand, bound, backlog, permission, fatal, phase>>
      /\ \A x \in Address : undo[x] = NoFile /\ undo'[x] = NoFile
  BY DEF RInv, IInv, Ledger, Quiet, Begin, Receiving, Selecting, serviceVars, socketVars, eventVars
<1>2. \A a \in App : AddressOf(a) \in Unix => Settled(AddressOf(a))' = Settled(AddressOf(a))
  <2>1. \A a \in App : AddressOf(a)' = AddressOf(a)
    BY <1>1 DEF AddressOf
  <2>2. QED BY <1>1, <2>1, ListenersAssumption DEF Settled
<1>3. SameSockets
  BY <1>1, <1>2, Untouched DEF RInv, IInv
<1>4. QED BY <1>1, <1>3, Unseen DEF Waiting

\* A listener that is staged has a new identifier and an address nobody is bound to.
LEMMA OpenUnseen == ASSUME RInv, NEW a \in App, Open(a) PROVE UNCHANGED Promise!registry
<1> DEFINE X == Listen[applying[a]]
           n == nextListener + 1
<1>1. /\ UNCHANGED <<config, listener, demand, backlog, undo, fatal, phase>>
      /\ \A i \in Id : i # n => bound'[i] = bound[i]
      /\ \A x \in Address : x # X => permission'[x] = permission[x]
      /\ \A i \in Id : bound[i] # X
  BY DEF RInv, IInv, TypeOK, Open, Taken, serviceVars
<1>2. nextListener \in Nat
  BY ListenersAssumption DEF RInv, IInv, TypeOK
<1>3. ASSUME NEW b \in App, listener[b] # 0 PROVE bound'[listener[b]] = bound[listener[b]]
  <2>1. listener[b] \in Id /\ listener[b] <= nextListener
    BY <1>3, ServiceSocket DEF RInv, IInv
  <2>2. listener[b] # n
    BY <2>1, <1>2
  <2>3. QED BY <2>1, <2>2, <1>1
<1>4. ASSUME NEW b \in App, AddressOf(b) \in Unix
      PROVE  Settled(AddressOf(b))' = Settled(AddressOf(b))
  <2>1. listener[b] # 0
    BY <1>4, ListenersAssumption DEF AddressOf
  <2>2. AddressOf(b) \in Address /\ AddressOf(b) # X
    BY <2>1, <1>1, ServiceSocket DEF RInv, IInv
  <2>3. AddressOf(b)' = AddressOf(b)
    BY <1>1, <1>3 DEF AddressOf
  <2>4. permission'[AddressOf(b)] = permission[AddressOf(b)]
    BY <2>2, <1>1
  <2>5. QED BY <2>3, <2>4, <1>1 DEF Settled
<1>5. SameSockets
  BY <1>1, <1>3, <1>4, Untouched DEF RInv, IInv
<1>6. QED BY <1>1, <1>5, Unseen DEF Waiting

\* What the path of a service was given by its own configuration is what is
\* noted down before it is changed.
LEMMA PermitUnseen == ASSUME RInv, NEW a \in App, Permit(a) PROVE UNCHANGED Promise!registry
<1> DEFINE X == Listen[applying[a]]
<1>1. /\ UNCHANGED <<config, listener, demand, bound, backlog, fatal, phase>>
      /\ undo' = [undo EXCEPT ![X] = permission[X]]
      /\ permission' = [permission EXCEPT ![X] = Mode[applying[a]]]
      /\ undo[X] = NoFile
  BY DEF Permit, Unpermitted, serviceVars, socketVars, eventVars
<1>2. phase = "running" /\ ~fatal
  BY DEF RInv, IInv, Ledger, Quiet, Standing, Permit, Selecting
<1>3. undo \in [Address -> Permission \cup {NoFile}] /\ permission \in [Address -> Permission \cup {NoFile}]
  BY DEF RInv, IInv, TypeOK
<1>4. ASSUME NEW b \in App, AddressOf(b) \in Unix
      PROVE  Settled(AddressOf(b))' = Settled(AddressOf(b))
  <2>1. listener[b] # 0
    BY <1>4, ListenersAssumption DEF AddressOf
  <2>2. /\ AddressOf(b) = Listen[config[b]] /\ AddressOf(b) \in Address /\ config[b] \in Config
        /\ AddressOf(b)' = AddressOf(b)
    BY <2>1, <1>1, ServiceSocket DEF RInv, IInv, AddressOf
  <2>3. Settled(AddressOf(b)) # NoFile
    BY <1>2, <1>4, <2>1, <2>2 DEF RInv, IInv, Paths, Owned
  <2>4. CASE AddressOf(b) = X
    <3>1. Settled(AddressOf(b)) = permission[X]
      BY <1>1, <2>4 DEF Settled
    <3>2. undo'[X] = permission[X]
      BY <1>1, <1>3, <2>2, <2>4
    <3>3. QED BY <2>2, <2>3, <2>4, <3>1, <3>2 DEF Settled
  <2>5. CASE AddressOf(b) # X
    <3>1. undo'[AddressOf(b)] = undo[AddressOf(b)] /\ permission'[AddressOf(b)] = permission[AddressOf(b)]
      BY <1>1, <1>3, <2>2, <2>5
    <3>2. QED BY <2>2, <3>1 DEF Settled
  <2>6. QED BY <2>4, <2>5
<1>5. SameSockets
  BY <1>1, <1>4, Untouched DEF RInv, IInv
<1>6. QED BY <1>1, <1>5, Unseen DEF Waiting

\* The path of a service is as it was after a refusal without a fatal error, or as
\* it was left if nothing had been noted down.
LEMMA GivenBack ==
  ASSUME RInv, Refusal, NEW left, Refused(left), ~fatal',
         NEW b \in App, AddressOf(b) \in Unix
  PROVE  /\ AddressOf(b)' = AddressOf(b) /\ AddressOf(b) \in Address
         /\ AddressOf(b) \notin Unlinked(Abandoned)
         /\ Settled(AddressOf(b))' = IF AddressOf(b) \in Changed THEN Settled(AddressOf(b))
                                                                ELSE left[AddressOf(b)]
<1>1. /\ bound' = [i \in Id |-> IF i \in Abandoned THEN NoAddress ELSE bound[i]]
      /\ undo' = [x \in Address |-> NoFile] /\ UNCHANGED listener
  BY RefusalEnds DEF Forget, RInv, IInv
<1>2. \A x \in Address : permission'[x] = IF x \in Unlinked(Abandoned) THEN NoFile
                                          ELSE Restored(left, {}, {})[x]
  <2>1. PICK owners \in SUBSET Changed, modes \in SUBSET Changed :
          /\ permission' = [x \in Address |-> IF x \in Unlinked(Abandoned) THEN NoFile
                                              ELSE Restored(left, owners, modes)[x]]
          /\ fatal' = (fatal \/ owners # {} \/ modes # {})
    BY DEF Refused
  <2>2. owners = {} /\ modes = {}
    BY <2>1
  <2>3. QED BY <2>1, <2>2
<1> DEFINE Y == AddressOf(b)
<1>3. listener[b] # 0
  BY ListenersAssumption DEF AddressOf
<1>4. /\ Y \in Address /\ Y # NoAddress
      /\ listener[b] \in Id /\ bound[listener[b]] = Y /\ listeners[listener[b]] = b
  BY <1>3, ServiceSocket DEF RInv, IInv
<1>5. listener[b] \notin Abandoned
  BY <1>4, ListenersAssumption DEF Abandoned, RInv, IInv, Ledger, Staging
<1>6. Y' = Y
  BY <1>1, <1>4, <1>5 DEF AddressOf
<1> HIDE DEF Y
<1>7. Y \notin Unlinked(Abandoned)
  <2>1. \A i \in Abandoned : i \in Id
    BY DEF Abandoned, RInv, IInv, TypeOK
  <2>2. QED BY <1>4, <1>5, <2>1 DEF Unlinked, RInv, IInv, Ledger, BoundOnce
<1>8. Settled(Y)' = Restored(left, {}, {})[Y]
  BY <1>1, <1>2, <1>4, <1>6, <1>7 DEF Settled
<1>9. CASE Y \in Changed
  <2>1. undo[Y] \in Permission /\ Settled(Y) = undo[Y]
    BY <1>9 DEF Changed, Settled, RInv, IInv, TypeOK
  <2>2. Restored(left, {}, {})[Y] = [owner |-> undo[Y].owner, mode |-> undo[Y].mode]
    BY <1>4, <1>9 DEF Restored
  <2>3. [owner |-> undo[Y].owner, mode |-> undo[Y].mode] = undo[Y]
    BY <2>1 DEF Permission
  <2>4. QED BY <1>4, <1>6, <1>7, <1>8, <1>9, <2>1, <2>2, <2>3 DEF Y
<1>10. CASE Y \notin Changed
  BY <1>4, <1>6, <1>7, <1>8, <1>10 DEF Restored, Y
<1>11. QED BY <1>9, <1>10

\* A refused snapshot is not to be seen, unless a permission could not be taken back,
\* or it was the first, whose refusal ends the program, or a path keeps the owner
\* Identity.socket() gave it.
LEMMA RefuseSeen ==
  ASSUME RInv, RInv', Refusal
  PROVE  \/ UNCHANGED Promise!registry \/ Promise!Fail \/ Promise!Close
         \/ \E s \in Snapshot, a \in App : Promise!Disown(s, a)
<1>1. /\ bound' = [i \in Id |-> IF i \in Abandoned THEN NoAddress ELSE bound[i]]
      /\ backlog' = backlog \ Abandoned
      /\ undo' = [x \in Address |-> NoFile]
      /\ applying # NoSnapshot /\ applying \in Snapshot
      /\ UNCHANGED <<config, listener, demand>>
  BY RefusalEnds DEF Forget, RInv, IInv, TypeOK
<1>2. phase = "running" /\ ~fatal
  BY <1>1 DEF RInv, IInv, Ledger, Quiet, Standing
<1>3. \A a \in App : listener[a] # 0 => listener[a] \in Id \ Abandoned
  BY ListenersAssumption DEF RInv, IInv, Ledger, Serving, Staging, Abandoned, TypeOK
<1>4. \A a \in App : AddressOf(a)' = AddressOf(a)
  BY <1>1, <1>3 DEF AddressOf
<1>5. Waiting' = Waiting
  <2>1. 0 \notin backlog /\ 0 \notin backlog'
    BY DEF RInv, IInv, TypeOK
  <2>2. \A a \in App : listener[a] \in backlog' <=> listener[a] \in backlog
    BY <2>1, <1>1, <1>3
  <2>3. QED BY <2>2, <1>1 DEF Waiting
<1>6. CASE poller = "unstarted"
  <2>1. \A a \in App : listener[a] = 0 /\ listener'[a] = 0
    BY <1>1, <1>6 DEF RInv, IInv, Standing, Ledger, Serving, Listens
  <2>2. \A a \in App : AddressOf(a)' = NoAddress /\ ModeOf(a)' = NoFile
    BY <2>1, ListenersAssumption DEF AddressOf, ModeOf
  <2>3. Waiting' = {}
    BY <2>1 DEF Waiting, RInv, IInv, TypeOK
  <2>4. (phase # "running")' = TRUE /\ fatal' \in {fatal, TRUE}
    <3>1. phase' = "returning"
      BY <1>6, RefusalEnds DEF RInv, IInv
    <3>2. fatal' \in BOOLEAN /\ fatal = FALSE
      BY <1>2 DEF TypeOK, RInv, IInv
    <3>3. QED BY <3>1, <3>2
  <2>5. QED BY <1>1, <2>2, <2>3, <2>4 DEF Promise!Close
<1>7. CASE poller # "unstarted" /\ fatal'
  <2>1. fatal' = TRUE /\ (phase # "running")' = (phase # "running")
    BY <1>7, RefusalEnds DEF RInv, IInv, TypeOK
  <2>2. \A a \in App : ModeOf(a)' \in Permission \cup {NoFile}
    BY ListenersAssumption DEF ModeOf, Settled, RInv, IInv, TypeOK
  <2>3. \A a \in App : AddressOf(a) \notin Unix => ModeOf(a)' = ModeOf(a)
    BY <1>4 DEF ModeOf
  <2>4. Promise!Fail
    BY <1>1, <1>4, <1>5, <2>1, <2>2, <2>3 DEF Promise!Fail
  <2>5. QED BY <2>4
<1>8. CASE poller # "unstarted" /\ ~fatal'
  <2>1. UNCHANGED <<phase, fatal>>
    BY <1>2, <1>8, RefusalEnds DEF TypeOK, RInv, IInv
  <2>2. \A a \in App : AddressOf(a) \notin Unix => ModeOf(a)' = ModeOf(a)
    BY <1>4 DEF ModeOf
  <2>3. CASE Refuse
    <3>1. Refused(permission)
      BY <2>3 DEF Refuse
    <3>2. ASSUME NEW b \in App, AddressOf(b) \in Unix PROVE ModeOf(b)' = ModeOf(b)
      <4>1. /\ AddressOf(b)' = AddressOf(b) /\ AddressOf(b) \in Address
            /\ Settled(AddressOf(b))' = IF AddressOf(b) \in Changed THEN Settled(AddressOf(b))
                                                                   ELSE permission[AddressOf(b)]
        BY <1>8, <3>1, <3>2, GivenBack
      <4>2. QED BY <4>1, <3>2 DEF ModeOf, Settled, Changed
    <3>3. SameSockets
      BY <1>4, <2>2, <3>2 DEF SameSockets
    <3>4. QED BY <1>1, <1>5, <2>1, <3>3, Unseen
  <2>4. ASSUME NEW a \in App, RefuseHalfway(a)
        PROVE  UNCHANGED Promise!registry \/ Promise!Disown(applying, a)
    <3> DEFINE X == Listen[applying[a]]
               half == [owner |-> Mode[applying[a]].owner, mode |-> permission[X].mode]
               left == [permission EXCEPT ![X] = half]
    <3>1. /\ Refused(left) /\ NeedsPermission(applying, a) /\ undo[X] = NoFile /\ Missing = {}
      BY <2>4 DEF RefuseHalfway, Unpermitted
    <3>2. applying[a] \in Config /\ X \in Address /\ X # NoAddress /\ X \in Unix
      BY <1>1, <3>1, ListenersAssumption DEF RInv, IInv, TypeOK, NeedsPermission, Listens
    <3>3. \A x \in Address : left[x] = IF x = X THEN half ELSE permission[x]
      BY <3>2 DEF RInv, IInv, TypeOK
    <3> HIDE DEF left, half
    <3>4. ASSUME NEW b \in App, AddressOf(b) \in Unix
          PROVE  ModeOf(b)' = IF AddressOf(b) = X THEN half ELSE ModeOf(b)
      <4>1. /\ AddressOf(b)' = AddressOf(b) /\ AddressOf(b) \in Address
            /\ Settled(AddressOf(b))' = IF AddressOf(b) \in Changed THEN Settled(AddressOf(b))
                                                                   ELSE left[AddressOf(b)]
        BY <1>8, <3>1, <3>4, GivenBack
      <4> HIDE DEF X
      <4>2. AddressOf(b) = X => AddressOf(b) \notin Changed
        BY <3>1 DEF Changed
      <4>3. AddressOf(b) \notin Changed => Settled(AddressOf(b)) = permission[AddressOf(b)]
        BY <4>1 DEF Settled, Changed
      <4>4. QED BY <3>3, <3>4, <4>1, <4>2, <4>3 DEF ModeOf
    <3>5. CASE \A b \in App : AddressOf(b) # X
      <4>1. SameSockets
        BY <1>4, <2>2, <3>4, <3>5 DEF SameSockets
      <4>2. QED BY <1>1, <1>5, <2>1, <4>1, Unseen
    <3>6. CASE \E b \in App : AddressOf(b) = X
      <4>1. PICK b \in App : AddressOf(b) = X
        BY <3>6
      <4>2. listener[b] \in Id /\ bound[listener[b]] = X /\ listeners[listener[b]] = b
        BY <3>2, <4>1, ServiceSocket DEF RInv, IInv, AddressOf
      <4>3. Stays(applying, a)
        <5>1. ASSUME NeedsListener(applying, a) PROVE FALSE
          <6>1. opened[a] \in Id /\ bound[opened[a]] = X /\ listeners[opened[a]] = NoApp
            BY <5>1, <3>1 DEF Missing, RInv, IInv, TypeOK, Ledger, Staging
          <6>2. opened[a] = listener[b]
            BY <3>2, <4>2, <6>1 DEF RInv, IInv, Ledger, BoundOnce
          <6>3. QED BY <4>2, <6>1, <6>2, ListenersAssumption
        <5>2. QED BY <3>1, <5>1 DEF NeedsListener, NeedsPermission
      <4>4. b = a
        <5>1. Listens(config, a) /\ Listen[config[a]] = X
          BY <3>1, <4>3 DEF Stays, Listens, NeedsPermission
        <5>2. listener[a] \in Id /\ bound[listener[a]] = X /\ listeners[listener[a]] = a
          BY <5>1, <1>2 DEF RInv, IInv, TypeOK, Ledger, Serving
        <5>3. QED BY <3>2, <4>2, <5>2 DEF RInv, IInv, Ledger, BoundOnce
      <4>5. \A c \in App : c # a => AddressOf(c) # X
        <5>1. SUFFICES ASSUME NEW c \in App, AddressOf(c) = X PROVE c = a
          OBVIOUS
        <5>2. listener[c] \in Id /\ bound[listener[c]] = X /\ listeners[listener[c]] = c
          BY <3>2, <5>1, ServiceSocket DEF RInv, IInv, AddressOf
        <5>3. QED BY <3>2, <4>2, <4>4, <5>2 DEF RInv, IInv, Ledger, BoundOnce
      <4>6. AddressOf(a) = X /\ ModeOf(a) = permission[X]
        BY <3>1, <3>2, <4>1, <4>4 DEF ModeOf, Settled
      <4>7. \A c \in App : ModeOf(c)' = IF c = a THEN half ELSE ModeOf(c)
        BY <2>2, <3>2, <3>4, <4>5, <4>6
      <4>8. half = [owner |-> Mode[applying[a]].owner, mode |-> ModeOf(a).mode]
        BY <4>6 DEF half
      <4>9. Promise!Asked(applying, a) = X /\ ~Promise!KeepsMode(applying, a) /\ applying[a] # NoConfig
        BY <3>1, <4>3 DEF Promise!Asked, Promise!KeepsMode, NeedsPermission, Listens
      <4>10. Promise!InService /\ (phase # "running")' = (phase # "running")
        BY <1>2, <2>1 DEF Promise!InService
      <4> HIDE DEF X
      <4>11. [c \in App |-> ModeOf(c)]' =
               [[c \in App |-> ModeOf(c)] EXCEPT ![a] = [owner |-> Mode[applying[a]].owner,
                                                          mode |-> ModeOf(a).mode]]
        BY <4>7, <4>8
      <4>12. Promise!Disown(applying, a)
        BY <1>1, <1>4, <1>5, <2>1, <3>2, <4>6, <4>9, <4>10, <4>11 DEF Promise!Disown
      <4>13. QED BY <4>12
    <3>7. QED BY <3>5, <3>6
  <2>5. QED BY <1>1, <2>3, <2>4 DEF Refusal
<1>9. QED BY <1>6, <1>7, <1>8

\* The commit of a snapshot is its application, as if it had been one step: staged
\* listeners become those of services that move or are new, the others keep theirs.
LEMMA CommitSeen == ASSUME RInv, IInv', Commit PROVE Promise!Apply(applying) /\ applying \in Snapshot
<1>1. /\ config' = applying /\ listener' = [a \in App |-> Adopted(a)]
      /\ backlog' = backlog \ GivenUp
      /\ undo' = [x \in Address |-> NoFile]
      /\ demand' = StillDemanded
      /\ UNCHANGED <<phase, fatal>>
  BY DEF Commit, Forget
<1>2. /\ phase = "running" /\ ~fatal /\ applying \in Snapshot
      /\ \A a \in App : opened[a] # 0 <=> NeedsListener(applying, a)
      /\ \A a \in App : Stays(applying, a) /\ listener[a] # 0 =>
           listener[a] \in Id \ GivenUp /\ opened[a] = 0
  BY CommitFacts DEF RInv, IInv, Standing, Commit, Selecting
<1>3. Promise!InService
  BY <1>2 DEF Promise!InService
<1>4. ASSUME NEW a \in App PROVE AddressOf(a)' = Promise!Asked(applying, a)
  <2>1. Listens(applying, a) <=> listener'[a] # 0
    BY <1>1, <1>2 DEF IInv, Ledger, Serving, Listens
  <2>2. listener'[a] # 0 => bound'[listener'[a]] = Listen[applying[a]]
    BY <1>1 DEF IInv, Ledger, Serving
  <2>3. QED BY <2>1, <2>2 DEF AddressOf, Promise!Asked, Listens
<1>5. ASSUME NEW a \in App
      PROVE  ModeOf(a)' = IF Promise!KeepsMode(applying, a) THEN ModeOf(a)
                                                            ELSE Promise!AskedMode(applying, a)
  <2>1. CASE AddressOf(a)' \in Unix
    <3> DEFINE X == Listen[applying[a]]
    <3>1. listener'[a] # 0 /\ AddressOf(a)' \in Address
      BY <2>1, ListenersAssumption DEF AddressOf
    <3>2. /\ Listens(applying, a) /\ AddressOf(a)' = X
          /\ listener'[a] \in Id /\ bound'[listener'[a]] = X
      BY <3>1, <1>1 DEF AddressOf, IInv, Ledger, Serving, Listens, TypeOK
    <3>3. X \in Address /\ X # NoAddress /\ X \in Unix /\ Promise!Asked(applying, a) = X
      BY <2>1, <3>1, <3>2 DEF Listens, Promise!Asked
    <3>4. permission'[X] = permission[X]
      <4>1. listener'[a] \notin GivenUp /\ bound[listener'[a]] = X
        BY <3>2, <3>3 DEF Commit, Forget
      <4>2. \A i \in GivenUp : i \in Id
        BY DEF GivenUp, RInv, IInv, TypeOK
      <4>3. X \notin Unlinked(GivenUp)
        BY <3>2, <3>3, <4>1, <4>2 DEF Unlinked, RInv, IInv, Ledger, BoundOnce
      <4>4. QED BY <3>3, <4>3 DEF Commit
    <3>5. ModeOf(a)' = permission[X]
      BY <1>1, <2>1, <3>2, <3>3, <3>4 DEF ModeOf, Settled
    <3>6. ASSUME undo[X] # NoFile PROVE NeedsPermission(applying, a) /\ permission[X] = Mode[applying[a]]
      <4>1. PICK c \in App : /\ NeedsPermission(applying, c) /\ X = Listen[applying[c]]
                             /\ permission[X] = Mode[applying[c]]
        BY <1>2, <3>3, <3>6 DEF RInv, IInv, Paths
      <4>2. c = a
        BY <1>2, <3>2, <4>1, OneAddressEach DEF NeedsPermission, Listens
      <4>3. QED BY <4>1, <4>2
    <3>7. CASE Promise!KeepsMode(applying, a)
      <4>1. Stays(applying, a) /\ Mode[config[a]] = Mode[applying[a]]
        BY <3>7 DEF Promise!KeepsMode, Promise!Asked, Stays
      <4>2. undo[X] = NoFile
        BY <3>6, <4>1 DEF NeedsPermission
      <4>3. listener[a] # 0 /\ Listen[config[a]] = X
        BY <1>2, <3>2, <4>1 DEF RInv, IInv, Ledger, Serving, Stays, Listens
      <4>4. ModeOf(a) = permission[X]
        BY <3>3, <4>2, <4>3, ServiceSocket DEF RInv, IInv, ModeOf, Settled
      <4>5. QED BY <3>5, <3>7, <4>4
    <3>8. CASE ~Promise!KeepsMode(applying, a)
      <4>1. NeedsPermission(applying, a)
        BY <3>2, <3>3, <3>8 DEF NeedsPermission, Stays, Promise!KeepsMode, Promise!Asked
      <4>2. permission[X] = Mode[applying[a]]
        BY <3>6, <4>1 DEF Commit, Unpermitted
      <4>3. QED BY <3>3, <3>5, <3>8, <4>2 DEF Promise!AskedMode
    <3>9. QED BY <3>7, <3>8
  <2>2. CASE AddressOf(a)' \notin Unix
    <3>1. ModeOf(a)' = NoFile /\ Promise!AskedMode(applying, a) = NoFile
      BY <2>2, <1>4 DEF ModeOf, Promise!AskedMode
    <3>2. ASSUME Promise!KeepsMode(applying, a) PROVE AddressOf(a) \notin Unix
      <4>1. Promise!Asked(config, a) \notin Unix /\ config[a] # NoConfig
        BY <1>4, <2>2, <3>2 DEF Promise!KeepsMode
      <4>2. CASE listener[a] = 0
        BY <4>2, NoSocket, ListenersAssumption
      <4>3. CASE listener[a] # 0
        BY <4>1, <4>3, ServiceSocket DEF RInv, IInv, Promise!Asked
      <4>4. QED BY <4>2, <4>3
    <3>3. QED BY <3>1, <3>2 DEF ModeOf
  <2>3. QED BY <2>1, <2>2
<1>6. Waiting' \in SUBSET {a \in App : AddressOf(a)' # NoAddress}
  <2>1. SUFFICES ASSUME NEW a \in App, listener'[a] \in backlog' PROVE AddressOf(a)' # NoAddress
    BY DEF Waiting
  <2>2. listener'[a] # 0
    BY <2>1 DEF IInv, TypeOK
  <2>3. Listens(applying, a) /\ AddressOf(a)' = Listen[applying[a]]
    BY <2>2, <1>1, <1>4 DEF IInv, Ledger, Serving, Listens, Promise!Asked
  <2>4. QED BY <2>3 DEF Listens
<1>7. ASSUME NEW a \in App, AddressOf(a)' = AddressOf(a)
      PROVE  listener'[a] \in backlog' <=> listener[a] \in backlog
  <2>1. 0 \notin backlog /\ 0 \notin backlog'
    BY DEF RInv, IInv, TypeOK
  <2>2. CASE listener[a] # 0
    <3>1. AddressOf(a) = Listen[config[a]] /\ AddressOf(a) # NoAddress /\ config[a] \in Config
      BY <2>2, ServiceSocket DEF RInv, IInv
    <3>2. AddressOf(a)' = IF applying[a] = NoConfig THEN NoAddress ELSE Listen[applying[a]]
      BY <1>4 DEF Promise!Asked
    <3>3. Stays(applying, a)
      BY <3>1, <3>2, <1>7, ListenersAssumption DEF Stays
    <3>4. listener'[a] = listener[a] /\ listener[a] \notin GivenUp
      BY <3>3, <2>2, <1>1, <1>2 DEF Adopted
    <3>5. QED BY <3>4, <1>1
  <2>3. CASE listener[a] = 0
    <3>1. AddressOf(a)' = NoAddress
      BY <2>3, <1>7, NoSocket
    <3>2. listener'[a] = 0
      BY <3>1, ServiceSocket DEF IInv, AddressOf, Ledger, Serving, Listens
    <3>3. QED BY <2>1, <2>3, <3>2
  <2>4. QED BY <2>2, <2>3
<1>8. \A a \in App : AddressOf(a)' = AddressOf(a) => (a \in Waiting' <=> a \in Waiting)
  BY <1>7 DEF Waiting
<1>9. (phase # "running")' = (phase # "running")
  BY <1>1
<1>10. Promise!Apply(applying)
  BY <1>1, <1>3, <1>4, <1>5, <1>6, <1>8, <1>9 DEF Promise!Apply, StillDemanded
<1>11. QED BY <1>2, <1>10

\* Steps that change no socket, path or configuration.
LEMMA SameRecords ==
  ASSUME RInv, UNCHANGED <<config, listener, bound, permission, undo>>
  PROVE  SameSockets
<1>1. \A a \in App : Settled(AddressOf(a))' = Settled(AddressOf(a))
  <2>1. \A a \in App : AddressOf(a)' = AddressOf(a)
    BY DEF AddressOf
  <2>2. QED BY <2>1 DEF Settled
<1>2. QED BY <1>1, Untouched DEF RInv, IInv

\* A staged listener may have connections: they are nobody's yet.
LEMMA ConnectionSeen ==
  ASSUME RInv, NEW i \in Id, Connect(i) \/ Accept(i)
  PROVE  UNCHANGED Promise!registry \/ \E a \in App : Promise!Connect(a) \/ Promise!Accept(a)
<1> USE DEF serviceVars, socketVars, eventVars, applyVars
<1>1. UNCHANGED <<config, listener, demand, bound, permission, undo, fatal, phase>>
  BY DEF Connect, Accept
<1>2. SameSockets
  BY <1>1, SameRecords
<1>3. CASE listeners[i] # NoApp
  <2> DEFINE a == listeners[i]
  <2>1. a \in App /\ listener[a] = i /\ \A b \in App : listener[b] = i => b = a
    BY <1>3, ListenersAssumption DEF RInv, IInv, TypeOK, Ledger, Serving
  <2>2. AddressOf(a) # NoAddress
    BY <2>1, ServiceSocket DEF RInv, IInv
  <2>3. CASE Connect(i)
    <3>1. Waiting' = Waiting \cup {a}
      BY <2>1, <2>3, <1>1 DEF Connect, Waiting
    <3>2. Promise!Connect(a)
      BY <1>1, <1>2, <2>1, <2>2, <3>1 DEF Promise!Connect, SameSockets
    <3>3. QED BY <2>1, <3>2
  <2>4. CASE Accept(i)
    <3>1. Waiting' = Waiting \ {a}
      BY <2>1, <2>4, <1>1 DEF Accept, Waiting
    <3>2. Promise!Accept(a)
      BY <1>1, <1>2, <3>1 DEF Promise!Accept, SameSockets
    <3>3. QED BY <2>1, <3>2
  <2>5. QED BY <2>3, <2>4
<1>4. CASE listeners[i] = NoApp
  <2>1. \A b \in App : listener[b] # i
    BY <1>4, ListenersAssumption DEF RInv, IInv, Ledger, Serving
  <2>2. Waiting' = Waiting
    BY <2>1, <1>1 DEF Connect, Accept, Waiting
  <2>3. QED BY <1>1, <1>2, <2>2, Unseen
<1>5. QED BY <1>3, <1>4

\* A step of which nothing but a fatal error is seen.
LEMMA FailureSeen ==
  ASSUME RInv, TypeOK', fatal => fatal',
         UNCHANGED <<config, listener, bound, permission, undo, demand, backlog, phase>>
  PROVE  UNCHANGED Promise!registry \/ Promise!Fail
<1>1. SameSockets /\ Waiting' = Waiting
  BY SameRecords DEF Waiting
<1>2. CASE fatal' = fatal
  <2>1. phase' = "running" <=> phase = "running"
    OBVIOUS
  <2>2. UNCHANGED <<config, demand, fatal>>
    BY <1>2
  <2>3. QED BY <1>1, <2>1, <2>2, Unseen
<1>3. CASE fatal' # fatal
  <2>1. fatal' = TRUE
    BY <1>3 DEF RInv, IInv, TypeOK
  <2>2. \A a \in App : ModeOf(a)' \in Permission \cup {NoFile}
    BY ListenersAssumption DEF ModeOf, Settled, TypeOK
  <2>3. Promise!Fail
    BY <1>1, <2>1, <2>2 DEF Promise!Fail, SameSockets
  <2>4. QED BY <2>3
<1>4. QED BY <1>2, <1>3

\* The event of a closed listener finds no service; that of an open one is its own.
LEMMA EventSeen ==
  ASSUME RInv, TypeOK', NEW i \in Id, HandleEvent(i)
  PROVE  UNCHANGED Promise!registry \/ Promise!Fail \/ \E a \in App : Promise!Notice(a)
<1>1. UNCHANGED <<config, listener, bound, permission, undo, backlog, phase>>
  BY DEF HandleEvent, serviceVars, socketVars, applyVars
<1>2. CASE listeners[i] # NoApp /\ reported[i] = "readable"
  <2> DEFINE a == listeners[i]
  <2>1. a \in App /\ listener[a] = i /\ i # 0
    BY <1>2, ListenersAssumption DEF RInv, IInv, TypeOK, Ledger, Serving
  <2>2. AddressOf(a) # NoAddress
    BY <2>1, ServiceSocket DEF RInv, IInv
  <2>3. Promise!InService
    BY <2>1 DEF Promise!InService, RInv, Standing, HandleEvent, Receiving
  <2>4. demand' = demand \cup {a} /\ UNCHANGED fatal
    BY <1>2 DEF HandleEvent, RInv, IInv, TypeOK
  <2>5. SameSockets /\ Waiting' = Waiting /\ (phase # "running")' = (phase # "running")
    BY <1>1, SameRecords DEF Waiting
  <2>6. Promise!Notice(a)
    BY <1>1, <2>1, <2>2, <2>3, <2>4, <2>5 DEF Promise!Notice, SameSockets
  <2>7. QED BY <2>1, <2>6
<1>3. CASE ~(listeners[i] # NoApp /\ reported[i] = "readable")
  <2>1. UNCHANGED demand /\ (fatal => fatal')
    BY <1>3 DEF HandleEvent
  <2>2. QED BY <1>1, <2>1, FailureSeen
<1>4. QED BY <1>2, <1>3

LEMMA ShutdownSeen == ASSUME RInv, TypeOK', Shutdown PROVE Promise!Close
<1>1. /\ listener' = [a \in App |-> 0] /\ phase' = "stopping"
      /\ UNCHANGED <<config, demand, fatal>>
  BY DEF Shutdown
<1>2. \A a \in App : AddressOf(a)' = NoAddress /\ ModeOf(a)' = NoFile
  BY <1>1, ListenersAssumption DEF AddressOf, ModeOf
<1>3. Waiting' = {}
  BY <1>1 DEF Waiting, TypeOK
<1>4. (phase # "running")' = TRUE /\ fatal' \in {fatal, TRUE}
  BY <1>1
<1>5. QED BY <1>1, <1>2, <1>3, <1>4 DEF Promise!Close

LEMMA ServeSeen == ASSUME RInv, NEW a \in App, Serve(a) PROVE Promise!Serve(a)
<1>1. /\ UNCHANGED <<config, listener, bound, permission, undo, backlog, fatal, phase>>
      /\ demand' = demand \ {a} /\ Promise!InService
  BY DEF Serve, Receiving, Promise!InService, serviceVars, socketVars, eventVars, applyVars
<1>2. SameSockets /\ Waiting' = Waiting /\ (phase # "running")' = (phase # "running")
  BY <1>1, SameRecords DEF Waiting
<1>3. QED BY <1>1, <1>2 DEF Promise!Serve, SameSockets

LEMMA RegistryStep ==
  ASSUME RInv, RInv', [Next]_vars
  PROVE  [Promise!Next]_Promise!registry
<1> USE DEF serviceVars, socketVars, eventVars, applyVars
<1> DEFINE Seen == UNCHANGED Promise!registry
<1>1. TypeOK' /\ IInv'
  BY DEF RInv, IInv
<1>2. ASSUME NEW s \in Snapshot, Begin(s) PROVE Seen
  BY <1>2, BeginUnseen
<1>3. ASSUME NEW a \in App, Open(a) \/ Permit(a) PROVE Seen
  BY <1>3, OpenUnseen, PermitUnseen
<1>4. ASSUME NEW a \in App, Serve(a) PROVE Promise!Next
  BY <1>4, ServeSeen DEF Promise!Next
<1>5. ASSUME Refusal PROVE Seen \/ Promise!Next
  BY <1>5, RefuseSeen DEF Promise!Next
<1>6. ASSUME Commit PROVE Promise!Next
  BY <1>6, <1>1, CommitSeen DEF Promise!Next
<1>7. ASSUME NEW i \in Id, Connect(i) \/ Accept(i) PROVE Seen \/ Promise!Next
  BY <1>7, ConnectionSeen DEF Promise!Next
<1>8. ASSUME NEW i \in Id, HandleEvent(i) PROVE Seen \/ Promise!Next
  BY <1>8, <1>1, EventSeen DEF Promise!Next
<1>9. ASSUME \/ \E i \in Id, event \in {"readable", "error"} : Report(i, event)
             \/ \E i \in Id, ok \in BOOLEAN : Rearm(i, ok)
             \/ PollFails
      PROVE  Seen \/ Promise!Next
  <2> DEFINE Kept == UNCHANGED <<config, listener, bound, permission, undo, demand, backlog, phase>>
  <2>1. ASSUME NEW i \in Id, NEW event \in {"readable", "error"}, Report(i, event)
        PROVE  Kept /\ (fatal => fatal')
    BY <2>1 DEF Report
  <2>2. ASSUME NEW i \in Id, NEW ok \in BOOLEAN, Rearm(i, ok)
        PROVE  Kept /\ (fatal => fatal')
    BY <2>2 DEF Rearm
  <2>3. ASSUME PollFails PROVE Kept /\ (fatal => fatal')
    BY <2>3 DEF PollFails
  <2>4. Kept /\ (fatal => fatal')
    BY <1>9, <2>1, <2>2, <2>3
  <2>5. QED BY <1>1, <2>4, FailureSeen DEF Promise!Next
<1>10. ASSUME PollEnds \/ Return \/ Returned \/ UNCHANGED vars PROVE Seen
  <2>1. /\ UNCHANGED <<config, listener, bound, permission, undo, demand, backlog, fatal>>
        /\ phase' = "running" <=> phase = "running"
    BY <1>10 DEF PollEnds, Return, Returned, vars
  <2>2. SameSockets /\ Waiting' = Waiting
    BY <2>1, SameRecords DEF Waiting
  <2>3. QED BY <2>1, <2>2, Unseen
<1>11. ASSUME Shutdown PROVE Promise!Next
  BY <1>11, <1>1, ShutdownSeen DEF Promise!Next
<1> HIDE DEF Seen
<1>12. Seen \/ Promise!Next
  BY <1>2, <1>3, <1>4, <1>5, <1>6, <1>7, <1>8, <1>9, <1>10, <1>11 DEF Next, Refusal
<1>13. QED BY <1>12 DEF Seen

-----------------------------------------------------------------------------
(* The theorems *)

LEMMA Initially == Init => IInv
<1> SUFFICES ASSUME Init PROVE IInv
  OBVIOUS
<1> USE ListenersAssumption DEF Init
<1>1. TypeOK
  <2>1. 0 \in 0 .. LastListener
    OBVIOUS
  <2>2. QED BY <2>1 DEF TypeOK
<1>2. Ledger
  BY DEF Ledger, Numbered, Quiet, BoundOnce, Staging, Serving, Listens
<1>3. Watched
  BY DEF Watched, NeverDeaf
<1>4. Files /\ Paths
  BY DEF Files, Changed, Paths
<1>5. QED BY <1>1, <1>2, <1>3, <1>4 DEF IInv

LEMMA Inductive == Spec => []IInv
<1>1. Init => IInv
  BY Initially
<1>2. IInv /\ [Next]_vars => IInv'
  BY TypeStep, FilesStep, LedgerStep, WatchedStep, PathsStep DEF IInv
<1>3. QED BY <1>1, <1>2, PTL DEF Spec

\* Every variable keeps its type: the identifiers of main.go:2474 stay within
\* int32, also when all of them have been given out.
THEOREM TypeCorrect == Spec => []TypeOK
<1>1. IInv => TypeOK
  BY DEF IInv
<1>2. QED BY <1>1, Inductive, PTL

\* apply() takes over all listeners of a snapshot or none, however many apps it
\* has and whichever of its steps fails (main.go:2435-2547).
THEOREM RegisteredAlways == Spec => []Registered
<1>1. IInv => Registered
  BY DEF IInv, Ledger, Serving, Quiet, Registered, Selecting
<1>2. QED BY <1>1, Inductive, PTL

\* The one-shot registration of a listener is always in exactly one place: with
\* epoll, in the channel, or with the next tick (main.go:2652-2665, 2773-2782).
THEOREM NeverDeafAlways == Spec => []NeverDeaf
<1>1. IInv => NeverDeaf
  BY DEF IInv, Watched
<1>2. QED BY <1>1, Inductive, PTL

\* Refusing a snapshot takes back the owners and modes it had changed or is fatal, but
\* for the owner of a path where Identity.socket() itself failed and could not go
\* back (job_linux.go:286-288); committing it leaves no path behind and gives every
\* path whose permissions it changes what it asks for (main.go:2450-2462, 2486-2503).
THEOREM PermittedAlways == Spec => []Permitted
<1>1. IInv => Permitted
  <2> SUFFICES ASSUME IInv, Selecting, phase = "running", ~fatal PROVE Permitted
    BY DEF Permitted
  <2>1. \A x \in Address : undo[x] = NoFile
    BY DEF IInv, Ledger, Quiet, Selecting
  <2>2. ASSUME NEW a \in App, listener[a] # 0, Listen[config[a]] \in Unix
        PROVE  LET x == Listen[config[a]]
               IN  /\ permission[x].mode = Mode[config[a]].mode
                   /\ permission[x].owner = Mode[config[a]].owner \/ x \in disowned
    <3>1. Owned(a)
      BY <2>2 DEF IInv, Paths
    <3>2. Settled(Listen[config[a]]) = permission[Listen[config[a]]]
      BY <2>1, <2>2, ListenersAssumption DEF Settled
    <3>3. QED BY <3>1, <3>2 DEF Owned
  <2>3. \A x \in Address : permission[x] # NoFile => Taken(x)
    BY DEF IInv, Paths
  <2>4. QED BY <2>2, <2>3 DEF Permitted
<1>2. QED BY <1>1, Inductive, PTL

\* apply() implements one step that puts a snapshot in force: whichever of its steps
\* fails, and whatever clients, workers and the poller do between them
\* (main.go:2435-2547).  A connection that waits where a service stays survives it.
THEOREM Implements == Spec => ImplementsRegistry
<1>1. Init => RInv /\ Promise!Init
  <2> SUFFICES ASSUME Init PROVE RInv /\ Promise!Init
    OBVIOUS
  <2>1. IInv
    BY Initially
  <2>2. Standing
    BY DEF Init, Standing
  <2>3. \A a \in App : AddressOf(a) = NoAddress /\ ModeOf(a) = NoFile
    BY NoSocket DEF Init
  <2>4. Waiting = {} /\ (phase # "running") = FALSE
    BY DEF Init, Waiting
  <2>5. Promise!Init
    BY <2>3, <2>4 DEF Init, Promise!Init
  <2>6. QED BY <2>1, <2>2, <2>5 DEF RInv
<1>2. RInv /\ [Next]_vars => RInv'
  BY TypeStep, FilesStep, LedgerStep, WatchedStep, PathsStep, StandingStep DEF RInv, IInv
<1>3. RInv /\ RInv' /\ [Next]_vars => [Promise!Next]_Promise!registry
  BY RegistryStep
<1>4. QED BY <1>1, <1>2, <1>3, PTL DEF Spec, ImplementsRegistry, Promise!Spec

=============================================================================
