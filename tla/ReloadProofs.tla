---------------------------- MODULE ReloadProofs ----------------------------
(***************************************************************************)
(* What Reload promises, for any apps, snapshots and roots: the watcher    *)
(* and the manager agree on the configuration, and a change of the files   *)
(* of a running app is forfeited in two cases only.                        *)
(*                                                                         *)
(* The argument: Watch() knows the snapshot it has sent last and the       *)
(* manager runs it or keeps it for another try; the watcher looks below    *)
(* the roots of the snapshot that is known or on its way; and what is      *)
(* recorded for a restart names a configuration of the known snapshot.     *)
(***************************************************************************)
EXTENDS Reload, TLAPS

LEMMA TypeStep == ASSUME TypeOK, [Next]_vars PROVE TypeOK'
<1> USE ReloadAssumption DEF TypeOK, watchVars, managerVars
<1>1. ASSUME NEW d \in Snapshot \cup {Invalid}, Edit(d) PROVE TypeOK'
  BY <1>1 DEF Edit
<1>2. ASSUME NEW a \in App, NEW fate \in {"event", "lost", "unseen"}, Touch(a, fate) PROVE TypeOK'
  BY <1>2 DEF Touch
<1>3. ASSUME NEW a \in App, Outlive(a) \/ Record(a) PROVE TypeOK'
  <2>1. CASE Outlive(a)
    BY <2>1 DEF Outlive
  <2>2. CASE Record(a)
    <3>1. restarts' \in [App -> Config \cup {NoConfig}]
      BY <2>2 DEF Record, Recorded
    <3>2. QED BY <2>2, <3>1 DEF Record
  <2>3. QED BY <1>3, <2>1, <2>2
<1>4. ASSUME NEW timer \in {"debounce", "periodic"}, NEW started \in BOOLEAN, Flush(timer, started)
      PROVE  TypeOK'
  <2>1. restarts' \in [App -> Config \cup {NoConfig}]
    BY <1>4 DEF Flush, Overflowed
  <2>2. lost' \in BOOLEAN /\ debounce' \in BOOLEAN
    BY <1>4 DEF Flush
  <2>3. offer' \in Snapshot \cup {NoSnapshot} /\ watch' \in {"select", "sending", "ended"}
    BY <1>4 DEF Flush
  <2>4. roots' \in SUBSET App /\ events' \in SUBSET roots'
    <3>1. CASE started
      <4>1. disk \in Snapshot /\ roots' = Roots[disk] /\ events' = {}
        BY <1>4, <3>1 DEF Flush, Undelivered
      <4>2. QED BY <4>1
    <3>2. CASE ~started
      BY <1>4, <3>2 DEF Flush, Undelivered
    <3>3. QED BY <3>1, <3>2
  <2>5. UNCHANGED <<disk, known, services, pending, running, stale>>
    BY <1>4 DEF Flush
  <2>6. QED BY <2>1, <2>2, <2>3, <2>4, <2>5
<1>5. ASSUME NEW ok \in BOOLEAN, Receive(ok) PROVE TypeOK'
  <2>1. offer = NoSnapshot => ~ok
    BY <1>5 DEF Receive
  <2>2. services' \in Snapshot /\ known' \in Snapshot /\ pending' \in Snapshot \cup {NoSnapshot}
    BY <1>5, <2>1 DEF Receive, PendingAfter
  <2>3. QED BY <1>5, <2>2 DEF Receive, NoRestarts
<1>6. ASSUME NEW ok \in BOOLEAN, Retry(ok) PROVE TypeOK'
  BY <1>6 DEF Retry, PendingAfter
<1>7. ASSUME WatchFails \/ Stop PROVE TypeOK'
  BY <1>7 DEF WatchFails, Stop
<1>8. ASSUME Stopped \/ UNCHANGED vars PROVE TypeOK'
  BY <1>8 DEF Stopped, vars
<1>9. QED
  <2> HIDE DEF TypeOK
  <2>1. QED BY <1>1, <1>2, <1>3, <1>4, <1>5, <1>6, <1>7, <1>8 DEF Next

-----------------------------------------------------------------------------
(* The invariant *)

\* An update is on its way only while Watch() sends it.
Sent == watch = "select" => offer = NoSnapshot

\* The watcher's roots are those of the last configuration it has loaded.
Covered == roots = Roots[IF offer = NoSnapshot THEN known ELSE offer]

\* What is recorded names the configuration Watch() knows.
Recent == \A a \in App : restarts[a] # NoConfig => restarts[a] = known[a]

\* Only apps that are restarted for changes of their files may miss one.
Awaiting == \A a \in stale : services[a] \in Watching

IInv == TypeOK /\ Agreement /\ Sent /\ Covered /\ Recent /\ Awaiting

\* Steps that leave the configurations and updates alone.
LEMMA OtherStep ==
  ASSUME IInv, TypeOK',
         UNCHANGED <<known, roots, restarts, offer, services, pending>>,
         watch' = "select" => watch = "select",
         \A a \in stale' : services[a] \in Watching
  PROVE  IInv'
BY DEF IInv, Agreement, Sent, Covered, Recent, Awaiting

LEMMA FlushStep ==
  ASSUME IInv, TypeOK', NEW timer \in {"debounce", "periodic"}, NEW started \in BOOLEAN,
         Flush(timer, started)
  PROVE  IInv'
<1>1. /\ watch = "select" /\ offer = NoSnapshot /\ roots = Roots[known]
      /\ UNCHANGED <<disk, known, services, pending, stale>>
  BY DEF Flush, managerVars, IInv, Sent, Covered
<1>2. Agreement' /\ Awaiting'
  BY <1>1 DEF IInv, Agreement, Awaiting
<1>3. Sent'
  BY DEF Flush, Sent, SomethingToSend
<1>4. Covered'
  <2>1. CASE started
    <3>1. roots' = Roots[disk] /\ offer' = IF disk # known THEN disk ELSE NoSnapshot
      BY <2>1 DEF Flush
    <3>2. disk \in Snapshot
      BY <2>1 DEF Flush, IInv, TypeOK
    <3>3. QED BY <1>1, <3>1, <3>2, ReloadAssumption DEF Covered
  <2>2. CASE ~started
    <3>1. roots' = roots /\ (offer' = NoSnapshot \/ (offer' = disk /\ Roots[disk] = roots))
      BY <2>2 DEF Flush
    <3>2. QED BY <1>1, <3>1 DEF Covered
  <2>3. QED BY <2>1, <2>2
<1>5. Recent'
  BY <1>1 DEF Flush, Overflowed, IInv, Recent
<1>6. QED BY <1>2, <1>3, <1>4, <1>5 DEF IInv

LEMMA ReceiveStep == ASSUME IInv, TypeOK', NEW ok \in BOOLEAN, Receive(ok) PROVE IInv'
<1>1. /\ offer = NoSnapshot => ~ok
      /\ known' = IF offer = NoSnapshot THEN known ELSE offer
      /\ services' = IF ok THEN offer ELSE services
      /\ pending' = IF offer = NoSnapshot THEN pending ELSE IF ok THEN NoSnapshot ELSE offer
      /\ offer' = NoSnapshot /\ roots' = roots /\ restarts' = NoRestarts
      /\ stale' \subseteq stale \ Changed(services')
  BY DEF Receive, PendingAfter
<1>2. Agreement'
  BY <1>1 DEF IInv, Agreement
<1>3. Sent' /\ Covered'
  BY <1>1 DEF IInv, Sent, Covered
<1>4. Recent'
  BY <1>1 DEF Recent, NoRestarts
<1>5. Awaiting'
  BY <1>1 DEF IInv, TypeOK, Awaiting, Changed
<1>6. QED BY <1>2, <1>3, <1>4, <1>5 DEF IInv

LEMMA InvStep == ASSUME IInv, [Next]_vars PROVE IInv'
<1> USE DEF watchVars, managerVars
<1>0. TypeOK'
  BY TypeStep DEF IInv
<1>1. ASSUME NEW d \in Snapshot \cup {Invalid}, Edit(d) PROVE IInv'
  BY <1>0, <1>1, OtherStep DEF Edit, IInv, Awaiting
<1>2. ASSUME NEW a \in App, NEW fate \in {"event", "lost", "unseen"}, Touch(a, fate) PROVE IInv'
  BY <1>0, <1>2, OtherStep DEF Touch, IInv, Awaiting
<1>3. ASSUME NEW a \in App, Outlive(a) PROVE IInv'
  BY <1>0, <1>3, OtherStep DEF Outlive, IInv, Awaiting
<1>4. ASSUME NEW a \in App, Record(a) PROVE IInv'
  <2>1. Recent'
    BY <1>4 DEF Record, Recorded, IInv, TypeOK, Recent
  <2>2. UNCHANGED <<known, roots, offer, watch, services, pending, stale>>
    BY <1>4 DEF Record
  <2>3. QED BY <1>0, <2>1, <2>2 DEF IInv, Agreement, Sent, Covered, Awaiting
<1>5. ASSUME NEW ok \in BOOLEAN, Retry(ok) PROVE IInv'
  <2>1. Agreement'
    BY <1>5 DEF Retry, PendingAfter, IInv, Agreement
  <2>2. Awaiting'
    BY <1>5 DEF Retry, Changed, IInv, TypeOK, Awaiting
  <2>3. UNCHANGED <<known, roots, restarts, offer, watch>>
    BY <1>5 DEF Retry
  <2>4. QED BY <1>0, <2>1, <2>2, <2>3 DEF IInv, Sent, Covered, Recent
<1>6. ASSUME WatchFails \/ Stop PROVE IInv'
  BY <1>0, <1>6, OtherStep DEF WatchFails, Stop, IInv, Awaiting
<1>7. ASSUME Stopped \/ UNCHANGED vars PROVE IInv'
  BY <1>0, <1>7, OtherStep DEF Stopped, vars, IInv, Awaiting
<1>8. QED
  BY <1>0, <1>1, <1>2, <1>3, <1>4, <1>5, <1>6, <1>7, FlushStep, ReceiveStep DEF Next

LEMMA Inductive == Spec => []IInv
<1>1. Init => IInv
  <2> SUFFICES ASSUME Init PROVE IInv
    OBVIOUS
  <2>1. TypeOK
    BY ReloadAssumption DEF Init, TypeOK, NoRestarts
  <2>2. QED BY <2>1 DEF Init, IInv, Agreement, Sent, Covered, Recent, Awaiting, NoRestarts
<1>2. IInv /\ [Next]_vars => IInv'
  BY InvStep
<1>3. QED BY <1>1, <1>2, PTL DEF Spec

-----------------------------------------------------------------------------
(* Forfeited changes *)

\* While nothing is refused, a process that misses a change runs what Watch()
\* knows, a configuration with rules.
LEMMA StaleKnown ==
  ASSUME IInv, pending = NoSnapshot, NEW a \in stale
  PROVE  a \in App /\ known[a] = services[a] /\ known[a] \in Watching /\ known[a] # NoConfig
BY ReloadAssumption DEF IInv, TypeOK, Agreement, Awaiting

LEMMA ForfeitStep ==
  ASSUME IInv, [Next]_vars, pending = NoSnapshot, pending' = NoSnapshot, roots' = roots
  PROVE  Forfeited' \subseteq Forfeited
<1> USE DEF watchVars, managerVars
<1> SUFFICES ASSUME NEW a \in stale', ~OnItsWay(a)' PROVE a \in stale /\ ~OnItsWay(a)
  BY DEF Forfeited
<1>1. CASE /\ UNCHANGED <<events, lost, restarts, offer>> /\ stale' \subseteq stale
  BY <1>1 DEF OnItsWay
<1>2. ASSUME NEW b \in App, NEW fate \in {"event", "lost", "unseen"}, Touch(b, fate)
      PROVE  a \in stale /\ ~OnItsWay(a)
  <2>1. /\ stale' = stale \cup {b} /\ UNCHANGED <<restarts, offer>>
        /\ events \subseteq events' /\ (lost => lost')
    BY <1>2 DEF Touch
  <2>2. ~OnItsWay(a)
    BY <2>1 DEF OnItsWay
  <2>3. CASE a = b
    <3>1. fate = "unseen" /\ a \notin roots
      BY <1>2, <2>3 DEF Touch, OnItsWay
    <3>2. offer = NoSnapshot
      BY <2>2, <3>1 DEF OnItsWay
    <3>3. known = services /\ services[a] \in Watching
      BY <1>2, <2>3 DEF Touch, IInv, Agreement
    <3>4. known \in Snapshot
      BY DEF IInv, TypeOK
    <3>5. a \in Roots[known]
      BY <2>3, <3>3, <3>4, WatchedRoots
    <3>6. QED BY <3>1, <3>2, <3>5 DEF IInv, Covered
  <2>4. QED BY <2>1, <2>2, <2>3
<1>3. ASSUME NEW b \in App, Record(b) PROVE a \in stale /\ ~OnItsWay(a)
  <2>1. stale' = stale /\ UNCHANGED <<known, lost, offer>> /\ events' = events \ {b}
        /\ restarts' = Recorded(b)
    BY <1>3 DEF Record
  <2>2. known[a] \in Watching /\ known[a] # NoConfig /\ a \in App
    BY <2>1, StaleKnown
  <2>3. CASE a = b
    <3>1. restarts'[a] = known[a]
      BY <2>1, <2>2, <2>3 DEF Recorded, IInv, TypeOK
    <3>2. QED BY <2>2, <3>1 DEF OnItsWay
  <2>4. CASE a # b
    <3>1. restarts'[a] = restarts[a]
      BY <2>1, <2>4 DEF Recorded, IInv, TypeOK
    <3>2. QED BY <2>1, <2>4, <3>1 DEF OnItsWay
  <2>5. QED BY <2>3, <2>4
<1>4. ASSUME NEW timer \in {"debounce", "periodic"}, NEW started \in BOOLEAN, Flush(timer, started)
      PROVE  a \in stale /\ ~OnItsWay(a)
  <2>1. ~started
    BY <1>4 DEF Flush
  <2>2. /\ stale' = stale /\ known' = known /\ events' = events /\ offer = NoSnapshot
        /\ restarts' = Overflowed
    BY <1>4, <2>1 DEF Flush, Undelivered, IInv, Sent
  <2>3. known[a] \in Watching /\ known[a] # NoConfig /\ a \in App
    BY <2>2, StaleKnown
  <2>4. restarts'[a] = NoConfig
    BY DEF OnItsWay
  <2>5. ~lost /\ restarts[a] = NoConfig
    BY <2>2, <2>3, <2>4 DEF Overflowed
  <2>6. QED BY <2>2, <2>5 DEF OnItsWay
<1>5. ASSUME NEW ok \in BOOLEAN, Receive(ok) PROVE a \in stale /\ ~OnItsWay(a)
  <2>1. /\ stale' = stale \ (Changed(services') \cup Restarted(services'))
        /\ UNCHANGED <<events, lost>>
        /\ services' = IF offer = NoSnapshot THEN services ELSE offer
    BY <1>5 DEF Receive, PendingAfter, IInv, TypeOK
  <2>2. /\ a \in stale /\ a \in App /\ known[a] = services[a]
        /\ known[a] \in Watching /\ known[a] # NoConfig
    BY <2>1, StaleKnown
  <2>3. services'[a] = services[a]
    BY <2>1, <2>2 DEF Changed
  <2>4. restarts[a] = NoConfig
    BY <2>1, <2>2, <2>3 DEF Restarted, IInv, Recent
  <2>5. offer # NoSnapshot => a \in roots
    <3>1. SUFFICES ASSUME offer # NoSnapshot PROVE a \in roots
      OBVIOUS
    <3>2. offer \in Snapshot /\ offer[a] \in Watching
      BY <2>1, <2>2, <2>3, <3>1 DEF IInv, TypeOK
    <3>3. QED BY <2>2, <3>1, <3>2, WatchedRoots DEF IInv, Covered
  <2>6. QED BY <2>1, <2>2, <2>4, <2>5 DEF OnItsWay
<1>6. ASSUME NEW ok \in BOOLEAN, Retry(ok) PROVE FALSE
  BY <1>6 DEF Retry
<1>7. ASSUME NEW b \in App, Outlive(b) PROVE a \in stale /\ ~OnItsWay(a)
  BY <1>1, <1>7 DEF Outlive
<1>8. ASSUME NEW d \in Snapshot \cup {Invalid}, Edit(d) PROVE a \in stale /\ ~OnItsWay(a)
  BY <1>1, <1>8 DEF Edit
<1>9. ASSUME WatchFails \/ Stop \/ Stopped \/ UNCHANGED vars PROVE a \in stale /\ ~OnItsWay(a)
  BY <1>1, <1>9 DEF WatchFails, Stop, Stopped, vars
<1>10. QED
  BY <1>2, <1>3, <1>4, <1>5, <1>6, <1>7, <1>8, <1>9 DEF Next

-----------------------------------------------------------------------------
(* The theorems *)

\* Every variable keeps its type, and the watcher delivers events of its own roots
\* only (main.go:1432-1516).
THEOREM TypeCorrect == Spec => []TypeOK
<1>1. IInv => TypeOK
  BY DEF IInv
<1>2. QED BY <1>1, Inductive, PTL

\* What Watch() compares the files with is what the manager runs or tries again
\* (main.go:2387-2413).
THEOREM AgreementAlways == Spec => []Agreement
<1>1. IInv => Agreement
  BY DEF IInv
<1>2. QED BY <1>1, Inductive, PTL

\* A restart that is due is lost only to a refused snapshot or with a watcher that
\* is replaced (main.go:1445-1515, 2387-2404).
THEOREM ForfeitedRefusedAlways == Spec => ForfeitedRefused
<1>1. IInv /\ [Next]_vars =>
        [Forfeited' \subseteq Forfeited
           \/ pending # NoSnapshot \/ pending' # NoSnapshot \/ roots' # roots]_vars
  BY ForfeitStep
<1>2. QED BY <1>1, Inductive, PTL DEF Spec, ForfeitedRefused

=============================================================================
