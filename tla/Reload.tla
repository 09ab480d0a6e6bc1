-------------------------------- MODULE Reload --------------------------------
(***************************************************************************)
(* How changes of files reach the services: Watch(), the goroutine that    *)
(* follows the file system and loads configurations, and the part of the   *)
(* supervisor's loop that applies what Watch() sends, keeps a refused      *)
(* configuration for another try and restarts apps.                        *)
(*                                                                         *)
(* apply() is one step here: nothing else runs on the manager goroutine    *)
(* meanwhile, and Listeners has its inside.  The file system watcher is a  *)
(* set of events not yet delivered; it may lose some and count them.  Time *)
(* is abstract: the debounce timer may fire whenever it is set, the five   *)
(* second ticker and the retry of a refused configuration at any time.     *)
(***************************************************************************)
EXTENDS Naturals, FiniteSets

CONSTANTS
  App,
  Config,      \* configurations an app may have
  NoConfig,
  Watching,    \* those whose restart_on rules match the files of their app
  Snapshot,    \* configurations of all apps that Load() accepts
  NoSnapshot,
  Invalid,     \* what Load() refuses
  Initial,     \* the snapshot run() has started with
  Roots,       \* apps whose files lie below the roots of a snapshot
  Foreign,     \* snapshots apply() always refuses: they name another cgroup
  Contested    \* snapshots with an address that somebody else may hold

ASSUME ReloadAssumption ==
  /\ NoConfig \notin Config /\ Watching \subseteq Config
  /\ Snapshot \subseteq [App -> Config \cup {NoConfig}]
  /\ NoSnapshot \notin Snapshot /\ Invalid \notin Snapshot
  /\ Initial \in Snapshot \ Foreign
  /\ Roots \in [Snapshot -> SUBSET App]
  /\ Foreign \subseteq Snapshot /\ Contested \subseteq Snapshot

\* Load() adds the root of every restart_on rule.
ASSUME WatchedRoots ==
  \A s \in Snapshot : \A a \in App : s[a] \in Watching => a \in Roots[s]

VARIABLES
  disk,      \* what Load() would return
  known,     \* Watch's `initial`, the last snapshot it has sent
  roots,     \* the apps its watcher covers
  events,    \* apps with an event the watcher has yet to deliver
  lost,      \* the watcher has counted lost events that Watch has not seen
  debounce,  \* the timer is set
  restarts,  \* the configuration each app to restart was recorded with
  offer,     \* the snapshot of the update that is being sent
  watch,     \* where Watch() is: "select", "sending", "ended"
  services,  \* the configurations the manager runs
  pending,   \* the snapshot it was refused last
  running,   \* not yet stopping
  stale      \* apps that run a process older than the last change of its files

watchVars == <<known, roots, events, lost, debounce, restarts, offer, watch>>
managerVars == <<services, pending, running>>
vars == <<disk, known, roots, events, lost, debounce, restarts, offer, watch,
          services, pending, running, stale>>

NoRestarts == [a \in App |-> NoConfig]

\* The change a process of a has missed is queued, counted as lost or recorded,
\* or an update on its way will settle it.
OnItsWay(a) ==
  \/ a \in events \/ lost
  \/ restarts[a] # NoConfig
  \/ a \notin roots /\ offer # NoSnapshot

\* Apps that nothing will restart for the last change of their files.
Forfeited == {a \in stale : ~OnItsWay(a)}

-----------------------------------------------------------------------------
(* The files *)

Edit(d) ==
  /\ disk' = d
  /\ UNCHANGED <<watchVars, managerVars, stale>>

\* The files an app is restarted for change while it runs a process.  The
\* watcher has the event, or counts it as lost, or does not look there.
Touch(a, fate) ==
  /\ services[a] \in Watching
  /\ fate = "unseen" <=> a \notin roots
  /\ events' = IF fate = "event" THEN events \cup {a} ELSE events
  /\ lost' = (lost \/ fate = "lost")
  /\ stale' = stale \cup {a}
  /\ UNCHANGED <<disk, known, roots, debounce, restarts, offer, watch, managerVars>>

\* The old processes end of themselves.
Outlive(a) ==
  /\ a \in stale
  /\ stale' = stale \ {a}
  /\ UNCHANGED <<disk, watchVars, managerVars>>

-----------------------------------------------------------------------------
(* Watch() *)

Recorded(a) == IF known[a] \in Watching THEN [restarts EXCEPT ![a] = known[a]] ELSE restarts

Record(a) ==
  /\ watch = "select" /\ a \in events
  /\ events' = events \ {a}
  /\ restarts' = Recorded(a)
  /\ debounce' = TRUE
  /\ UNCHANGED <<disk, known, roots, lost, offer, watch, managerVars, stale>>

\* Variant: only the apps with an event at hand pay for the lost ones.
OverflowedDelivered ==
  [a \in App |-> IF lost /\ a \in events /\ known[a] \in Watching THEN known[a] ELSE restarts[a]]

\* EventsLost has grown: every app with rules is restarted.
Overflowed ==
  [a \in App |-> IF lost /\ known[a] \in Watching THEN known[a] ELSE restarts[a]]

\* A new watcher has no events.
Undelivered(started) == IF started THEN {} ELSE events

\* Variant: the apps to restart wait for a new configuration.
SomethingToSendNew(sends) == sends

SomethingToSend(sends) == sends \/ Overflowed # NoRestarts

\* A timer fires: what was recorded and what Load() returns is sent, if anything.
\* New roots need a new watcher, whose start may fail; the events that the old one
\* still held go with it.
Flush(timer, started) ==
  /\ watch = "select"
  /\ timer = "debounce" => debounce
  /\ restarts' = Overflowed
  /\ debounce' = IF lost THEN TRUE ELSE IF timer = "debounce" THEN FALSE ELSE debounce
  /\ LET replaces == disk # Invalid /\ Roots[disk] # roots
         sends == disk # Invalid /\ disk # known /\ (replaces => started)
     IN  /\ started => replaces
         /\ roots' = IF started THEN Roots[disk] ELSE roots
         /\ events' = Undelivered(started)
         /\ lost' = FALSE
         /\ offer' = IF sends THEN disk ELSE NoSnapshot
         /\ watch' = IF SomethingToSend(sends) THEN "sending" ELSE "select"
  /\ UNCHANGED <<disk, known, managerVars, stale>>

\* The watcher fails; the supervisor stops.
WatchFails ==
  /\ watch = "select"
  /\ watch' = "ended"
  /\ running' = FALSE
  /\ UNCHANGED <<disk, known, roots, events, lost, debounce, restarts, offer,
                 services, pending, stale>>

-----------------------------------------------------------------------------
(* The supervisor's loop *)

\* Outcomes of apply().
Outcome(s) ==
  IF s \in Foreign THEN {FALSE} ELSE IF s \in Contested THEN BOOLEAN ELSE {TRUE}

Changed(next) == {a \in App : services[a] # next[a]}

\* Variant: an accepted snapshot leaves the refused one for another try.
PendingAfterKept(s, ok) == IF ok THEN pending ELSE s

\* Variant: a refused snapshot is forgotten.
PendingAfterDropped(s, ok) == NoSnapshot

PendingAfter(s, ok) == IF ok THEN NoSnapshot ELSE s

\* restart() for those of the batch that still run with that configuration.
Restarted(next) == {a \in App : restarts[a] # NoConfig /\ next[a] = restarts[a]}

\* An update is received: apply() stops the workers of the apps that change.
Receive(ok) ==
  /\ watch = "sending" /\ running
  /\ ok \in IF offer = NoSnapshot THEN {FALSE} ELSE Outcome(offer)
  /\ services' = IF ok THEN offer ELSE services
  /\ pending' = IF offer = NoSnapshot THEN pending ELSE PendingAfter(offer, ok)
  /\ stale' = stale \ (Changed(services') \cup Restarted(services'))
  /\ known' = IF offer = NoSnapshot THEN known ELSE offer
  /\ restarts' = NoRestarts
  /\ offer' = NoSnapshot
  /\ watch' = "select"
  /\ UNCHANGED <<disk, roots, events, lost, debounce, running>>

\* A tick finds the retry due.
Retry(ok) ==
  /\ running /\ pending # NoSnapshot
  /\ ok \in Outcome(pending)
  /\ services' = IF ok THEN pending ELSE services
  /\ pending' = PendingAfter(pending, ok)
  /\ stale' = stale \ Changed(services')
  /\ UNCHANGED <<disk, watchVars, running>>

\* The context is cancelled or an error is fatal: Watch() returns.
Stop ==
  /\ running
  /\ running' = FALSE
  /\ watch' = "ended"
  /\ UNCHANGED <<disk, known, roots, events, lost, debounce, restarts, offer,
                 services, pending, stale>>

Stopped == ~running /\ UNCHANGED vars

-----------------------------------------------------------------------------

Init ==
  /\ disk = Initial
  /\ known = Initial
  /\ roots = Roots[Initial]
  /\ events = {} /\ lost = FALSE /\ debounce = FALSE
  /\ restarts = NoRestarts /\ offer = NoSnapshot /\ watch = "select"
  /\ services = Initial /\ pending = NoSnapshot /\ running = TRUE
  /\ stale = {}

Next ==
  \/ /\ running
     /\ \/ \E d \in Snapshot \cup {Invalid} : Edit(d)
        \/ \E a \in App :
             \/ \E fate \in {"event", "lost", "unseen"} : Touch(a, fate)
             \/ Outlive(a) \/ Record(a)
        \/ \E timer \in {"debounce", "periodic"}, started \in BOOLEAN : Flush(timer, started)
  \/ \E ok \in BOOLEAN : Receive(ok) \/ Retry(ok)
  \/ WatchFails \/ Stop \/ Stopped

Spec == Init /\ [][Next]_vars

\* Watch() selects among all that is ready, so the ticker has its turn however
\* many events arrive, and the manager goes back to its loop.  A watcher for new
\* roots can be started and a contested address is free again and again.
Fairness ==
  /\ WF_vars(\E started \in BOOLEAN : running /\ Flush("periodic", started))
  /\ SF_vars(running /\ Flush("periodic", TRUE))
  /\ WF_vars(\E ok \in BOOLEAN : Receive(ok))
  /\ \A a \in App : SF_vars(running /\ Record(a))
  /\ SF_vars(Retry(TRUE))

FairSpec == Spec /\ Fairness

-----------------------------------------------------------------------------
(* Properties *)

TypeOK ==
  /\ disk \in Snapshot \cup {Invalid}
  /\ known \in Snapshot /\ services \in Snapshot
  /\ pending \in Snapshot \cup {NoSnapshot} /\ offer \in Snapshot \cup {NoSnapshot}
  /\ roots \in SUBSET App /\ events \in SUBSET roots
  /\ lost \in BOOLEAN /\ debounce \in BOOLEAN /\ running \in BOOLEAN
  /\ restarts \in [App -> Config \cup {NoConfig}]
  /\ watch \in {"select", "sending", "ended"}
  /\ stale \in SUBSET App

\* The two goroutines agree: what the watcher compares the files with is what the
\* manager runs, or the refused snapshot it retries and no other.
Agreement ==
  IF pending = NoSnapshot THEN services = known ELSE pending = known

\* A change of the files of a running app is forfeited only while a refused
\* configuration waits, or with the watcher of roots that are given up.
ForfeitedRefused ==
  [][Forfeited' \subseteq Forfeited
       \/ pending # NoSnapshot \/ pending' # NoSnapshot \/ roots' # roots]_vars

\* Every change of the files of a running app ends in a restart of it, if it was
\* not forfeited.
ChangeRestarts ==
  \A a \in App : a \in stale ~> (a \notin stale \/ a \in Forfeited \/ ~running)

\* A configuration that stays in the files is the one that runs in the end,
\* whatever was refused before.
Converges ==
  \A s \in Snapshot \ Foreign :
    <>[](disk = s /\ running) => <>[](services = s)
=============================================================================
