------------------------------- MODULE Registry -------------------------------
(***************************************************************************)
(* What apply() promises of listeners, however many steps it takes and     *)
(* whichever of them fails: seen from outside, a snapshot is in force for  *)
(* all apps at once or not at all, a connection that waits where an app    *)
(* stays survives it, demand is only for apps that listen under the        *)
(* configuration it was raised for, and nothing of this is given up but    *)
(* by a fatal error, after which no snapshot is applied any more.  The one *)
(* exception is the owner of a path, which a refused snapshot may change.  *)
(***************************************************************************)
CONSTANTS App, Config, NoConfig, Address, NoAddress, Unix, Permission, NoFile,
          Listen, Mode, Snapshot

VARIABLES
  config,   \* configuration of each app
  address,  \* where it listens
  mode,     \* owner and mode its path has when no apply() is under way
  waiting,  \* apps with connections nobody has accepted
  demand,   \* apps that are asked for a worker
  fatal,
  closed    \* the supervisor shuts down

registry == <<config, address, mode, waiting, demand, fatal, closed>>

Asked(s, a) == IF s[a] = NoConfig THEN NoAddress ELSE Listen[s[a]]

AskedMode(s, a) == IF Asked(s, a) \in Unix THEN Mode[s[a]] ELSE NoFile

InService == ~closed /\ ~fatal

Init ==
  /\ config = [a \in App |-> NoConfig]
  /\ address = [a \in App |-> NoAddress]
  /\ mode = [a \in App |-> NoFile]
  /\ waiting = {}
  /\ demand = {}
  /\ fatal = FALSE
  /\ closed = FALSE

\* The permissions of the path are not touched.
KeepsMode(s, a) ==
  /\ s[a] # NoConfig /\ config[a] # NoConfig
  /\ Asked(s, a) = Asked(config, a) /\ Mode[s[a]] = Mode[config[a]]

\* At a new address a connection may wait before the snapshot is in force.
Apply(s) ==
  /\ InService
  /\ config' = s
  /\ address' = [a \in App |-> Asked(s, a)]
  /\ mode' = [a \in App |-> IF KeepsMode(s, a) THEN mode[a] ELSE AskedMode(s, a)]
  /\ waiting' \in SUBSET {a \in App : address'[a] # NoAddress}
  /\ \A a \in App : address'[a] = address[a] => (a \in waiting' <=> a \in waiting)
  /\ demand' = {a \in demand : s[a] = config[a]}
  /\ UNCHANGED <<fatal, closed>>

Connect(a) ==
  /\ address[a] # NoAddress
  /\ waiting' = waiting \cup {a}
  /\ UNCHANGED <<config, address, mode, demand, fatal, closed>>

Accept(a) ==
  /\ waiting' = waiting \ {a}
  /\ UNCHANGED <<config, address, mode, demand, fatal, closed>>

Notice(a) ==
  /\ InService
  /\ address[a] # NoAddress
  /\ demand' = demand \cup {a}
  /\ UNCHANGED <<config, address, mode, waiting, fatal, closed>>

Serve(a) ==
  /\ InService
  /\ demand' = demand \ {a}
  /\ UNCHANGED <<config, address, mode, waiting, fatal, closed>>

\* A snapshot is refused that asks for other permissions of the path where a listens:
\* its owner may be the one asked for, while its mode and all else is as it was.
Disown(s, a) ==
  /\ InService
  /\ s[a] # NoConfig /\ ~KeepsMode(s, a)
  /\ address[a] \in Unix /\ Asked(s, a) = address[a]
  /\ mode' = [mode EXCEPT ![a] = [owner |-> Mode[s[a]].owner, mode |-> mode[a].mode]]
  /\ UNCHANGED <<config, address, waiting, demand, fatal, closed>>

\* A permission that could not be taken back is such an error.
Fail ==
  /\ fatal' = TRUE
  /\ mode' \in [App -> Permission \cup {NoFile}]
  /\ \A a \in App : address[a] \notin Unix => mode'[a] = mode[a]
  /\ UNCHANGED <<config, address, waiting, demand, closed>>

\* Because it was asked to, or because the first snapshot is refused.
Close ==
  /\ closed' = TRUE
  /\ address' = [a \in App |-> NoAddress]
  /\ mode' = [a \in App |-> NoFile]
  /\ waiting' = {}
  /\ fatal' \in {fatal, TRUE}
  /\ UNCHANGED <<config, demand>>

Next ==
  \/ \E s \in Snapshot : Apply(s) \/ \E a \in App : Disown(s, a)
  \/ \E a \in App : Connect(a) \/ Accept(a) \/ Notice(a) \/ Serve(a)
  \/ Fail
  \/ Close

Spec == Init /\ [][Next]_registry
=============================================================================
