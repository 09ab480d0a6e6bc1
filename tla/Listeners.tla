------------------------------- MODULE Listeners -------------------------------
(***************************************************************************)
(* The listeners of the supervisor: how apply() opens those of a new       *)
(* configuration before it gives up those of the old one, and how the      *)
(* poller goroutine reports connections to the manager.                    *)
(*                                                                         *)
(* apply() is several steps, taken by the manager goroutine alone; the     *)
(* poller waits for events all along, on the listeners apply() has only    *)
(* staged too.  What it has reported lies in a channel until the manager   *)
(* receives it, and by then the listener may be closed.                    *)
(*                                                                         *)
(* The registrations are one-shot: an event disarms its listener, and a    *)
(* tick arms it again once the delay the manager set has passed.  Time is  *)
(* abstract: any tick may be late enough.                                  *)
(*                                                                         *)
(* A socket path has an owner and a mode, which Identity.socket() changes  *)
(* one after the other.  A refusal takes both back, and an owner or mode   *)
(* that cannot be taken back is fatal, with one exception: the owner that  *)
(* Identity.socket() has changed itself before it failed.                  *)
(***************************************************************************)
EXTENDS Naturals, FiniteSets

CONSTANTS
  App,           \* names of apps
  NoApp,
  Config,        \* configurations an app may have
  NoConfig,
  Address,       \* listening addresses, their networks included
  NoAddress,
  Unix,          \* addresses that are paths of sockets
  Owner,         \* owners such a path may have, user and group in one
  FileMode,      \* its modes
  NoFile,
  Plain,         \* owner and mode of a path that was just bound
  Listen, Mode,  \* address and permissions each configuration asks for
  Snapshot,      \* configurations of all apps that Load() accepts
  NoSnapshot,
  Frail,         \* addresses whose workers may shut down the socket they inherit
  Foreign,       \* snapshots that name another cgroup than the running one
  LastListener   \* the last listener identifier, 1<<31-1 in the code

Permission == [owner : Owner, mode : FileMode]

ASSUME ListenersAssumption ==
  /\ NoApp \notin App /\ NoConfig \notin Config /\ NoAddress \notin Address
  /\ NoFile \notin Permission /\ NoSnapshot \notin Snapshot
  /\ Plain \in Permission
  /\ Unix \subseteq Address /\ Frail \subseteq Address
  /\ Listen \in [Config -> Address \cup {NoAddress}]
  /\ Mode \in [Config -> Permission]
  /\ Snapshot \subseteq [App -> Config \cup {NoConfig}]
  /\ Foreign \subseteq Snapshot
  /\ LastListener \in Nat

\* Load() refuses two apps on one address.
ASSUME OneAddressEach ==
  \A s \in Snapshot : \A a, b \in App :
    a # b /\ s[a] # NoConfig /\ s[b] # NoConfig /\ Listen[s[a]] # NoAddress
      => Listen[s[a]] # Listen[s[b]]

Id == 1 .. LastListener

VARIABLES
  config,       \* manager.services: the configuration of each
  listener,     \* the identifier of its listener, 0 for none
  demand,       \* services with `demand` set
  listeners,    \* manager.listeners
  nextListener,
  bound,        \* the address each open listener is bound to
  armed,        \* listeners epoll watches
  rearm,        \* listeners whose rearmAt is set
  backlog,      \* listeners with connections nobody has accepted
  reported,     \* the event of each listener that lies in the channel
  permission,   \* owner and mode of the path at each address
  applying,     \* the snapshot apply() works on
  opened,       \* listeners it has staged
  undo,         \* permissions its `finish` functions would restore
  disowned,     \* history: paths a refusal has left the owner of another snapshot
  fatal,        \* manager.fatal is set
  phase,        \* of run(): "running", "stopping", "returning"
  poller        \* its goroutine: "unstarted", "waiting", "ended"

serviceVars == <<config, listener, listeners>>
socketVars == <<nextListener, bound>>
eventVars == <<armed, rearm, backlog, reported>>
applyVars == <<applying, opened, undo, disowned, permission>>
vars == <<config, listener, demand, listeners, nextListener, bound, armed, rearm,
          backlog, reported, permission, applying, opened, undo, disowned, fatal, phase, poller>>

-----------------------------------------------------------------------------
(* Configurations *)

Listens(s, a) == s[a] # NoConfig /\ Listen[s[a]] # NoAddress

\* The service stays at its address.
Stays(s, a) ==
  s[a] # NoConfig /\ config[a] # NoConfig /\ Listen[config[a]] = Listen[s[a]]

NeedsListener(s, a) == Listens(s, a) /\ ~Stays(s, a)

NeedsPermission(s, a) ==
  /\ Listens(s, a)
  /\ Listen[s[a]] \in Unix
  /\ ~(Stays(s, a) /\ Mode[config[a]] = Mode[s[a]])

Missing == {a \in App : NeedsListener(applying, a) /\ opened[a] = 0}

Unpermitted ==
  {a \in App : NeedsPermission(applying, a) /\ undo[Listen[applying[a]]] = NoFile}

Taken(x) == \E i \in Id : bound[i] = x

\* The manager is back in its select loop.
Selecting == applying = NoSnapshot

\* ... and a fatal error is answered before it selects again.  What the rest of
\* the message or of the tick at hand still did, shutdown() undoes.
Receiving == Selecting /\ ~(fatal /\ phase = "running")

\* Closing removes the registration and, for a unix socket, the path.
Forget(ids) ==
  /\ bound' = [i \in Id |-> IF i \in ids THEN NoAddress ELSE bound[i]]
  /\ armed' = armed \ ids
  /\ rearm' = rearm \ ids
  /\ backlog' = backlog \ ids

Unlinked(ids) == {x \in Address : \E i \in ids : bound[i] = x}

-----------------------------------------------------------------------------
(* apply() *)

Begin(s) ==
  /\ Receiving /\ phase = "running"
  /\ applying' = s
  /\ opened' = [a \in App |-> 0]
  /\ undo' = [x \in Address |-> NoFile]
  /\ UNCHANGED <<serviceVars, demand, socketVars, eventVars, permission, disowned,
                 fatal, phase, poller>>

\* Variant: identifiers are taken for inexhaustible.
MayNumberAlways == TRUE

MayNumber == nextListener < LastListener

Open(a) ==
  /\ ~Selecting /\ applying \notin Foreign
  /\ a \in Missing
  /\ ~Taken(Listen[applying[a]])
  /\ MayNumber
  /\ nextListener' = nextListener + 1
  /\ opened' = [opened EXCEPT ![a] = nextListener + 1]
  /\ bound' = [bound EXCEPT ![nextListener + 1] = Listen[applying[a]]]
  /\ armed' = armed \cup {nextListener + 1}
  /\ permission' = IF Listen[applying[a]] \in Unix
                   THEN [permission EXCEPT ![Listen[applying[a]]] = Plain] ELSE permission
  /\ UNCHANGED <<serviceVars, demand, rearm, backlog, reported, applying, undo, disowned,
                 fatal, phase, poller>>

Permit(a) ==
  /\ ~Selecting /\ applying \notin Foreign
  /\ Missing = {}
  /\ a \in Unpermitted
  /\ LET x == Listen[applying[a]]
     IN  /\ undo' = [undo EXCEPT ![x] = permission[x]]
         /\ permission' = [permission EXCEPT ![x] = Mode[applying[a]]]
  /\ UNCHANGED <<serviceVars, demand, socketVars, eventVars, applying, opened, disowned,
                 fatal, phase, poller>>

\* Variant: the identifiers of the listeners it closes are given again.
NextAfterRefusalReused == {nextListener - Cardinality({a \in App : opened[a] # 0})}

\* The registration of one more listener may be what failed.
NextAfterRefusal ==
  {nextListener} \cup
  (IF Missing # {} /\ MayNumber THEN {nextListener + 1} ELSE {})

Changed == {x \in Address : undo[x] # NoFile}

\* Variant: closes the staged listeners and leaves the permissions.
RestoredNever(left, owners, modes) == left

\* The deferred `finish` functions give back owner and mode of the paths they were
\* made for; chown fails for those in `owners` and chmod for those in `modes`.
Restored(left, owners, modes) ==
  [x \in Address |->
     IF x \notin Changed THEN left[x]
     ELSE [owner |-> IF x \in owners THEN left[x].owner ELSE undo[x].owner,
           mode |-> IF x \in modes THEN left[x].mode ELSE undo[x].mode]]

\* Variant: the listeners staged before the one that failed stay open.
AbandonedNever == {}

Abandoned == {opened[a] : a \in App} \ {0}

\* The error return of apply() with its deferred function, when the paths are as
\* `left` says: run() returns if it is the first snapshot that is refused.
Refused(left) ==
  /\ \E owners \in SUBSET Changed, modes \in SUBSET Changed :
       /\ permission' = [x \in Address |-> IF x \in Unlinked(Abandoned) THEN NoFile
                                           ELSE Restored(left, owners, modes)[x]]
       /\ fatal' = (fatal \/ owners # {} \/ modes # {})
  /\ Forget(Abandoned)
  /\ applying' = NoSnapshot
  /\ opened' = [a \in App |-> 0]
  /\ undo' = [x \in Address |-> NoFile]
  /\ IF poller = "unstarted" THEN phase' = "returning" /\ poller' = "ended"
                             ELSE UNCHANGED <<phase, poller>>
  /\ UNCHANGED <<serviceVars, demand, reported>>

\* A bind, a registration or a permission fails.
Refuse ==
  /\ ~Selecting
  /\ applying \in Foreign \/ Missing # {} \/ Unpermitted # {}
  /\ nextListener' \in IF applying \in Foreign THEN {nextListener} ELSE NextAfterRefusal
  /\ Refused(permission)
  /\ UNCHANGED disowned

\* Identity.socket() has changed the owner of the path, then chmod fails, and so does
\* its own attempt to give the old owner back: there is no deferred `finish` for
\* this path, and the error is returned as an ordinary one.
RefuseHalfway(a) ==
  /\ ~Selecting /\ applying \notin Foreign
  /\ Missing = {}
  /\ a \in Unpermitted
  /\ LET x == Listen[applying[a]]
     IN  /\ permission[x] # NoFile /\ permission[x].owner # Mode[applying[a]].owner
         /\ Refused([permission EXCEPT ![x] = [owner |-> Mode[applying[a]].owner,
                                               mode |-> permission[x].mode]])
         /\ disowned' = disowned \cup ({x} \ Unlinked(Abandoned))
  /\ UNCHANGED nextListener

\* Listeners of services that are removed or move to another address.
GivenUp == {listener[a] : a \in {b \in App : ~Stays(applying, b)}} \ {0}

Adopted(a) ==
  IF opened[a] # 0 THEN opened[a] ELSE IF Stays(applying, a) THEN listener[a] ELSE 0

\* Variant: takes the demand for the old configuration over.
StillDemandedAlways == demand

\* A changed service begins without demand.
StillDemanded == {a \in demand : applying[a] = config[a]}

Commit ==
  /\ ~Selecting /\ applying \notin Foreign
  /\ Missing = {} /\ Unpermitted = {}
  /\ config' = applying
  /\ listener' = [a \in App |-> Adopted(a)]
  /\ listeners' = [i \in Id |->
       IF i \in GivenUp THEN NoApp
       ELSE IF \E a \in App : opened[a] = i THEN CHOOSE a \in App : opened[a] = i
       ELSE listeners[i]]
  /\ demand' = StillDemanded
  /\ permission' = [x \in Address |-> IF x \in Unlinked(GivenUp) THEN NoFile ELSE permission[x]]
  /\ disowned' = disowned \ (Changed \cup Unlinked(GivenUp))
  /\ Forget(GivenUp)
  /\ applying' = NoSnapshot
  /\ opened' = [a \in App |-> 0]
  /\ undo' = [x \in Address |-> NoFile]
  /\ poller' = IF poller = "unstarted" THEN "waiting" ELSE poller
  /\ UNCHANGED <<nextListener, reported, fatal, phase>>

-----------------------------------------------------------------------------
(* The sockets and the poller goroutine *)

Connect(i) ==
  /\ bound[i] # NoAddress
  /\ backlog' = backlog \cup {i}
  /\ UNCHANGED <<serviceVars, demand, socketVars, armed, rearm, reported, applyVars, fatal, phase, poller>>

\* A worker accepts all that waits: the supervisor itself never accepts.
Accept(i) ==
  /\ i \in backlog
  /\ backlog' = backlog \ {i}
  /\ UNCHANGED <<serviceVars, demand, socketVars, armed, rearm, reported, applyVars, fatal, phase, poller>>

\* EpollWait returns, and its events are put in the channel.  A worker may have
\* shut down the socket it inherited: that is an error event.
Report(i, event) ==
  /\ poller = "waiting"
  /\ i \in armed
  /\ event = "readable" => i \in backlog
  /\ event = "error" => bound[i] \in Frail
  /\ armed' = armed \ {i}
  /\ reported' = [reported EXCEPT ![i] = event]
  /\ UNCHANGED <<serviceVars, demand, socketVars, rearm, backlog, applyVars, fatal, phase, poller>>

\* The waker's datagram, once manager.done is closed.
PollEnds ==
  /\ phase = "returning" /\ poller = "waiting"
  /\ poller' = "ended"
  /\ UNCHANGED <<serviceVars, demand, socketVars, eventVars, applyVars, fatal, phase>>

-----------------------------------------------------------------------------
(* The manager's loop *)

\* Variant: takes the registration for a lasting one.
RearmedNever(i) == rearm

Rearmed(i) ==
  IF listeners[i] # NoApp /\ reported[i] = "readable" THEN rearm \cup {i} ELSE rearm

\* An event is received; its listener may be closed by now.
HandleEvent(i) ==
  /\ Receiving /\ phase # "returning"
  /\ reported[i] # "none"
  /\ reported' = [reported EXCEPT ![i] = "none"]
  /\ rearm' = Rearmed(i)
  /\ demand' = IF listeners[i] # NoApp /\ reported[i] = "readable"
               THEN demand \cup {listeners[i]} ELSE demand
  /\ fatal' = (fatal \/ (listeners[i] # NoApp /\ reported[i] = "error"))
  /\ UNCHANGED <<serviceVars, socketVars, armed, backlog, applyVars, phase, poller>>

\* The last message of the poller: EpollWait has failed.
PollFails ==
  /\ Receiving /\ phase # "returning"
  /\ poller = "waiting"
  /\ poller' = "ended"
  /\ fatal' = TRUE
  /\ UNCHANGED <<serviceVars, demand, socketVars, eventVars, applyVars, phase>>

\* A tick finds rearmAt of i passed; arming it again may fail.
Rearm(i, ok) ==
  /\ Receiving /\ phase = "running"
  /\ i \in rearm
  /\ rearm' = rearm \ {i}
  /\ armed' = IF ok THEN armed \cup {i} ELSE armed
  /\ fatal' = (fatal \/ ~ok)
  /\ UNCHANGED <<serviceVars, demand, socketVars, backlog, reported, applyVars, phase, poller>>

\* A tick starts a worker for the service or finds it has one.
Serve(a) ==
  /\ Receiving /\ phase = "running"
  /\ a \in demand
  /\ demand' = demand \ {a}
  /\ UNCHANGED <<serviceVars, socketVars, eventVars, applyVars, fatal, phase, poller>>

Shutdown ==
  /\ Selecting /\ phase = "running" /\ poller # "unstarted"
  /\ phase' = "stopping"
  /\ LET ids == {listener[a] : a \in App} \ {0}
     IN  /\ Forget(ids)
         /\ listeners' = [i \in Id |-> IF i \in ids THEN NoApp ELSE listeners[i]]
         /\ permission' = [x \in Address |-> IF x \in Unlinked(ids) THEN NoFile ELSE permission[x]]
         /\ disowned' = disowned \ Unlinked(ids)
  /\ listener' = [a \in App |-> 0]
  /\ UNCHANGED <<config, demand, nextListener, reported, applying, opened, undo, fatal, poller>>

\* The last worker has gone: manager.done is closed and the poller is awaited.
Return ==
  /\ Receiving /\ phase = "stopping"
  /\ phase' = "returning"
  /\ UNCHANGED <<serviceVars, demand, socketVars, eventVars, applyVars, fatal, poller>>

Returned == phase = "returning" /\ poller = "ended" /\ UNCHANGED vars

-----------------------------------------------------------------------------

Init ==
  /\ config = [a \in App |-> NoConfig]
  /\ listener = [a \in App |-> 0]
  /\ demand = {}
  /\ listeners = [i \in Id |-> NoApp]
  /\ nextListener = 0
  /\ bound = [i \in Id |-> NoAddress]
  /\ armed = {} /\ rearm = {} /\ backlog = {}
  /\ reported = [i \in Id |-> "none"]
  /\ permission = [x \in Address |-> NoFile]
  /\ applying = NoSnapshot
  /\ opened = [a \in App |-> 0]
  /\ undo = [x \in Address |-> NoFile]
  /\ disowned = {}
  /\ fatal = FALSE
  /\ phase = "running"
  /\ poller = "unstarted"

Next ==
  \/ \E s \in Snapshot : Begin(s)
  \/ \E a \in App : Open(a) \/ Permit(a) \/ RefuseHalfway(a) \/ Serve(a)
  \/ Refuse \/ Commit
  \/ \E i \in Id :
       \/ Connect(i) \/ Accept(i) \/ HandleEvent(i)
       \/ \E event \in {"readable", "error"} : Report(i, event)
       \/ \E ok \in BOOLEAN : Rearm(i, ok)
  \/ PollFails \/ PollEnds
  \/ Shutdown \/ Return \/ Returned

Spec == Init /\ [][Next]_vars

\* The one step the notification of a listener waits for: NeverDeaf says that no
\* two of them are possible at once.
Notify(i) ==
  HandleEvent(i) \/ Report(i, "readable") \/ \E ok \in BOOLEAN : Rearm(i, ok)

\* The manager goes back to its select loop, which takes every ready case and the
\* ticks again and again; EpollWait returns what is ready; a fatal error is seen
\* at the top of the loop.
Fairness ==
  /\ WF_vars((\E a \in App : Open(a) \/ Permit(a) \/ RefuseHalfway(a)) \/ Refuse \/ Commit)
  /\ \A i \in Id : SF_vars(Notify(i))
  /\ WF_vars(fatal /\ Shutdown)

FairSpec == Spec /\ Fairness

-----------------------------------------------------------------------------
(* Properties *)

TypeOK ==
  /\ config \in [App -> Config \cup {NoConfig}]
  /\ listener \in [App -> 0 .. LastListener]
  /\ demand \subseteq App
  /\ listeners \in [Id -> App \cup {NoApp}]
  /\ nextListener \in 0 .. LastListener
  /\ bound \in [Id -> Address \cup {NoAddress}]
  /\ armed \subseteq Id /\ rearm \subseteq Id /\ backlog \subseteq Id
  /\ reported \in [Id -> {"none", "readable", "error"}]
  /\ permission \in [Address -> Permission \cup {NoFile}]
  /\ applying \in Snapshot \cup {NoSnapshot}
  /\ opened \in [App -> 0 .. LastListener]
  /\ undo \in [Address -> Permission \cup {NoFile}]
  /\ disowned \subseteq Address
  /\ fatal \in BOOLEAN
  /\ phase \in {"running", "stopping", "returning"}
  /\ poller \in {"unstarted", "waiting", "ended"}

\* All of a snapshot or nothing of it: whenever the manager selects, the open
\* sockets are those of the services, each at the address its service asks for
\* and under the name the manager looks an event up with.
Registered ==
  Selecting =>
    /\ phase = "running" => \A a \in App : Listens(config, a) <=> listener[a] # 0
    /\ \A a \in App : listener[a] # 0 =>
         listeners[listener[a]] = a /\ bound[listener[a]] = Listen[config[a]]
    /\ \A i \in Id : listeners[i] # NoApp => listener[listeners[i]] = i
    /\ \A i \in Id : bound[i] # NoAddress => listeners[i] # NoApp

\* A one-shot listener is never forgotten and never reported twice: epoll watches
\* it, or its event lies in the channel, or a tick will arm it, one of the three.
NeverDeaf ==
  phase = "running" /\ ~fatal =>
    \A i \in Id : bound[i] # NoAddress =>
      /\ i \in armed \/ reported[i] # "none" \/ i \in rearm
      /\ ~(i \in armed /\ reported[i] # "none")
      /\ ~(i \in rearm /\ (i \in armed \/ reported[i] # "none"))

\* Whenever the manager selects, the path of every unix listener has the mode its
\* service asks for, and its owner too unless a refusal has left it another one: that
\* of a snapshot for which Identity.socket() failed between owner and mode and could
\* not go back (job_linux.go:286-288).  Every other refusal restores both, and the
\* exception ends when a snapshot gives the path its permissions.  No path without a
\* listener is left to stand in the way of a later bind.
Permitted ==
  Selecting /\ phase = "running" /\ ~fatal =>
    /\ \A a \in App : listener[a] # 0 /\ Listen[config[a]] \in Unix =>
         LET x == Listen[config[a]]
         IN  /\ permission[x].mode = Mode[config[a]].mode
             /\ permission[x].owner = Mode[config[a]].owner \/ x \in disowned
    /\ \A x \in Address : permission[x] # NoFile => Taken(x)

\* A connection that waits at a listener creates demand, and does so again until
\* a worker accepts it.
ConnectionNoticed ==
  \A i \in Id : i \in backlog ~> (i \notin backlog \/ listeners[i] \in demand)

-----------------------------------------------------------------------------
(* The promise *)

\* The owner and mode a path has when apply() is over: what is to be restored,
\* if it has been changed.
Settled(x) == IF undo[x] = NoFile THEN permission[x] ELSE undo[x]

AddressOf(a) == IF listener[a] = 0 THEN NoAddress ELSE bound[listener[a]]

ModeOf(a) == IF AddressOf(a) \in Unix THEN Settled(AddressOf(a)) ELSE NoFile

Waiting == {a \in App : listener[a] \in backlog}

Promise ==
  INSTANCE Registry WITH
    address <- [a \in App |-> AddressOf(a)],
    mode <- [a \in App |-> ModeOf(a)],
    waiting <- Waiting,
    closed <- phase # "running"

\* apply() with all its steps implements one that is a single step: no other
\* handler of the manager acts on half of a snapshot, a refused one leaves no trace
\* but a fatal error or the owner of one path (Disown), and a connection waiting at
\* a service that stays at its address is still there afterwards.
ImplementsRegistry == Promise!Spec
=============================================================================
