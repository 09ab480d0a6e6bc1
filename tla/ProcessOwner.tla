----------------------------- MODULE ProcessOwner ------------------------------
(***************************************************************************)
(* processOwner and processJob on Linux: who collects which child, and how *)
(* the family of a job is ended.                                           *)
(*                                                                         *)
(* The supervisor adopts orphans, so its children are the commands it      *)
(* started and whatever their families left behind.  cmd.Wait collects a   *)
(* command; reap collects all others, after SIGCHLD and after every Wait.  *)
(* An identifier is free for the kernel to use again once its process is   *)
(* collected, which cmd.Wait does before the owner's lock is taken.        *)
(*                                                                         *)
(* One goroutine per job starts, awaits and closes it; the reaper, the     *)
(* goroutine that closes the owner and those that kill a job run beside    *)
(* it, and the kernel beside them all.  The owner adopts and reaps (the    *)
(* warning path of newProcessOwner leaves both to another process).        *)
(* A Start that fails changes nothing that is kept here; I/O errors of     *)
(* Close, which make the manager shut down, are left out; and the lists of *)
(* children of the supervisor's threads are read as one.                   *)
(***************************************************************************)
EXTENDS FiniteSets

CONSTANTS
  Pid,   \* process identifiers, used again once collected
  Job,   \* identities of jobs, used again once nothing refers to the last use
  None,  \* no job, no process
  Ooth,  \* the supervisor: parent of its children, and of orphans
  Reaper, Closer  \* the goroutines that hold the owner's lock beside Start and Wait

ASSUME OwnerAssumption ==
  /\ None \notin Job \cup Pid
  /\ Ooth \notin Pid
  /\ Reaper \notin Job \cup {None}
  /\ Closer \notin Job \cup {None, Reaper}

VARIABLES
  life,       \* "free", "live", "doomed" (SIGKILL is pending) or "zombie"
  parent,     \* of each process
  group,      \* the job whose cgroup a running process is in
  cmd,        \* the job whose command a process is
  notified,   \* SIGCHLD is pending, or queued in owner.signals
  changed,    \* jobs whose cgroup.events changed since Close opened or last read it
  managed,    \* owner.managed
  ungrouped,  \* owner.root is empty or owner.groupUnavailable is set
  lock,       \* who holds owner.mu, or None
  scan,       \* what reap does: "idle", "reading" or "collecting"
  list,       \* while reading, children that cannot be missed; then those left
  reaper,     \* "waiting", "woken" or "done"
  stage,      \* of the owner: "open", "stopped" or "closed"
  pc,         \* where the goroutine of each job is
  pid,        \* job.cmd.Process.Pid, None without a job
  grouped,    \* jobs with a path
  killing     \* jobs that a goroutine wants to kill

kernelVars == <<life, parent, group, cmd, notified, changed>>

reapVars == <<lock, scan, list>>

ownerVars == <<managed, ungrouped, reapVars, reaper, stage>>

jobVars == <<pc, pid, grouped, killing>>

vars == <<kernelVars, ownerVars, jobVars>>

Children == {p \in Pid : life[p] # "free" /\ parent[p] = Ooth}

Running(p) == life[p] \in {"live", "doomed"}

Members(j) == {p \in Pid : Running(p) /\ group[p] = j}

-----------------------------------------------------------------------------
(* The kernel *)

Fork(p, q) ==
  /\ life[p] = "live" /\ life[q] = "free"
  /\ life' = [life EXCEPT ![q] = "live"]
  /\ parent' = [parent EXCEPT ![q] = p]
  /\ group' = [group EXCEPT ![q] = group[p]]
  /\ UNCHANGED <<cmd, notified, changed, ownerVars, jobVars>>

\* The supervisor adopts the children of p, and hears of p and of dead ones.
\* The signal is delivered while signal.Notify is in force.
Exit(p) ==
  LET orphans == {q \in Pid : life[q] # "free" /\ parent[q] = p}
      heard == parent[p] = Ooth \/ \E q \in orphans : life[q] = "zombie"
  IN  /\ Running(p)
      /\ life' = [life EXCEPT ![p] = "zombie"]
      /\ parent' = [q \in Pid |-> IF q \in orphans THEN Ooth ELSE parent[q]]
      /\ group' = [group EXCEPT ![p] = None]
      /\ notified' = (notified \/ (heard /\ stage = "open"))
      /\ changed' = changed \cup {j \in Job : pc[j] \in {"closing", "polling"} /\ Members(j) = {p}}
      /\ UNCHANGED <<cmd, ownerVars, jobVars>>

\* A process that is collected leaves nothing behind.
Collected(p) ==
  /\ life' = [life EXCEPT ![p] = "free"]
  /\ parent' = [parent EXCEPT ![p] = Ooth]
  /\ cmd' = [cmd EXCEPT ![p] = None]
  /\ UNCHANGED <<group, notified, changed>>

\* A process of a family waits for its child.
ParentWaits(p) ==
  /\ life[p] = "zombie" /\ parent[p] # Ooth
  /\ life[parent[p]] = "live"
  /\ Collected(p)
  /\ UNCHANGED <<ownerVars, jobVars>>

\* SIGKILL for every process of S that still runs.
Doomed(S) == [p \in Pid |-> IF p \in S /\ Running(p) THEN "doomed" ELSE life[p]]

-----------------------------------------------------------------------------
(* reap *)

\* The lock is taken and the lists of children are read.
Enter(h) ==
  /\ lock = None
  /\ lock' = h
  /\ scan' = "reading"
  /\ list' = Children

\* The kernel keeps its list while it is being read, unless one is collected:
\* any may be missed then, and children that come meanwhile may be in it.
ReadChildren ==
  /\ scan = "reading"
  /\ scan' = "collecting"
  /\ \E S \in SUBSET Children : list \subseteq S /\ list' = S
  /\ UNCHANGED <<kernelVars, managed, ungrouped, lock, reaper, stage, jobVars>>

Spares(p) == managed[p] # None

\* Wait4 without blocking, for one child of the list.
Inspect(p) ==
  /\ scan = "collecting" /\ p \in list
  /\ list' = list \ {p}
  /\ \/ ~Spares(p) /\ life[p] = "zombie" /\ parent[p] = Ooth /\ Collected(p)
     \/ (Spares(p) \/ life[p] # "zombie" \/ parent[p] # Ooth) /\ UNCHANGED kernelVars
  /\ UNCHANGED <<managed, ungrouped, lock, scan, reaper, stage, jobVars>>

Leave ==
  /\ scan = "collecting" /\ list = {}
  /\ scan' = "idle"
  /\ lock' = None
  /\ UNCHANGED list

Reaping(h) == lock = h /\ (ReadChildren \/ \E p \in Pid : Inspect(p))

-----------------------------------------------------------------------------
(* The reaper goroutine and Close of the owner *)

ReaperWakes ==
  /\ reaper = "waiting" /\ notified
  /\ notified' = FALSE
  /\ reaper' = "woken"
  /\ UNCHANGED <<life, parent, group, cmd, changed, managed, ungrouped, reapVars, stage, jobVars>>

ReaperEnters ==
  /\ reaper = "woken" /\ lock # Reaper
  /\ Enter(Reaper)
  /\ UNCHANGED <<kernelVars, managed, ungrouped, reaper, stage, jobVars>>

ReaperLeaves ==
  /\ lock = Reaper
  /\ Leave
  /\ reaper' = "waiting"
  /\ UNCHANGED <<kernelVars, managed, ungrouped, stage, jobVars>>

\* The channel is closed and what was queued in it has been read.
ReaperEnds ==
  /\ reaper = "waiting" /\ stage = "stopped" /\ ~notified
  /\ reaper' = "done"
  /\ UNCHANGED <<kernelVars, managed, ungrouped, reapVars, stage, jobVars>>

\* run() returns only when no worker and no hook is left.  A signal under way
\* when signal.Stop is called may be lost.
CloseStops ==
  /\ stage = "open"
  /\ \A j \in Job : pc[j] = "idle"
  /\ stage' = "stopped"
  /\ notified' \in {notified, FALSE}
  /\ UNCHANGED <<life, parent, group, cmd, changed, managed, ungrouped, reapVars, reaper, jobVars>>

CloseEnters ==
  /\ stage = "stopped" /\ reaper = "done"
  /\ Enter(Closer)
  /\ UNCHANGED <<kernelVars, managed, ungrouped, reaper, stage, jobVars>>

CloseLeaves ==
  /\ lock = Closer
  /\ Leave
  /\ stage' = "closed"
  /\ UNCHANGED <<kernelVars, managed, ungrouped, reaper, jobVars>>

-----------------------------------------------------------------------------
(* The goroutine of a job *)

\* cmd.Start; g says whether in the job's cgroup.  Once a command started only
\* without one, no cgroup is tried any more.
Spawn(j, p, g) ==
  /\ pc[j] = "idle" /\ stage = "open"
  /\ life[p] = "free"
  /\ g => ~ungrouped
  /\ life' = [life EXCEPT ![p] = "live"]
  /\ group' = [group EXCEPT ![p] = IF g THEN j ELSE None]
  /\ cmd' = [cmd EXCEPT ![p] = j]
  /\ ungrouped' = ~g
  /\ grouped' = IF g THEN grouped \cup {j} ELSE grouped
  /\ pid' = [pid EXCEPT ![j] = p]
  /\ pc' = [pc EXCEPT ![j] = "forked"]
  /\ UNCHANGED <<parent, notified, changed, managed, scan, list, reaper, stage, killing>>

\* Variant: the lock is taken for the registration only.
StartUnlocked(j, p, g) ==
  /\ Spawn(j, p, g)
  /\ UNCHANGED lock

Start(j, p, g) ==
  /\ lock = None
  /\ lock' = j
  /\ Spawn(j, p, g)

Register(j) ==
  /\ pc[j] = "forked"
  /\ managed' = [managed EXCEPT ![pid[j]] = j]
  /\ lock' = None
  /\ pc' = [pc EXCEPT ![j] = "started"]
  /\ UNCHANGED <<kernelVars, ungrouped, scan, list, reaper, stage, pid, grouped, killing>>

\* cmd.Wait: the command has ended, or there is none to wait for (ECHILD).
Await(j) ==
  /\ pc[j] = "started"
  /\ \/ cmd[pid[j]] = j /\ life[pid[j]] = "zombie" /\ Collected(pid[j])
     \/ cmd[pid[j]] # j /\ UNCHANGED kernelVars
  /\ list' = IF scan = "reading" THEN {} ELSE list
  /\ pc' = [pc EXCEPT ![j] = "collected"]
  /\ UNCHANGED <<managed, ungrouped, lock, scan, reaper, stage, pid, grouped, killing>>

\* Variant: whatever is registered under the identifier is removed.
UnregisteredAny(j) == [managed EXCEPT ![pid[j]] = None]

\* The identifier may belong to a later command by now.
Unregistered(j) == [p \in Pid |-> IF p = pid[j] /\ managed[p] = j THEN None ELSE managed[p]]

\* Variant: Wait leaves other children to SIGCHLD.
WaitSkips(j) ==
  /\ pc[j] = "collected"
  /\ lock = None
  /\ managed' = Unregistered(j)
  /\ pc' = [pc EXCEPT ![j] = "waited"]
  /\ UNCHANGED <<kernelVars, ungrouped, reapVars, reaper, stage, pid, grouped, killing>>

WaitEnters(j) ==
  /\ pc[j] = "collected"
  /\ Enter(j)
  /\ managed' = Unregistered(j)
  /\ pc' = [pc EXCEPT ![j] = "reaping"]
  /\ UNCHANGED <<kernelVars, ungrouped, reaper, stage, pid, grouped, killing>>

WaitLeaves(j) ==
  /\ pc[j] = "reaping"
  /\ Leave
  /\ pc' = [pc EXCEPT ![j] = "waited"]
  /\ UNCHANGED <<kernelVars, managed, ungrouped, reaper, stage, pid, grouped, killing>>

\* Variant: Close waits for an event before it first reads.
CloseKillsPolling(j) ==
  /\ pc[j] = "waited" /\ j \in grouped
  /\ life' = Doomed(Members(j))
  /\ changed' = changed \ {j}
  /\ pc' = [pc EXCEPT ![j] = "polling"]
  /\ UNCHANGED <<parent, group, cmd, notified, ownerVars, pid, grouped, killing>>

\* job.Close takes the job's lock, registers for events and then kills.
CloseKills(j) ==
  /\ pc[j] = "waited" /\ j \in grouped
  /\ life' = Doomed(Members(j))
  /\ changed' = changed \ {j}
  /\ pc' = [pc EXCEPT ![j] = "closing"]
  /\ UNCHANGED <<parent, group, cmd, notified, ownerVars, pid, grouped, killing>>

\* Variant: a family that was killed counts as gone.
EmptyDoomed(j) == \A p \in Members(j) : life[p] = "doomed"

\* cgroup.events says "populated 0".
Empty(j) == Members(j) = {}

\* The wait comes after a read that found the cgroup populated.
CloseReads(j) ==
  /\ pc[j] = "closing"
  /\ changed' = changed \ {j}
  /\ pc' = [pc EXCEPT ![j] = IF Empty(j) THEN "done" ELSE "polling"]
  /\ UNCHANGED <<life, parent, group, cmd, notified, ownerVars, pid, grouped, killing>>

ClosePolls(j) ==
  /\ pc[j] = "polling" /\ j \in changed
  /\ pc' = [pc EXCEPT ![j] = "closing"]
  /\ UNCHANGED <<kernelVars, ownerVars, pid, grouped, killing>>

\* Without a cgroup there is nothing to close.
CloseNothing(j) ==
  /\ pc[j] = "waited" /\ j \notin grouped
  /\ pc' = [pc EXCEPT ![j] = "done"]
  /\ UNCHANGED <<kernelVars, ownerVars, pid, grouped, killing>>

\* The exit of the worker is handled, or the hook has its result.
Forget(j) ==
  /\ pc[j] = "done" /\ j \notin killing
  /\ pc' = [pc EXCEPT ![j] = "idle"]
  /\ pid' = [pid EXCEPT ![j] = None]
  /\ grouped' = grouped \ {j}
  /\ UNCHANGED <<kernelVars, ownerVars, killing>>

\* A deadline has passed: the manager or the hook's goroutine calls Kill.
AskKill(j) ==
  /\ pc[j] \notin {"idle", "forked"}
  /\ killing' = killing \cup {j}
  /\ UNCHANGED <<kernelVars, ownerVars, pc, pid, grouped>>

\* What Kill hits: the cgroup, unless it was closed, or else the command.
Victims(j) ==
  IF j \in grouped THEN IF pc[j] = "done" THEN {} ELSE Members(j)
  ELSE {p \in Pid : cmd[p] = j}

\* job.Kill needs the job's lock, which Close holds until the family has gone.
Kill(j) ==
  /\ j \in killing
  /\ pc[j] \notin {"closing", "polling"}
  /\ life' = Doomed(Victims(j))
  /\ killing' = killing \ {j}
  /\ UNCHANGED <<parent, group, cmd, notified, changed, ownerVars, pc, pid, grouped>>

-----------------------------------------------------------------------------
Init ==
  /\ life = [p \in Pid |-> "free"]
  /\ parent = [p \in Pid |-> Ooth]
  /\ group = [p \in Pid |-> None]
  /\ cmd = [p \in Pid |-> None]
  /\ notified = FALSE
  /\ changed = {}
  /\ managed = [p \in Pid |-> None]
  /\ ungrouped \in BOOLEAN
  /\ lock = None
  /\ scan = "idle"
  /\ list = {}
  /\ reaper = "waiting"
  /\ stage = "open"
  /\ pc = [j \in Job |-> "idle"]
  /\ pid = [j \in Job |-> None]
  /\ grouped = {}
  /\ killing = {}

Kernel ==
  \/ \E p, q \in Pid : Fork(p, q)
  \/ \E p \in Pid : Exit(p)
  \/ \E p \in Pid : ParentWaits(p)

ReaperNext == ReaperWakes \/ ReaperEnters \/ Reaping(Reaper) \/ ReaperLeaves \/ ReaperEnds

CloserNext == CloseEnters \/ Reaping(Closer) \/ CloseLeaves

\* What the goroutine of j does once its command has started.
JobNext(j) ==
  \/ Register(j)
  \/ Await(j)
  \/ WaitEnters(j)
  \/ Reaping(j)
  \/ WaitLeaves(j)
  \/ CloseKills(j)
  \/ CloseReads(j)
  \/ ClosePolls(j)
  \/ CloseNothing(j)

Closed == stage = "closed" /\ UNCHANGED vars

Next ==
  \/ Kernel
  \/ ReaperNext
  \/ CloseStops
  \/ CloserNext
  \/ \E j \in Job :
       \/ \E p \in Pid, g \in BOOLEAN : Start(j, p, g)
       \/ JobNext(j)
       \/ Forget(j)
       \/ AskKill(j)
       \/ Kill(j)
  \/ Closed

Spec == Init /\ [][Next]_vars

\* Killed processes end.  sync.Mutex hands the lock to a goroutine that has
\* waited for long, hence strong fairness where the lock is taken.
Fairness ==
  /\ \A p \in Pid : WF_vars(life[p] = "doomed" /\ Exit(p))
  /\ SF_vars(ReaperNext)
  /\ SF_vars(CloserNext)
  /\ \A j \in Job : SF_vars(JobNext(j))
  /\ \A j \in Job : WF_vars(Kill(j))

FairSpec == Spec /\ Fairness

-----------------------------------------------------------------------------
(* Properties *)

\* The variables have their types, and Start holds the lock until its command is
\* registered.
TypeOK ==
  /\ life \in [Pid -> {"free", "live", "doomed", "zombie"}]
  /\ parent \in [Pid -> Pid \cup {Ooth}]
  /\ group \in [Pid -> Job \cup {None}]
  /\ cmd \in [Pid -> Job \cup {None}]
  /\ notified \in BOOLEAN
  /\ changed \subseteq Job
  /\ managed \in [Pid -> Job \cup {None}]
  /\ ungrouped \in BOOLEAN
  /\ lock \in Job \cup {Reaper, Closer, None}
  /\ scan \in {"idle", "reading", "collecting"}
  /\ list \subseteq Pid
  /\ reaper \in {"waiting", "woken", "done"}
  /\ stage \in {"open", "stopped", "closed"}
  /\ pc \in [Job -> {"idle", "forked", "started", "collected", "reaping",
                     "waited", "closing", "polling", "done"}]
  /\ pid \in [Job -> Pid \cup {None}]
  /\ grouped \subseteq Job
  /\ killing \subseteq Job
  /\ \A j \in Job : pc[j] = "forked" => lock = j

\* The reaper never takes the status of a command that cmd.Wait is to collect:
\* "excluding managed workers so they cannot steal their Cmd.Wait result"
\* (src/README.md:733), whatever identifiers are used again meanwhile.
StatusKept ==
  \A j \in Job : pc[j] \in {"forked", "started"} => cmd[pid[j]] = j

\* When Close has returned nothing of the family runs: "Before the supervisor
\* removes or restarts a worker, it terminates any remaining descendants"
\* (src/README.md:729).
FamilyGone ==
  \A p \in Pid : Running(p) /\ group[p] # None => pc[group[p]] \notin {"idle", "done"}

\* While the owner is open, a dead child is collected, however signals coalesce
\* and identifiers are used again: no zombie stays.
AdoptedCollected ==
  \A p \in Pid :
    (life[p] = "zombie" /\ parent[p] = Ooth /\ stage = "open") ~> life[p] # "zombie"

\* Close of a job returns, for no event of its cgroup is lost, and so does a Kill
\* that waits for its lock: the manager, which calls it, is never stuck.
CloseReturns ==
  \A j \in Job : /\ pc[j] = "waited" ~> pc[j] = "done"
                 /\ j \in killing ~> j \notin killing
=============================================================================
