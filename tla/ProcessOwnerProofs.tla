--------------------------- MODULE ProcessOwnerProofs ---------------------------
(***************************************************************************)
(* The status of a command goes to its cmd.Wait, and no family outlives    *)
(* its job, for any number of jobs and process identifiers.                *)
(*                                                                         *)
(* StatusKept is not inductive.  It needs that reap finds every started    *)
(* command registered (Registered), that it does not run while one is      *)
(* started but not registered (Scanning, and TypeOK for who holds the      *)
(* lock), and that commands stay children of the supervisor (Commands,     *)
(* Orphans).  FamilyGone needs that only jobs with a cgroup have members   *)
(* (Grouped).                                                              *)
(***************************************************************************)
EXTENDS ProcessOwner, TLAPS

\* A free identifier has no parent.
Orphans == \A p \in Pid : life[p] = "free" => parent[p] = Ooth

\* A command that is not collected is a child of the supervisor.
Commands ==
  \A j \in Job : pc[j] \in {"forked", "started"} =>
    /\ pid[j] \in Pid
    /\ cmd[pid[j]] = j
    /\ life[pid[j]] # "free"
    /\ parent[pid[j]] = Ooth

Registered == \A j \in Job : pc[j] = "started" => managed[pid[j]] = j

\* reap runs under the lock.
Scanning ==
  scan # "idle" => lock \in {Reaper, Closer} \/ (lock \in Job /\ pc[lock] = "reaping")

Grouped == \A p \in Pid : Running(p) /\ group[p] # None => group[p] \in grouped

Inv == TypeOK /\ Orphans /\ Commands /\ Registered /\ Scanning /\ FamilyGone /\ Grouped

-----------------------------------------------------------------------------
\* A new process of a family joins the group of its parent.
LEMMA ForkKeeps ==
  ASSUME Inv, NEW p \in Pid, NEW q \in Pid, Fork(p, q)
  PROVE  Inv'
<1>1. TypeOK'
  BY DEF Inv, TypeOK, Fork, reapVars, ownerVars, jobVars
<1>2. Orphans'
  BY DEF Inv, TypeOK, Orphans, Fork
<1>3. Commands'
  BY DEF Inv, Commands, Fork, jobVars
<1>4. FamilyGone'
  BY DEF Inv, TypeOK, FamilyGone, Running, Fork, jobVars
<1>5. Grouped'
  BY DEF Inv, TypeOK, Grouped, Running, Fork, jobVars
<1>6. Registered' /\ Scanning'
  BY DEF Inv, Registered, Scanning, Fork, reapVars, ownerVars, jobVars
<1> QED BY <1>1, <1>2, <1>3, <1>4, <1>5, <1>6 DEF Inv

\* A process ends; its children are adopted, none of them a command.
LEMMA ExitKeeps ==
  ASSUME Inv, NEW p \in Pid, Exit(p)
  PROVE  Inv'
<1>1. TypeOK'
  BY DEF Inv, TypeOK, Exit, reapVars, ownerVars, jobVars
<1>2. Orphans'
  BY DEF Inv, Orphans, Exit
<1>3. Commands'
  BY DEF Inv, Commands, Exit, jobVars
<1>4. FamilyGone'
  BY DEF Inv, FamilyGone, Running, Exit, jobVars
<1>5. Grouped'
  BY DEF Inv, Grouped, Running, Exit, jobVars
<1>6. Registered' /\ Scanning'
  BY DEF Inv, Registered, Scanning, Exit, reapVars, ownerVars, jobVars
<1> QED BY <1>1, <1>2, <1>3, <1>4, <1>5, <1>6 DEF Inv

\* What a family collects is no command: those are children of the supervisor.
LEMMA ParentWaitsKeeps ==
  ASSUME Inv, NEW p \in Pid, ParentWaits(p)
  PROVE  Inv'
<1>1. TypeOK'
  BY DEF Inv, TypeOK, ParentWaits, Collected, reapVars, ownerVars, jobVars
<1>2. Orphans'
  BY DEF Inv, TypeOK, Orphans, ParentWaits, Collected
<1>3. Commands'
  BY DEF Inv, Commands, ParentWaits, Collected, jobVars
<1>4. FamilyGone'
  BY DEF Inv, FamilyGone, Running, ParentWaits, Collected, jobVars
<1>5. Grouped'
  BY DEF Inv, Grouped, Running, ParentWaits, Collected, jobVars
<1>6. Registered' /\ Scanning'
  BY DEF Inv, Registered, Scanning, ParentWaits, reapVars, ownerVars, jobVars
<1> QED BY <1>1, <1>2, <1>3, <1>4, <1>5, <1>6 DEF Inv

\* Reading the lists changes no process.
LEMMA ReadChildrenKeeps ==
  ASSUME Inv, ReadChildren
  PROVE  Inv'
<1>1. TypeOK'
  BY DEF Inv, TypeOK, ReadChildren, Children, kernelVars, jobVars
<1>2. Scanning'
  BY DEF Inv, Scanning, ReadChildren, jobVars
<1>3. Orphans' /\ Commands' /\ Registered' /\ FamilyGone' /\ Grouped'
  BY DEF Inv, Orphans, Commands, Registered, FamilyGone, Grouped, Running,
      ReadChildren, kernelVars, jobVars
<1> QED BY <1>1, <1>2, <1>3 DEF Inv

\* reap collects a child only when no command is registered under it; whoever
\* collects is no job between its fork and its registration.
LEMMA InspectKeeps ==
  ASSUME Inv, NEW p \in Pid, Inspect(p)
  PROVE  Inv'
<1>1. TypeOK'
  BY DEF Inv, TypeOK, Inspect, Collected, kernelVars, jobVars
<1>2. Orphans'
  BY DEF Inv, TypeOK, Orphans, Inspect, Collected, kernelVars
<1>3. Commands'
  BY OwnerAssumption DEF Inv, TypeOK, Commands, Registered, Scanning, Inspect,
      Collected, Spares, kernelVars, jobVars
<1>4. FamilyGone'
  BY DEF Inv, TypeOK, FamilyGone, Running, Inspect, Collected, kernelVars, jobVars
<1>5. Grouped'
  BY DEF Inv, TypeOK, Grouped, Running, Inspect, Collected, kernelVars, jobVars
<1>6. Registered' /\ Scanning'
  BY DEF Inv, Registered, Scanning, Inspect, jobVars
<1> QED BY <1>1, <1>2, <1>3, <1>4, <1>5, <1>6 DEF Inv

\* A signal is taken from the channel.
LEMMA ReaperWakesKeeps ==
  ASSUME Inv, ReaperWakes
  PROVE  Inv'
<1>1. TypeOK'
  BY DEF Inv, TypeOK, ReaperWakes, reapVars, jobVars
<1>2. Orphans' /\ Commands' /\ Registered' /\ Scanning' /\ FamilyGone' /\ Grouped'
  BY DEF Inv, Orphans, Commands, Registered, Scanning, FamilyGone, Grouped, Running,
      ReaperWakes, reapVars, jobVars
<1> QED BY <1>1, <1>2 DEF Inv

\* The reaper takes the free lock.
LEMMA ReaperEntersKeeps ==
  ASSUME Inv, ReaperEnters
  PROVE  Inv'
<1>1. TypeOK'
  BY OwnerAssumption DEF Inv, TypeOK, ReaperEnters, Enter, Children, kernelVars,
      jobVars
<1>2. Scanning'
  BY DEF Inv, Scanning, ReaperEnters, Enter
<1>3. Orphans' /\ Commands' /\ Registered' /\ FamilyGone' /\ Grouped'
  BY DEF Inv, Orphans, Commands, Registered, FamilyGone, Grouped, Running,
      ReaperEnters, kernelVars, jobVars
<1> QED BY <1>1, <1>2, <1>3 DEF Inv

\* The reaper gives the lock back.
LEMMA ReaperLeavesKeeps ==
  ASSUME Inv, ReaperLeaves
  PROVE  Inv'
<1>1. TypeOK'
  BY OwnerAssumption DEF Inv, TypeOK, ReaperLeaves, Leave, kernelVars, jobVars
<1>2. Scanning'
  BY DEF Inv, Scanning, ReaperLeaves, Leave
<1>3. Orphans' /\ Commands' /\ Registered' /\ FamilyGone' /\ Grouped'
  BY DEF Inv, Orphans, Commands, Registered, FamilyGone, Grouped, Running,
      ReaperLeaves, kernelVars, jobVars
<1> QED BY <1>1, <1>2, <1>3 DEF Inv

\* The reaper ends with its channel.
LEMMA ReaperEndsKeeps ==
  ASSUME Inv, ReaperEnds
  PROVE  Inv'
<1>1. TypeOK'
  BY DEF Inv, TypeOK, ReaperEnds, kernelVars, reapVars, jobVars
<1>2. Orphans' /\ Commands' /\ Registered' /\ Scanning' /\ FamilyGone' /\ Grouped'
  BY DEF Inv, Orphans, Commands, Registered, Scanning, FamilyGone, Grouped, Running,
      ReaperEnds, kernelVars, reapVars, jobVars
<1> QED BY <1>1, <1>2 DEF Inv

\* The owner stops listening for signals.
LEMMA CloseStopsKeeps ==
  ASSUME Inv, CloseStops
  PROVE  Inv'
<1>1. TypeOK'
  BY DEF Inv, TypeOK, CloseStops, reapVars, jobVars
<1>2. Orphans' /\ Commands' /\ Registered' /\ Scanning' /\ FamilyGone' /\ Grouped'
  BY DEF Inv, Orphans, Commands, Registered, Scanning, FamilyGone, Grouped, Running,
      CloseStops, reapVars, jobVars
<1> QED BY <1>1, <1>2 DEF Inv

\* Close takes the free lock.
LEMMA CloseEntersKeeps ==
  ASSUME Inv, CloseEnters
  PROVE  Inv'
<1>1. TypeOK'
  BY OwnerAssumption DEF Inv, TypeOK, CloseEnters, Enter, Children, kernelVars,
      jobVars
<1>2. Scanning'
  BY DEF Inv, Scanning, CloseEnters, Enter
<1>3. Orphans' /\ Commands' /\ Registered' /\ FamilyGone' /\ Grouped'
  BY DEF Inv, Orphans, Commands, Registered, FamilyGone, Grouped, Running,
      CloseEnters, kernelVars, jobVars
<1> QED BY <1>1, <1>2, <1>3 DEF Inv

\* Close gives the lock back.
LEMMA CloseLeavesKeeps ==
  ASSUME Inv, CloseLeaves
  PROVE  Inv'
<1>1. TypeOK'
  BY OwnerAssumption DEF Inv, TypeOK, CloseLeaves, Leave, kernelVars, jobVars
<1>2. Scanning'
  BY DEF Inv, Scanning, CloseLeaves, Leave
<1>3. Orphans' /\ Commands' /\ Registered' /\ FamilyGone' /\ Grouped'
  BY DEF Inv, Orphans, Commands, Registered, FamilyGone, Grouped, Running,
      CloseLeaves, kernelVars, jobVars
<1> QED BY <1>1, <1>2, <1>3 DEF Inv

\* A command starts under a free identifier and the free lock.
LEMMA StartKeeps ==
  ASSUME Inv, NEW j \in Job, NEW p \in Pid, NEW g \in BOOLEAN, Start(j, p, g)
  PROVE  Inv'
<1>1. TypeOK'
  BY OwnerAssumption DEF Inv, TypeOK, Start, Spawn
<1>2. Orphans'
  BY DEF Inv, Orphans, Start, Spawn
<1>3. Commands'
  BY DEF Inv, TypeOK, Orphans, Commands, Start, Spawn
<1>4. Registered'
  BY DEF Inv, Registered, Start, Spawn
<1>5. Scanning'
  BY OwnerAssumption DEF Inv, Scanning, Start, Spawn
<1>6. FamilyGone'
  BY DEF Inv, TypeOK, FamilyGone, Running, Start, Spawn
<1>7. Grouped'
  BY DEF Inv, TypeOK, Grouped, Running, Start, Spawn
<1> QED BY <1>1, <1>2, <1>3, <1>4, <1>5, <1>6, <1>7 DEF Inv

\* The command is registered, over what may have been left there.
LEMMA RegisterKeeps ==
  ASSUME Inv, NEW j \in Job, Register(j)
  PROVE  Inv'
<1>1. TypeOK'
  BY DEF Inv, TypeOK, Register, kernelVars
<1>2. Commands'
  BY DEF Inv, Commands, Register, kernelVars
<1>3. Registered'
  BY DEF Inv, TypeOK, Commands, Registered, Register
<1>4. Scanning'
  BY OwnerAssumption DEF Inv, TypeOK, Scanning, Register
<1>5. FamilyGone'
  BY DEF Inv, FamilyGone, Running, Register, kernelVars
<1>6. Orphans' /\ Grouped'
  BY DEF Inv, Orphans, Grouped, Running, Register, kernelVars
<1> QED BY <1>1, <1>2, <1>3, <1>4, <1>5, <1>6 DEF Inv

\* cmd.Wait collects a command that no other job is waiting for.
LEMMA AwaitKeeps ==
  ASSUME Inv, NEW j \in Job, Await(j)
  PROVE  Inv'
<1>1. TypeOK'
  BY DEF Inv, TypeOK, Commands, Await, Collected
<1>2. Orphans'
  BY DEF Inv, TypeOK, Orphans, Commands, Await, Collected
<1>3. Commands'
  BY DEF Inv, TypeOK, Commands, Await, Collected
<1>4. Registered'
  BY DEF Inv, Registered, Await
<1>5. Scanning'
  BY DEF Inv, Scanning, Await
<1>6. FamilyGone'
  BY DEF Inv, TypeOK, Commands, FamilyGone, Running, Await, Collected
<1>7. Grouped'
  BY DEF Inv, TypeOK, Commands, Grouped, Running, Await, Collected
<1> QED BY <1>1, <1>2, <1>3, <1>4, <1>5, <1>6, <1>7 DEF Inv

\* Wait removes its own registration only.
LEMMA WaitEntersKeeps ==
  ASSUME Inv, NEW j \in Job, WaitEnters(j)
  PROVE  Inv'
<1>1. TypeOK'
  BY OwnerAssumption DEF Inv, TypeOK, WaitEnters, Enter, Children, Unregistered,
      kernelVars
<1>2. Commands'
  BY DEF Inv, Commands, WaitEnters, kernelVars
<1>3. Registered'
  BY DEF Inv, Commands, Registered, WaitEnters, Unregistered
<1>4. Scanning'
  BY DEF Inv, TypeOK, Scanning, WaitEnters, Enter
<1>5. FamilyGone'
  BY DEF Inv, FamilyGone, Running, WaitEnters, kernelVars
<1>6. Orphans' /\ Grouped'
  BY DEF Inv, Orphans, Grouped, Running, WaitEnters, kernelVars
<1> QED BY <1>1, <1>2, <1>3, <1>4, <1>5, <1>6 DEF Inv

\* Wait gives the lock back, which no job in Start can hold.
LEMMA WaitLeavesKeeps ==
  ASSUME Inv, NEW j \in Job, WaitLeaves(j)
  PROVE  Inv'
<1>1. TypeOK'
  BY OwnerAssumption DEF Inv, TypeOK, Scanning, WaitLeaves, Leave, kernelVars
<1>2. Commands'
  BY DEF Inv, Commands, WaitLeaves, kernelVars
<1>3. Registered'
  BY DEF Inv, Registered, WaitLeaves
<1>4. Scanning'
  BY DEF Inv, Scanning, WaitLeaves, Leave
<1>5. FamilyGone'
  BY DEF Inv, FamilyGone, Running, WaitLeaves, kernelVars
<1>6. Orphans' /\ Grouped'
  BY DEF Inv, Orphans, Grouped, Running, WaitLeaves, kernelVars
<1> QED BY <1>1, <1>2, <1>3, <1>4, <1>5, <1>6 DEF Inv

\* The family is killed.
LEMMA CloseKillsKeeps ==
  ASSUME Inv, NEW j \in Job, CloseKills(j)
  PROVE  Inv'
<1>1. TypeOK'
  BY DEF Inv, TypeOK, CloseKills, Doomed, reapVars, ownerVars
<1>2. Orphans'
  BY DEF Inv, Orphans, CloseKills, Doomed
<1>3. Commands'
  BY DEF Inv, Commands, CloseKills, Doomed
<1>4. Registered'
  BY DEF Inv, Registered, CloseKills, ownerVars
<1>5. Scanning'
  BY DEF Inv, Scanning, CloseKills, reapVars, ownerVars
<1>6. FamilyGone'
  BY DEF Inv, FamilyGone, Running, CloseKills, Doomed
<1>7. Grouped'
  BY DEF Inv, Grouped, Running, CloseKills, Doomed
<1> QED BY <1>1, <1>2, <1>3, <1>4, <1>5, <1>6, <1>7 DEF Inv

\* Close returns only when no process of the family runs.
LEMMA CloseReadsKeeps ==
  ASSUME Inv, NEW j \in Job, CloseReads(j)
  PROVE  Inv'
<1>1. TypeOK'
  BY DEF Inv, TypeOK, CloseReads, reapVars, ownerVars
<1>2. Commands'
  BY DEF Inv, Commands, CloseReads
<1>3. Registered'
  BY DEF Inv, Registered, CloseReads, ownerVars
<1>4. Scanning'
  BY DEF Inv, Scanning, CloseReads, reapVars, ownerVars
<1>5. FamilyGone'
  BY DEF Inv, FamilyGone, Running, CloseReads, Empty, Members
<1>6. Orphans' /\ Grouped'
  BY DEF Inv, Orphans, Grouped, Running, CloseReads
<1> QED BY <1>1, <1>2, <1>3, <1>4, <1>5, <1>6 DEF Inv

\* An event has come.
LEMMA ClosePollsKeeps ==
  ASSUME Inv, NEW j \in Job, ClosePolls(j)
  PROVE  Inv'
<1>1. TypeOK'
  BY DEF Inv, TypeOK, ClosePolls, kernelVars, reapVars, ownerVars
<1>2. Commands'
  BY DEF Inv, Commands, ClosePolls, kernelVars
<1>3. Registered'
  BY DEF Inv, Registered, ClosePolls, ownerVars
<1>4. Scanning'
  BY DEF Inv, Scanning, ClosePolls, reapVars, ownerVars
<1>5. FamilyGone'
  BY DEF Inv, FamilyGone, Running, ClosePolls, kernelVars
<1>6. Orphans' /\ Grouped'
  BY DEF Inv, Orphans, Grouped, Running, ClosePolls, kernelVars
<1> QED BY <1>1, <1>2, <1>3, <1>4, <1>5, <1>6 DEF Inv

\* A job without a cgroup has no family to wait for.
LEMMA CloseNothingKeeps ==
  ASSUME Inv, NEW j \in Job, CloseNothing(j)
  PROVE  Inv'
<1>1. TypeOK'
  BY DEF Inv, TypeOK, CloseNothing, kernelVars, reapVars, ownerVars
<1>2. Commands'
  BY DEF Inv, Commands, CloseNothing, kernelVars
<1>3. Registered'
  BY DEF Inv, Registered, CloseNothing, ownerVars
<1>4. Scanning'
  BY DEF Inv, Scanning, CloseNothing, reapVars, ownerVars
<1>5. FamilyGone'
  BY DEF Inv, FamilyGone, Grouped, Running, CloseNothing, kernelVars
<1>6. Orphans' /\ Grouped'
  BY DEF Inv, Orphans, Grouped, Running, CloseNothing, kernelVars
<1> QED BY <1>1, <1>2, <1>3, <1>4, <1>5, <1>6 DEF Inv

\* A job that is forgotten has no family left.
LEMMA ForgetKeeps ==
  ASSUME Inv, NEW j \in Job, Forget(j)
  PROVE  Inv'
<1>1. TypeOK'
  BY DEF Inv, TypeOK, Forget, kernelVars, reapVars, ownerVars
<1>2. Commands'
  BY DEF Inv, Commands, Forget, kernelVars
<1>3. Registered'
  BY DEF Inv, Registered, Forget, ownerVars
<1>4. Scanning'
  BY DEF Inv, Scanning, Forget, reapVars, ownerVars
<1>5. FamilyGone'
  BY DEF Inv, FamilyGone, Running, Forget, kernelVars
<1>6. Grouped'
  BY DEF Inv, FamilyGone, Grouped, Running, Forget, kernelVars
<1>7. Orphans'
  BY DEF Inv, Orphans, Forget, kernelVars
<1> QED BY <1>1, <1>2, <1>3, <1>4, <1>5, <1>6, <1>7 DEF Inv

\* A job is to be killed.
LEMMA AskKillKeeps ==
  ASSUME Inv, NEW j \in Job, AskKill(j)
  PROVE  Inv'
<1>1. TypeOK'
  BY DEF Inv, TypeOK, AskKill, kernelVars, reapVars, ownerVars
<1>2. Orphans' /\ Commands' /\ Registered' /\ Scanning' /\ FamilyGone' /\ Grouped'
  BY DEF Inv, Orphans, Commands, Registered, Scanning, FamilyGone, Grouped, Running,
      AskKill, kernelVars, reapVars, ownerVars
<1> QED BY <1>1, <1>2 DEF Inv

\* A killed process runs until it ends.
LEMMA KillKeeps ==
  ASSUME Inv, NEW j \in Job, Kill(j)
  PROVE  Inv'
<1>1. TypeOK'
  BY DEF Inv, TypeOK, Kill, Doomed, reapVars, ownerVars
<1>2. Orphans'
  BY DEF Inv, Orphans, Kill, Doomed
<1>3. Commands'
  BY DEF Inv, Commands, Kill, Doomed
<1>4. FamilyGone'
  BY DEF Inv, FamilyGone, Running, Kill, Doomed
<1>5. Grouped'
  BY DEF Inv, Grouped, Running, Kill, Doomed
<1>6. Registered' /\ Scanning'
  BY DEF Inv, Registered, Scanning, Kill, reapVars, ownerVars
<1> QED BY <1>1, <1>2, <1>3, <1>4, <1>5, <1>6 DEF Inv

-----------------------------------------------------------------------------
(* The theorems *)

\* At the start nothing runs and nobody holds the lock.
LEMMA Initially == Init => Inv
BY DEF Init, Inv, TypeOK, Orphans, Commands, Registered, Scanning, FamilyGone, Grouped, Running

\* A step that changes nothing.
LEMMA StutterKeeps == Inv /\ UNCHANGED vars => Inv'
BY DEF Inv, TypeOK, Orphans, Commands, Registered, Scanning, FamilyGone, Grouped, Running,
       vars, kernelVars, ownerVars, reapVars, jobVars

\* The inductive invariant, for all of the code in this module.
THEOREM Invariant == Spec => []Inv
<1>1. ASSUME Inv, Next
      PROVE  Inv'
  <2>1. CASE Kernel
    BY <1>1, <2>1, ForkKeeps, ExitKeeps, ParentWaitsKeeps DEF Kernel
  <2>2. ASSUME NEW h, Reaping(h)
        PROVE  Inv'
    BY <1>1, <2>2, ReadChildrenKeeps, InspectKeeps DEF Reaping
  <2>3. CASE ReaperNext
    BY <1>1, <2>2, <2>3, ReaperWakesKeeps, ReaperEntersKeeps, ReaperLeavesKeeps, ReaperEndsKeeps
       DEF ReaperNext
  <2>4. CASE CloseStops
    BY <1>1, <2>4, CloseStopsKeeps
  <2>5. CASE CloserNext
    BY <1>1, <2>2, <2>5, CloseEntersKeeps, CloseLeavesKeeps DEF CloserNext
  <2>6. ASSUME NEW j \in Job, JobNext(j)
        PROVE  Inv'
    BY <1>1, <2>2, <2>6, RegisterKeeps, AwaitKeeps, WaitEntersKeeps, WaitLeavesKeeps,
       CloseKillsKeeps, CloseReadsKeeps, ClosePollsKeeps, CloseNothingKeeps DEF JobNext
  <2>7. ASSUME NEW j \in Job,
               \/ \E p \in Pid, g \in BOOLEAN : Start(j, p, g)
               \/ Forget(j) \/ AskKill(j) \/ Kill(j)
        PROVE  Inv'
    BY <1>1, <2>7, StartKeeps, ForgetKeeps, AskKillKeeps, KillKeeps
  <2>8. CASE Closed
    BY <1>1, <2>8, StutterKeeps DEF Closed
  <2> QED BY <1>1, <2>1, <2>3, <2>4, <2>5, <2>6, <2>7, <2>8 DEF Next
<1> QED BY <1>1, Initially, StutterKeeps, PTL DEF Spec

\* The variables keep their types, and Start holds the lock until its command is
\* registered.
THEOREM TypeCorrect == Spec => []TypeOK
BY Invariant, PTL DEF Inv

\* Whatever identifiers the kernel uses again and whenever children end, the
\* status of a command is there when its cmd.Wait collects it.
THEOREM StatusKeptAlways == Spec => []StatusKept
<1>1. Inv => StatusKept
  BY DEF Inv, Commands, StatusKept
<1> QED BY <1>1, Invariant, PTL

\* No process of a family runs once Close of its job has returned, or under the
\* identity of a job that has not started again.
THEOREM FamilyGoneAlways == Spec => []FamilyGone
BY Invariant, PTL DEF Inv
=============================================================================
