------------------------------ MODULE WorkerPool ------------------------------
(***************************************************************************)
(* What the supervisor promises of its workers, whatever they do and       *)
(* however its own loop is arranged: an instance only ever moves forward   *)
(* through its life, a start finds room under max_workers, nothing is      *)
(* started or launched once shutdown has begun, and the supervisor is over *)
(* only when every instance is gone.                                       *)
(***************************************************************************)
EXTENDS Naturals, FiniteSets

CONSTANTS App, Worker, AppOf, MaxWorkers

VARIABLES
  phase,    \* how far each instance is in its life
  closing,  \* supervisor shutdown has begun
  over      \* the supervisor has returned

pool == <<phase, closing, over>>

Running == {"reserved", "launched"}

Members(a) == {w \in Worker : AppOf[w] = a /\ phase[w] \in Running}

\* An instance never turns back: it may be launched from its reservation,
\* retire, exit and be forgotten, and skip any of these on its way.
MovesOn(p, q) ==
  \/ q \in {p, "absent"}
  \/ q = "exited" /\ p # "absent"
  \/ q = "retiring" /\ p \in Running
  \/ q = "launched" /\ p = "reserved"

Init ==
  /\ phase = [w \in Worker |-> "absent"]
  /\ closing = FALSE
  /\ over = FALSE

Start(w, p) ==
  /\ ~closing
  /\ phase[w] = "absent"
  /\ Cardinality(Members(AppOf[w])) < MaxWorkers[AppOf[w]]
  /\ phase' = [phase EXCEPT ![w] = p]
  /\ UNCHANGED <<closing, over>>

\* Any number of instances move on together.
Advance ==
  /\ phase' \in [Worker -> {"absent", "reserved", "launched", "retiring", "exited"}]
  /\ \A w \in Worker :
       /\ MovesOn(phase[w], phase'[w])
       /\ closing /\ phase'[w] = "launched" => phase[w] = "launched"
  /\ UNCHANGED <<closing, over>>

Close == ~closing /\ closing' = TRUE /\ UNCHANGED <<phase, over>>

End ==
  /\ closing
  /\ \A w \in Worker : phase[w] = "absent"
  /\ over' = TRUE
  /\ UNCHANGED <<phase, closing>>

Next ==
  \/ \E w \in Worker, p \in Running : Start(w, p)
  \/ Advance
  \/ Close
  \/ End

Spec == Init /\ [][Next]_pool
=============================================================================
