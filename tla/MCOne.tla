-------------------------------- MODULE MCOne --------------------------------
(* One listening app without dependencies. *)
EXTENDS Manager, TLC

CONSTANT web

OneApp == [w \in Worker |-> web]
Zero == [a \in App |-> 0]
One == [a \in App |-> 1]
Two == [a \in App |-> 2]
NoDependency == [a \in App |-> [b \in {} |-> "ready"]]
ByEvent == [a \in App |-> "event"]
ByEndpoint == [a \in App |-> "endpoint"]
NoHooks == [a \in App |-> {}]
StartStopHooks == [a \in App |-> Phases \ {"post_stop"}]
NoLimits == [a \in App |-> {}]
AllLimits == [a \in App |-> {"exec", "request"}]
Symmetry == Permutations(Worker)
=============================================================================
