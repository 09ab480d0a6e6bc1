-------------------------------- MODULE MCHooks --------------------------------
(* Workers in two generations, with hooks of both scopes. *)
EXTENDS Hooks, TLC

CONSTANTS prepare, goodbye, probe, beat, leave

Names == prepare :> "pre_start" @@ goodbye :> "post_stop" @@ probe :> "readiness"
         @@ beat :> "health" @@ leave :> "pre_stop"
Kind == [b \in Binding |-> Names[b]]
Thresholds == [b \in Binding |-> IF b \in {probe, beat} THEN 2 ELSE 1]
Symmetry == Permutations(Worker) \cup Permutations(Cycle)
=============================================================================
