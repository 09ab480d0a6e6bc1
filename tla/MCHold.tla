-------------------------------- MODULE MCHold --------------------------------
(* A listening app that depends on a virtual one, which depends on another. *)
EXTENDS Manager, TLC

CONSTANTS web, api, db, x, y, z

Chain == x :> web @@ y :> api @@ z :> db
Zero == [a \in App |-> 0]
One == [a \in App |-> 1]
Depends == web :> (api :> "parallel") @@ api :> (db :> "ready") @@ db :> [b \in {} |-> "ready"]
ByStart == [a \in App |-> "started"]
NoHooks == [a \in App |-> {}]
NoLimits == [a \in App |-> {}]
=============================================================================
