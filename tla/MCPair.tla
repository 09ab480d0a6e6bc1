-------------------------------- MODULE MCPair --------------------------------
(* A listening app that depends on a virtual one. *)
EXTENDS Manager, TLC

CONSTANTS web, db, x, d

Pair == [w \in Worker |-> IF w = x THEN web ELSE db]
Zero == [a \in App |-> 0]
One == [a \in App |-> 1]
Requires == [a \in App |-> [b \in App \ {web, a} |-> "ready"]]
Parallel == [a \in App |-> [b \in App \ {web, a} |-> "parallel"]]
ByStart == [a \in App |-> "started"]
ByEvent == [a \in App |-> "event"]
NoHooks == [a \in App |-> {}]
WebHooks == [a \in App |-> IF a = web THEN {"post_stop"} ELSE {}]
NoLimits == [a \in App |-> {}]
=============================================================================
