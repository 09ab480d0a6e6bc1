------------------------------ MODULE MCListeners ------------------------------
(* Two apps behind unix sockets; one of them may move to a port. *)
EXTENDS Listeners, TLC

CONSTANTS web, api, port, sock, path, onPort, onSock, onPath, sockOnly, pathOnly,
          root, daemon, www, open, shared, private

Addresses == onPort :> port @@ onSock :> sock @@ sockOnly :> sock
             @@ onPath :> path @@ pathOnly :> path
Bare == [owner |-> root, mode |-> open]
Modes == [c \in Config |->
  [owner |-> IF c = sockOnly THEN daemon ELSE www,
   mode |-> IF c \in {sockOnly, pathOnly} THEN private ELSE shared]]

First == web :> onSock @@ api :> onPath
Tightened == web :> sockOnly @@ api :> pathOnly
Moved == web :> onPort @@ api :> NoConfig
Elsewhere == web :> onSock @@ api :> NoConfig
Snapshots == {First, Tightened, Moved, Elsewhere}
OtherCgroup == {Elsewhere}
=============================================================================
