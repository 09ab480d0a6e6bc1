-------------------------------- MODULE MCReload -------------------------------
(* Two apps with files to watch; the snapshots replace, remove and no longer watch
   one of them, and two of the four may be refused. *)
EXTENDS Reload, TLC

CONSTANTS web, job, web1, web2, web3, job1

Both == web :> web1 @@ job :> job1
Contender == web :> web2 @@ job :> NoConfig
Elsewhere == web :> NoConfig @@ job :> job1
Unwatched == web :> web3 @@ job :> job1
Snapshots == {Both, Contender, Elsewhere, Unwatched}
OtherCgroup == {Elsewhere}
Contenders == {Contender}
Below == Both :> {web, job} @@ Contender :> {web} @@ Elsewhere :> {job}
         @@ Unwatched :> {job}
=============================================================================
