----------------------------- MODULE MCUpdates -----------------------------
(***************************************************************************)
(* An instance of Updates for TLC: a client on Windows and one on Linux,   *)
(* two versions, of which the first has an installer of either kind and    *)
(* the second is named with a "v".                                         *)
(***************************************************************************)
EXTENDS Updates, TLC

CONSTANTS c1, c2

MCNumber == {1, 2}
MCClient == {c1, c2}
MCTargetOf == c1 :> "windows" @@ c2 :> "linux"
MCNames == <<"exe", "msi">>

First == [target |-> "windows", version |-> [number |-> 1, v |-> FALSE]]
Second == [target |-> "windows", version |-> [number |-> 2, v |-> TRUE]]
Linux == [target |-> "linux", version |-> [number |-> 2, v |-> TRUE]]

MCDirectory == {First, Second, Linux}
MCBundle == First :> {"exe", "msi"} @@ Second :> {"msi"} @@ Linux :> {}
MCMaxBuilds == First :> 1 @@ Second :> 2 @@ Linux :> 1
=============================================================================
