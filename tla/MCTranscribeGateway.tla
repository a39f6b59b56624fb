------------------------ MODULE MCTranscribeGateway ------------------------
(***************************************************************************)
(* Instances of TranscribeGateway for TLC: who connects with which id.     *)
(***************************************************************************)
EXTENDS TranscribeGateway, TLC

CONSTANTS c1, c2, c3, s1, s2, u1, u2

MCConns == {c1, c2}
MCThreeConns == {c1, c2, c3}
MCIDs == {s1, s2}
MCUsers == {u1, u2}

\* Each connection has an id of its own, or a client reconnects under its id.
MCDistinctIDs == c1 :> s1 @@ c2 :> s2
MCSameID == c1 :> s1 @@ c2 :> s1

\* A client reconnects under its id beside another connection.
MCReusedID == c1 :> s1 @@ c2 :> s1 @@ c3 :> s2

\* One user connects twice, or two users connect.
MCSameUser == c1 :> u1 @@ c2 :> u1
MCOneUser == c1 :> u1 @@ c2 :> u1 @@ c3 :> u1
MCTwoUsers == c1 :> u1 @@ c2 :> u2

\* The two connections under one id differ in nothing but their names.
MCReconnects == Permutations({c1, c2})
=============================================================================
