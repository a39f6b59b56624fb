--------------------------- MODULE MCSocialLogin ---------------------------
(***************************************************************************)
(* Instances of SocialLogin for TLC: two visits of the login page for one  *)
(* account, in any of two browsers, with two executions of the callbacks   *)
(* of either or of both, beside two refreshes.                             *)
(***************************************************************************)
EXTENDS SocialLogin, TLC

CONSTANTS r1, r2, i1, i2, f1, f2, a1, b1, b2, p1, p2

MCRefreshes == {r1, r2}
MCCalls == {i1, i2}
MCFlows == {f1, f2}
MCSeeds == {}
MCAccounts == {a1}
MCBrowsers == {b1, b2}
MCStates == {p1, p2}

\* Both flows are about one account.
MCShared == [c \in MCCalls |-> a1]
MCAllowed == [f \in MCFlows |-> a1]
MCOwnStates == f1 :> p1 @@ f2 :> p2
=============================================================================
