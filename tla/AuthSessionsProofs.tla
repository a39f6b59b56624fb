------------------------- MODULE AuthSessionsProofs -------------------------
(***************************************************************************)
(* Theorems about AuthSessions, for every set of requests, users and       *)
(* accounts and every size of the pool.                                    *)
(***************************************************************************)
EXTENDS AuthSessions, FiniteSetTheorems, TLAPS

\* Every variable keeps its type, and a request that is about to create a
\* session knows for whom.
THEOREM TypeCorrect == Spec => []TypeOK
<1> USE RequestAssumption
<1>1. Init => TypeOK
  BY DEF Init, TypeOK, Session, User, Request, InTransaction, Decided
<1>2. TypeOK /\ [Next]_vars => TypeOK'
  <2> SUFFICES ASSUME TypeOK, [Next]_vars PROVE TypeOK'
    OBVIOUS
  <2> USE DEF TypeOK, Session, User, Request, InTransaction, Decided, GoTo, tables
  <2>1. ASSUME NEW r \in Refresh, NEW t \in Session, FindByRefreshToken(r, t) PROVE TypeOK'
    BY <2>1 DEF FindByRefreshToken, Handed
  <2>2. ASSUME NEW r \in Refresh, BeginRefresh(r) PROVE TypeOK'
    BY <2>2 DEF BeginRefresh, Begin
  <2>3. ASSUME NEW r \in Refresh, DeleteSession(r) PROVE TypeOK'
    BY <2>3 DEF DeleteSession
  <2>4. ASSUME NEW r \in SignIn, BeginSignIn(r) PROVE TypeOK'
    BY <2>4 DEF BeginSignIn, Begin
  <2>5. ASSUME NEW r \in SignIn, FindByProviderAndID(r) PROVE TypeOK'
    BY <2>5 DEF FindByProviderAndID
  <2>6. ASSUME NEW r \in SignIn, UpdateSocialAuth(r) PROVE TypeOK'
    BY <2>6 DEF UpdateSocialAuth
  <2>7. ASSUME NEW r \in SignIn, CreateUser(r) PROVE TypeOK'
    BY <2>7 DEF CreateUser
  <2>8. ASSUME NEW r \in SignIn, CreateSocialAuth(r) PROVE TypeOK'
    BY <2>8 DEF CreateSocialAuth, Rollback, Unlocked
  <2>9. ASSUME NEW r \in Request, CreateSession(r) PROVE TypeOK'
    BY <2>9 DEF CreateSession
  <2>10. ASSUME NEW r \in Request, Commit(r) PROVE TypeOK'
    BY <2>10 DEF Commit, Unlocked
  <2>11. ASSUME NEW r \in Request, Fail(r) PROVE TypeOK'
    BY <2>11 DEF Fail, Rollback, Unlocked
  <2>12. CASE Restart
    BY <2>12 DEF Restart
  <2>13. CASE UNCHANGED vars
    BY <2>13 DEF vars
  <2> QED
    BY <2>1, <2>2, <2>3, <2>4, <2>5, <2>6, <2>7, <2>8, <2>9, <2>10, <2>11, <2>12, <2>13
    DEF Next, RefreshStep, SignInStep, End
<1> QED
  BY <1>1, <1>2, PTL DEF Spec

(***************************************************************************)
(* The inductive invariant.  A commit is the step that needs all of it:    *)
(* the lock says that no other sign-in is past its insert or update of     *)
(* that account, and the row says that nobody else is linked to it.        *)
(***************************************************************************)
\* The steps of a refresh, the deletion among them, keep the invariant.
LEMMA RefreshKeeps ==
  ASSUME TypeOK, AuthInv, NEW r \in Refresh, RefreshStep(r)
  PROVE  AuthInv'
<1> USE RequestAssumption
<1> USE DEF TypeOK, Session, User, Request, InTransaction, Decided, GoTo, tables,
            AuthInv, SignInInv, RefreshInv, LinkedExists, NoOrphanUser,
            SessionHasUser, AnsweredIsStored
<1>1. ASSUME NEW t \in Session, FindByRefreshToken(r, t) PROVE AuthInv'
  BY <1>1 DEF FindByRefreshToken, Handed
<1>2. CASE BeginRefresh(r)
  BY <1>2 DEF BeginRefresh, Begin
<1>3. CASE DeleteSession(r)
  BY <1>3 DEF DeleteSession
<1> QED
  BY <1>1, <1>2, <1>3 DEF RefreshStep

\* So do those of a sign-in.
LEMMA SignInKeeps ==
  ASSUME TypeOK, AuthInv, NEW r \in SignIn, SignInStep(r)
  PROVE  AuthInv'
<1> USE RequestAssumption
<1> USE DEF TypeOK, Session, User, Request, InTransaction, Decided, GoTo, tables,
            AuthInv, SignInInv, RefreshInv, LinkedExists, NoOrphanUser,
            SessionHasUser, AnsweredIsStored
<1>1. CASE BeginSignIn(r)
  BY <1>1 DEF BeginSignIn, Begin
<1>2. CASE FindByProviderAndID(r)
  BY <1>2 DEF FindByProviderAndID
<1>3. CASE UpdateSocialAuth(r)
  BY <1>3 DEF UpdateSocialAuth
<1>4. CASE CreateUser(r)
  BY <1>4 DEF CreateUser
<1>5. CASE CreateSocialAuth(r)
  BY <1>5 DEF CreateSocialAuth, Rollback, Unlocked
<1> QED
  BY <1>1, <1>2, <1>3, <1>4, <1>5 DEF SignInStep

\* And the ends of both: insert, commit, failure.
LEMMA EndKeeps ==
  ASSUME TypeOK, AuthInv, NEW r \in Request, End(r) \/ Fail(r)
  PROVE  AuthInv'
<1> USE RequestAssumption
<1> USE DEF TypeOK, Session, User, Request, InTransaction, Decided, GoTo, tables,
            AuthInv, SignInInv, RefreshInv, LinkedExists, NoOrphanUser,
            SessionHasUser, AnsweredIsStored
<1>1. CASE CreateSession(r)
  BY <1>1 DEF CreateSession
<1>2. CASE Commit(r) /\ r \in Refresh
  BY <1>2 DEF Commit, Unlocked
<1>3. CASE Commit(r) /\ r \in SignIn
  BY <1>3 DEF Commit, Unlocked
<1>4. CASE Fail(r)
  BY <1>4 DEF Fail, Rollback, Unlocked
<1> QED
  BY <1>1, <1>2, <1>3, <1>4 DEF End

\* Failures, restarts and races included, the tables stay consistent: the
\* inductive invariant holds in every reachable state.
THEOREM AuthInvariant == Spec => []AuthInv
<1> USE RequestAssumption
<1>1. Init => AuthInv
  BY DEF Init, AuthInv, SignInInv, RefreshInv, LinkedExists, NoOrphanUser,
         SessionHasUser, AnsweredIsStored, Session, User, Request
<1>2. TypeOK /\ AuthInv /\ [Next]_vars => AuthInv'
  <2> SUFFICES ASSUME TypeOK, AuthInv, [Next]_vars PROVE AuthInv'
    OBVIOUS
  <2>1. CASE Restart
    BY <2>1 DEF Restart, TypeOK, Session, User, Request, InTransaction, tables,
      AuthInv, SignInInv, RefreshInv, LinkedExists, NoOrphanUser, SessionHasUser,
      AnsweredIsStored
  <2>2. CASE UNCHANGED vars
    BY <2>2 DEF vars, AuthInv, SignInInv, RefreshInv, LinkedExists, NoOrphanUser,
      SessionHasUser, AnsweredIsStored
  <2> QED
    BY <2>1, <2>2, RefreshKeeps, SignInKeeps, EndKeeps DEF Next
<1> QED
  BY <1>1, <1>2, TypeCorrect, PTL DEF Spec

\* No user is left behind whom nobody can sign in as.
THEOREM NoOrphans == Spec => []NoOrphanUser
<1>1. AuthInv => NoOrphanUser
  BY DEF AuthInv
<1> QED
  BY <1>1, AuthInvariant, PTL

\* Everyone who signs in with one account is one and the same user.
THEOREM OneUser == Spec => []OneUserPerAccount
<1>1. AuthInv => OneUserPerAccount
  BY DEF AuthInv, SignInInv, OneUserPerAccount
<1> QED
  BY <1>1, AuthInvariant, PTL

\* A stored session belongs to a stored user.
THEOREM SessionsHaveUsers == Spec => []SessionHasUser
<1>1. AuthInv => SessionHasUser
  BY DEF AuthInv
<1> QED
  BY <1>1, AuthInvariant, PTL

\* A session that was answered is stored until its token is used.
THEOREM AnswersStored == Spec => []AnsweredIsStored
<1>1. AuthInv => AnsweredIsStored
  BY DEF AuthInv
<1> QED
  BY <1>1, AuthInvariant, PTL

(***************************************************************************)
(* The pool and the locks: what RequestsEnd rests on.                      *)
(***************************************************************************)
\* A request holds a connection of the pool exactly while its transaction runs.
PoolExact == conns = {r \in Request : pc[r] \in InTransaction}

\* A row is locked by a sign-in of its account that waits for nothing any more.
LockersGoOn ==
    \A a \in Account : locked[a] # NoOne =>
        /\ AccountOf[locked[a]] = a
        /\ pc[locked[a]] \in {"creating", "committing"}

\* The two kinds of requests run statements of their own until the new session.
OwnPlaces ==
    /\ \A r \in Refresh : pc[r] \notin {"finding", "updating", "creatingUser", "linking"}
    /\ \A r \in SignIn : pc[r] \notin {"found", "deleting"}

PoolInv == PoolExact /\ LockersGoOn /\ OwnPlaces

\* The next statement of a request has what it waits for.
CanGo(r) ==
    \/ pc[r] \in {"finding", "creatingUser", "creating", "committing"}
    \/ pc[r] \in {"found", "deleting"} /\ ConnectionFree
    \/ pc[r] \in {"updating", "linking"} /\ locked[AccountOf[r]] = NoOne

\* Whoever runs, somebody can go on.
NeverStuck ==
    (\E r \in Request : pc[r] \in InTransaction \cup {"found"}) => \E r \in Request : CanGo(r)

\* Failures and restarts included, no connection leaks and none is used twice, and
\* whoever holds a lock is past every wait.
THEOREM PoolInvariant == Spec => []PoolInv
<1> USE RequestAssumption DEF PoolInv, PoolExact, LockersGoOn, OwnPlaces, InTransaction, Request, GoTo
<1>1. Init => PoolInv
  BY DEF Init
<1>2. TypeOK /\ PoolInv /\ [Next]_vars => PoolInv'
  <2> SUFFICES ASSUME TypeOK, PoolInv, [Next]_vars
               PROVE  PoolInv'
    OBVIOUS
  <2> USE DEF TypeOK
  <2>1. ASSUME NEW r \in Refresh, RefreshStep(r) PROVE PoolInv'
    <3>1. ASSUME NEW t \in Session, FindByRefreshToken(r, t) PROVE PoolInv'
      BY <3>1 DEF FindByRefreshToken
    <3>2. CASE BeginRefresh(r)
      BY <3>2 DEF BeginRefresh, Begin
    <3>3. CASE DeleteSession(r)
      BY <3>3 DEF DeleteSession
    <3> QED
      BY <2>1, <3>1, <3>2, <3>3 DEF RefreshStep
  <2>2. ASSUME NEW r \in SignIn, SignInStep(r) PROVE PoolInv'
    <3>1. CASE BeginSignIn(r)
      BY <3>1 DEF BeginSignIn, Begin
    <3>2. CASE FindByProviderAndID(r)
      BY <3>2 DEF FindByProviderAndID
    <3>3. CASE UpdateSocialAuth(r)
      BY <3>3 DEF UpdateSocialAuth
    <3>4. CASE CreateUser(r)
      BY <3>4 DEF CreateUser
    <3>5. CASE CreateSocialAuth(r)
      BY <3>5 DEF CreateSocialAuth, Rollback, Unlocked
    <3> QED
      BY <2>2, <3>1, <3>2, <3>3, <3>4, <3>5 DEF SignInStep
  <2>3. ASSUME NEW r \in Request, End(r) \/ Fail(r) PROVE PoolInv'
    <3>1. CASE CreateSession(r)
      BY <3>1 DEF CreateSession
    <3>2. CASE Commit(r)
      BY <3>2 DEF Commit, Unlocked
    <3>3. CASE Fail(r)
      BY <3>3 DEF Fail, Rollback, Unlocked
    <3> QED
      BY <2>3, <3>1, <3>2, <3>3 DEF End
  <2>4. CASE Restart
    BY <2>4 DEF Restart
  <2>5. CASE UNCHANGED vars
    BY <2>5 DEF vars
  <2> QED
    BY <2>1, <2>2, <2>3, <2>4, <2>5 DEF Next
<1> QED
  BY <1>1, <1>2, TypeCorrect, PTL DEF Spec

\* For every number of requests and connections one deadlock is possible, over the
\* pool, over the rows or over both: that of the refreshes that have taken all
\* connections and ask for a second one each.
THEOREM OneDeadlock == Spec => [](NeverStuck \/ Exhausted)
<1>1. TypeOK /\ PoolInv => NeverStuck \/ Exhausted
  <2> SUFFICES ASSUME TypeOK, PoolInv, ~Exhausted,
                      NEW r \in Request, pc[r] \in InTransaction \cup {"found"}
               PROVE  \E q \in Request : CanGo(q)
    BY DEF NeverStuck
  <2>1. ASSUME NEW q \in SignIn, pc[q] \in InTransaction \ {"deleting"}
        PROVE  \E p \in Request : CanGo(p)
    <3>1. CASE pc[q] \in {"updating", "linking"} /\ locked[AccountOf[q]] # NoOne
      <4>1. /\ AccountOf[q] \in Account
            /\ locked[AccountOf[q]] \in SignIn
            /\ pc[locked[AccountOf[q]]] \in {"creating", "committing"}
        BY <3>1, RequestAssumption DEF TypeOK, PoolInv, LockersGoOn
      <4> QED
        BY <4>1 DEF CanGo, Request
    <3>2. CASE ~(pc[q] \in {"updating", "linking"} /\ locked[AccountOf[q]] # NoOne)
      BY <2>1, <3>2 DEF CanGo, Request, InTransaction
    <3> QED
      BY <3>1, <3>2
  <2>2. CASE ConnectionFree
    <3>1. CASE r \in SignIn
      BY <2>1, <3>1 DEF PoolInv, OwnPlaces
    <3>2. CASE r \in Refresh
      BY <2>2, <3>2 DEF CanGo, PoolInv, OwnPlaces, InTransaction
    <3> QED
      BY <3>1, <3>2 DEF Request
  <2>3. CASE ~ConnectionFree
    <3>1. PICK q \in Request : pc[q] \in InTransaction \ {"deleting"}
      BY <2>3 DEF Exhausted, PoolInv, PoolExact
    <3>2. CASE q \in SignIn
      BY <2>1, <3>1, <3>2
    <3>3. CASE q \in Refresh
      BY <3>1, <3>3 DEF CanGo, PoolInv, OwnPlaces, InTransaction
    <3> QED
      BY <3>2, <3>3 DEF Request
  <2> QED
    BY <2>2, <2>3
<1> QED
  BY <1>1, TypeCorrect, PoolInvariant, PTL

\* With more connections than refreshes at a time not even that one can form: the
\* second connection that a refresh takes inside its transaction is then never the
\* one that everybody waits for.
THEOREM NoPoolDeadlock ==
    ASSUME IsFiniteSet(Refresh), Cardinality(Refresh) < MaxOpenConns
    PROVE  Spec => []NeverStuck
<1>1. TypeOK /\ PoolInv => ~Exhausted
  <2> SUFFICES ASSUME TypeOK, PoolInv, Exhausted PROVE FALSE
    OBVIOUS
  <2>1. conns \subseteq Refresh
    BY DEF Exhausted, PoolInv, PoolExact, OwnPlaces, Request
  <2>2. Cardinality(conns) <= Cardinality(Refresh) /\ Cardinality(conns) \in Nat
    BY <2>1, FS_Subset, FS_CardinalityType
  <2>3. Cardinality(Refresh) \in Nat
    BY FS_CardinalityType
  <2> QED
    BY <2>2, <2>3, PoolAssumption DEF Exhausted, ConnectionFree
<1> QED
  BY <1>1, OneDeadlock, TypeCorrect, PoolInvariant, PTL

\* The statements a request has before it, at most.
Left(r) ==
    CASE pc[r] \in {"found", "finding"} -> 5
      [] pc[r] \in {"deleting", "creatingUser"} -> 4
      [] pc[r] \in {"updating", "linking"} -> 3
      [] pc[r] = "creating" -> 2
      [] pc[r] = "committing" -> 1
      [] pc[r] \in {"idle", "answered", "failed"} -> 0

\* What a step does with a request that runs is one of its statements less.
RequestsAdvance ==
    [][\A r \in Request : pc[r] # "idle" /\ pc'[r] # pc[r] => Left(r)' < Left(r)]_vars

\* No failure, retry or restart takes a request back: with the deadlock ruled out
\* above, a request ends after five statements, and all of them after as many each.
THEOREM RequestsFinish == Spec => RequestsAdvance
<1> USE RequestAssumption DEF Request, GoTo, InTransaction
<1>1. ASSUME TypeOK, Next, NEW r \in Request, pc[r] # "idle", pc'[r] # pc[r]
      PROVE  Left(r)' < Left(r)
  <2> USE <1>1
  <2> DEFINE Goes(from, to) == pc[r] = from /\ pc'[r] = to
             Fails == pc[r] \in InTransaction \cup {"found"} /\ pc'[r] = "failed"
  <2>1. CASE \E q \in Refresh : RefreshStep(q)
    <3>1. Goes("found", "deleting") \/ Goes("deleting", "creating")
      BY <2>1 DEF TypeOK, RefreshStep, FindByRefreshToken, BeginRefresh, Begin, DeleteSession
    <3> QED
      BY <3>1 DEF Left
  <2>2. CASE \E q \in SignIn : SignInStep(q)
    <3>1. \/ Goes("finding", "updating") \/ Goes("finding", "creatingUser")
          \/ Goes("updating", "creating") \/ Goes("creatingUser", "linking")
          \/ Goes("linking", "creating") \/ Goes("linking", "failed")
      BY <2>2 DEF TypeOK, SignInStep, BeginSignIn, Begin, FindByProviderAndID,
                  UpdateSocialAuth, CreateUser, CreateSocialAuth, Rollback
    <3> QED
      BY <3>1 DEF Left
  <2>3. CASE \E q \in Request : End(q)
    <3>1. Goes("creating", "committing") \/ Goes("committing", "answered")
      BY <2>3 DEF TypeOK, End, CreateSession, Commit
    <3> QED
      BY <3>1 DEF Left
  <2>4. CASE (\E q \in Request : Fail(q)) \/ Restart
    <3>1. Fails
      BY <2>4 DEF TypeOK, Fail, Rollback, Restart
    <3> QED
      BY <3>1 DEF Left
  <2> QED
    BY <2>1, <2>2, <2>3, <2>4 DEF Next
<1>2. TypeOK /\ [Next]_vars =>
        [\A r \in Request : pc[r] # "idle" /\ pc'[r] # pc[r] => Left(r)' < Left(r)]_vars
  BY <1>1
<1> QED
  BY <1>2, TypeCorrect, PTL DEF Spec, RequestsAdvance
=============================================================================
