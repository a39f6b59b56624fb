---------------------------- MODULE AuthSessions ----------------------------
(***************************************************************************)
(* AuthService: the sessions behind the access / refresh token pairs.      *)
(* RefreshTokensPair exchanges a refresh token, SignInWithSocial signs in  *)
(* with an account of a social network, and both run as HTTP requests in   *)
(* goroutines of their own over one pool of database connections.          *)
(*                                                                         *)
(* A step is one database statement.  PostgreSQL runs the transactions at  *)
(* READ COMMITTED: a statement sees what was committed before it, and an   *)
(* insert of a unique key that another transaction has inserted or updated *)
(* waits until that transaction ends.  A user and a session are named by   *)
(* the request that creates them.                                          *)
(***************************************************************************)
EXTENDS Naturals, FiniteSets

CONSTANTS
    Refresh,        \* RefreshTokensPair requests
    SignIn,         \* SignInWithSocial requests
    Seed,           \* users who hold a session from the start
    Account,        \* accounts of social networks (provider and its user id)
    AccountOf,      \* the account a sign-in request is about
    MaxOpenConns,   \* config: database.max_connections
    NoOne           \* no row, no user, no holder

ASSUME RequestAssumption ==
    /\ Refresh \cap SignIn = {}
    /\ Seed \cap (Refresh \cup SignIn) = {}
    /\ NoOne \notin Seed \cup Refresh \cup SignIn
    /\ AccountOf \in [SignIn -> Account]
ASSUME PoolAssumption == MaxOpenConns \in Nat \ {0}

Request == Refresh \cup SignIn
User == Seed \cup SignIn
Session == Seed \cup Request    \* a seed user's session has the user's name

VARIABLES
    sessions,   \* user_tokens, committed: the user of a session, if stored
    users,      \* users, committed
    social,     \* users_social_auths, committed: the user of an account
    locked,     \* the transaction that has written an account's row
    conns,      \* requests whose transaction holds a pool connection
    pc,         \* where a request is
    presented,  \* the session whose refresh token a request presents
    subject     \* the user the request's new session is for

tables == <<sessions, users, social>>
vars == <<sessions, users, social, locked, conns, pc, presented, subject>>

InTransaction == {"deleting", "finding", "updating", "creatingUser", "linking",
                  "creating", "committing"}

\* It is decided whom the request is for.
Decided == (InTransaction \ {"finding"}) \cup {"found"}

TypeOK ==
    /\ sessions \in [Session -> User \cup {NoOne}]
    /\ users \in SUBSET User
    /\ social \in [Account -> User \cup {NoOne}]
    /\ locked \in [Account -> SignIn \cup {NoOne}]
    /\ conns \in SUBSET Request
    /\ pc \in [Request -> {"idle", "found", "answered", "failed"} \cup InTransaction]
    /\ presented \in [Refresh -> Session \cup {NoOne}]
    /\ subject \in [Request -> User \cup {NoOne}]
    /\ \A r \in Request : pc[r] \in Decided => subject[r] # NoOne

Init ==
    /\ sessions = [t \in Session |-> IF t \in Seed THEN t ELSE NoOne]
    /\ users = Seed
    /\ social = [a \in Account |-> NoOne]
    /\ locked = [a \in Account |-> NoOne]
    /\ conns = {}
    /\ pc = [r \in Request |-> "idle"]
    /\ presented = [r \in Refresh |-> NoOne]
    /\ subject = [r \in Request |-> NoOne]

(***************************************************************************)
(* The pool and the transactions.                                          *)
(***************************************************************************)
GoTo(r, state) == pc' = [pc EXCEPT ![r] = state]

\* A statement outside the request's transaction waits for a connection.
ConnectionFree == Cardinality(conns) < MaxOpenConns

Begin(r, state) ==
    /\ ConnectionFree
    /\ conns' = conns \cup {r}
    /\ GoTo(r, state)

\* The locks of a transaction end with it.
Unlocked(r) == [a \in Account |-> IF locked[a] = r THEN NoOne ELSE locked[a]]

\* Mutant: the transaction is not rolled back, and keeps its connection.
RollbackLeaks(r) ==
    /\ conns' = conns
    /\ locked' = Unlocked(r)
    /\ GoTo(r, "failed")

Rollback(r) ==
    /\ conns' = conns \ {r}
    /\ locked' = Unlocked(r)
    /\ GoTo(r, "failed")

\* Any statement, the signing of the pair or the commit may fail.
Fail(r) ==
    /\ pc[r] \in InTransaction \cup {"idle", "found"}
    /\ Rollback(r)
    /\ UNCHANGED <<tables, presented, subject>>

(***************************************************************************)
(* RefreshTokensPair.                                                      *)
(***************************************************************************)
\* Refresh tokens that a client may hold: those of seeds and of answers.
Handed == Seed \cup {r \in Request : pc[r] = "answered"}

\* Outside the transaction: the session may be gone when it is used.
FindByRefreshToken(r, t) ==
    /\ pc[r] = "idle"
    /\ ConnectionFree
    /\ t \in Handed
    /\ IF sessions[t] = NoOne
         THEN GoTo(r, "failed") /\ UNCHANGED <<presented, subject>>
         ELSE /\ GoTo(r, "found")
              /\ presented' = [presented EXCEPT ![r] = t]
              /\ subject' = [subject EXCEPT ![r] = sessions[t]]
    /\ UNCHANGED <<tables, locked, conns>>

BeginRefresh(r) ==
    /\ pc[r] = "found"
    /\ Begin(r, "deleting")
    /\ UNCHANGED <<tables, locked, presented, subject>>

\* The repository was made from as.db, not from tx: the deletion runs on a
\* second connection, is committed at once, and whether it deleted a row is
\* not looked at.
DeleteSession(r) ==
    /\ pc[r] = "deleting"
    /\ ConnectionFree
    /\ sessions' = [sessions EXCEPT ![presented[r]] = NoOne]
    /\ GoTo(r, "creating")
    /\ UNCHANGED <<users, social, locked, conns, presented, subject>>

(***************************************************************************)
(* SignInWithSocial.                                                       *)
(***************************************************************************)
BeginSignIn(r) ==
    /\ pc[r] = "idle"
    /\ Begin(r, "finding")
    /\ UNCHANGED <<tables, locked, presented, subject>>

\* Mutant: the user to create is not made before the account is linked.
FindByProviderAndIDNoUser(r) ==
    /\ pc[r] = "finding"
    /\ IF social[AccountOf[r]] # NoOne
         THEN /\ subject' = [subject EXCEPT ![r] = social[AccountOf[r]]]
              /\ GoTo(r, "updating")
         ELSE GoTo(r, "linking") /\ UNCHANGED subject
    /\ UNCHANGED <<tables, locked, conns, presented>>

FindByProviderAndID(r) ==
    /\ pc[r] = "finding"
    /\ IF social[AccountOf[r]] # NoOne
         THEN /\ subject' = [subject EXCEPT ![r] = social[AccountOf[r]]]
              /\ GoTo(r, "updating")
         ELSE /\ subject' = [subject EXCEPT ![r] = r]
              /\ GoTo(r, "creatingUser")
    /\ UNCHANGED <<tables, locked, conns, presented>>

UpdateSocialAuth(r) ==
    /\ pc[r] = "updating"
    /\ locked[AccountOf[r]] = NoOne
    /\ locked' = [locked EXCEPT ![AccountOf[r]] = r]
    /\ GoTo(r, "creating")
    /\ UNCHANGED <<tables, conns, presented, subject>>

\* Mutant: the user is created outside the transaction, as a refresh deletes.
CreateUserOutside(r) ==
    /\ pc[r] = "creatingUser"
    /\ ConnectionFree
    /\ users' = users \cup {r}
    /\ GoTo(r, "linking")
    /\ UNCHANGED <<sessions, social, locked, conns, presented, subject>>

\* In the transaction: nobody sees the user before the commit.
CreateUser(r) ==
    /\ pc[r] = "creatingUser"
    /\ GoTo(r, "linking")
    /\ UNCHANGED <<tables, locked, conns, presented, subject>>

\* Mutant: no unique index on (provider, provider_user_id).
CreateSocialAuthNotUnique(r) ==
    /\ pc[r] = "linking"
    /\ GoTo(r, "creating")
    /\ UNCHANGED <<tables, locked, conns, presented, subject>>

\* ux_provider_user: wait for the writer of the key, fail if it committed.
CreateSocialAuth(r) ==
    /\ pc[r] = "linking"
    /\ locked[AccountOf[r]] = NoOne
    /\ IF social[AccountOf[r]] = NoOne
         THEN /\ locked' = [locked EXCEPT ![AccountOf[r]] = r]
              /\ GoTo(r, "creating")
              /\ UNCHANGED conns
         ELSE Rollback(r)
    /\ UNCHANGED <<tables, presented, subject>>

(***************************************************************************)
(* The end of both.                                                        *)
(***************************************************************************)
\* generateAndSaveNewUserToken, in the transaction.
CreateSession(r) ==
    /\ pc[r] = "creating"
    /\ GoTo(r, "committing")
    /\ UNCHANGED <<tables, locked, conns, presented, subject>>

\* Mutant: the pair is answered and the new session is not stored.
CommitNothing(r) ==
    /\ pc[r] = "committing"
    /\ conns' = conns \ {r}
    /\ locked' = Unlocked(r)
    /\ GoTo(r, "answered")
    /\ UNCHANGED <<tables, presented, subject>>

\* The commit makes what the transaction wrote visible; the pair is answered.
Commit(r) ==
    /\ pc[r] = "committing"
    /\ sessions' = [sessions EXCEPT ![r] = subject[r]]
    /\ IF r \in SignIn
         THEN /\ users' = users \cup {subject[r]}
              /\ social' = [social EXCEPT ![AccountOf[r]] = subject[r]]
         ELSE UNCHANGED <<users, social>>
    /\ conns' = conns \ {r}
    /\ locked' = Unlocked(r)
    /\ GoTo(r, "answered")
    /\ UNCHANGED <<presented, subject>>

\* The process is restarted: open transactions are rolled back.
Restart ==
    /\ pc' = [r \in Request |->
                IF pc[r] \in {"idle", "answered"} THEN pc[r] ELSE "failed"]
    /\ conns' = {}
    /\ locked' = [a \in Account |-> NoOne]
    /\ UNCHANGED <<tables, presented, subject>>

----------------------------------------------------------------------------
RefreshStep(r) ==
    \/ \E t \in Session : FindByRefreshToken(r, t)
    \/ BeginRefresh(r) \/ DeleteSession(r)
SignInStep(r) ==
    \/ BeginSignIn(r) \/ FindByProviderAndID(r) \/ UpdateSocialAuth(r)
    \/ CreateUser(r) \/ CreateSocialAuth(r)
End(r) == CreateSession(r) \/ Commit(r)

Next ==
    \/ \E r \in Refresh : RefreshStep(r)
    \/ \E r \in SignIn : SignInStep(r)
    \/ \E r \in Request : End(r) \/ Fail(r)
    \/ Restart

Spec == Init /\ [][Next]_vars

\* A request that was received runs as long as its next statement can.
Fairness ==
    /\ \A r \in Refresh : WF_vars(pc[r] # "idle" /\ (RefreshStep(r) \/ End(r)))
    /\ \A r \in SignIn : WF_vars(pc[r] # "idle" /\ (SignInStep(r) \/ End(r)))

FairSpec == Spec /\ Fairness

----------------------------------------------------------------------------
(***************************************************************************)
(* Properties.                                                             *)
(***************************************************************************)
\* A user created by a sign-in is the user of that sign-in's account: two
\* first sign-ins with one account, a failure or a restart anywhere leave no
\* user behind whom nobody can sign in as.
NoOrphanUser == \A u \in users \cap SignIn : social[AccountOf[u]] = u

\* Everyone who signs in with one account is the same user.
OneUserPerAccount ==
    \A q, r \in SignIn :
        pc[q] = "answered" /\ pc[r] = "answered" /\ AccountOf[q] = AccountOf[r]
            => subject[q] = subject[r]

\* The session of an answered pair is stored until its refresh token is used.
AnsweredIsStored ==
    \A r \in Request : pc[r] = "answered" =>
        sessions[r] # NoOne \/ \E q \in Refresh : presented[q] = r

\* A stored session belongs to a stored user.
SessionHasUser == \A t \in Session : sessions[t] # NoOne => sessions[t] \in users

(***************************************************************************)
(* Why these hold: the inductive invariant.  From the insert or update of  *)
(* its row until its end a sign-in holds the lock of its account, and the  *)
(* account's committed row, once there, never names another user.          *)
(***************************************************************************)
SignInInv(r) ==
    LET linked == social[AccountOf[r]] IN
    /\ pc[r] \in {"updating", "answered"} => subject[r] = linked /\ linked # NoOne
    /\ pc[r] \in {"creatingUser", "linking"} => subject[r] = r
    /\ pc[r] \in {"creating", "committing"} =>
         /\ locked[AccountOf[r]] = r
         /\ linked = subject[r] \/ (linked = NoOne /\ subject[r] = r)

RefreshInv(r) ==
    /\ pc[r] = "idle" => presented[r] = NoOne
    /\ pc[r] \in {"found", "deleting"} => presented[r] # NoOne
    /\ pc[r] \in {"found", "deleting", "creating", "committing"} => subject[r] \in users

LinkedExists == \A a \in Account : social[a] # NoOne => social[a] \in users

\* Where a request is determines what it has locked and whom it is for, and
\* every row of the tables refers to a user that exists.
AuthInv ==
    /\ \A r \in SignIn : SignInInv(r)
    /\ \A r \in Refresh : RefreshInv(r)
    /\ LinkedExists
    /\ NoOrphanUser
    /\ SessionHasUser
    /\ AnsweredIsStored

\* The pool has nothing left but connections of refreshes, each waiting for a
\* second one.
Exhausted == ~ConnectionFree /\ \A r \in conns : pc[r] = "deleting"

\* Every request that was begun ends, whoever waits for whose row or connection,
\* unless refreshes have taken the whole pool.
RequestsEnd ==
    \A r \in Request : (pc[r] # "idle") ~> (pc[r] \in {"answered", "failed"} \/ Exhausted)
=============================================================================
