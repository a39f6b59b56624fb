-------------------------- MODULE SocialLoginProofs --------------------------
(***************************************************************************)
(* Theorems about SocialLogin, for every set of browsers, flows, calls,    *)
(* states, accounts and refreshes.                                         *)
(***************************************************************************)
EXTENDS SocialLogin, AuthSessionsProofs

(***************************************************************************)
(* The login pages around the sign-ins add nothing to what the requests    *)
(* do: what is proved about AuthSessions holds here.                       *)
(***************************************************************************)
LEMMA LoginStep == LoginNext => [Next]_vars
<1> USE DEF Call
<1>1. ASSUME NEW f \in Flow, NEW b \in Browser, InitiateYandexAuth(f, b) PROVE UNCHANGED vars
  BY <1>1 DEF InitiateYandexAuth
<1>2. ASSUME NEW c \in Call, NEW f \in Flow, NEW b \in Browser, YandexCallback(c, f, b)
      PROVE  UNCHANGED vars
  BY <1>2 DEF YandexCallback, Open
<1>3. ASSUME NEW c \in Call, ExchangeCode(c) \/ GetUserInfo(c) \/ SignInEnds(c)
      PROVE  UNCHANGED vars
  BY <1>3 DEF ExchangeCode, GetUserInfo, SignInEnds, Answer
<1>4. ASSUME NEW c \in Call, SignInWithSocial(c) \/ SignInFails(c) PROVE Next
  BY <1>4 DEF SignInWithSocial, SignInFails, Next, SignInStep, Request
<1>5. Requests => Next
  BY DEF Requests, SignInGoesOn, SignInStep, Next, Request
<1>6. LoginRestart => Next
  BY DEF LoginRestart, Next
<1> QED
  BY <1>1, <1>2, <1>3, <1>4, <1>5, <1>6 DEF LoginNext, Callback

\* The composition implements AuthSessions: whatever the browsers do, the tables
\* change as the requests of AuthSessions change them.
THEOREM LoginImplementsAuth == LoginSpec => Spec
<1>1. LoginInit => Init
  BY DEF LoginInit
<1>2. [LoginNext]_loginVars => [Next]_vars
  BY LoginStep DEF loginVars, vars
<1> QED
  BY <1>1, <1>2, PTL DEF LoginSpec, Spec

\* So whatever is shown in which browser, the tables stay consistent: no orphans, one
\* user for an account, every answered session stored.
THEOREM LoginKeepsTables == LoginSpec => [](NoOrphanUser /\ OneUserPerAccount /\ AnsweredIsStored)
  BY LoginImplementsAuth, NoOrphans, OneUser, AnswersStored, PTL

\* And with more connections than refreshes no deadlock can form behind the
\* callbacks either, over pool or rows.
THEOREM LoginNeverStuck ==
    ASSUME IsFiniteSet(Refresh), Cardinality(Refresh) < MaxOpenConns
    PROVE  LoginSpec => []NeverStuck
  BY LoginImplementsAuth, NoPoolDeadlock, PTL

\* Calls, pages and cookies keep their types, and a running call has a browser to
\* answer and a flow that it is for.
THEOREM LoginTypeCorrect == LoginSpec => []LoginTypeOK
<1> USE FlowAssumption DEF Call, Calling
<1>1. LoginInit => LoginTypeOK
  <2>1. Init => TypeOK
    BY RequestAssumption DEF Init, TypeOK, Session, User, Request, InTransaction, Decided
  <2> QED
    BY <2>1 DEF LoginInit, LoginTypeOK
<1>2. LoginTypeOK /\ TypeOK' /\ [LoginNext]_loginVars => LoginTypeOK'
  <2> SUFFICES ASSUME LoginTypeOK, TypeOK', [LoginNext]_loginVars PROVE LoginTypeOK'
    OBVIOUS
  <2> USE DEF LoginTypeOK, At
  <2>1. ASSUME NEW f \in Flow, NEW b \in Browser, InitiateYandexAuth(f, b) PROVE LoginTypeOK'
    BY <2>1 DEF InitiateYandexAuth
  <2>2. ASSUME NEW c \in Call, NEW f \in Flow, NEW b \in Browser, YandexCallback(c, f, b)
        PROVE  LoginTypeOK'
    BY <2>2 DEF YandexCallback, Open
  <2>3. ASSUME NEW c \in Call, ExchangeCode(c) \/ GetUserInfo(c) PROVE LoginTypeOK'
    BY <2>3 DEF ExchangeCode, GetUserInfo
  <2>4. ASSUME NEW c \in Call, SignInWithSocial(c) \/ SignInFails(c) \/ SignInEnds(c)
        PROVE  LoginTypeOK'
    BY <2>4 DEF SignInWithSocial, SignInFails, SignInEnds, Answer
  <2>5. CASE UNCHANGED browserVars
    BY <2>5 DEF browserVars
  <2>6. CASE LoginRestart
    BY <2>6 DEF LoginRestart
  <2>7. CASE UNCHANGED loginVars
    BY <2>7 DEF loginVars
  <2> QED
    BY <2>1, <2>2, <2>3, <2>4, <2>5, <2>6, <2>7 DEF LoginNext, Callback
<1> QED
  BY <1>1, <1>2, LoginImplementsAuth, TypeCorrect, PTL DEF LoginSpec

(***************************************************************************)
(* The sign-in of a flow.  Of the calls of a flow that run beside each     *)
(* other one at most is given a token for the code, and no other gets      *)
(* beyond the exchange while it runs or after it ended.                    *)
(***************************************************************************)
\* The call was given a token for its flow's code.
Entered(c) == call[c] \in {"exchanged", "known", "signingIn", "done"} \/ pc[c] # "idle"

CallInv(c) ==
    /\ call[c] \in {"none", "checked", "exchanged", "known"} => pc[c] = "idle"
    /\ call[c] = "signingIn" => pc[c] # "idle"
    /\ call[c] = "done" => pc[c] = "answered"
    /\ Entered(c) => calledFor[c] \in spent

OneEnters ==
    \A c, d \in Call : Entered(c) /\ Entered(d) /\ calledFor[c] = calledFor[d] => c = d

LoginInv ==
    /\ \A c \in Call : CallInv(c)
    /\ OneEnters
    /\ \A c \in Call : call[c] # "none" => AccountOf[c] = Allowed[calledFor[c]]

\* A request's step moves that request on from where it is not answered yet.
LEMMA RequestMoves ==
    ASSUME TypeOK, Requests
    PROVE  \E r \in Request :
             /\ r \in Refresh \/ call[r] = "signingIn"
             /\ pc[r] # "answered"
             /\ \E place : place # "idle" /\ pc' = [pc EXCEPT ![r] = place]
<1> USE DEF InTransaction, GoTo, Request, Call
<1>1. ASSUME NEW r \in Refresh, RefreshStep(r)
      PROVE  pc[r] # "answered" /\ \E place : place # "idle" /\ pc' = [pc EXCEPT ![r] = place]
  BY <1>1 DEF RefreshStep, FindByRefreshToken, BeginRefresh, Begin, DeleteSession
<1>2. ASSUME NEW r \in Request, End(r) \/ Fail(r)
      PROVE  pc[r] # "answered" /\ \E place : place # "idle" /\ pc' = [pc EXCEPT ![r] = place]
  BY <1>2 DEF End, CreateSession, Commit, Fail, Rollback
<1>3. ASSUME NEW r \in SignIn, SignInGoesOn(r)
      PROVE  pc[r] # "answered" /\ \E place : place # "idle" /\ pc' = [pc EXCEPT ![r] = place]
  BY <1>2, <1>3 DEF SignInGoesOn, FindByProviderAndID, UpdateSocialAuth, CreateUser,
                    CreateSocialAuth, Rollback
<1> QED
  BY <1>1, <1>2, <1>3 DEF Requests

\* Every step keeps the invariant of the calls: only the exchange lets a call in,
\* and it finds the code unspent.
LEMMA LoginKeeps ==
    ASSUME LoginTypeOK, LoginInv, [LoginNext]_loginVars
    PROVE  LoginInv'
<1> USE RequestAssumption
    DEF LoginTypeOK, TypeOK, LoginInv, CallInv, OneEnters, Entered, At, Calling, Call, Request
<1>1. ASSUME NEW f \in Flow, NEW b \in Browser, InitiateYandexAuth(f, b) PROVE LoginInv'
  BY <1>1 DEF InitiateYandexAuth, vars
<1>2. ASSUME NEW c \in Call, NEW f \in Flow, NEW b \in Browser, YandexCallback(c, f, b)
      PROVE  LoginInv'
  <2>1. ~Entered(c) /\ ~Entered(c)'
    BY <1>2 DEF YandexCallback, Open, vars
  <2>2. \A d \in Call \ {c} : call'[d] = call[d] /\ calledFor'[d] = calledFor[d]
    BY <1>2 DEF YandexCallback, Open
  <2>3. UNCHANGED <<pc, spent>> /\ calledFor'[c] = f /\ AccountOf[c] = Allowed[f]
        /\ call'[c] = "checked" /\ pc[c] = "idle"
    BY <1>2 DEF YandexCallback, Open, vars
  <2> QED
    BY <2>1, <2>2, <2>3
<1>3. ASSUME NEW c \in Call, ExchangeCode(c) PROVE LoginInv'
  <2>1. UNCHANGED <<pc, calledFor>> /\ call[c] = "checked" /\ pc[c] = "idle"
    BY <1>3 DEF ExchangeCode, vars
  <2>2. CASE calledFor[c] \notin spent /\ At(c, "exchanged") /\ spent' = spent \cup {calledFor[c]}
    BY <2>1, <2>2
  <2>3. CASE At(c, "error") /\ spent' \in {spent, spent \cup {calledFor[c]}}
    BY <2>1, <2>3
  <2> QED
    BY <1>3, <2>2, <2>3 DEF ExchangeCode
<1>4. ASSUME NEW c \in Call, GetUserInfo(c) PROVE LoginInv'
  BY <1>4 DEF GetUserInfo, vars
<1>5. ASSUME NEW c \in Call, SignInWithSocial(c) \/ SignInFails(c) PROVE LoginInv'
  <2>1. \E place : /\ place \in {"finding", "failed"}
                   /\ pc' = [pc EXCEPT ![c] = place]
                   /\ call' = [call EXCEPT ![c] = IF place = "finding" THEN "signingIn" ELSE "error"]
    BY <1>5 DEF SignInWithSocial, SignInFails, BeginSignIn, Begin, Fail, Rollback, GoTo
  <2>2. call[c] = "known" /\ UNCHANGED <<spent, calledFor>>
    BY <1>5 DEF SignInWithSocial, SignInFails
  <2> QED
    BY <2>1, <2>2
<1>6. ASSUME NEW c \in Call, SignInEnds(c) PROVE LoginInv'
  BY <1>6 DEF SignInEnds, Answer, vars
<1>7. CASE Requests /\ UNCHANGED browserVars
  <2>1. PICK r \in Request :
          /\ r \in Refresh \/ call[r] = "signingIn"
          /\ pc[r] # "answered"
          /\ \E place : place # "idle" /\ pc' = [pc EXCEPT ![r] = place]
    BY <1>7, RequestMoves
  <2>2. \A c \in Call : Entered(c)' => Entered(c)
    BY <1>7, <2>1 DEF browserVars
  <2>3. ASSUME NEW c \in Call PROVE CallInv(c)'
    BY <1>7, <2>1, <2>2 DEF browserVars
  <2> QED
    BY <1>7, <2>2, <2>3 DEF browserVars
<1>8. CASE LoginRestart
  BY <1>8 DEF LoginRestart, Restart
<1>9. CASE UNCHANGED loginVars
  BY <1>9 DEF loginVars
<1> QED
  BY <1>1, <1>2, <1>3, <1>4, <1>5, <1>6, <1>7, <1>8, <1>9 DEF LoginNext, Callback

THEOREM LoginInvariant == LoginSpec => []LoginInv
<1>1. LoginInit => LoginInv
  BY DEF LoginInit, Init, LoginInv, CallInv, OneEnters, Entered, Call, Request
<1> QED
  BY <1>1, LoginKeeps, LoginTypeCorrect, PTL DEF LoginSpec

\* A consent is worth one sign-in, however often the callback is opened, before,
\* while or after another call of it runs.
THEOREM CodeOnce == LoginSpec => []CodeSignsInOnce
<1>1. LoginTypeOK /\ LoginInv => CodeSignsInOnce
  BY DEF LoginTypeOK, LoginInv, CallInv, OneEnters, Entered, CodeSignsInOnce, Calling
<1> QED
  BY <1>1, LoginTypeCorrect, LoginInvariant, PTL

\* A page of tokens is of a committed sign-in of the account that was allowed,
\* and of one call of its flow.
THEOREM PagesSignedIn == LoginSpec => []ShownSignedIn
<1>1. LoginTypeOK /\ LoginInv /\ AuthInv => ShownSignedIn
  BY DEF LoginTypeOK, LoginInv, CallInv, OneEnters, Entered, AuthInv, SignInInv,
         ShownSignedIn, Shown, Call
<1> QED
  BY <1>1, LoginTypeCorrect, LoginInvariant, LoginImplementsAuth, AuthInvariant, PTL

(***************************************************************************)
(* The cookie.  A browser holds the state of a flow that was begun in it,  *)
(* so only a flow of its own passes the comparison.                        *)
(***************************************************************************)
CookieInv ==
    /\ \A b \in Browser : cookie[b] # NoOne =>
         \E f \in Flow : begunIn[f] = b /\ StateOf[f] = cookie[b]
    /\ \A c \in Call : call[c] # "none" => calledIn[c] = begunIn[calledFor[c]]

\* When states are not shared, the tokens of a flow are shown in the browser
\* that began it and nowhere else.
THEOREM PagesWhereAsked == LoginSpec => []ShownWhereAsked
<1>1. CASE OwnStates
  <2>1. LoginInit => CookieInv
    BY DEF LoginInit, CookieInv
  <2>2. LoginTypeOK /\ CookieInv /\ [LoginNext]_loginVars => CookieInv'
    <3> SUFFICES ASSUME LoginTypeOK, CookieInv, [LoginNext]_loginVars PROVE CookieInv'
      OBVIOUS
    <3> USE FlowAssumption DEF LoginTypeOK, CookieInv, At, Calling, Call
    <3>1. ASSUME NEW f \in Flow, NEW b \in Browser, InitiateYandexAuth(f, b) PROVE CookieInv'
      <4>1. \A c \in Call : call[c] # "none" => begunIn[calledFor[c]] # NoOne
        BY FlowAssumption
      <4>2. \A c \in Call : call[c] # "none" => calledFor[c] # f
        BY <3>1, <4>1 DEF InitiateYandexAuth
      <4>3. \A g \in Flow : g # f => begunIn'[g] = begunIn[g]
        BY <3>1 DEF InitiateYandexAuth
      <4>4. \A c \in Call : call'[c] # "none" => calledIn'[c] = begunIn'[calledFor'[c]]
        BY <3>1, <4>2, <4>3 DEF InitiateYandexAuth
      <4>5. ASSUME NEW d \in Browser, cookie'[d] # NoOne
            PROVE  \E g \in Flow : begunIn'[g] = d /\ StateOf[g] = cookie'[d]
        <5>1. CASE d = b
          BY <3>1, <5>1 DEF InitiateYandexAuth
        <5>2. CASE d # b
          BY <3>1, <4>5, <4>3, <5>2 DEF InitiateYandexAuth
        <5> QED
          BY <5>1, <5>2
      <4> QED
        BY <4>4, <4>5
    <3>2. ASSUME NEW c \in Call, NEW f \in Flow, NEW b \in Browser, YandexCallback(c, f, b)
          PROVE  CookieInv'
      <4>1. begunIn[f] = b
        BY <1>1, <3>2 DEF YandexCallback, OwnStates
      <4> QED
        BY <3>2, <4>1 DEF YandexCallback, Open
    <3>3. ASSUME NEW c \in Call, ExchangeCode(c) \/ GetUserInfo(c) PROVE CookieInv'
      BY <3>3 DEF ExchangeCode, GetUserInfo
    <3>4. ASSUME NEW c \in Call, SignInWithSocial(c) \/ SignInFails(c) \/ SignInEnds(c)
          PROVE  CookieInv'
      BY <3>4 DEF SignInWithSocial, SignInFails, SignInEnds, Answer
    <3>5. CASE UNCHANGED browserVars
      BY <3>5 DEF browserVars
    <3>6. CASE LoginRestart
      BY <3>6 DEF LoginRestart
    <3>7. CASE UNCHANGED loginVars
      BY <3>7 DEF loginVars
    <3> QED
      BY <3>1, <3>2, <3>3, <3>4, <3>5, <3>6, <3>7 DEF LoginNext, Callback
  <2>3. CookieInv => ShownWhereAsked
    BY DEF CookieInv, ShownWhereAsked, Shown
  <2> QED
    BY <2>1, <2>2, <2>3, LoginTypeCorrect, PTL DEF LoginSpec
<1>2. CASE ~OwnStates
  <2>1. ShownWhereAsked
    BY <1>2 DEF ShownWhereAsked
  <2> QED
    BY <2>1, PTL
<1> QED
  BY <1>1, <1>2

\* What LoginAnswered rests on, beside OneDeadlock: a call whose user is known goes
\* on to its sign-in and from there to a page, of tokens or of an error, and until
\* then its sign-in only comes nearer to its end.
Advanced(c) ==
    /\ call[c] = "known" => call'[c] \in {"known", "signingIn", "error"}
    /\ call[c] = "signingIn" =>
         \/ pc[c] \in {"answered", "failed"} /\ call'[c] \in {"done", "error"}
         \/ pc'[c] = "failed" /\ call'[c] = "error"
         \/ call'[c] = "signingIn" /\ (pc'[c] = pc[c] \/ Left(c)' < Left(c))

LoginAdvances == [][\A c \in Call : Advanced(c)]_loginVars

\* Reloads, other flows, failures and restarts included, no call is taken back.
THEOREM CallbackAdvances == LoginSpec => LoginAdvances
<1> DEFINE Advance(c) == pc[c] # "idle" /\ pc'[c] # pc[c] => Left(c)' < Left(c)
<1>1. ASSUME LoginTypeOK, LoginInv, LoginNext, NEW c \in Call, Advance(c)
      PROVE  Advanced(c)
  <2> USE <1>1 DEF At, LoginTypeOK, Call
  <2>1. call'[c] = "signingIn" /\ call[c] = "signingIn" => pc'[c] = pc[c] \/ Left(c)' < Left(c)
    BY DEF LoginInv, CallInv
  <2> HIDE DEF Advance
  <2>2. CASE \E f \in Flow, b \in Browser : InitiateYandexAuth(f, b)
    BY <2>1, <2>2 DEF InitiateYandexAuth, Advanced
  <2>3. CASE \E d \in Call, f \in Flow, b \in Browser : YandexCallback(d, f, b)
    BY <2>1, <2>3 DEF YandexCallback, Open, Advanced
  <2>4. CASE \E d \in Call : Callback(d)
    <3>1. call[c] = "known" => call'[c] \in {"known", "signingIn", "error"}
      BY <2>4 DEF Callback, ExchangeCode, GetUserInfo, SignInWithSocial, SignInFails, SignInEnds, Answer
    <3>2. call[c] = "signingIn" /\ call'[c] # "signingIn"
            => pc[c] \in {"answered", "failed"} /\ call'[c] \in {"done", "error"}
      BY <2>4 DEF Callback, ExchangeCode, GetUserInfo, SignInWithSocial, SignInFails, SignInEnds, Answer
    <3> QED
      BY <2>1, <3>1, <3>2 DEF Advanced
  <2>5. CASE Requests /\ UNCHANGED browserVars
    BY <2>1, <2>5 DEF browserVars, Advanced
  <2>6. CASE LoginRestart
    <3>1. call[c] \in Calling => call'[c] = "error" /\ pc'[c] \in {pc[c], "failed"}
      BY <2>6 DEF LoginRestart, Restart, Request
    <3>2. pc'[c] = pc[c] => pc[c] \in {"idle", "answered", "failed"}
      BY <2>6 DEF LoginRestart, Restart, Request
    <3>3. call[c] = "signingIn" => pc[c] # "idle"
      BY DEF LoginInv, CallInv
    <3> QED
      BY <3>1, <3>2, <3>3 DEF Advanced, Calling
  <2> QED
    BY <2>2, <2>3, <2>4, <2>5, <2>6 DEF LoginNext
<1>2. LoginTypeOK /\ LoginInv /\ [LoginNext]_loginVars
        /\ [\A r \in Request : pc[r] # "idle" /\ pc'[r] # pc[r] => Left(r)' < Left(r)]_vars
        => [\A c \in Call : Advanced(c)]_loginVars
  <2> SUFFICES ASSUME LoginTypeOK, LoginInv, LoginNext,
                      [\A r \in Request : Advance(r)]_vars, NEW c \in Call
               PROVE  Advanced(c)
    OBVIOUS
  <2>1. Advance(c)
    BY DEF vars, Call, Request
  <2> QED
    BY <1>1, <2>1
<1> QED
  BY <1>2, LoginImplementsAuth, LoginTypeCorrect, LoginInvariant, RequestsFinish, PTL
  DEF LoginSpec, LoginAdvances, RequestsAdvance
=============================================================================
