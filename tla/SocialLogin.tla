---------------------------- MODULE SocialLogin ----------------------------
(***************************************************************************)
(* Signing in with Yandex, from the login page to the page with the pair   *)
(* of tokens: PublicController's two actions, YandexOAuthService, and the  *)
(* SignInWithSocial of AuthSessions that the second one ends in.           *)
(*                                                                         *)
(* A flow is one visit of the login page.  It is tied to its callback only *)
(* by the oauth_state cookie, of which a browser has one: a second visit   *)
(* overwrites it and nothing deletes it.  (It expires after a quarter of   *)
(* an hour.  An expired cookie only refuses callbacks, and a refused       *)
(* callback changes nothing, so its expiry is no step here.)  When the     *)
(* user allows it Yandex (external) sends the browser back with a code for *)
(* the account that the user chose; a code can be exchanged once.  A       *)
(* callback without a code is refused.                                     *)
(*                                                                         *)
(* The address of a callback may be opened many times, in any browser, and *)
(* again while an earlier execution of YandexCallbackAction waits for      *)
(* Yandex or for the database.  Each execution is a call, and has the name *)
(* of the SignInWithSocial that it makes.                                  *)
(***************************************************************************)
EXTENDS AuthSessions

CONSTANTS
    Flow,       \* visits of the login page
    Allowed,    \* the account that the user chooses in a flow
    Browser,    \* browsers
    State,      \* values of the state parameter
    StateOf     \* the state of a flow: the application's, or a fresh one

Call == SignIn

ASSUME FlowAssumption ==
    /\ Allowed \in [Flow -> Account]
    /\ StateOf \in [Flow -> State]
    /\ NoOne \notin State \cup Browser \cup Flow

VARIABLES
    cookie,     \* the oauth_state cookie of a browser
    begunIn,    \* the browser in which a flow was begun
    call,       \* where a call is
    calledFor,  \* the flow whose callback a call executes
    calledIn,   \* the browser that a call answers
    spent       \* flows whose code was exchanged

browserVars == <<cookie, begunIn, call, calledFor, calledIn, spent>>
loginVars == <<sessions, users, social, locked, conns, pc, presented, subject,
               cookie, begunIn, call, calledFor, calledIn, spent>>

\* The call is running.
Calling == {"checked", "exchanged", "known", "signingIn"}

LoginTypeOK ==
    /\ TypeOK
    /\ cookie \in [Browser -> State \cup {NoOne}]
    /\ begunIn \in [Flow -> Browser \cup {NoOne}]
    /\ call \in [Call -> {"none", "done", "error"} \cup Calling]
    /\ calledFor \in [Call -> Flow \cup {NoOne}]
    /\ calledIn \in [Call -> Browser \cup {NoOne}]
    /\ spent \in SUBSET Flow
    /\ \A c \in Call : call[c] # "none" => calledFor[c] # NoOne /\ calledIn[c] # NoOne

LoginInit ==
    /\ Init
    /\ cookie = [b \in Browser |-> NoOne]
    /\ begunIn = [f \in Flow |-> NoOne]
    /\ call = [c \in Call |-> "none"]
    /\ calledFor = [c \in Call |-> NoOne]
    /\ calledIn = [c \in Call |-> NoOne]
    /\ spent = {}

At(c, place) == call' = [call EXCEPT ![c] = place]

(***************************************************************************)
(* The login page.                                                         *)
(***************************************************************************)
\* InitiateYandexAuthAction: the cookie, and the redirect with the same state.
InitiateYandexAuth(f, b) ==
    /\ begunIn[f] = NoOne
    /\ cookie' = [cookie EXCEPT ![b] = StateOf[f]]
    /\ begunIn' = [begunIn EXCEPT ![f] = b]
    /\ UNCHANGED <<vars, call, calledFor, calledIn, spent>>

(***************************************************************************)
(* YandexCallbackAction.                                                   *)
(***************************************************************************)
\* The callback of a flow is opened with its code, in whatever browser and whatever
\* the other calls of the flow do.
Open(c, f, b) ==
    /\ call[c] = "none"
    /\ AccountOf[c] = Allowed[f]
    /\ begunIn[f] # NoOne
    /\ At(c, "checked")
    /\ calledFor' = [calledFor EXCEPT ![c] = f]
    /\ calledIn' = [calledIn EXCEPT ![c] = b]
    /\ UNCHANGED <<vars, cookie, begunIn, spent>>

\* Mutant: the state is not compared with the cookie.
YandexCallbackUnchecked(c, f, b) == Open(c, f, b)

\* A state that is not the cookie's is refused, and nothing changes.
YandexCallback(c, f, b) == cookie[b] = StateOf[f] /\ Open(c, f, b)

\* Mutant: the token that a code was exchanged for is kept, and used again.
ExchangeCodeCached(c) ==
    /\ call[c] = "checked"
    /\ \/ At(c, "exchanged") /\ spent' = spent \cup {calledFor[c]}
       \/ At(c, "error") /\ spent' \in {spent, spent \cup {calledFor[c]}}
    /\ UNCHANGED <<vars, cookie, begunIn, calledFor, calledIn>>

\* exchangeCodeForToken: refused for a code that was used, or failing on the
\* way, before Yandex took the code or after.
ExchangeCode(c) ==
    /\ call[c] = "checked"
    /\ \/ calledFor[c] \notin spent /\ At(c, "exchanged") /\ spent' = spent \cup {calledFor[c]}
       \/ At(c, "error") /\ spent' \in {spent, spent \cup {calledFor[c]}}
    /\ UNCHANGED <<vars, cookie, begunIn, calledFor, calledIn>>

GetUserInfo(c) ==
    /\ call[c] = "exchanged"
    /\ At(c, "known") \/ At(c, "error")
    /\ UNCHANGED <<vars, cookie, begunIn, calledFor, calledIn, spent>>

\* SignInWithSocial with what Yandex told: it begins its transaction.
SignInWithSocial(c) ==
    /\ call[c] = "known"
    /\ BeginSignIn(c)
    /\ At(c, "signingIn")
    /\ UNCHANGED <<cookie, begunIn, calledFor, calledIn, spent>>

\* It cannot.
SignInFails(c) ==
    /\ call[c] = "known"
    /\ Fail(c)
    /\ At(c, "error")
    /\ UNCHANGED <<cookie, begunIn, calledFor, calledIn, spent>>

\* The answer to the browser, of the sign-in that ended as given.
Answer(c, outcome, page) ==
    /\ call[c] = "signingIn"
    /\ pc[c] = outcome
    /\ At(c, page)
    /\ UNCHANGED <<vars, cookie, begunIn, calledFor, calledIn, spent>>

\* Mutant: the page is rendered whether the sign-in failed or not.
SignInEndsUnchecked(c) == Answer(c, "answered", "done") \/ Answer(c, "failed", "done")

\* Mutant: the failure of the sign-in is not answered.
SignInEndsSilently(c) == Answer(c, "answered", "done")

\* The page with the tokens, or an error.
SignInEnds(c) == Answer(c, "answered", "done") \/ Answer(c, "failed", "error")

\* With the process go the calls that were running in it.
LoginRestart ==
    /\ Restart
    /\ call' = [c \in Call |-> IF call[c] \in Calling THEN "error" ELSE call[c]]
    /\ UNCHANGED <<cookie, begunIn, calledFor, calledIn, spent>>

----------------------------------------------------------------------------
\* The statements of a sign-in once begun.
SignInGoesOn(c) ==
    FindByProviderAndID(c) \/ UpdateSocialAuth(c) \/ CreateUser(c)
    \/ CreateSocialAuth(c) \/ End(c)

Requests ==
    \/ \E r \in Refresh : RefreshStep(r) \/ End(r) \/ Fail(r)
    \/ \E c \in Call : call[c] = "signingIn" /\ (SignInGoesOn(c) \/ Fail(c))

Callback(c) ==
    ExchangeCode(c) \/ GetUserInfo(c) \/ SignInWithSocial(c) \/ SignInFails(c) \/ SignInEnds(c)

LoginNext ==
    \/ \E f \in Flow, b \in Browser : InitiateYandexAuth(f, b)
    \/ \E c \in Call, f \in Flow, b \in Browser : YandexCallback(c, f, b)
    \/ \E c \in Call : Callback(c)
    \/ Requests /\ UNCHANGED browserVars
    \/ LoginRestart

LoginSpec == LoginInit /\ [][LoginNext]_loginVars

\* A statement that can run is answered, and the call goes on with it; no statement
\* has to fail, and one that waits for a row or a connection waits as long as it
\* takes.  Nothing is asked of Yandex, whose answers the service awaits without a
\* timeout, or of the browsers.
LoginFairness ==
    /\ \A r \in Refresh :
         WF_loginVars(pc[r] # "idle" /\ (RefreshStep(r) \/ End(r)) /\ UNCHANGED browserVars)
    /\ \A c \in Call :
         /\ WF_loginVars(call[c] = "signingIn" /\ (SignInGoesOn(c) /\ UNCHANGED browserVars))
         /\ WF_loginVars(SignInWithSocial(c))
         /\ WF_loginVars(SignInEnds(c))

FairLoginSpec == LoginSpec /\ LoginFairness
----------------------------------------------------------------------------
(***************************************************************************)
(* Properties.                                                             *)
(***************************************************************************)
\* The states of flows are their own, as fresh ones are.
OwnStates == \A f, g \in Flow : StateOf[f] = StateOf[g] => f = g

\* The calls that end in the page of tokens.
Shown == {c \in Call : call[c] = "done"}

\* The tokens of a flow are shown in the browser that began it, however many
\* flows overwrite each other's cookie and wherever the callback is opened.
ShownWhereAsked ==
    OwnStates => \A c \in Shown : calledIn[c] = begunIn[calledFor[c]]

\* A page of tokens is of a sign-in that was committed, for the very account that
\* the user allowed, and no two calls of a flow show one.
ShownSignedIn ==
    \A c \in Shown :
        /\ pc[c] = "answered"
        /\ subject[c] = social[AccountOf[c]]
        /\ \A d \in Shown : calledFor[d] = calledFor[c] => d = c

\* A consent is worth one sign-in, whatever calls of its callback run beside each
\* other or after a failure: at most one of them begins a transaction, and none
\* after Yandex has refused it the code.
CodeSignsInOnce ==
    \A c \in Call : pc[c] # "idle" =>
        /\ calledFor[c] \in spent
        /\ \A d \in Call : calledFor[d] = calledFor[c] /\ d # c => call[d] \in {"none", "checked", "error"}

\* A call whose user is known ends in a page, of tokens or of an error, unless
\* refreshes have taken the whole pool.
LoginAnswered ==
    \A c \in Call : (call[c] = "known") ~> (call[c] \in {"done", "error"} \/ Exhausted)
=============================================================================
