------------------------- MODULE TranscribeGateway -------------------------
(***************************************************************************)
(* The WebSocket gateway of the voice keyboard (TranscribeWSHandler)       *)
(* together with the two session maps it drives: the processor's           *)
(* (RealtimeWebSocketService.sessions) and the transcriber's               *)
(* (RealtimeTranscriberService.sessions, with its idle-session cleaner).   *)
(*                                                                         *)
(* Every connection is one execution of HandleWebSocket: the goroutine     *)
(* that admits the connection and then runs the read loop (the "reader"),  *)
(* the subscription goroutine, the goroutine that waits for it, and up to  *)
(* three executions of closeSession: one started by the subscription       *)
(* check, one by the stop handler, and the deferred one of handleSession.  *)
(* sessionMutex is held for long only by closeSession, across the graceful *)
(* close of the socket; every other critical section is one step.          *)
(***************************************************************************)
EXTENDS Integers, FiniteSets

CONSTANTS
    Conn,                   \* WebSocket connections, each served once
    SessionID,              \* session ids the clients may choose
    User,                   \* authenticated users
    SidOf,                  \* the sessionId query parameter of a connection
    UserOf,                 \* the userID that the token check put in the context
    NoConn,                 \* an absent map entry
    NoTask,                 \* sessionMutex is not held across a step
    MaxConnectionsPerUser,  \* config: websocket.max_connections_per_user
    SubscriptionResults,    \* what getUserSubscription may answer
    Quiet,                  \* ids whose audio may pause for a minute
    MayStop                 \* the program may be told to shut down

ASSUME IdentityAssumption ==
    /\ SidOf \in [Conn -> SessionID]
    /\ UserOf \in [Conn -> User]
    /\ NoConn \notin Conn
ASSUME LimitAssumption == MaxConnectionsPerUser \in Int
ASSUME SubscriptionAssumption ==
    SubscriptionResults \subseteq {"valid", "invalid", "error"}
ASSUME QuietAssumption == Quiet \subseteq SessionID
ASSUME StopAssumption == MayStop \in BOOLEAN

\* The three ways closeSession is called for a connection.
Kind == {"check", "stop", "return"}
Task == Conn \X Kind

ASSUME TaskAssumption == NoTask \notin Task

VARIABLES
    sessions,           \* h.sessions: id -> connection of the WSSession
    userSessions,       \* h.userSessions: the empty set is an absent key
    holder,             \* the closeSession that holds sessionMutex
    reader,             \* where the HandleWebSocket goroutine is
    socket,             \* the client's socket
    started,            \* session.Started
    check,              \* the goroutine of startCheckSubscription
    once,               \* session.subscriptionOnce
    subscriptionValid,  \* session.subscriptionValid
    waiter,             \* the goroutine of waitForSubscriptionStatus
    closer,             \* the executions of closeSession
    answer,             \* what the client was told about its stop message
    processor,          \* processor.sessions: id -> connection that started it
    upstream,           \* transcriber.sessions: id -> connection it serves
    live,               \* connections whose OpenAI socket is open
    cleaning,           \* ids the cleaner collected and has not closed yet
    stopped             \* the shutdown closed the transcriber

gatewayVars == <<sessions, userSessions, holder, closer>>
checkVars == <<check, once, subscriptionValid, waiter>>
serviceVars == <<processor, upstream, live, cleaning, stopped>>
vars == <<sessions, userSessions, holder, reader, socket, started, check, once,
          subscriptionValid, waiter, closer, answer, processor, upstream, live,
          cleaning, stopped>>

Admitting == {"limit", "unique", "init"}
Serving == {"reading", "dialing", "waiting", "stopping",
            "completing", "committing", "fixing", "closing"}
ReaderState == {"idle", "ended"} \cup Admitting \cup Serving

TypeOK ==
    /\ sessions \in [SessionID -> Conn \cup {NoConn}]
    /\ userSessions \in [User -> SUBSET SessionID]
    /\ holder \in Task \cup {NoTask}
    /\ reader \in [Conn -> ReaderState]
    /\ socket \in [Conn -> {"none", "open", "closed"}]
    /\ started \in [Conn -> BOOLEAN]
    /\ check \in [Conn -> {"none", "spawned", "running", "valid", "rejected", "skipped"}]
    /\ once \in [Conn -> {"new", "running", "done"}]
    /\ subscriptionValid \in [Conn -> BOOLEAN]
    /\ waiter \in [Conn -> {"none", "spawned", "done"}]
    /\ closer \in [Task -> {"none", "waiting", "graceful", "done"}]
    /\ answer \in [Conn -> {"none", "completed", "notStarted", "subscription",
                            "timeout", "failed"}]
    /\ processor \in [SessionID -> Conn \cup {NoConn}]
    /\ upstream \in [SessionID -> Conn \cup {NoConn}]
    /\ live \in SUBSET Conn
    /\ cleaning \in SUBSET SessionID
    /\ stopped \in BOOLEAN

Init ==
    /\ sessions = [s \in SessionID |-> NoConn]
    /\ userSessions = [u \in User |-> {}]
    /\ holder = NoTask
    /\ reader = [c \in Conn |-> "idle"]
    /\ socket = [c \in Conn |-> "none"]
    /\ started = [c \in Conn |-> FALSE]
    /\ check = [c \in Conn |-> "none"]
    /\ once = [c \in Conn |-> "new"]
    /\ subscriptionValid = [c \in Conn |-> FALSE]
    /\ waiter = [c \in Conn |-> "none"]
    /\ closer = [t \in Task |-> "none"]
    /\ answer = [c \in Conn |-> "none"]
    /\ processor = [s \in SessionID |-> NoConn]
    /\ upstream = [s \in SessionID |-> NoConn]
    /\ live = {}
    /\ cleaning = {}
    /\ stopped = FALSE

(***************************************************************************)
(* Helpers.                                                                *)
(***************************************************************************)
GoTo(c, state) == reader' = [reader EXCEPT ![c] = state]

\* `go h.closeSession(session)': the goroutine is runnable, nothing more.
Spawned(closers, c, kind) == [closers EXCEPT ![<<c, kind>>] = "waiting"]

\* handleSession returns: its deferred closeSession runs in the reader.
Return(c) ==
    /\ GoTo(c, "closing")
    /\ closer' = Spawned(closer, c, "return")

\* Mutant: the read loop's deferred closeSession is forgotten.
ReturnFromStopNoDefer(c, told) ==
    /\ GoTo(c, "closing")
    /\ closer' = Spawned(closer, c, "stop")
    /\ answer' = [answer EXCEPT ![c] = told]

\* handleStopMessage ends: it spawns a closeSession, and handleSession returns.
ReturnFromStop(c, told) ==
    /\ GoTo(c, "closing")
    /\ closer' = Spawned(Spawned(closer, c, "stop"), c, "return")
    /\ answer' = [answer EXCEPT ![c] = told]

\* Mutants: the session is removed but not closed; the lookup that finds nothing
\* is not checked.
CloseUpstreamNoClose(s) ==
    /\ upstream' = [upstream EXCEPT ![s] = NoConn]
    /\ live' = live
CloseUpstreamUnchecked(s) ==
    /\ upstream' = [upstream EXCEPT ![s] = NoConn]
    /\ live' = live \cup {upstream[s]}

\* RealtimeTranscriberService.CloseSession: remove by id, close what was there.
CloseUpstream(s) ==
    /\ upstream' = [upstream EXCEPT ![s] = NoConn]
    /\ live' = live \ {upstream[s]}

\* The processor's map: StartSession enters the session, CloseSession takes
\* out whatever the id names.
Tracked(c) == [processor EXCEPT ![SidOf[c]] = c]
\* Mutant: the processor's entry outlives the session.
UntrackedNot(s) == processor
Untracked(s) == [processor EXCEPT ![s] = NoConn]

(***************************************************************************)
(* Admission: HandleWebSocket up to initSession.                           *)
(***************************************************************************)
\* The upgrade is done and the parameters are valid; or they are not.
Connect(c) ==
    /\ reader[c] = "idle"
    /\ \/ /\ GoTo(c, "limit")
          /\ socket' = [socket EXCEPT ![c] = "open"]
       \/ /\ GoTo(c, "ended")
          /\ socket' = [socket EXCEPT ![c] = "closed"]
    /\ UNCHANGED <<gatewayVars, checkVars, serviceVars, started, answer>>

\* A user without an entry is let in before the limit is looked at, so also when
\* it is 0 or less.
UnderLimit(u) ==
    userSessions[u] = {} \/ Cardinality(userSessions[u]) < MaxConnectionsPerUser

\* The check reads the index under RLock; the registration comes later.
CheckUserConnectionLimit(c) ==
    /\ reader[c] = "limit"
    /\ holder = NoTask
    /\ IF UnderLimit(UserOf[c])
         THEN GoTo(c, "unique") /\ UNCHANGED socket
         ELSE GoTo(c, "ended") /\ socket' = [socket EXCEPT ![c] = "closed"]
    /\ UNCHANGED <<gatewayVars, checkVars, serviceVars, started, answer>>

CheckUniqueID(c) ==
    /\ reader[c] = "unique"
    /\ holder = NoTask
    /\ IF sessions[SidOf[c]] = NoConn
         THEN GoTo(c, "init") /\ UNCHANGED socket
         ELSE GoTo(c, "ended") /\ socket' = [socket EXCEPT ![c] = "closed"]
    /\ UNCHANGED <<gatewayVars, checkVars, serviceVars, started, answer>>

Registered(c) == [sessions EXCEPT ![SidOf[c]] = c]
Indexed(c) == [userSessions EXCEPT ![UserOf[c]] = @ \cup {SidOf[c]}]

\* Registers the session, whatever the map holds, and spawns the check.
InitSession(c) ==
    /\ reader[c] = "init"
    /\ holder = NoTask
    /\ sessions' = Registered(c)
    /\ userSessions' = Indexed(c)
    /\ check' = [check EXCEPT ![c] = "spawned"]
    /\ GoTo(c, "reading")
    /\ UNCHANGED <<serviceVars, holder, closer, socket, started, once,
                   subscriptionValid, waiter, answer>>

(***************************************************************************)
(* The subscription check and the goroutine that waits for it.             *)
(***************************************************************************)
\* subscriptionOnce.Do(check): runs unless another Do came first.
CheckBegin(c) ==
    /\ check[c] = "spawned"
    /\ \/ /\ once[c] = "new"
          /\ check' = [check EXCEPT ![c] = "running"]
          /\ once' = [once EXCEPT ![c] = "running"]
       \/ /\ once[c] = "done"
          /\ check' = [check EXCEPT ![c] = "skipped"]
          /\ UNCHANGED once
    /\ UNCHANGED <<gatewayVars, serviceVars, reader, socket, started,
                   subscriptionValid, waiter, answer>>

\* Mutants: a valid answer closes the session; an invalid one does not.
CheckEndInverted(c) ==
    /\ check[c] = "running"
    /\ reader[c] # "dialing"
    /\ once' = [once EXCEPT ![c] = "done"]
    /\ \E result \in SubscriptionResults :
         /\ subscriptionValid' = [subscriptionValid EXCEPT ![c] = (result = "valid")]
         /\ check' = [check EXCEPT ![c] = IF result = "valid" THEN "valid" ELSE "rejected"]
         /\ closer' = IF result = "valid" THEN Spawned(closer, c, "check") ELSE closer
    /\ UNCHANGED <<serviceVars, sessions, userSessions, holder, reader, socket,
                   started, waiter, answer>>

\* The verdict is stored under session.Mutex, which the dial holds.
CheckEnd(c) ==
    /\ check[c] = "running"
    /\ reader[c] # "dialing"
    /\ once' = [once EXCEPT ![c] = "done"]
    /\ \E result \in SubscriptionResults :
         /\ subscriptionValid' = [subscriptionValid EXCEPT ![c] = (result = "valid")]
         /\ IF result = "valid"
              THEN check' = [check EXCEPT ![c] = "valid"] /\ UNCHANGED closer
              ELSE /\ check' = [check EXCEPT ![c] = "rejected"]
                   /\ closer' = Spawned(closer, c, "check")
    /\ UNCHANGED <<serviceVars, sessions, userSessions, holder, reader, socket,
                   started, waiter, answer>>

\* subscriptionOnce.Do(func() {}): blocks while the check runs.
WaiterDo(c) ==
    /\ waiter[c] = "spawned"
    /\ once[c] # "running"
    /\ once' = [once EXCEPT ![c] = "done"]
    /\ waiter' = [waiter EXCEPT ![c] = "done"]
    /\ UNCHANGED <<gatewayVars, serviceVars, reader, socket, started, check,
                   subscriptionValid, answer>>

(***************************************************************************)
(* The read loop: handleSession, handleAudioMessage, handleStopMessage.    *)
(***************************************************************************)
\* ReadMessage fails: the client left, a deadline passed, or the socket was
\* closed by a closeSession.
ReadError(c) ==
    /\ reader[c] = "reading"
    /\ Return(c)
    /\ UNCHANGED <<checkVars, serviceVars, sessions, userSessions, holder,
                   socket, started, answer>>

\* The first audio message: Started is set, the processor's entry is made,
\* and the dial of OpenAI begins.
StartAudio(c) ==
    /\ reader[c] = "reading"
    /\ socket[c] = "open"
    /\ ~started[c]
    /\ started' = [started EXCEPT ![c] = TRUE]
    /\ processor' = Tracked(c)
    /\ GoTo(c, "dialing")
    /\ UNCHANGED <<gatewayVars, checkVars, socket, answer, upstream, live,
                   cleaning, stopped>>

\* Connect succeeded: the OpenAI session is registered under the id,
\* whatever the map holds.  Appending audio to it, now and for every later
\* audio message, changes none of the state kept here.
DialOK(c) ==
    /\ reader[c] = "dialing"
    /\ live' = live \cup {c}
    /\ upstream' = [upstream EXCEPT ![SidOf[c]] = c]
    /\ GoTo(c, "reading")
    /\ UNCHANGED <<gatewayVars, checkVars, socket, started, answer, processor,
                   cleaning, stopped>>

\* Connect failed: Started and the processor's entry stay as they are.
DialError(c) ==
    /\ reader[c] = "dialing"
    /\ GoTo(c, "reading")
    /\ UNCHANGED <<gatewayVars, checkVars, serviceVars, socket, started, answer>>

StopNotStarted(c) ==
    /\ reader[c] = "reading"
    /\ socket[c] = "open"
    /\ ~started[c]
    /\ ReturnFromStop(c, "notStarted")
    /\ UNCHANGED <<checkVars, serviceVars, sessions, userSessions, holder,
                   socket, started>>

\* Mutant: closeSession is spawned before the stop is answered.
StopStartedClosing(c) ==
    /\ reader[c] = "reading"
    /\ socket[c] = "open"
    /\ started[c]
    /\ waiter' = [waiter EXCEPT ![c] = "spawned"]
    /\ closer' = Spawned(closer, c, "stop")
    /\ GoTo(c, "waiting")
    /\ UNCHANGED <<serviceVars, sessions, userSessions, holder, socket, started,
                   check, once, subscriptionValid, answer>>

StopStarted(c) ==
    /\ reader[c] = "reading"
    /\ socket[c] = "open"
    /\ started[c]
    /\ waiter' = [waiter EXCEPT ![c] = "spawned"]
    /\ GoTo(c, "waiting")
    /\ UNCHANGED <<gatewayVars, serviceVars, socket, started, check, once,
                   subscriptionValid, answer>>

\* The waiter finished: the verdict is whatever subscriptionValid says.
WaitDone(c) ==
    /\ reader[c] = "waiting"
    /\ waiter[c] = "done"
    /\ IF subscriptionValid[c]
         THEN GoTo(c, "stopping") /\ UNCHANGED <<closer, answer>>
         ELSE ReturnFromStop(c, "subscription")
    /\ UNCHANGED <<checkVars, serviceVars, sessions, userSessions, holder,
                   socket, started>>

\* Mutant: a timeout lets the stop through.
WaitTimeoutPasses(c) ==
    /\ reader[c] = "waiting"
    /\ GoTo(c, "stopping")
    /\ UNCHANGED <<gatewayVars, checkVars, serviceVars, socket, started, answer>>

\* SubscriptionCheckTimeout (5 s) may win whatever the waiter does.
WaitTimeout(c) ==
    /\ reader[c] = "waiting"
    /\ ReturnFromStop(c, "timeout")
    /\ UNCHANGED <<checkVars, serviceVars, sessions, userSessions, holder,
                   socket, started>>

\* processor.HandleStopMessage: the processor's entry, by id.
StopLookup(c) ==
    /\ reader[c] = "stopping"
    /\ IF processor[SidOf[c]] = NoConn
         THEN ReturnFromStop(c, "failed")
         ELSE GoTo(c, "completing") /\ UNCHANGED <<closer, answer>>
    /\ UNCHANGED <<checkVars, serviceVars, sessions, userSessions, holder,
                   socket, started>>

\* CompleteSession: the OpenAI session, by id; without one, the last partial
\* text is the result.
CompleteLookup(c) ==
    /\ reader[c] = "completing"
    /\ GoTo(c, IF upstream[SidOf[c]] = NoConn THEN "fixing" ELSE "committing")
    /\ UNCHANGED <<gatewayVars, checkVars, serviceVars, socket, started, answer>>

\* The commit and the wait for the items end (within 10 s), and
\* CompleteSession closes the session that the id names by then.
CommitEnd(c) ==
    /\ reader[c] = "committing"
    /\ CloseUpstream(SidOf[c])
    /\ GoTo(c, "fixing")
    /\ UNCHANGED <<gatewayVars, checkVars, socket, started, answer, processor,
                   cleaning, stopped>>

\* FixText answers or fails, and sendCompletedMessage follows in either case.
SendCompleted(c) ==
    /\ reader[c] = "fixing"
    /\ ReturnFromStop(c, "completed")
    /\ UNCHANGED <<checkVars, serviceVars, sessions, userSessions, holder,
                   socket, started>>

(***************************************************************************)
(* closeSession.  Its first half takes sessionMutex, looks the id up and   *)
(* closes the processor's session of that id; its second half follows the  *)
(* graceful close of the socket and frees the id.                          *)
(***************************************************************************)
\* The deferred execution is the last thing the reader does.
Finished(t) == IF t[2] = "return" THEN GoTo(t[1], "ended") ELSE UNCHANGED reader

\* Mutant: the early return does not unlock sessionMutex.
CloseSkipLocked(t) ==
    /\ closer[t] = "waiting"
    /\ holder = NoTask
    /\ sessions[SidOf[t[1]]] = NoConn
    /\ closer' = [closer EXCEPT ![t] = "done"]
    /\ holder' = t
    /\ Finished(t)
    /\ UNCHANGED <<checkVars, serviceVars, sessions, userSessions,
                   socket, started, answer>>

CloseSkip(t) ==
    /\ closer[t] = "waiting"
    /\ holder = NoTask
    /\ sessions[SidOf[t[1]]] = NoConn
    /\ closer' = [closer EXCEPT ![t] = "done"]
    /\ Finished(t)
    /\ UNCHANGED <<checkVars, serviceVars, sessions, userSessions, holder,
                   socket, started, answer>>

CloseBegin(t) ==
    LET s == SidOf[t[1]] IN
    /\ closer[t] = "waiting"
    /\ holder = NoTask
    /\ sessions[s] # NoConn
    /\ closer' = [closer EXCEPT ![t] = "graceful"]
    /\ holder' = t
    /\ CloseUpstream(s)
    /\ processor' = Untracked(s)
    /\ UNCHANGED <<checkVars, sessions, userSessions, reader, socket, started,
                   answer, cleaning, stopped>>

Unregistered(c) == [sessions EXCEPT ![SidOf[c]] = NoConn]
\* Mutant: the id stays in the user's set.
UnindexedNot(c) == userSessions
Unindexed(c) == [userSessions EXCEPT ![UserOf[c]] = @ \ {SidOf[c]}]

\* The read of gracefulCloseConn fails: the peer answered the close frame, or the
\* read deadline passed.  It is set to GracefulCloseTimeout (2 s), and to
\* IdleTimeout again by each message that a read loop on this connection takes.
CloseEnd(t) ==
    /\ closer[t] = "graceful"
    /\ socket' = [socket EXCEPT ![t[1]] = "closed"]
    /\ sessions' = Unregistered(t[1])
    /\ userSessions' = Unindexed(t[1])
    /\ closer' = [closer EXCEPT ![t] = "done"]
    /\ holder' = NoTask
    /\ Finished(t)
    /\ UNCHANGED <<checkVars, serviceVars, started, answer>>

(***************************************************************************)
(* The transcriber's own steps.  cleanSessions: the ids are collected      *)
(* under RLock and closed, by id, afterwards.  A session is inactive after *)
(* a minute without audio, far less than the idle timeout that bounds the  *)
(* client's silence.                                                       *)
(***************************************************************************)
CleanerCollect(s) ==
    /\ s \in Quiet
    /\ upstream[s] # NoConn
    /\ s \notin cleaning
    /\ cleaning' = cleaning \cup {s}
    /\ UNCHANGED <<gatewayVars, checkVars, reader, socket, started, answer,
                   processor, upstream, live, stopped>>

CleanerClose(s) ==
    /\ s \in cleaning
    /\ cleaning' = cleaning \ {s}
    /\ CloseUpstream(s)
    /\ UNCHANGED <<gatewayVars, checkVars, reader, socket, started, answer,
                   processor, stopped>>

\* container.Stop: RealtimeTranscriberService.Close takes the map as it is and
\* closes what it held.  The server still serves, until app.Shutdown.
ServiceClose ==
    /\ MayStop
    /\ ~stopped
    /\ stopped' = TRUE
    /\ upstream' = [s \in SessionID |-> NoConn]
    /\ live' = live \ {upstream[s] : s \in SessionID}
    /\ UNCHANGED <<gatewayVars, checkVars, reader, socket, started, answer,
                   processor, cleaning>>

----------------------------------------------------------------------------
Check(c) == CheckBegin(c) \/ CheckEnd(c) \/ WaiterDo(c)
Admit(c) == CheckUserConnectionLimit(c) \/ CheckUniqueID(c) \/ InitSession(c)
Receive(c) == StartAudio(c) \/ StopNotStarted(c) \/ StopStarted(c)
Handle(c) ==
    \/ DialOK(c) \/ DialError(c)
    \/ WaitDone(c) \/ WaitTimeout(c)
    \/ StopLookup(c) \/ CompleteLookup(c) \/ CommitEnd(c) \/ SendCompleted(c)
Close(t) == CloseSkip(t) \/ CloseBegin(t) \/ CloseEnd(t)
Clean(s) == CleanerCollect(s) \/ CleanerClose(s)

\* What goes on once clients have connected.
Serve ==
    \/ \E c \in Conn : Admit(c) \/ Check(c) \/ ReadError(c) \/ Receive(c) \/ Handle(c)
    \/ \E t \in Task : Close(t)
    \/ \E s \in SessionID : Clean(s)
    \/ ServiceClose

Next == (\E c \in Conn : Connect(c)) \/ Serve

Spec == Init /\ [][Next]_vars

\* The connection is closed while its read loop still takes messages: every one
\* that comes moves the deadline that the close waits for.
Lingers(c) ==
    /\ reader[c] = "reading" /\ socket[c] = "open"
    /\ \E kind \in Kind : closer[<<c, kind>>] = "graceful"

\* The scheduler runs every runnable goroutine; every dial, commit and HTTP call
\* has a timeout, and a graceful close where nobody else reads the socket; a
\* closed socket fails its next read.  Nothing is asked of the clients, so not the
\* end of a close that lingers, or of the cleaner's clock.
Fairness ==
    /\ \A c \in Conn :
         /\ WF_vars(Admit(c) \/ Handle(c) \/ (socket[c] = "closed" /\ ReadError(c)))
         /\ WF_vars(Check(c))
    /\ \A t \in Task :
         WF_vars(CloseSkip(t) \/ CloseBegin(t) \/ (~Lingers(t[1]) /\ CloseEnd(t)))

FairSpec == Spec /\ Fairness
----------------------------------------------------------------------------
(***************************************************************************)
(* Properties.                                                             *)
(***************************************************************************)
\* Every id is chosen by connections of one user only.
SameUserPerID == \A c, d \in Conn : SidOf[c] = SidOf[d] => UserOf[c] = UserOf[d]

\* No two connections use one id; every check answers "valid", as today.
OneIDEach == \A c, d \in Conn : SidOf[c] = SidOf[d] => c = d
AlwaysValid == SubscriptionResults \subseteq {"valid"}

\* The reader is past initSession and has not left the read loop.
InLoop(c) == reader[c] \in Serving \ {"closing"}

(***************************************************************************)
(* What clients are expected to do: connect under an id only when nothing  *)
(* of a former connection under it can run any more.  The gateway does not *)
(* see to it.                                                              *)
(***************************************************************************)
Over(c) ==
    /\ reader[c] = "ended"
    /\ check[c] \notin {"spawned", "running"}
    /\ \A kind \in Kind : closer[<<c, kind>>] \in {"none", "done"}

\* Of the connections that use one id, at most one has begun and is not over.
TakingTurns ==
    \A c, d \in Conn : c # d /\ SidOf[c] = SidOf[d] =>
        \/ reader[c] = "idle" \/ Over(c)
        \/ reader[d] = "idle" \/ Over(d)

TurnsNext == (\E c \in Conn : Connect(c) /\ TakingTurns') \/ Serve

TurnsSpec == Init /\ [][TurnsNext]_vars

(***************************************************************************)
(* What such clients rest on, connection by connection: the inductive      *)
(* invariant of the theorems about them.  A client that the check refused  *)
(* is closed while its reader is in the loop, and may leave in the maps    *)
(* what it begins to dial meanwhile.                                       *)
(***************************************************************************)
Refused(c) == check[c] = "rejected"
RefusedID(s) == \E c \in Conn : SidOf[c] = s /\ Refused(c)
Holds(c) == sessions[SidOf[c]] = c

ConnInv(c) ==
    /\ reader[c] \in {"idle"} \cup Admitting => check[c] = "none" /\ ~Holds(c)
    /\ reader[c] \in Serving => Holds(c) \/ socket[c] = "closed"
    /\ reader[c] = "ended" => socket[c] = "closed" /\ ~Holds(c)
    /\ InLoop(c) => Holds(c) \/ Refused(c)
    /\ closer[<<c, "check">>] # "none" => Refused(c)
    /\ \A kind \in {"stop", "return"} :
         closer[<<c, kind>>] # "none" => reader[c] \in {"closing", "ended"}
    /\ c \in live => (upstream[SidOf[c]] = c /\ Holds(c)) \/ Refused(c)

CloseInv(t) ==
    closer[t] = "graceful" =>
        /\ holder = t
        /\ Holds(t[1])
        /\ \/ processor[SidOf[t[1]]] = NoConn /\ upstream[SidOf[t[1]]] = NoConn
           \/ Refused(t[1])

MapInv(s) ==
    /\ sessions[s] # NoConn => SidOf[sessions[s]] = s
    /\ sessions[s] = NoConn =>
         (processor[s] = NoConn /\ upstream[s] = NoConn) \/ RefusedID(s)

\* Where a connection's reader is determines what the maps hold for it; the
\* execution that closes it owns the lock and has emptied the service maps; an
\* id without a session is empty everywhere.
LifecycleInv ==
    /\ \A c \in Conn : ConnInv(c)
    /\ \A t \in Task : CloseInv(t)
    /\ \A s \in SessionID : MapInv(s)

\* The index that the connection limit counts holds exactly the registered
\* sessions of each user: initSession and closeSession keep h.sessions and
\* h.userSessions in step, so no slot of a user leaks.
UserIndexExact ==
    \A u \in User : userSessions[u] =
        {s \in SessionID : sessions[s] # NoConn /\ UserOf[sessions[s]] = u}

\* Whoever uses which ids, a registered session is counted for its owner.
IndexCoversSessions ==
    \A s \in SessionID : sessions[s] # NoConn => s \in userSessions[UserOf[sessions[s]]]

\* A "completed" message is sent only after the subscription check itself
\* ran and answered that the subscription is valid: the timeout and an early
\* waiter never let a stop through.
CompletedOnlySubscribed ==
    \A c \in Conn : answer[c] = "completed" => check[c] = "valid"

\* Once an id is free again, neither the processor nor the transcriber holds
\* anything under it, unless the check refused a client of it: closeSession's
\* processor.CloseSession comes after every registration the read loop can make.
FreedIDLeavesNothing ==
    \A s \in SessionID : sessions[s] = NoConn /\ ~RefusedID(s) =>
        processor[s] = NoConn /\ upstream[s] = NoConn

\* When HandleWebSocket returns, the client's socket is closed; and no OpenAI
\* connection made for a client that was not refused is left open.
EndedLeavesNothing ==
    \A c \in Conn : reader[c] = "ended" =>
        socket[c] = "closed" /\ (c \in live => Refused(c))

\* A connection in its read loop is the registered session of its id, unless it
\* was refused: its partial results pass isSessionActive and it counts against
\* the limit.
ServedIsRegistered ==
    \A c \in Conn : InLoop(c) /\ ~Refused(c) => Holds(c)

\* The gateway keeps the promise of a session id: it is held by one connection
\* at a time, the processor and the transcriber keep something under it only
\* meanwhile, and it is given up empty, once, and never given back to the same
\* connection, whatever the cleaner and the shutdown drop in between.  Nothing
\* is promised of what is under an id once a client of it was refused, but that
\* it is still held by one connection at a time.
Lease == INSTANCE SessionLease WITH
    owner <- sessions,
    occupied <- {s \in SessionID :
                   (processor[s] # NoConn \/ upstream[s] # NoConn) /\ ~RefusedID(s)},
    served <- {c \in Conn : check[c] # "none"}
LeaseSpec == Lease!Spec

\* The socket of an admitted client that was not refused is closed only after
\* its read loop ended, so never between a stop message and the answer to it.
SocketClosedLast ==
    [][\A c \in Conn : socket[c] = "open" /\ socket'[c] = "closed"
                         => ~InLoop(c) \/ Refused(c)]_vars

\* No client that is being closed goes on sending for ever.  Only a refused one
\* can: the others are closed after their read loop ended.
NobodyLingers == \A c \in Conn : []<>~Lingers(c)

\* A connection that asks to be admitted is admitted or refused, however many
\* closes run under the lock meanwhile, unless the lock is held for a refused
\* client that never stops sending.
AdmissionDecided ==
    NobodyLingers =>
        \A c \in Conn : (reader[c] \in Admitting) ~> (reader[c] \notin Admitting)

\* A client whose check failed is not served for ever, whatever it sends, unless it
\* or another refused client never stops.
RejectedEnds ==
    NobodyLingers =>
        \A c \in Conn : (check[c] = "rejected") ~> (reader[c] = "ended")

\* A stop message is answered, whatever other clients do; and the connection then
\* ends, unless a refused client never stops sending.
StopAnswered ==
    /\ \A c \in Conn : (reader[c] = "waiting") ~> (answer[c] # "none")
    /\ NobodyLingers =>
         \A c \in Conn : (answer[c] # "none") ~> (reader[c] = "ended")

(***************************************************************************)
(* What the comments of the code say and its steps do not keep.            *)
(***************************************************************************)
\* "The number of connections of the user is checked": no user ever has more
\* registered sessions than MaxConnectionsPerUser.
ConnectionLimit ==
    \A u \in User : Cardinality(userSessions[u]) <= MaxConnectionsPerUser

\* "closeSession closes the session and removes it from the list": an
\* execution that takes effect finds its own session registered.
CloseFindsOwnSession ==
    [][\A t \in Task : closer[t] = "waiting" /\ closer'[t] = "graceful"
                         => sessions[SidOf[t[1]]] = t[1]]_vars
=============================================================================
