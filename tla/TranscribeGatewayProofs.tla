---------------------- MODULE TranscribeGatewayProofs ----------------------
(***************************************************************************)
(* Theorems about TranscribeGateway, for every set of connections, users   *)
(* and ids, every connection limit and every outcome of the check.         *)
(***************************************************************************)
EXTENDS TranscribeGateway, FiniteSetTheorems, TLAPS

\* An execution of closeSession belongs to a connection.
LEMMA TaskShape == \A t \in Task : t = <<t[1], t[2]>> /\ t[1] \in Conn /\ t[2] \in Kind
  BY DEF Task

\* What the end of a read and the end of a stop message start.
Phase == {"none", "waiting", "graceful", "done"}

LEMMA ReturnLeaves ==
    ASSUME TypeOK, NEW c \in Conn
    PROVE  /\ Return(c) => /\ GoTo(c, "closing")
                           /\ closer' = [t \in Task |-> IF t[1] = c /\ t[2] \in {"return"}
                                                          THEN "waiting" ELSE closer[t]]
           /\ \A told : ReturnFromStop(c, told) =>
                /\ GoTo(c, "closing")
                /\ closer' = [t \in Task |-> IF t[1] = c /\ t[2] \in {"stop", "return"}
                                               THEN "waiting" ELSE closer[t]]
<1>1. ASSUME NEW kind \in Kind, NEW closers, closers \in [Task -> Phase]
      PROVE  /\ Spawned(closers, c, kind) \in [Task -> Phase]
             /\ Spawned(closers, c, kind) =
                  [t \in Task |-> IF t[1] = c /\ t[2] = kind THEN "waiting" ELSE closers[t]]
  <2>1. \A t \in Task : t = <<c, kind>> <=> t[1] = c /\ t[2] = kind
    BY DEF Task
  <2> QED
    BY <1>1, <2>1 DEF Spawned, Phase
<1>2. closer \in [Task -> Phase]
  BY DEF TypeOK, Phase
<1>3. "stop" \in Kind /\ "return" \in Kind
  BY DEF Kind
<1>4. ASSUME Return(c)
      PROVE  closer' = [t \in Task |-> IF t[1] = c /\ t[2] \in {"return"}
                                         THEN "waiting" ELSE closer[t]]
  <2>1. closer' = Spawned(closer, c, "return")
    BY <1>4 DEF Return
  <2> QED
    BY <1>1, <1>2, <1>3, <2>1
<1>5. ASSUME NEW told, ReturnFromStop(c, told)
      PROVE  closer' = [t \in Task |-> IF t[1] = c /\ t[2] \in {"stop", "return"}
                                         THEN "waiting" ELSE closer[t]]
  <2>1. closer' = Spawned(Spawned(closer, c, "stop"), c, "return")
    BY <1>5 DEF ReturnFromStop
  <2> QED
    BY <1>1, <1>2, <1>3, <2>1
<1> QED
  BY <1>4, <1>5 DEF Return, ReturnFromStop

\* The end of handleStopMessage keeps the types of what it changes.
LEMMA ReturnFromStopTyped ==
    ASSUME TypeOK, NEW c \in Conn,
           NEW told \in {"completed", "notStarted", "subscription", "timeout", "failed"},
           ReturnFromStop(c, told)
    PROVE  /\ reader' \in [Conn -> ReaderState]
           /\ closer' \in [Task -> {"none", "waiting", "graceful", "done"}]
           /\ answer' \in [Conn -> {"none", "completed", "notStarted", "subscription",
                                     "timeout", "failed"}]
<1>1. <<c, "stop">> \in Task /\ <<c, "return">> \in Task
  BY DEF Task, Kind
<1> QED
  BY <1>1 DEF TypeOK, ReturnFromStop, GoTo, Spawned, ReaderState, Serving

\* Every variable keeps its type: in particular the maps hold connections or
\* nothing, and sessionMutex is held by an execution of closeSession or free.
THEOREM TypeCorrect == Spec => []TypeOK
<1>1. Init => TypeOK
  <2> SUFFICES ASSUME Init PROVE TypeOK
    OBVIOUS
  <2>1. /\ sessions \in [SessionID -> Conn \cup {NoConn}]
        /\ userSessions \in [User -> SUBSET SessionID]
        /\ holder \in Task \cup {NoTask}
        /\ reader \in [Conn -> ReaderState]
    BY DEF Init, ReaderState
  <2>2. /\ socket \in [Conn -> {"none", "open", "closed"}]
        /\ started \in [Conn -> BOOLEAN]
        /\ check \in [Conn -> {"none", "spawned", "running", "valid", "rejected", "skipped"}]
        /\ once \in [Conn -> {"new", "running", "done"}]
        /\ subscriptionValid \in [Conn -> BOOLEAN]
        /\ waiter \in [Conn -> {"none", "spawned", "done"}]
    BY DEF Init
  <2>3. /\ closer \in [Task -> {"none", "waiting", "graceful", "done"}]
        /\ answer \in [Conn -> {"none", "completed", "notStarted", "subscription",
                                "timeout", "failed"}]
    BY DEF Init
  <2>4. /\ processor \in [SessionID -> Conn \cup {NoConn}]
        /\ upstream \in [SessionID -> Conn \cup {NoConn}]
        /\ live \in SUBSET Conn
        /\ cleaning \in SUBSET SessionID
        /\ stopped \in BOOLEAN
    BY DEF Init
  <2> QED
    BY <2>1, <2>2, <2>3, <2>4 DEF TypeOK
<1>2. TypeOK /\ [Next]_vars => TypeOK'
  <2> SUFFICES ASSUME TypeOK, [Next]_vars PROVE TypeOK'
    OBVIOUS
  <2> USE IdentityAssumption DEF TypeOK, ReaderState, Admitting, Serving
  <2>1. ASSUME NEW c \in Conn, Connect(c) PROVE TypeOK'
    BY <2>1 DEF Connect, GoTo, gatewayVars, checkVars, serviceVars
  <2>2. ASSUME NEW c \in Conn, CheckUserConnectionLimit(c) PROVE TypeOK'
    BY <2>2 DEF CheckUserConnectionLimit, GoTo, gatewayVars, checkVars, serviceVars
  <2>3. ASSUME NEW c \in Conn, CheckUniqueID(c) PROVE TypeOK'
    BY <2>3 DEF CheckUniqueID, GoTo, gatewayVars, checkVars, serviceVars
  <2>4. ASSUME NEW c \in Conn, InitSession(c) PROVE TypeOK'
    BY <2>4 DEF InitSession, Registered, Indexed, GoTo, serviceVars
  <2>5. ASSUME NEW c \in Conn, CheckBegin(c) PROVE TypeOK'
    BY <2>5 DEF CheckBegin, gatewayVars, serviceVars
  <2>6. ASSUME NEW c \in Conn, CheckEnd(c) PROVE TypeOK'
    <3>1. PICK result \in SubscriptionResults :
            /\ subscriptionValid' = [subscriptionValid EXCEPT ![c] = (result = "valid")]
            /\ IF result = "valid"
                 THEN check' = [check EXCEPT ![c] = "valid"] /\ UNCHANGED closer
                 ELSE /\ check' = [check EXCEPT ![c] = "rejected"]
                      /\ closer' = Spawned(closer, c, "check")
      BY <2>6 DEF CheckEnd
    <3>2. (result = "valid") \in BOOLEAN
      OBVIOUS
    <3>3. subscriptionValid' \in [Conn -> BOOLEAN]
      BY <3>1, <3>2, Zenon
    <3>4. <<c, "check">> \in Task
      BY DEF Task, Kind
    <3>5. CASE result = "valid"
      BY <2>6, <3>1, <3>3, <3>5 DEF CheckEnd, serviceVars
    <3>6. CASE result # "valid"
      <4>1. closer' \in [Task -> {"none", "waiting", "graceful", "done"}]
        BY <3>1, <3>4, <3>6 DEF Spawned
      <4>2. check' \in [Conn -> {"none", "spawned", "running", "valid", "rejected", "skipped"}]
        BY <3>1, <3>6
      <4> QED
        BY <2>6, <3>3, <4>1, <4>2 DEF CheckEnd, serviceVars
    <3> QED
      BY <3>5, <3>6
  <2>7. ASSUME NEW c \in Conn, WaiterDo(c) PROVE TypeOK'
    BY <2>7 DEF WaiterDo, gatewayVars, serviceVars
  <2>8. ASSUME NEW c \in Conn, ReadError(c) PROVE TypeOK'
    BY <2>8 DEF ReadError, Return, GoTo, Spawned, Task, Kind, checkVars, serviceVars
  <2>9. ASSUME NEW c \in Conn, StartAudio(c) PROVE TypeOK'
    BY <2>9 DEF StartAudio, Tracked, GoTo, gatewayVars, checkVars
  <2>10. ASSUME NEW c \in Conn, StopNotStarted(c) PROVE TypeOK'
    BY <2>10, ReturnFromStopTyped DEF StopNotStarted, checkVars, serviceVars
  <2>11. ASSUME NEW c \in Conn, StopStarted(c) PROVE TypeOK'
    BY <2>11 DEF StopStarted, GoTo, gatewayVars, serviceVars
  <2>12. ASSUME NEW c \in Conn, DialOK(c) PROVE TypeOK'
    BY <2>12 DEF DialOK, GoTo, gatewayVars, checkVars
  <2>13. ASSUME NEW c \in Conn, DialError(c) PROVE TypeOK'
    BY <2>13 DEF DialError, GoTo, gatewayVars, checkVars, serviceVars
  <2>14. ASSUME NEW c \in Conn, WaitDone(c) PROVE TypeOK'
    <3>1. CASE subscriptionValid[c]
      BY <2>14, <3>1 DEF WaitDone, GoTo, checkVars, serviceVars
    <3>2. CASE ~subscriptionValid[c]
      <4>1. ReturnFromStop(c, "subscription")
        BY <2>14, <3>2 DEF WaitDone
      <4> QED
        BY <2>14, <4>1, ReturnFromStopTyped DEF WaitDone, checkVars, serviceVars
    <3> QED
      BY <3>1, <3>2
  <2>15. ASSUME NEW c \in Conn, WaitTimeout(c) PROVE TypeOK'
    BY <2>15, ReturnFromStopTyped DEF WaitTimeout, checkVars, serviceVars
  <2>16. ASSUME NEW c \in Conn, StopLookup(c) PROVE TypeOK'
    <3>1. CASE processor[SidOf[c]] # NoConn
      BY <2>16, <3>1 DEF StopLookup, GoTo, checkVars, serviceVars
    <3>2. CASE processor[SidOf[c]] = NoConn
      <4>1. ReturnFromStop(c, "failed")
        BY <2>16, <3>2 DEF StopLookup
      <4> QED
        BY <2>16, <4>1, ReturnFromStopTyped DEF StopLookup, checkVars, serviceVars
    <3> QED
      BY <3>1, <3>2
  <2>17. ASSUME NEW c \in Conn, CompleteLookup(c) PROVE TypeOK'
    BY <2>17 DEF CompleteLookup, GoTo, gatewayVars, checkVars, serviceVars
  <2>18. ASSUME NEW c \in Conn, CommitEnd(c) PROVE TypeOK'
    BY <2>18 DEF CommitEnd, CloseUpstream, GoTo, gatewayVars, checkVars
  <2>19. ASSUME NEW c \in Conn, SendCompleted(c) PROVE TypeOK'
    BY <2>19, ReturnFromStopTyped DEF SendCompleted, checkVars, serviceVars
  <2>20. ASSUME NEW t \in Task, CloseSkip(t) PROVE TypeOK'
    BY <2>20 DEF CloseSkip, Finished, GoTo, Task, Kind, checkVars, serviceVars
  <2>21. ASSUME NEW t \in Task, CloseBegin(t) PROVE TypeOK'
    BY <2>21 DEF CloseBegin, CloseUpstream, Untracked, Task, Kind, checkVars
  <2>22. ASSUME NEW t \in Task, CloseEnd(t) PROVE TypeOK'
    BY <2>22 DEF CloseEnd, Finished, Unregistered, Unindexed, GoTo, Task, Kind, checkVars, serviceVars
  <2>23. ASSUME NEW s \in SessionID, Clean(s) PROVE TypeOK'
    <3>1. CASE CleanerCollect(s)
      BY <3>1 DEF CleanerCollect, gatewayVars, checkVars
    <3>2. CASE CleanerClose(s)
      BY <3>2 DEF CleanerClose, CloseUpstream, gatewayVars, checkVars
    <3> QED
      BY <2>23, <3>1, <3>2 DEF Clean
  <2>24. CASE ServiceClose
    BY <2>24 DEF ServiceClose, gatewayVars, checkVars
  <2>25. CASE UNCHANGED vars
    BY <2>25 DEF vars
  <2> QED
    BY <2>1, <2>2, <2>3, <2>4, <2>5, <2>6, <2>7, <2>8, <2>9, <2>10, <2>11, <2>12,
       <2>13, <2>14, <2>15, <2>16, <2>17, <2>18, <2>19, <2>20, <2>21, <2>22, <2>23, <2>24, <2>25
    DEF Next, Serve, Admit, Check, Receive, Handle, Close
<1> QED
  BY <1>1, <1>2, PTL DEF Spec

(***************************************************************************)
(* The index that the connection limit counts.  Only initSession and the   *)
(* end of closeSession write the two maps, and both write them together.   *)
(***************************************************************************)
\* What a step may do to the two maps.
LEMMA MapStep ==
    ASSUME [Next]_vars
    PROVE  \/ UNCHANGED <<sessions, userSessions>>
           \/ \E c \in Conn : sessions' = Registered(c) /\ userSessions' = Indexed(c)
           \/ \E c \in Conn : sessions' = Unregistered(c) /\ userSessions' = Unindexed(c)
<1>1. ASSUME NEW c \in Conn, Connect(c) \/ Admit(c) \/ Check(c) \/ ReadError(c)
                             \/ Receive(c) \/ Handle(c)
      PROVE  \/ UNCHANGED <<sessions, userSessions>>
             \/ sessions' = Registered(c) /\ userSessions' = Indexed(c)
  BY <1>1, Zenon
  DEF Admit, Check, Receive, Handle, Connect, CheckUserConnectionLimit, CheckUniqueID,
      InitSession, CheckBegin, CheckEnd, WaiterDo, ReadError, StartAudio,
      StopNotStarted, StopStarted, DialOK, DialError, WaitDone, WaitTimeout,
      StopLookup, CompleteLookup, CommitEnd, SendCompleted, gatewayVars
<1>2. ASSUME NEW t \in Task, Close(t)
      PROVE  \/ UNCHANGED <<sessions, userSessions>>
             \/ sessions' = Unregistered(t[1]) /\ userSessions' = Unindexed(t[1])
  BY <1>2 DEF Close, CloseSkip, CloseBegin, CloseEnd
<1>3. ASSUME NEW s \in SessionID, Clean(s)
      PROVE  UNCHANGED <<sessions, userSessions>>
  BY <1>3 DEF Clean, CleanerCollect, CleanerClose, gatewayVars
<1>4. \A t \in Task : t[1] \in Conn
  BY DEF Task
<1>5. ServiceClose => UNCHANGED <<sessions, userSessions>>
  BY DEF ServiceClose, gatewayVars
<1> QED
  BY <1>1, <1>2, <1>3, <1>4, <1>5 DEF Next, Serve, vars

\* Whoever uses which ids, and however admissions and closes interleave, a
\* registered session is always counted for its owner.
THEOREM IndexCovers == Spec => []IndexCoversSessions
<1> USE IdentityAssumption
<1>1. Init => IndexCoversSessions
  BY DEF Init, IndexCoversSessions
<1>2. TypeOK /\ IndexCoversSessions /\ [Next]_vars => IndexCoversSessions'
  <2> SUFFICES ASSUME TypeOK, IndexCoversSessions, [Next]_vars
               PROVE  IndexCoversSessions'
    OBVIOUS
  <2>1. CASE UNCHANGED <<sessions, userSessions>>
    BY <2>1 DEF IndexCoversSessions
  <2>2. ASSUME NEW c \in Conn, sessions' = Registered(c), userSessions' = Indexed(c)
        PROVE  IndexCoversSessions'
    BY <2>2 DEF IndexCoversSessions, TypeOK, Registered, Indexed
  <2>3. ASSUME NEW c \in Conn, sessions' = Unregistered(c), userSessions' = Unindexed(c)
        PROVE  IndexCoversSessions'
    BY <2>3 DEF IndexCoversSessions, TypeOK, Unregistered, Unindexed
  <2> QED
    BY <2>1, <2>2, <2>3, MapStep
<1> QED
  BY <1>1, <1>2, TypeCorrect, PTL DEF Spec

\* An entry of h.sessions is a session of that very id.
EntryHasItsID == \A s \in SessionID : sessions[s] # NoConn => SidOf[sessions[s]] = s

\* When no two users share an id, the index is exact: every registered session
\* is counted for its owner and nothing else is, so no slot ever leaks.
THEOREM IndexExact == SameUserPerID => (Spec => []UserIndexExact)
<1> SUFFICES ASSUME SameUserPerID PROVE Spec => []UserIndexExact
  OBVIOUS
<1> USE IdentityAssumption
<1>1. Init => UserIndexExact /\ EntryHasItsID
  BY DEF Init, UserIndexExact, EntryHasItsID
<1>2. TypeOK /\ UserIndexExact /\ EntryHasItsID /\ [Next]_vars
        => (UserIndexExact /\ EntryHasItsID)'
  <2> SUFFICES ASSUME TypeOK, UserIndexExact, EntryHasItsID, [Next]_vars
               PROVE  UserIndexExact' /\ EntryHasItsID'
    OBVIOUS
  <2> USE DEF TypeOK, UserIndexExact, EntryHasItsID
  <2>1. CASE UNCHANGED <<sessions, userSessions>>
    BY <2>1
  <2>2. ASSUME NEW c \in Conn, sessions' = Registered(c), userSessions' = Indexed(c)
        PROVE  UserIndexExact' /\ EntryHasItsID'
    <3>1. EntryHasItsID'
      BY <2>2 DEF Registered
    <3>2. UserIndexExact'
      BY <2>2, SameUserPerID DEF Registered, Indexed, SameUserPerID
    <3> QED
      BY <3>1, <3>2
  <2>3. ASSUME NEW c \in Conn, sessions' = Unregistered(c), userSessions' = Unindexed(c)
        PROVE  UserIndexExact' /\ EntryHasItsID'
    <3>1. EntryHasItsID'
      BY <2>3 DEF Unregistered
    <3>2. UserIndexExact'
      BY <2>3, SameUserPerID DEF Unregistered, Unindexed, SameUserPerID
    <3> QED
      BY <3>1, <3>2
  <2> QED
    BY <2>1, <2>2, <2>3, MapStep
<1> QED
  BY <1>1, <1>2, TypeCorrect, PTL DEF Spec

(***************************************************************************)
(* A stop is completed only for a valid subscription.  The property alone  *)
(* is not inductive: the verdict travels from the check goroutine through  *)
(* subscriptionValid and the reader's position to the answer.              *)
(***************************************************************************)
PastVerdict == {"stopping", "completing", "committing", "fixing"}

VerdictInv ==
    \A c \in Conn :
        /\ subscriptionValid[c] => check[c] = "valid"
        /\ reader[c] \in {"idle"} \cup Admitting => check[c] = "none"
        /\ reader[c] \in PastVerdict => check[c] = "valid"
        /\ answer[c] = "completed" => check[c] = "valid"

\* Every step keeps it.
LEMMA VerdictStep ==
    ASSUME TypeOK, VerdictInv, [Next]_vars
    PROVE  VerdictInv'
<1> USE DEF TypeOK, VerdictInv, PastVerdict, Admitting, GoTo
<1>1. ASSUME NEW c \in Conn, Connect(c) PROVE VerdictInv'
  BY <1>1 DEF Connect, checkVars
<1>2. ASSUME NEW c \in Conn, CheckUserConnectionLimit(c) PROVE VerdictInv'
  BY <1>2 DEF CheckUserConnectionLimit, checkVars
<1>3. ASSUME NEW c \in Conn, CheckUniqueID(c) PROVE VerdictInv'
  BY <1>3 DEF CheckUniqueID, checkVars
<1>4. ASSUME NEW c \in Conn, InitSession(c) PROVE VerdictInv'
  BY <1>4 DEF InitSession, checkVars
<1>5. ASSUME NEW c \in Conn, CheckBegin(c) PROVE VerdictInv'
  BY <1>5 DEF CheckBegin, checkVars
<1>6. ASSUME NEW c \in Conn, CheckEnd(c) PROVE VerdictInv'
  BY <1>6 DEF CheckEnd, checkVars
<1>7. ASSUME NEW c \in Conn, WaiterDo(c) PROVE VerdictInv'
  BY <1>7 DEF WaiterDo, checkVars
<1>8. ASSUME NEW c \in Conn, ReadError(c) PROVE VerdictInv'
  BY <1>8 DEF ReadError, Return, checkVars
<1>9. ASSUME NEW c \in Conn, StartAudio(c) PROVE VerdictInv'
  BY <1>9 DEF StartAudio, checkVars
<1>10. ASSUME NEW c \in Conn, StopNotStarted(c) PROVE VerdictInv'
  BY <1>10 DEF StopNotStarted, ReturnFromStop, checkVars
<1>11. ASSUME NEW c \in Conn, StopStarted(c) PROVE VerdictInv'
  BY <1>11 DEF StopStarted, checkVars
<1>12. ASSUME NEW c \in Conn, DialOK(c) PROVE VerdictInv'
  BY <1>12 DEF DialOK, checkVars
<1>13. ASSUME NEW c \in Conn, DialError(c) PROVE VerdictInv'
  BY <1>13 DEF DialError, checkVars
<1>14. ASSUME NEW c \in Conn, WaitDone(c) PROVE VerdictInv'
  BY <1>14 DEF WaitDone, ReturnFromStop, checkVars
<1>15. ASSUME NEW c \in Conn, WaitTimeout(c) PROVE VerdictInv'
  BY <1>15 DEF WaitTimeout, ReturnFromStop, checkVars
<1>16. ASSUME NEW c \in Conn, StopLookup(c) PROVE VerdictInv'
  BY <1>16 DEF StopLookup, ReturnFromStop, checkVars
<1>17. ASSUME NEW c \in Conn, CompleteLookup(c) PROVE VerdictInv'
  BY <1>17 DEF CompleteLookup, checkVars
<1>18. ASSUME NEW c \in Conn, CommitEnd(c) PROVE VerdictInv'
  BY <1>18 DEF CommitEnd, checkVars
<1>19. ASSUME NEW c \in Conn, SendCompleted(c) PROVE VerdictInv'
  BY <1>19 DEF SendCompleted, ReturnFromStop, checkVars
<1>20. ASSUME NEW t \in Task, Close(t) PROVE VerdictInv'
  BY <1>20, TaskShape DEF Close, CloseSkip, CloseBegin, CloseEnd, Finished, checkVars
<1>21. ASSUME NEW s \in SessionID, Clean(s) PROVE VerdictInv'
  BY <1>21 DEF Clean, CleanerCollect, CleanerClose, checkVars
<1>22. CASE ServiceClose
  BY <1>22 DEF ServiceClose, checkVars
<1>23. CASE UNCHANGED vars
  BY <1>23 DEF vars
<1> QED
  BY <1>1, <1>2, <1>3, <1>4, <1>5, <1>6, <1>7, <1>8, <1>9, <1>10, <1>11, <1>12, <1>13, <1>14, <1>15, <1>16, <1>17, <1>18, <1>19, <1>20, <1>21, <1>22, <1>23
  DEF Next, Serve, Admit, Check, Receive, Handle, Close

\* A completed answer is preceded by a check that ran and answered "valid",
\* whatever the waiter, the timeout and the other closes do.
THEOREM CompletedSubscribed == Spec => []CompletedOnlySubscribed
<1>1. Init => VerdictInv
  BY DEF Init, VerdictInv, PastVerdict
<1>2. VerdictInv => CompletedOnlySubscribed
  BY DEF VerdictInv, CompletedOnlySubscribed
<1> QED
  BY <1>1, <1>2, VerdictStep, TypeCorrect, PTL DEF Spec

(***************************************************************************)
(* The connection limit.  It is checked in one critical section and the    *)
(* session is registered in another: the limit holds exactly as long as    *)
(* nobody of the same user is admitted in between.                         *)
(***************************************************************************)
\* Past the check of the limit, not registered yet.
Between(c) == reader[c] \in {"unique", "init"}

AdmittedApart ==
    \A c, d \in Conn : c # d /\ UserOf[c] = UserOf[d] => ~Between(c) \/ ~Between(d)

ApartSpec == Init /\ [][Next /\ AdmittedApart']_vars

Room(u) == Cardinality(userSessions[u]) < MaxConnectionsPerUser

LimitInv ==
    /\ \A u \in User : /\ IsFiniteSet(userSessions[u])
                       /\ Cardinality(userSessions[u]) <= MaxConnectionsPerUser
    /\ \A c \in Conn : Between(c) => Room(UserOf[c])

\* One more id is at most one more connection, one less not more of them.
LEMMA OneMore ==
    ASSUME NEW ids, IsFiniteSet(ids), NEW s
    PROVE  /\ IsFiniteSet(ids \cup {s}) /\ Cardinality(ids \cup {s}) <= Cardinality(ids) + 1
           /\ IsFiniteSet(ids \ {s}) /\ Cardinality(ids \ {s}) <= Cardinality(ids)
           /\ Cardinality(ids) \in Nat
           /\ Cardinality(ids \cup {s}) \in Nat /\ Cardinality(ids \ {s}) \in Nat
<1>1. /\ IsFiniteSet(ids \cup {s})
      /\ Cardinality(ids \cup {s}) = IF s \in ids THEN Cardinality(ids) ELSE Cardinality(ids) + 1
  BY FS_AddElement
<1>2. /\ IsFiniteSet(ids \ {s})
      /\ Cardinality(ids \ {s}) = IF s \in ids THEN Cardinality(ids) - 1 ELSE Cardinality(ids)
  BY FS_RemoveElement
<1>3. /\ Cardinality(ids) \in Nat /\ Cardinality(ids \cup {s}) \in Nat
      /\ Cardinality(ids \ {s}) \in Nat
  BY <1>1, <1>2, FS_CardinalityType
<1> QED
  BY <1>1, <1>2, <1>3

\* When the limit lets anybody in and the admissions of one user do not overlap,
\* the limit is kept, whatever happens to the sessions meanwhile: run gateway_limit
\* shows two that do.  At a limit of 0 or less a first connection is still let in.
THEOREM LimitKept == MaxConnectionsPerUser >= 1 => (ApartSpec => []ConnectionLimit)
<1> SUFFICES ASSUME MaxConnectionsPerUser >= 1 PROVE ApartSpec => []ConnectionLimit
  OBVIOUS
<1> USE IdentityAssumption, LimitAssumption
<1>1. Init => LimitInv /\ AdmittedApart
  BY FS_EmptySet DEF Init, LimitInv, AdmittedApart, Between
<1>2. TypeOK /\ AdmittedApart /\ LimitInv /\ [Next]_vars => LimitInv'
  <2> SUFFICES ASSUME TypeOK, AdmittedApart, LimitInv, [Next]_vars PROVE LimitInv'
    OBVIOUS
  <2> USE DEF Room
  <2>0. \A c \in Conn : UserOf[c] \in User /\ SidOf[c] \in SessionID
    OBVIOUS
  <2>1. ASSUME NEW c \in Conn, InitSession(c) PROVE LimitInv'
    <3>1. userSessions' = [userSessions EXCEPT ![UserOf[c]] = @ \cup {SidOf[c]}]
      BY <2>1 DEF InitSession, Indexed
    <3>2. Room(UserOf[c]) /\ Between(c)
      BY <2>1 DEF InitSession, LimitInv, Between
    <3>3. ASSUME NEW u \in User
          PROVE  /\ IsFiniteSet(userSessions'[u])
                 /\ Cardinality(userSessions'[u]) <= MaxConnectionsPerUser
      <4>1. CASE u = UserOf[c]
        <5>1. userSessions'[u] = userSessions[u] \cup {SidOf[c]}
          BY <3>1, <4>1 DEF TypeOK
        <5>2. /\ IsFiniteSet(userSessions[u])
              /\ Cardinality(userSessions[u]) < MaxConnectionsPerUser
          BY <3>2, <4>1 DEF LimitInv
        <5>3. LET ids == userSessions[u] \cup {SidOf[c]} IN
              /\ IsFiniteSet(ids)
              /\ Cardinality(ids) <= Cardinality(userSessions[u]) + 1
              /\ Cardinality(userSessions[u]) \in Nat
              /\ Cardinality(ids) \in Nat
          BY <5>2, OneMore
        <5> QED
          BY <5>1, <5>2, <5>3
      <4>2. CASE u # UserOf[c]
        BY <3>1, <4>2 DEF LimitInv, TypeOK
      <4> QED
        BY <4>1, <4>2
    <3>4. ASSUME NEW d \in Conn, Between(d)' PROVE Room(UserOf[d])'
      <4>1. d # c /\ Between(d)
        BY <2>1, <3>4 DEF InitSession, GoTo, Between, TypeOK
      <4>2. UserOf[d] # UserOf[c]
        BY <3>2, <4>1 DEF AdmittedApart
      <4> QED
        BY <2>0, <3>1, <4>1, <4>2 DEF LimitInv, TypeOK
    <3> QED
      BY <3>3, <3>4 DEF LimitInv
  <2>2. ASSUME NEW t \in Task, CloseEnd(t) PROVE LimitInv'
    <3>1. /\ t[1] \in Conn
          /\ userSessions' = [userSessions EXCEPT ![UserOf[t[1]]] = @ \ {SidOf[t[1]]}]
      BY <2>2, TaskShape DEF CloseEnd, Unindexed
    <3>2. ASSUME NEW u \in User
          PROVE  /\ IsFiniteSet(userSessions'[u])
                 /\ Cardinality(userSessions'[u]) \in Nat
                 /\ Cardinality(userSessions'[u]) <= Cardinality(userSessions[u])
                 /\ Cardinality(userSessions[u]) \in Nat
                 /\ Cardinality(userSessions[u]) <= MaxConnectionsPerUser
      <4>1. /\ IsFiniteSet(userSessions[u])
            /\ Cardinality(userSessions[u]) <= MaxConnectionsPerUser
        BY DEF LimitInv
      <4>2. /\ Cardinality(userSessions[u]) \in Nat
            /\ IsFiniteSet(userSessions[u] \ {SidOf[t[1]]})
            /\ Cardinality(userSessions[u] \ {SidOf[t[1]]}) <= Cardinality(userSessions[u])
            /\ Cardinality(userSessions[u] \ {SidOf[t[1]]}) \in Nat
        BY <4>1, OneMore
      <4>3. CASE u = UserOf[t[1]]
        <5>1. userSessions'[u] = userSessions[u] \ {SidOf[t[1]]}
          BY <3>1, <4>3 DEF TypeOK
        <5> QED
          BY <4>1, <4>2, <5>1
      <4>4. CASE u # UserOf[t[1]]
        <5>1. userSessions'[u] = userSessions[u]
          BY <3>1, <4>4 DEF TypeOK
        <5> QED
          BY <4>1, <4>2, <5>1
      <4> QED
        BY <4>3, <4>4
    <3>3. \A d \in Conn : Between(d)' => Between(d)
      BY <2>2, <3>1 DEF CloseEnd, Finished, GoTo, Between, TypeOK
    <3> QED
      BY <2>0, <3>2, <3>3 DEF LimitInv
  <2>3. ASSUME UNCHANGED userSessions,
               \A d \in Conn : Between(d)' => Between(d) \/ Room(UserOf[d])
        PROVE  LimitInv'
    BY <2>3 DEF LimitInv
  <2>4. ASSUME NEW c \in Conn,
               Connect(c) \/ CheckUserConnectionLimit(c) \/ CheckUniqueID(c) \/ ReadError(c)
        PROVE  LimitInv'
    <3>1. UnderLimit(UserOf[c]) => Room(UserOf[c])
      BY FS_EmptySet DEF UnderLimit
    <3> QED
      BY <2>3, <2>4, <3>1
      DEF Connect, CheckUserConnectionLimit, CheckUniqueID, ReadError, Return, GoTo, Between,
          TypeOK, gatewayVars
  <2>5. ASSUME NEW c \in Conn, Check(c) PROVE LimitInv'
    BY <2>3, <2>5 DEF Check, CheckBegin, CheckEnd, WaiterDo, Between, gatewayVars
  <2>6. ASSUME NEW c \in Conn, Receive(c) \/ Handle(c) PROVE LimitInv'
    <3>1. \E place \in {"dialing", "reading", "waiting", "stopping", "completing",
                        "committing", "fixing", "closing"} : GoTo(c, place)
      BY <2>6, Zenon
      DEF Receive, Handle, StartAudio, StopNotStarted, StopStarted, DialOK, DialError,
          WaitDone, WaitTimeout, StopLookup, CompleteLookup, CommitEnd, SendCompleted,
          ReturnFromStop
    <3>2. UNCHANGED userSessions
      BY <2>6, Zenon
      DEF Receive, Handle, StartAudio, StopNotStarted, StopStarted, DialOK, DialError,
          WaitDone, WaitTimeout, StopLookup, CompleteLookup, CommitEnd, SendCompleted,
          gatewayVars
    <3> QED
      BY <2>3, <3>1, <3>2 DEF GoTo, Between, TypeOK
  <2>7. ASSUME NEW t \in Task, CloseSkip(t) \/ CloseBegin(t) PROVE LimitInv'
    BY <2>3, <2>7, TaskShape DEF CloseSkip, CloseBegin, Finished, GoTo, Between, TypeOK
  <2>8. ASSUME NEW s \in SessionID, Clean(s) PROVE LimitInv'
    BY <2>3, <2>8 DEF Clean, CleanerCollect, CleanerClose, Between, gatewayVars
  <2>9. CASE ServiceClose \/ UNCHANGED vars
    BY <2>3, <2>9 DEF ServiceClose, Between, gatewayVars, vars
  <2> QED
    BY <2>1, <2>2, <2>4, <2>5, <2>6, <2>7, <2>8, <2>9 DEF Next, Serve, Admit, Close
<1>3. LimitInv => ConnectionLimit
  BY DEF LimitInv, ConnectionLimit
<1>4. AdmittedApart /\ [Next /\ AdmittedApart']_vars => AdmittedApart'
  BY DEF vars, AdmittedApart, Between
<1>5. [Next /\ AdmittedApart']_vars => [Next]_vars
  OBVIOUS
<1> QED
  BY <1>1, <1>2, <1>3, <1>4, <1>5, TypeCorrect, PTL DEF ApartSpec, Spec

(***************************************************************************)
(* What admission waits for, and who answers, whatever the clients do.     *)
(***************************************************************************)
\* The lock is held across steps by the one execution of closeSession that is in
\* its graceful half.
LockHeldGracefully == \A t \in Task : holder = t <=> closer[t] = "graceful"

\* Beside the holder no read loop is left to move the deadline that it waits for,
\* unless its client was refused and a refusal is what it came from.
HolderIsLastReader ==
    \A t \in Task : holder = t =>
        \/ reader[t[1]] \in {"closing", "ended"}
        \/ t[2] = "check" /\ Refused(t[1])

\* A client that was told something about its stop message is told nothing else.
ToldOnce == [][\A c \in Conn : answer[c] # "none" => answer'[c] = answer[c]]_vars

\* Every execution of closeSession is started once: the check's by a refusal, the
\* others when the reader leaves its loop, and so is the answer given.
StartInv(c) ==
    /\ reader[c] \in {"idle"} \cup Admitting => check[c] = "none"
    /\ closer[<<c, "check">>] # "none" => Refused(c)
    /\ \A kind \in {"stop", "return"} :
         closer[<<c, kind>>] # "none" => reader[c] \in {"closing", "ended"}
    /\ answer[c] # "none" => reader[c] \in {"closing", "ended"}
StartedOnce == \A c \in Conn : StartInv(c)

\* What a step leaves alone stays as it was.
LEMMA StartKept ==
    ASSUME StartedOnce, NEW c \in Conn,
           reader'[c] = reader[c], check'[c] = check[c], answer'[c] = answer[c],
           \A kind \in Kind : closer'[<<c, kind>>] # "none" => closer[<<c, kind>>] # "none"
    PROVE  StartInv(c)'
<1>1. StartInv(c)
  BY DEF StartedOnce
<1> QED
  BY <1>1 DEF StartInv, Refused, Kind

\* A goroutine of a connection may move the reader or the check, starting nothing ...
Moves(c) ==
    /\ UNCHANGED <<holder, closer, answer>>
    /\ \/ /\ reader[c] \in {"idle"} \cup Admitting
          /\ \E place \in Admitting \cup {"ended"} : GoTo(c, place)
          /\ UNCHANGED check
       \/ /\ reader[c] = "init"
          /\ GoTo(c, "reading")
          /\ check' = [check EXCEPT ![c] = "spawned"]
       \/ /\ InLoop(c)
          /\ \E place \in Serving \ {"closing"} : GoTo(c, place)
          /\ UNCHANGED check
       \/ /\ check[c] \in {"spawned", "running"}
          /\ \E verdict \in {"running", "skipped", "valid"} :
               check' = [check EXCEPT ![c] = verdict]
          /\ UNCHANGED reader
       \/ UNCHANGED <<reader, check>>

\* ... refuse the client, starting a close ...
Refuses(c) ==
    /\ check[c] = "running"
    /\ check' = [check EXCEPT ![c] = "rejected"]
    /\ closer' = Spawned(closer, c, "check")
    /\ UNCHANGED <<holder, reader, answer>>

\* ... or leave the read loop, with or without an answer.
Leaves(c) ==
    /\ InLoop(c)
    /\ \/ Return(c) /\ UNCHANGED answer
       \/ \E told \in {"completed", "notStarted", "subscription", "timeout", "failed"} :
            ReturnFromStop(c, told)
    /\ UNCHANGED <<holder, check>>

LEMMA GoroutineStep ==
    ASSUME NEW c \in Conn,
           Connect(c) \/ Admit(c) \/ Check(c) \/ ReadError(c) \/ Receive(c) \/ Handle(c)
    PROVE  Moves(c) \/ Refuses(c) \/ Leaves(c)
<1> USE DEF gatewayVars, checkVars
<1>1. CASE Connect(c)
  BY <1>1 DEF Connect, Moves, Admitting
<1>2. CASE Admit(c)
  BY <1>2
  DEF Admit, CheckUserConnectionLimit, CheckUniqueID, InitSession, Moves, Admitting
<1>3. CASE Check(c)
  <2>1. CASE CheckBegin(c)
    BY <2>1 DEF CheckBegin, Moves
  <2>2. CASE CheckEnd(c)
    BY <2>2 DEF CheckEnd, Moves, Refuses
  <2>3. CASE WaiterDo(c)
    BY <2>3 DEF WaiterDo, Moves
  <2> QED
    BY <1>3, <2>1, <2>2, <2>3 DEF Check
<1>4. CASE ReadError(c)
  BY <1>4 DEF ReadError, Leaves, InLoop, Serving
<1>5. CASE Receive(c)
  <2>1. CASE StopNotStarted(c)
    BY <2>1 DEF StopNotStarted, Leaves, InLoop, Serving
  <2>2. CASE StartAudio(c) \/ StopStarted(c)
    BY <2>2 DEF StartAudio, StopStarted, Moves, InLoop, Serving
  <2> QED
    BY <1>5, <2>1, <2>2 DEF Receive
<1>6. CASE Handle(c)
  <2>1. CASE DialOK(c) \/ DialError(c) \/ CompleteLookup(c) \/ CommitEnd(c)
    BY <2>1 DEF DialOK, DialError, CompleteLookup, CommitEnd, Moves, InLoop, Serving
  <2>2. CASE WaitTimeout(c) \/ SendCompleted(c)
    BY <2>2 DEF WaitTimeout, SendCompleted, Leaves, InLoop, Serving
  <2>3. CASE WaitDone(c)
    BY <2>3, Zenon DEF WaitDone, Moves, Leaves, InLoop, Serving
  <2>4. CASE StopLookup(c)
    BY <2>4, Zenon DEF StopLookup, Moves, Leaves, InLoop, Serving
  <2> QED
    BY <1>6, <2>1, <2>2, <2>3, <2>4 DEF Handle
<1> QED
  BY <1>1, <1>2, <1>3, <1>4, <1>5, <1>6

\* Every step keeps who has been started and who holds the lock.
LEMMA OnceStep ==
    ASSUME TypeOK, StartedOnce, LockHeldGracefully, [Next]_vars
    PROVE  /\ StartedOnce'
           /\ LockHeldGracefully'
           /\ \A c \in Conn : answer[c] # "none" => answer'[c] = answer[c]
<1>0. \A d \in Conn, kind \in Kind : <<d, kind>> \in Task
  BY DEF Task
<1>1. ASSUME NEW c \in Conn, Moves(c)
      PROVE  /\ StartedOnce'
             /\ LockHeldGracefully'
             /\ \A d \in Conn : answer[d] # "none" => answer'[d] = answer[d]
  <2>1. StartInv(c)
    BY DEF StartedOnce
  <2>2. UNCHANGED <<holder, closer, answer>>
    BY <1>1 DEF Moves
  <2>3. StartInv(c)'
    <3>1. CASE check[c] \in {"spawned", "running"} /\ UNCHANGED reader
      BY <1>1, <2>1, <2>2, <3>1 DEF StartInv, Refused, Moves, TypeOK
    <3>2. CASE UNCHANGED <<reader, check>>
      BY <2>1, <2>2, <3>2 DEF StartInv, Refused
    <3>3. CASE UNCHANGED check /\ reader[c] \in {"idle"} \cup Admitting
               /\ \E place \in Admitting \cup {"ended"} : GoTo(c, place)
      BY <2>1, <2>2, <3>3 DEF StartInv, Refused, TypeOK, GoTo, Admitting
    <3>4. CASE reader[c] = "init" /\ GoTo(c, "reading")
               /\ check' = [check EXCEPT ![c] = "spawned"]
      BY <2>1, <2>2, <3>4 DEF StartInv, Refused, TypeOK, GoTo, Admitting
    <3>5. CASE UNCHANGED check /\ InLoop(c)
               /\ \E place \in Serving \ {"closing"} : GoTo(c, place)
      BY <2>1, <2>2, <3>5 DEF StartInv, Refused, TypeOK, GoTo, Admitting, InLoop, Serving
    <3> QED
      BY <1>1, <3>1, <3>2, <3>3, <3>4, <3>5 DEF Moves
  <2>4. \A d \in Conn : d # c => reader'[d] = reader[d] /\ check'[d] = check[d]
    BY <1>1 DEF Moves, GoTo, TypeOK
  <2>5. \A d \in Conn : d # c => StartInv(d)'
    BY <2>2, <2>4, StartKept
  <2> QED
    BY <2>2, <2>3, <2>5 DEF LockHeldGracefully, StartedOnce
<1>2. ASSUME NEW c \in Conn, Refuses(c)
      PROVE  /\ StartedOnce'
             /\ LockHeldGracefully'
             /\ \A d \in Conn : answer[d] # "none" => answer'[d] = answer[d]
  <2>1. StartInv(c)
    BY DEF StartedOnce
  <2>2. /\ check[c] = "running"
        /\ check' = [check EXCEPT ![c] = "rejected"]
        /\ closer' = [closer EXCEPT ![<<c, "check">>] = "waiting"]
        /\ UNCHANGED <<holder, reader, answer>>
    BY <1>2 DEF Refuses, Spawned
  <2>3. closer[<<c, "check">>] = "none"
    BY <2>1, <2>2 DEF StartInv, Refused
  <2>4. LockHeldGracefully'
    BY <2>2, <2>3, <1>0 DEF LockHeldGracefully, TypeOK, Kind
  <2>5. check'[c] = "rejected"
    BY <2>2 DEF TypeOK
  <2>6. \A d \in Conn, kind \in Kind : <<d, kind>> # <<c, "check">>
          => closer'[<<d, kind>>] = closer[<<d, kind>>]
    BY <2>2, <1>0 DEF TypeOK
  <2>7. StartInv(c)'
    BY <2>1, <2>2, <2>5, <2>6 DEF StartInv, Refused, Kind
  <2>8. \A d \in Conn : d # c => check'[d] = check[d]
    BY <2>2 DEF TypeOK
  <2>9. \A d \in Conn : d # c => StartInv(d)'
    BY <2>2, <2>6, <2>8, StartKept
  <2> QED
    BY <2>2, <2>4, <2>7, <2>9 DEF StartedOnce
<1>3. ASSUME NEW c \in Conn, Leaves(c)
      PROVE  /\ StartedOnce'
             /\ LockHeldGracefully'
             /\ \A d \in Conn : answer[d] # "none" => answer'[d] = answer[d]
  <2>1. PICK kinds \in SUBSET {"stop", "return"} :
          closer' = [t \in Task |-> IF t[1] = c /\ t[2] \in kinds THEN "waiting"
                                                                    ELSE closer[t]]
    <3>1. ASSUME Return(c)
          PROVE  closer' = [t \in Task |-> IF t[1] = c /\ t[2] \in {"return"} THEN "waiting"
                                                                              ELSE closer[t]]
      BY <3>1, ReturnLeaves
    <3>2. ASSUME NEW told, ReturnFromStop(c, told)
          PROVE  closer' = [t \in Task |-> IF t[1] = c /\ t[2] \in {"stop", "return"}
                                             THEN "waiting" ELSE closer[t]]
      BY <3>2, ReturnLeaves
    <3> QED
      BY <1>3, <3>1, <3>2 DEF Leaves
  <2>2. /\ reader' = [reader EXCEPT ![c] = "closing"]
        /\ UNCHANGED <<holder, check>>
        /\ answer' = answer \/ \E told : answer' = [answer EXCEPT ![c] = told]
        /\ InLoop(c)
    BY <1>3, Zenon DEF Leaves, Return, ReturnFromStop, GoTo
  <2>3. StartInv(c)
    BY DEF StartedOnce
  <2>4. /\ \A kind \in {"stop", "return"} : closer[<<c, kind>>] = "none"
        /\ answer[c] = "none"
        /\ reader[c] \notin {"idle"} \cup Admitting
    BY <2>2, <2>3 DEF StartInv, InLoop, Serving, Admitting
  <2>5. \A d \in Conn : d # c => answer'[d] = answer[d] /\ reader'[d] = reader[d]
    BY <2>2 DEF TypeOK
  <2>6. reader'[c] = "closing"
    BY <2>2 DEF TypeOK
  <2>7. \A t \in Task : t[1] # c \/ t[2] \notin kinds => closer'[t] = closer[t]
    BY <2>1
  <2>8. \A t \in Task : t[1] = c /\ t[2] \in kinds
          => closer'[t] = "waiting" /\ closer[t] = "none"
    BY <2>1, <2>4, TaskShape
  <2>9. LockHeldGracefully'
    BY <2>2, <2>7, <2>8 DEF LockHeldGracefully
  <2>10. closer'[<<c, "check">>] = closer[<<c, "check">>]
    BY <2>7, <1>0 DEF Kind
  <2>11. StartInv(c)'
    BY <2>2, <2>3, <2>6, <2>10 DEF StartInv, Refused, Admitting
  <2>12. \A d \in Conn, kind \in Kind : d # c => closer'[<<d, kind>>] = closer[<<d, kind>>]
    BY <2>7, <1>0
  <2>13. \A d \in Conn : d # c => StartInv(d)'
    BY <2>2, <2>5, <2>12, StartKept
  <2> QED
    BY <2>4, <2>5, <2>9, <2>11, <2>13 DEF StartedOnce
<1>4. ASSUME NEW t \in Task, Close(t)
      PROVE  /\ StartedOnce'
             /\ LockHeldGracefully'
             /\ UNCHANGED answer
  <2>1. /\ closer[t] \in {"waiting", "graceful"}
        /\ \E phase \in {"graceful", "done"} : closer' = [closer EXCEPT ![t] = phase]
        /\ \/ UNCHANGED reader
           \/ t[2] = "return" /\ GoTo(t[1], "ended")
        /\ UNCHANGED <<check, answer>>
    BY <1>4, Zenon DEF Close, CloseSkip, CloseBegin, CloseEnd, Finished, checkVars
  <2>2. /\ t[1] \in Conn /\ t[2] \in Kind /\ t = <<t[1], t[2]>>
        /\ StartInv(t[1])
    BY TaskShape DEF StartedOnce
  <2>3. t[2] = "return" => reader[t[1]] \in {"closing", "ended"}
    BY <2>1, <2>2 DEF StartInv
  <2>4. \A u \in Task : closer'[u] # "none" => closer[u] # "none"
    BY <2>1 DEF TypeOK
  <2>5. \A d \in Conn, kind \in Kind :
          closer'[<<d, kind>>] # "none" => closer[<<d, kind>>] # "none"
    BY <2>4, <1>0
  <2>6. StartInv(t[1])'
    <3>1. CASE UNCHANGED reader
      BY <2>1, <2>2, <2>5, <3>1, StartKept
    <3>2. CASE t[2] = "return" /\ GoTo(t[1], "ended")
      <4>1. reader'[t[1]] = "ended"
        BY <2>2, <3>2 DEF GoTo, TypeOK
      <4> QED
        BY <2>1, <2>2, <2>5, <4>1 DEF StartInv, Refused, Kind, Admitting
    <3> QED
      BY <2>1, <3>1, <3>2
  <2>7. \A d \in Conn : d # t[1] => reader'[d] = reader[d]
    BY <2>1 DEF GoTo, TypeOK
  <2>8. \A d \in Conn : d # t[1] => StartInv(d)'
    BY <2>1, <2>5, <2>7, StartKept
  <2>9. LockHeldGracefully'
    <3>1. CASE CloseSkip(t)
      BY <3>1 DEF CloseSkip, LockHeldGracefully, TypeOK
    <3>2. CASE CloseBegin(t)
      BY <3>2, TaskAssumption DEF CloseBegin, LockHeldGracefully, TypeOK
    <3>3. CASE CloseEnd(t)
      BY <3>3, TaskAssumption DEF CloseEnd, LockHeldGracefully, TypeOK
    <3> QED
      BY <1>4, <3>1, <3>2, <3>3 DEF Close
  <2> QED
    BY <2>1, <2>6, <2>8, <2>9 DEF StartedOnce
<1>5. CASE \/ \E s \in SessionID : Clean(s)
           \/ ServiceClose
           \/ UNCHANGED vars
  <2>1. UNCHANGED <<holder, reader, check, closer, answer>>
    BY <1>5
    DEF Clean, CleanerCollect, CleanerClose, ServiceClose, gatewayVars, checkVars, vars
  <2> QED
    BY <2>1 DEF StartedOnce, StartInv, Refused, LockHeldGracefully
<1> QED
  BY <1>1, <1>2, <1>3, <1>4, <1>5, GoroutineStep DEF Next, Serve

\* Whatever the clients do, sessionMutex is held across steps by nobody but the one
\* graceful close, and that close is the only reader of its socket, whose deadline
\* then ends it, unless the subscription check refused its client.
THEOREM LockHeld == Spec => [](LockHeldGracefully /\ HolderIsLastReader)
<1>1. Init => StartedOnce /\ LockHeldGracefully
  BY TaskAssumption DEF Init, StartedOnce, StartInv, LockHeldGracefully, Task, Kind
<1>2. StartedOnce /\ LockHeldGracefully => HolderIsLastReader
  <2> SUFFICES ASSUME StartedOnce, LockHeldGracefully, NEW t \in Task, holder = t
               PROVE  \/ reader[t[1]] \in {"closing", "ended"}
                      \/ t[2] = "check" /\ Refused(t[1])
    BY DEF HolderIsLastReader
  <2>1. t[1] \in Conn /\ t[2] \in Kind /\ t = <<t[1], t[2]>>
    BY TaskShape
  <2>2. closer[<<t[1], t[2]>>] # "none"
    BY <2>1 DEF LockHeldGracefully
  <2>3. CASE t[2] = "check"
    BY <2>1, <2>2, <2>3 DEF StartedOnce, StartInv
  <2>4. CASE t[2] \in {"stop", "return"}
    BY <2>1, <2>2, <2>4 DEF StartedOnce, StartInv
  <2> QED
    BY <2>1, <2>3, <2>4 DEF Kind
<1> QED
  BY <1>1, <1>2, OnceStep, TypeCorrect, PTL DEF Spec

\* Whatever the clients do, nobody is told two things about one stop message.
THEOREM AnswersOnce == Spec => ToldOnce
<1>1. Init => StartedOnce /\ LockHeldGracefully
  BY TaskAssumption DEF Init, StartedOnce, StartInv, LockHeldGracefully, Task, Kind
<1>2. TypeOK /\ StartedOnce /\ LockHeldGracefully /\ [Next]_vars
        => [\A c \in Conn : answer[c] # "none" => answer'[c] = answer[c]]_vars
  BY OnceStep
<1> QED
  BY <1>1, <1>2, OnceStep, TypeCorrect, PTL DEF Spec, ToldOnce

(***************************************************************************)
(* The life of a connection whose client takes turns: it connects under an *)
(* id when nothing of a former connection under it can run any more.       *)
(***************************************************************************)
\* A connection that something may still be done for.
Active(c) == reader[c] # "idle" /\ ~Over(c)

\* There is one of them under an id.
LEMMA Alone ==
    ASSUME TakingTurns, NEW c \in Conn, NEW d \in Conn, SidOf[c] = SidOf[d],
           Active(c), Active(d)
    PROVE  c = d
  BY DEF TakingTurns, Active

\* Who is registered is in its read loop or closing, under the very id.
LEMMA OwnerServing ==
    ASSUME TypeOK, LifecycleInv, NEW s \in SessionID, sessions[s] # NoConn
    PROVE  /\ sessions[s] \in Conn
           /\ SidOf[sessions[s]] = s
           /\ reader[sessions[s]] \in Serving
<1>1. sessions[s] \in Conn /\ SidOf[sessions[s]] = s
  BY DEF TypeOK, LifecycleInv, MapInv
<1>2. Holds(sessions[s])
  BY <1>1 DEF Holds
<1> QED
  BY <1>1, <1>2 DEF TypeOK, LifecycleInv, ConnInv, ReaderState

\* An execution of closeSession that is not finished is of an active connection.
LEMMA CloserActive ==
    ASSUME TypeOK, LifecycleInv, NEW t \in Task, closer[t] \in {"waiting", "graceful"}
    PROVE  Active(t[1])
<1>1. t[1] \in Conn /\ t = <<t[1], t[2]>> /\ t[2] \in Kind
  BY TaskShape
<1>2. ~Over(t[1])
  BY <1>1 DEF Over
<1>3. Refused(t[1]) \/ reader[t[1]] \in {"closing", "ended"}
  BY <1>1 DEF LifecycleInv, ConnInv, Kind
<1>4. reader[t[1]] # "idle"
  BY <1>1, <1>3 DEF LifecycleInv, ConnInv, Refused
<1> QED
  BY <1>2, <1>4 DEF Active

\* Hence whatever is registered under the id of an active connection is that
\* connection.
LEMMA ActiveOwner ==
    ASSUME TakingTurns, TypeOK, LifecycleInv, NEW c \in Conn, Active(c),
           sessions[SidOf[c]] # NoConn
    PROVE  Holds(c)
<1>1. SidOf[c] \in SessionID
  BY IdentityAssumption
<1>2. Active(sessions[SidOf[c]])
  BY <1>1, OwnerServing DEF Active, Over, Serving
<1> QED
  BY <1>1, <1>2, OwnerServing, Alone DEF Holds

\* A connection that serves its client, or is about to, is active.
LEMMA ReaderActive ==
    ASSUME NEW c \in Conn, reader[c] \in Admitting \cup Serving
    PROVE  Active(c)
  BY DEF Active, Over, Admitting, Serving

\* No close of an id is in its graceful half while another connection than the
\* one that is closed is active under the id.
LEMMA GracefulOwn ==
    ASSUME TakingTurns, TypeOK, LifecycleInv, NEW c \in Conn, Active(c),
           NEW t \in Task, closer[t] = "graceful", SidOf[t[1]] = SidOf[c]
    PROVE  t[1] = c
  BY CloserActive, TaskShape, Alone

\* In the read loop, such a close is the one of a refused client.
LEMMA GracefulInLoop ==
    ASSUME TakingTurns, TypeOK, LifecycleInv, NEW c \in Conn, InLoop(c),
           NEW t \in Task, closer[t] = "graceful", SidOf[t[1]] = SidOf[c]
    PROVE  t[1] = c /\ Refused(c)
<1>1. t[1] = c
  BY GracefulOwn, ReaderActive DEF InLoop
<1>2. t = <<c, t[2]>> /\ t[2] \in Kind
  BY <1>1, TaskShape
<1> QED
  BY <1>1, <1>2 DEF LifecycleInv, ConnInv, Kind, InLoop, Serving

\* What the invariant says of connections, closes and ids depends on these parts
\* of the state only: a step that leaves them alone keeps it.
LEMMA LifecycleSame ==
    ASSUME LifecycleInv, UNCHANGED <<sessions, holder, reader, socket, check, closer,
                                     processor, upstream, live>>
    PROVE  LifecycleInv'
  BY DEF LifecycleInv, ConnInv, CloseInv, MapInv, Holds, Refused, RefusedID, InLoop

\* A step keeps what is said of a connection when it does not move its reader or
\* its registration, spawns no close of it and dials nothing for it.
LEMMA ConnKept ==
    ASSUME NEW d \in Conn, ConnInv(d),
           reader'[d] = reader[d],
           Holds(d)' <=> Holds(d),
           socket[d] = "closed" => socket'[d] = "closed",
           Refused(d) => Refused(d)',
           check[d] = "none" => check'[d] = "none",
           \A kind \in Kind : closer'[<<d, kind>>] # "none" => closer[<<d, kind>>] # "none",
           d \in live' => \/ Refused(d)'
                         \/ /\ d \in live
                            /\ upstream[SidOf[d]] = d => upstream'[SidOf[d]] = d
    PROVE  ConnInv(d)'
  BY DEF ConnInv, InLoop, Kind

\* ... and of an id when it enters nothing under it and frees it only empty.
LEMMA MapKept ==
    ASSUME NEW s \in SessionID, MapInv(s),
           RefusedID(s) => RefusedID(s)',
           sessions'[s] \in {sessions[s], NoConn},
           \/ RefusedID(s)'
           \/ sessions'[s] # NoConn
           \/ processor'[s] = NoConn /\ upstream'[s] = NoConn
           \/ processor'[s] = processor[s] /\ upstream'[s] = upstream[s]
              /\ sessions'[s] = sessions[s]
    PROVE  MapInv(s)'
  BY DEF MapInv

\* The reader goes from one place in the read loop to another.
LEMMA LifecycleLoop ==
    ASSUME TypeOK, LifecycleInv, NEW c \in Conn, InLoop(c),
           NEW state \in Serving \ {"closing"}, GoTo(c, state),
           UNCHANGED <<sessions, holder, socket, check, closer, processor, upstream, live>>
    PROVE  LifecycleInv'
<1> USE DEF GoTo, InLoop, Serving, Admitting
<1>1. ASSUME NEW d \in Conn PROVE ConnInv(d)'
  BY DEF LifecycleInv, ConnInv, Holds, Refused, TypeOK
<1>2. ASSUME NEW t \in Task PROVE CloseInv(t)'
  BY DEF LifecycleInv, CloseInv, Holds, Refused
<1>3. ASSUME NEW s \in SessionID PROVE MapInv(s)'
  BY DEF LifecycleInv, MapInv, RefusedID, Refused
<1> QED
  BY <1>1, <1>2, <1>3 DEF LifecycleInv

\* The reader leaves the read loop: closes of its own wait, none has begun.
LEMMA LifecycleLeave ==
    ASSUME TypeOK, LifecycleInv, NEW c \in Conn, InLoop(c),
           GoTo(c, "closing"), NEW kinds \in SUBSET {"stop", "return"},
           closer' = [t \in Task |-> IF t[1] = c /\ t[2] \in kinds THEN "waiting"
                                                                   ELSE closer[t]],
           UNCHANGED <<sessions, holder, socket, check, processor, upstream, live>>
    PROVE  LifecycleInv'
<1> USE DEF GoTo, InLoop, Serving, Admitting
<1>1. ASSUME NEW d \in Conn, NEW kind \in Kind
      PROVE  /\ <<d, kind>> \in Task
             /\ closer'[<<d, kind>>] # closer[<<d, kind>>] => d = c /\ kind # "check"
  BY DEF Task, Kind
<1>2. ASSUME NEW d \in Conn PROVE ConnInv(d)'
  <2>1. CASE d = c
    <3>1. reader'[c] = "closing"
      BY DEF TypeOK
    <3>2. ConnInv(c) /\ (Holds(c)' <=> Holds(c)) /\ (Refused(c)' <=> Refused(c))
      BY DEF LifecycleInv, Holds, Refused
    <3>3. closer'[<<c, "check">>] = closer[<<c, "check">>]
      BY <1>1 DEF Kind
    <3> QED
      BY <2>1, <3>1, <3>2, <3>3 DEF ConnInv
  <2>2. CASE d # c
    <3>1. /\ reader'[d] = reader[d] /\ (Holds(d)' <=> Holds(d))
          /\ Refused(d)' <=> Refused(d)
      BY <2>2 DEF TypeOK, Holds, Refused
    <3> QED
      BY <1>1, <2>2, <3>1, ConnKept DEF LifecycleInv
  <2> QED
    BY <2>1, <2>2
<1>3. ASSUME NEW t \in Task PROVE CloseInv(t)'
  BY DEF LifecycleInv, CloseInv, Holds, Refused
<1>4. ASSUME NEW s \in SessionID PROVE MapInv(s)'
  BY DEF LifecycleInv, MapInv, RefusedID, Refused
<1> QED
  BY <1>2, <1>3, <1>4 DEF LifecycleInv

\* A stop message that is answered leaves the loop.
LEMMA LifecycleStop ==
    ASSUME TypeOK, LifecycleInv, NEW c \in Conn, InLoop(c), NEW told,
           ReturnFromStop(c, told),
           UNCHANGED <<sessions, holder, socket, check, processor, upstream, live>>
    PROVE  LifecycleInv'
<1>1. {"stop", "return"} \in SUBSET {"stop", "return"}
  OBVIOUS
<1> HIDE DEF ReturnFromStop
<1> QED
  BY <1>1, ReturnLeaves, LifecycleLeave

\* What a service enters under the id of a connection in its read loop is
\* entered under a registered id, or for a refused client.
LEMMA LifecycleEnter ==
    ASSUME TakingTurns, TypeOK, LifecycleInv, NEW c \in Conn, InLoop(c),
           NEW state \in Serving \ {"closing"}, GoTo(c, state),
           \/ processor' = [processor EXCEPT ![SidOf[c]] = c] /\ UNCHANGED <<upstream, live>>
           \/ /\ upstream' = [upstream EXCEPT ![SidOf[c]] = c]
              /\ live' = live \cup {c}
              /\ UNCHANGED processor,
           UNCHANGED <<sessions, holder, socket, check, closer>>
    PROVE  LifecycleInv'
<1> USE IdentityAssumption DEF GoTo, Serving, Admitting
<1>a. /\ upstream \in [SessionID -> Conn \cup {NoConn}]
      /\ processor \in [SessionID -> Conn \cup {NoConn}]
  BY DEF TypeOK
<1>b. \A s \in SessionID : s # SidOf[c] => processor'[s] = processor[s] /\ upstream'[s] = upstream[s]
  <2>1. CASE processor' = [processor EXCEPT ![SidOf[c]] = c] /\ UNCHANGED <<upstream, live>>
    BY <1>a, <2>1
  <2>2. CASE upstream' = [upstream EXCEPT ![SidOf[c]] = c] /\ UNCHANGED processor
    BY <1>a, <2>2
  <2> QED
    BY <2>1, <2>2
<1>c. live' \subseteq live \cup {c} /\ (upstream'[SidOf[c]] = c \/ UNCHANGED <<upstream, live>>)
  BY <1>a
<1>1. Holds(c) \/ Refused(c)
  BY DEF LifecycleInv, ConnInv
<1>2. ASSUME NEW d \in Conn PROVE ConnInv(d)'
  <2>0. /\ ConnInv(d) /\ (Holds(d)' <=> Holds(d))
        /\ Refused(d)' <=> Refused(d)
    BY DEF LifecycleInv, Holds, Refused
  <2>1. CASE d = c
    <3>1. reader'[c] = state /\ reader[c] \in Serving
      BY DEF TypeOK, InLoop
    <3>2. c \in live' /\ ~Refused(c) => upstream'[SidOf[c]] = c
      BY <1>c, <2>0, <2>1 DEF ConnInv
    <3> QED
      BY <1>1, <2>0, <2>1, <3>1, <3>2 DEF ConnInv, InLoop
  <2>2. CASE d # c
    <3>1. d \in live /\ ~Refused(d) => SidOf[d] # SidOf[c]
      <4> SUFFICES ASSUME d \in live, ~Refused(d), SidOf[d] = SidOf[c] PROVE FALSE
        OBVIOUS
      <4>1. Holds(d)
        BY DEF LifecycleInv, ConnInv
      <4>2. reader[d] \in Serving
        BY <4>1 DEF LifecycleInv, ConnInv, TypeOK, ReaderState
      <4> QED
        BY <2>2, <4>2, ReaderActive, Alone DEF InLoop
    <3>2. SidOf[d] # SidOf[c] => upstream'[SidOf[d]] = upstream[SidOf[d]]
      BY <1>b
    <3>3. reader'[d] = reader[d] /\ (d \in live' => d \in live)
      BY <1>c, <2>2 DEF TypeOK
    <3> QED
      BY <2>0, <3>1, <3>2, <3>3, ConnKept
  <2> QED
    BY <2>1, <2>2
<1>3. ASSUME NEW t \in Task PROVE CloseInv(t)'
  <2>1. CASE closer[t] = "graceful" /\ SidOf[t[1]] = SidOf[c]
    BY <2>1, GracefulInLoop DEF LifecycleInv, CloseInv, Holds, Refused
  <2>2. CASE SidOf[t[1]] # SidOf[c]
    <3>1. /\ processor'[SidOf[t[1]]] = processor[SidOf[t[1]]]
          /\ upstream'[SidOf[t[1]]] = upstream[SidOf[t[1]]]
      BY <1>b, <2>2, TaskShape
    <3> QED
      BY <3>1 DEF LifecycleInv, CloseInv, Holds, Refused
  <2>3. CASE closer[t] # "graceful"
    BY <2>3 DEF CloseInv
  <2> QED
    BY <2>1, <2>2, <2>3
<1>4. ASSUME NEW s \in SessionID PROVE MapInv(s)'
  <2>1. CASE s = SidOf[c]
    BY <1>1, <2>1 DEF LifecycleInv, MapInv, RefusedID, Refused, Holds
  <2>2. CASE s # SidOf[c]
    <3>1. processor'[s] = processor[s] /\ upstream'[s] = upstream[s]
      BY <1>b, <2>2
    <3> QED
      BY <3>1 DEF LifecycleInv, MapInv, RefusedID, Refused
  <2> QED
    BY <2>1, <2>2
<1> QED
  BY <1>2, <1>3, <1>4 DEF LifecycleInv

\* What a service drops for some ids disturbs nothing, in or out of a stop.
LEMMA LifecycleDrop ==
    ASSUME LifecycleInv, NEW ids \in SUBSET SessionID,
           upstream' = [s \in SessionID |-> IF s \in ids THEN NoConn ELSE upstream[s]],
           live' = live \ {upstream[s] : s \in ids},
           \A s \in SessionID : processor'[s] \in {processor[s], NoConn},
           \A c \in Conn : \/ reader'[c] = reader[c]
                           \/ InLoop(c) /\ reader'[c] \in Serving \ {"closing"},
           UNCHANGED <<sessions, holder, socket, check, closer>>
    PROVE  LifecycleInv'
<1> USE IdentityAssumption DEF Serving, Admitting
<1>1. ASSUME NEW c \in Conn PROVE ConnInv(c)'
  <2>1. c \in live' /\ ~Refused(c) => SidOf[c] \notin ids
    BY DEF LifecycleInv, ConnInv
  <2> QED
    BY <2>1 DEF LifecycleInv, ConnInv, Holds, Refused, InLoop
<1>2. ASSUME NEW t \in Task PROVE CloseInv(t)'
  BY TaskShape DEF LifecycleInv, CloseInv, Holds, Refused
<1>3. ASSUME NEW s \in SessionID PROVE MapInv(s)'
  BY DEF LifecycleInv, MapInv, RefusedID, Refused
<1> QED
  BY <1>1, <1>2, <1>3 DEF LifecycleInv

\* Such as the session of one id.
LEMMA DropOne ==
    ASSUME TypeOK, NEW s \in SessionID, CloseUpstream(s)
    PROVE  /\ upstream' = [i \in SessionID |-> IF i \in {s} THEN NoConn ELSE upstream[i]]
           /\ live' = live \ {upstream[i] : i \in {s}}
<1>1. {upstream[i] : i \in {s}} = {upstream[s]}
  OBVIOUS
<1> QED
  BY <1>1 DEF CloseUpstream, TypeOK

\* The admission, up to the registration.
LEMMA LifecycleAdmit ==
    ASSUME TypeOK, LifecycleInv, NEW c \in Conn,
           Connect(c) \/ CheckUserConnectionLimit(c) \/ CheckUniqueID(c)
    PROVE  LifecycleInv'
<1> USE DEF Connect, CheckUserConnectionLimit, CheckUniqueID, GoTo, gatewayVars,
            checkVars, serviceVars, Admitting, Serving, InLoop
<1>1. ASSUME NEW d \in Conn PROVE ConnInv(d)'
  BY DEF LifecycleInv, ConnInv, Holds, Refused, TypeOK, Kind
<1>2. ASSUME NEW t \in Task PROVE CloseInv(t)'
  BY DEF LifecycleInv, CloseInv, Holds, Refused
<1>3. ASSUME NEW s \in SessionID PROVE MapInv(s)'
  BY DEF LifecycleInv, MapInv, RefusedID, Refused
<1> QED
  BY <1>1, <1>2, <1>3 DEF LifecycleInv

\* The registration: nobody holds the id, since nobody else is active.
LEMMA LifecycleInit ==
    ASSUME TakingTurns, TypeOK, LifecycleInv, NEW c \in Conn, InitSession(c)
    PROVE  LifecycleInv' /\ sessions[SidOf[c]] = NoConn
<1> USE IdentityAssumption
    DEF InitSession, GoTo, Registered, serviceVars, Admitting, Serving, InLoop
<1>0. SidOf[c] \in SessionID /\ ~Holds(c) /\ Active(c)
  BY ReaderActive DEF LifecycleInv, ConnInv
<1>1. sessions[SidOf[c]] = NoConn
  BY <1>0, ActiveOwner
<1>2. ASSUME NEW d \in Conn PROVE ConnInv(d)'
  <2>1. CASE d = c
    <3>1. reader'[c] = "reading" /\ check'[c] = "spawned" /\ sessions'[SidOf[c]] = c
      BY <1>0 DEF TypeOK
    <3>2. ConnInv(c) /\ reader[c] = "init" /\ check[c] = "none"
      BY DEF LifecycleInv, ConnInv
    <3> QED
      BY <2>1, <3>1, <3>2 DEF ConnInv, Holds, Refused
  <2>2. CASE d # c
    <3>1. /\ reader'[d] = reader[d] /\ check'[d] = check[d]
          /\ Holds(d)' <=> Holds(d)
      BY <1>0, <1>1, <2>2 DEF TypeOK, Holds
    <3> QED
      BY <3>1, ConnKept DEF LifecycleInv, Refused
  <2> QED
    BY <2>1, <2>2
<1>3. ASSUME NEW t \in Task PROVE CloseInv(t)'
  <2>1. closer[t] = "graceful" => SidOf[t[1]] # SidOf[c] /\ t[1] # c
    BY <1>1, TaskShape DEF LifecycleInv, CloseInv, Holds
  <2> QED
    BY <2>1, TaskShape DEF LifecycleInv, CloseInv, Holds, Refused, TypeOK
<1>4. ASSUME NEW s \in SessionID PROVE MapInv(s)'
  <2>0. check[c] = "none"
    BY DEF LifecycleInv, ConnInv
  <2>1. \A d \in Conn : Refused(d) => Refused(d)'
    BY <2>0 DEF Refused, TypeOK
  <2>2. RefusedID(s) => RefusedID(s)'
    BY <2>1 DEF RefusedID
  <2> QED
    BY <2>2 DEF LifecycleInv, MapInv, TypeOK
<1> QED
  BY <1>1, <1>2, <1>3, <1>4 DEF LifecycleInv

\* The check begins, and it ends: a refused client is promised less from then on.
LEMMA LifecycleCheckBegin ==
    ASSUME TypeOK, LifecycleInv, NEW c \in Conn, CheckBegin(c)
    PROVE  LifecycleInv'
<1> USE DEF CheckBegin, gatewayVars, serviceVars, InLoop
<1>1. \A d \in Conn : Refused(d)' <=> Refused(d)
  BY DEF Refused, TypeOK
<1>2. ASSUME NEW d \in Conn PROVE ConnInv(d)'
  BY <1>1 DEF LifecycleInv, ConnInv, Holds, TypeOK
<1>3. ASSUME NEW t \in Task PROVE CloseInv(t)'
  BY <1>1, TaskShape DEF LifecycleInv, CloseInv, Holds
<1>4. ASSUME NEW s \in SessionID PROVE MapInv(s)'
  BY <1>1 DEF LifecycleInv, MapInv, RefusedID
<1> QED
  BY <1>2, <1>3, <1>4 DEF LifecycleInv

LEMMA LifecycleCheckEnd ==
    ASSUME TypeOK, LifecycleInv, NEW c \in Conn, CheckEnd(c)
    PROVE  LifecycleInv'
<1> USE DEF CheckEnd, serviceVars, InLoop
<1>1. \A d \in Conn : Refused(d) => Refused(d)'
  BY DEF Refused, TypeOK
<1>2. \/ closer' = closer
      \/ closer' = [closer EXCEPT ![<<c, "check">>] = "waiting"] /\ Refused(c)'
  BY DEF Spawned, Refused, TypeOK
<1>3. \A d \in Conn, kind \in Kind : <<d, kind>> \in Task
  BY DEF Task
<1>4. /\ check[c] # "none"
      /\ \A d \in Conn : check[d] = "none" => check'[d] = "none"
  BY DEF TypeOK
<1>5. UNCHANGED <<sessions, holder, reader, socket, processor, upstream, live>>
  OBVIOUS
<1> HIDE DEF CheckEnd
<1>6. ASSUME NEW d \in Conn PROVE ConnInv(d)'
  <2>1. closer'[<<d, "check">>] # "none" => Refused(d)'
    BY <1>1, <1>2, <1>3 DEF LifecycleInv, ConnInv, Kind, TypeOK
  <2>2. \A kind \in {"stop", "return"} : closer'[<<d, kind>>] = closer[<<d, kind>>]
    <3> SUFFICES ASSUME NEW kind \in {"stop", "return"}
                 PROVE  closer'[<<d, kind>>] = closer[<<d, kind>>]
      OBVIOUS
    <3>1. <<d, kind>> \in Task /\ <<d, kind>> # <<c, "check">>
      BY <1>3 DEF Kind
    <3> QED
      BY <1>2, <3>1 DEF TypeOK
  <2> QED
    BY <1>1, <1>4, <1>5, <2>1, <2>2 DEF LifecycleInv, ConnInv, Holds
<1>7. ASSUME NEW t \in Task PROVE CloseInv(t)'
  <2>1. closer'[t] = "graceful" => closer[t] = "graceful"
    BY <1>2 DEF TypeOK
  <2> QED
    BY <1>1, <1>5, <2>1, TaskShape DEF LifecycleInv, CloseInv, Holds
<1>8. ASSUME NEW s \in SessionID PROVE MapInv(s)'
  <2>1. RefusedID(s) => RefusedID(s)'
    BY <1>1 DEF RefusedID
  <2> QED
    BY <1>5, <2>1 DEF LifecycleInv, MapInv
<1> QED
  BY <1>6, <1>7, <1>8 DEF LifecycleInv

\* closeSession finds nothing under its id: an earlier one closed the socket.
LEMMA LifecycleSkip ==
    ASSUME TypeOK, LifecycleInv, NEW t \in Task, CloseSkip(t)
    PROVE  LifecycleInv'
<1> USE IdentityAssumption, TaskShape DEF CloseSkip, Finished, GoTo, checkVars, serviceVars
<1>0. ~Holds(t[1]) /\ ConnInv(t[1]) /\ closer[<<t[1], t[2]>>] # "none"
  BY DEF Holds, LifecycleInv
<1>1. reader[t[1]] \notin {"idle"} \cup Admitting
  BY <1>0 DEF ConnInv, Kind, Refused, Admitting
<1>2. socket[t[1]] = "closed"
  BY <1>0, <1>1 DEF ConnInv, TypeOK, ReaderState
<1>3. \A u \in Task : closer[u] = "none" => closer'[u] = "none"
  BY DEF TypeOK
<1>4. ASSUME NEW d \in Conn PROVE ConnInv(d)'
  <2>1. \A kind \in Kind : <<d, kind>> \in Task
    BY DEF Task
  <2> QED
    BY <1>1, <1>2, <1>3, <2>1
    DEF LifecycleInv, ConnInv, Holds, Refused, TypeOK, InLoop, Admitting, Serving, Kind
<1>5. ASSUME NEW u \in Task PROVE CloseInv(u)'
  BY DEF LifecycleInv, CloseInv, Holds, Refused, TypeOK
<1>6. ASSUME NEW s \in SessionID PROVE MapInv(s)'
  BY DEF LifecycleInv, MapInv, RefusedID, Refused
<1> QED
  BY <1>4, <1>5, <1>6 DEF LifecycleInv

\* closeSession begins: what is registered under its id is its own connection.
LEMMA LifecycleCloseBegin ==
    ASSUME TakingTurns, TypeOK, LifecycleInv, NEW t \in Task, CloseBegin(t)
    PROVE  LifecycleInv' /\ Holds(t[1])
<1> USE IdentityAssumption, TaskShape, TaskAssumption
    DEF CloseBegin, CloseUpstream, Untracked, checkVars
<1>1. Holds(t[1])
  BY CloserActive, ActiveOwner
<1>2. \A u \in Task : /\ closer[u] = "none" => closer'[u] = "none"
                      /\ closer'[u] = "graceful" => u = t
  BY DEF TypeOK, LifecycleInv, CloseInv
<1>3. ASSUME NEW d \in Conn PROVE ConnInv(d)'
  <2>1. \A kind \in Kind : <<d, kind>> \in Task /\ (closer'[<<d, kind>>] # "none"
                                                      => closer[<<d, kind>>] # "none")
    BY <1>2 DEF Task
  <2>2. d \in live' => d \in live /\ (upstream[SidOf[d]] = d => upstream'[SidOf[d]] = d)
    BY DEF TypeOK
  <2> QED
    BY <2>1, <2>2 DEF LifecycleInv, ConnInv, Holds, Refused, InLoop, Kind
<1>4. ASSUME NEW u \in Task PROVE CloseInv(u)'
  BY <1>1, <1>2 DEF CloseInv, Holds, TypeOK
<1>5. ASSUME NEW s \in SessionID PROVE MapInv(s)'
  BY DEF LifecycleInv, MapInv, RefusedID, Refused, TypeOK
<1> QED
  BY <1>1, <1>3, <1>4, <1>5 DEF LifecycleInv

\* closeSession ends: it frees an id under which nothing was entered since.
LEMMA LifecycleCloseEnd ==
    ASSUME TypeOK, LifecycleInv, NEW t \in Task, CloseEnd(t)
    PROVE  LifecycleInv'
<1> USE IdentityAssumption, TaskShape, TaskAssumption
    DEF CloseEnd, Finished, Unregistered, GoTo, checkVars, serviceVars
<1>1. /\ Holds(t[1]) /\ holder = t
      /\ \/ processor[SidOf[t[1]]] = NoConn /\ upstream[SidOf[t[1]]] = NoConn
         \/ Refused(t[1])
  BY DEF LifecycleInv, CloseInv
<1>2. \A u \in Task : /\ closer[u] = "none" => closer'[u] = "none"
                      /\ closer'[u] # "graceful"
  BY <1>1 DEF TypeOK, LifecycleInv, CloseInv
<1>3. t[2] \in {"stop", "return"} \/ Refused(t[1])
  BY DEF LifecycleInv, ConnInv, Kind
<1>4. reader[t[1]] \in {"closing", "ended"} \/ Refused(t[1])
  BY <1>3 DEF LifecycleInv, ConnInv, Kind
<1>5. reader[t[1]] \notin {"idle"} \cup Admitting
  BY <1>4 DEF LifecycleInv, ConnInv, Refused, Admitting
<1>6. ASSUME NEW d \in Conn PROVE ConnInv(d)'
  <2>1. \A kind \in Kind : <<d, kind>> \in Task /\ (closer'[<<d, kind>>] # "none"
                                                      => closer[<<d, kind>>] # "none")
    BY <1>2 DEF Task
  <2>2. CASE d = t[1]
    <3>1. d \in live => Refused(d)
      <4>1. ConnInv(d) /\ d # NoConn
        BY DEF LifecycleInv
      <4> QED
        BY <1>1, <2>2, <4>1 DEF ConnInv
    <3>2. ~Holds(d)' /\ socket'[d] = "closed"
      BY <2>2 DEF Holds, TypeOK
    <3> QED
      BY <1>4, <1>5, <2>1, <2>2, <3>1, <3>2
      DEF LifecycleInv, ConnInv, Refused, InLoop, Kind, TypeOK, Admitting, Serving
  <2>3. CASE d # t[1]
    <3>1. Holds(d)' <=> Holds(d)
      BY <1>1, <2>3 DEF Holds, TypeOK
    <3> QED
      BY <2>1, <2>3, <3>1 DEF LifecycleInv, ConnInv, Refused, InLoop, Kind, TypeOK
  <2> QED
    BY <2>2, <2>3
<1>7. ASSUME NEW u \in Task PROVE CloseInv(u)'
  BY <1>2 DEF CloseInv
<1>8. ASSUME NEW s \in SessionID PROVE MapInv(s)'
  BY <1>1 DEF LifecycleInv, MapInv, RefusedID, Refused, TypeOK
<1> QED
  BY <1>6, <1>7, <1>8 DEF LifecycleInv

\* Every step of clients that take turns keeps the invariant.
LEMMA LifecycleStep ==
    ASSUME TakingTurns, TypeOK, LifecycleInv, [Next]_vars
    PROVE  LifecycleInv'
<1> USE DEF InLoop, Serving, gatewayVars, checkVars, serviceVars
<1>1. ASSUME NEW c \in Conn, Connect(c) PROVE LifecycleInv'
  BY <1>1, LifecycleAdmit
<1>2. ASSUME NEW c \in Conn, Admit(c) PROVE LifecycleInv'
  BY <1>2, LifecycleAdmit, LifecycleInit DEF Admit
<1>3. ASSUME NEW c \in Conn, Check(c) PROVE LifecycleInv'
  <2>1. CASE WaiterDo(c)
    BY <2>1, LifecycleSame DEF WaiterDo
  <2> QED
    BY <1>3, <2>1, LifecycleCheckBegin, LifecycleCheckEnd DEF Check
<1>4. ASSUME NEW c \in Conn, ReadError(c) PROVE LifecycleInv'
  <2>1. {"return"} \in SUBSET {"stop", "return"}
    OBVIOUS
  <2> QED
    BY <1>4, <2>1, ReturnLeaves, LifecycleLeave DEF ReadError
<1>5. ASSUME NEW c \in Conn, StartAudio(c) PROVE LifecycleInv'
  BY <1>5, LifecycleEnter DEF StartAudio, Tracked
<1>6. ASSUME NEW c \in Conn, StopNotStarted(c) PROVE LifecycleInv'
  BY <1>6, LifecycleStop DEF StopNotStarted
<1>7. ASSUME NEW c \in Conn, StopStarted(c) PROVE LifecycleInv'
  BY <1>7, LifecycleLoop DEF StopStarted
<1>8. ASSUME NEW c \in Conn, DialOK(c) PROVE LifecycleInv'
  BY <1>8, LifecycleEnter DEF DialOK
<1>9. ASSUME NEW c \in Conn, DialError(c) PROVE LifecycleInv'
  BY <1>9, LifecycleLoop DEF DialError
<1>10. ASSUME NEW c \in Conn, WaitDone(c) PROVE LifecycleInv'
  <2>1. CASE subscriptionValid[c]
    BY <1>10, <2>1, LifecycleLoop DEF WaitDone
  <2>2. CASE ~subscriptionValid[c]
    BY <1>10, <2>2, LifecycleStop DEF WaitDone
  <2> QED
    BY <2>1, <2>2
<1>11. ASSUME NEW c \in Conn, WaitTimeout(c) PROVE LifecycleInv'
  BY <1>11, LifecycleStop DEF WaitTimeout
<1>12. ASSUME NEW c \in Conn, StopLookup(c) PROVE LifecycleInv'
  <2>1. CASE processor[SidOf[c]] # NoConn
    BY <1>12, <2>1, LifecycleLoop DEF StopLookup
  <2>2. CASE processor[SidOf[c]] = NoConn
    BY <1>12, <2>2, LifecycleStop DEF StopLookup
  <2> QED
    BY <2>1, <2>2
<1>13. ASSUME NEW c \in Conn, CompleteLookup(c) PROVE LifecycleInv'
  BY <1>13, LifecycleLoop DEF CompleteLookup
<1>14. ASSUME NEW c \in Conn, CommitEnd(c) PROVE LifecycleInv'
  <2>1. /\ upstream' = [s \in SessionID |-> IF s \in {SidOf[c]} THEN NoConn ELSE upstream[s]]
        /\ live' = live \ {upstream[s] : s \in {SidOf[c]}}
    <3>1. SidOf[c] \in SessionID /\ CloseUpstream(SidOf[c])
      BY <1>14, IdentityAssumption DEF CommitEnd
    <3> QED
      BY <3>1, DropOne
  <2> QED
    <3>1. \A d \in Conn : \/ reader'[d] = reader[d]
                          \/ InLoop(d) /\ reader'[d] \in Serving \ {"closing"}
      BY <1>14 DEF CommitEnd, GoTo, TypeOK
    <3>2. /\ {SidOf[c]} \in SUBSET SessionID
          /\ UNCHANGED <<sessions, holder, socket, check, closer, processor>>
      BY <1>14, IdentityAssumption DEF CommitEnd
    <3> HIDE DEF InLoop, Serving
    <3> QED
      BY <2>1, <3>1, <3>2, LifecycleDrop
<1>15. ASSUME NEW c \in Conn, SendCompleted(c) PROVE LifecycleInv'
  BY <1>15, LifecycleStop DEF SendCompleted
<1>16. ASSUME NEW t \in Task, Close(t) PROVE LifecycleInv'
  BY <1>16, LifecycleSkip, LifecycleCloseBegin, LifecycleCloseEnd DEF Close
<1>17. ASSUME NEW s \in SessionID, CleanerCollect(s) PROVE LifecycleInv'
  BY <1>17, LifecycleSame DEF CleanerCollect
<1>18. ASSUME NEW s \in SessionID, CleanerClose(s) PROVE LifecycleInv'
  <2>1. /\ upstream' = [i \in SessionID |-> IF i \in {s} THEN NoConn ELSE upstream[i]]
        /\ live' = live \ {upstream[i] : i \in {s}}
    BY <1>18, DropOne DEF CleanerClose
  <2> QED
    BY <1>18, <2>1, LifecycleDrop DEF CleanerClose
<1>19. CASE ServiceClose
  <2>1. upstream' = [s \in SessionID |-> IF s \in SessionID THEN NoConn ELSE upstream[s]]
    BY <1>19 DEF ServiceClose
  <2> QED
    BY <1>19, <2>1, LifecycleDrop DEF ServiceClose
<1>20. CASE UNCHANGED vars
  BY <1>20, LifecycleSame DEF vars
<1> QED
  BY <1>1, <1>2, <1>3, <1>4, <1>5, <1>6, <1>7, <1>8, <1>9, <1>10, <1>11, <1>12, <1>13,
     <1>14, <1>15, <1>16, <1>17, <1>18, <1>19, <1>20
  DEF Next, Serve, Receive, Handle, Clean

\* A connection begins when its client connects, and what is over stays over.
LEMMA BeginsOnce ==
    ASSUME TypeOK, LifecycleInv, Serve, NEW c \in Conn
    PROVE  /\ reader[c] = "idle" => reader'[c] = "idle"
           /\ Over(c) => Over(c)'
<1> DEFINE same == reader'[c] = reader[c]
           rest == /\ check'[c] = check[c]
                   /\ \A kind \in Kind : closer'[<<c, kind>>] = closer[<<c, kind>>]
<1> SUFFICES ASSUME reader[c] = "idle" \/ Over(c)
             PROVE  /\ reader[c] = "idle" => same
                    /\ Over(c) => Over(c)'
  OBVIOUS
<1> USE DEF TypeOK, GoTo
<1>1. reader[c] \in {"idle", "ended"} /\ \A kind \in Kind : <<c, kind>> \in Task
  BY DEF Over, Task
<1>2. same /\ rest /\ Over(c) => Over(c)'
  BY DEF Over
<1>3. ASSUME NEW d \in Conn, Admit(d) PROVE same /\ (Over(c) => Over(c)')
  BY <1>1, <1>3
  DEF Admit, CheckUserConnectionLimit, CheckUniqueID, InitSession, gatewayVars, checkVars,
      Over
<1>4. ASSUME NEW d \in Conn, Check(d) PROVE same /\ (Over(c) => Over(c)')
  <2>1. CASE CheckEnd(d)
    BY <1>1, <2>1 DEF CheckEnd, Spawned, Over, Task, Kind
  <2> QED
    BY <1>1, <1>4, <2>1 DEF Check, CheckBegin, WaiterDo, gatewayVars, Over
<1>5. ASSUME NEW d \in Conn, ReadError(d) \/ Receive(d) \/ Handle(d) PROVE same /\ rest
  BY <1>1, <1>5
  DEF ReadError, Receive, Handle, StartAudio, StopNotStarted, StopStarted, DialOK,
      DialError, WaitDone, WaitTimeout, StopLookup, CompleteLookup, CommitEnd,
      SendCompleted, Return, ReturnFromStop, Spawned, gatewayVars, checkVars, Task, Kind
<1>6. ASSUME NEW t \in Task, Close(t) PROVE same /\ (Over(c) => Over(c)')
  <2>1. t = <<t[1], t[2]>> /\ t[1] \in Conn /\ t[2] \in Kind
    BY TaskShape
  <2>2. closer[t] \in {"waiting", "graceful"} /\ check' = check
    BY <1>6 DEF Close, CloseSkip, CloseBegin, CloseEnd, checkVars
  <2>3. t[1] # c
    BY <2>1, <2>2, CloserActive DEF Active
  <2>4. same
    BY <1>6, <2>3 DEF Close, CloseSkip, CloseBegin, CloseEnd, Finished
  <2>5. \A kind \in Kind : closer'[<<c, kind>>] = closer[<<c, kind>>]
    BY <1>1, <1>6, <2>1, <2>3 DEF Close, CloseSkip, CloseBegin, CloseEnd
  <2> QED
    BY <1>2, <2>2, <2>4, <2>5
<1>7. ASSUME NEW s \in SessionID, Clean(s) PROVE same /\ rest
  BY <1>7 DEF Clean, CleanerCollect, CleanerClose, gatewayVars, checkVars
<1>8. CASE ServiceClose
  BY <1>2, <1>8 DEF ServiceClose, gatewayVars, checkVars
<1> QED
  BY <1>1, <1>2, <1>3, <1>4, <1>5, <1>6, <1>7, <1>8 DEF Serve

\* Clients that take turns are clients.
LEMMA TurnsAreSpec == TurnsSpec => Spec
<1>1. [TurnsNext]_vars => [Next]_vars
  BY DEF TurnsNext, Next
<1> QED
  BY <1>1, PTL DEF TurnsSpec, Spec

\* They go on taking turns: an id in use is not connected under, and what is over
\* does not begin again.
LEMMA TurnsKept ==
    ASSUME TypeOK, TakingTurns, LifecycleInv, [TurnsNext]_vars
    PROVE  [Next]_vars /\ TakingTurns'
<1>1. CASE \E c \in Conn : Connect(c) /\ TakingTurns'
  BY <1>1 DEF Next
<1>2. CASE Serve
  BY <1>2, BeginsOnce DEF Next, TakingTurns
<1>3. CASE UNCHANGED vars
  BY <1>3 DEF vars, TakingTurns, Over
<1> QED
  BY <1>1, <1>2, <1>3 DEF TurnsNext

\* When clients take turns with an id, the lifecycle invariant holds for any
\* number of connections and every outcome of their checks.
THEOREM Lifecycle == TurnsSpec => []LifecycleInv
<1>1. Init => TakingTurns /\ LifecycleInv
  BY IdentityAssumption, TaskShape
  DEF Init, TakingTurns, LifecycleInv, ConnInv, CloseInv, MapInv, Holds, Refused, InLoop,
      Serving, Task, Kind
<1>2. TypeOK /\ TakingTurns /\ LifecycleInv /\ [TurnsNext]_vars
        => TakingTurns' /\ LifecycleInv'
  BY TurnsKept, LifecycleStep
<1>3. []TypeOK /\ TurnsSpec => []LifecycleInv
  BY <1>1, <1>2, PTL DEF TurnsSpec
<1> QED
  BY <1>3, TurnsAreSpec, TypeCorrect

\* ... and they do take turns.
LEMMA TurnsTaken == TurnsSpec => Spec /\ []TakingTurns
<1>1. Init => TakingTurns
  BY DEF Init, TakingTurns
<1>2. TypeOK /\ TakingTurns /\ LifecycleInv /\ [TurnsNext]_vars => TakingTurns'
  BY TurnsKept
<1>3. []TypeOK /\ []LifecycleInv /\ TurnsSpec => []TakingTurns
  BY <1>1, <1>2, PTL DEF TurnsSpec
<1> QED
  BY <1>3, Lifecycle, TurnsAreSpec, TypeCorrect

\* Clients that choose an id for every connection take turns, trivially.
THEOREM OwnIDs == OneIDEach => (Spec => TurnsSpec)
<1> SUFFICES ASSUME OneIDEach PROVE Spec => TurnsSpec
  OBVIOUS
<1>1. TakingTurns'
  BY DEF OneIDEach, TakingTurns
<1>2. [Next]_vars => [TurnsNext]_vars
  BY <1>1 DEF Next, TurnsNext
<1> QED
  BY <1>2, PTL DEF Spec, TurnsSpec

\* A connection in its read loop is registered, or its check refused it.
THEOREM ServedRegistered == TurnsSpec => []ServedIsRegistered
<1>1. LifecycleInv => ServedIsRegistered
  BY DEF LifecycleInv, ConnInv, ServedIsRegistered
<1> QED
  BY <1>1, Lifecycle, PTL

\* An id without a session is free everywhere, unless a client was refused.
THEOREM FreedIDClean == TurnsSpec => []FreedIDLeavesNothing
<1>1. LifecycleInv => FreedIDLeavesNothing
  BY DEF LifecycleInv, MapInv, FreedIDLeavesNothing
<1> QED
  BY <1>1, Lifecycle, PTL

\* Nothing of a connection that was not refused outlives its handler, and no
\* socket outlives it.
THEOREM EndedClean == TurnsSpec => []EndedLeavesNothing
<1>1. LifecycleInv => EndedLeavesNothing
  BY DEF LifecycleInv, ConnInv, EndedLeavesNothing
<1> QED
  BY <1>1, Lifecycle, PTL

\* While the check answers what it answers today, nobody is refused: what is
\* promised to clients that were not is promised to all.
THEOREM NobodyRefused == AlwaysValid => (Spec => [](\A c \in Conn : ~Refused(c)))
<1> SUFFICES ASSUME AlwaysValid PROVE Spec => [](\A c \in Conn : ~Refused(c))
  OBVIOUS
<1> DEFINE Nobody == \A c \in Conn : ~Refused(c)
<1>1. Init => Nobody
  BY DEF Init, Refused
<1>2. TypeOK /\ Nobody /\ [Next]_vars => Nobody'
  <2> SUFFICES ASSUME TypeOK, Nobody, [Next]_vars PROVE Nobody'
    OBVIOUS
  <2>1. ASSUME NEW c \in Conn, InitSession(c) \/ CheckBegin(c) \/ CheckEnd(c) PROVE Nobody'
    BY <2>1 DEF InitSession, CheckBegin, CheckEnd, Refused, TypeOK, AlwaysValid
  <2>2. ASSUME NEW c \in Conn,
               Connect(c) \/ CheckUserConnectionLimit(c) \/ CheckUniqueID(c)
               \/ WaiterDo(c) \/ ReadError(c) \/ Receive(c) \/ Handle(c)
        PROVE  UNCHANGED check
    BY <2>2, Zenon
    DEF Connect, CheckUserConnectionLimit, CheckUniqueID, WaiterDo, ReadError, Receive,
        Handle, StartAudio, StopNotStarted, StopStarted, DialOK, DialError, WaitDone,
        WaitTimeout, StopLookup, CompleteLookup, CommitEnd, SendCompleted, checkVars
  <2>3. ASSUME NEW t \in Task, Close(t) PROVE UNCHANGED check
    BY <2>3 DEF Close, CloseSkip, CloseBegin, CloseEnd, checkVars
  <2>4. ASSUME NEW s \in SessionID, Clean(s) PROVE UNCHANGED check
    BY <2>4 DEF Clean, CleanerCollect, CleanerClose, checkVars
  <2>5. ServiceClose \/ UNCHANGED vars => UNCHANGED check
    BY DEF ServiceClose, checkVars, vars
  <2>6. UNCHANGED check => Nobody'
    BY DEF Refused
  <2> HIDE DEF Nobody
  <2> QED
    BY <2>1, <2>2, <2>3, <2>4, <2>5, <2>6 DEF Next, Serve, Admit, Check
<1> QED
  BY <1>1, <1>2, TypeCorrect, PTL DEF Spec

\* The socket of an admitted client that was not refused is closed only after
\* its read loop ended.
THEOREM SocketLast == TurnsSpec => SocketClosedLast
<1>1. TypeOK /\ LifecycleInv /\ [Next]_vars
        => [\A c \in Conn : socket[c] = "open" /\ socket'[c] = "closed"
                              => ~InLoop(c) \/ Refused(c)]_vars
  <2> SUFFICES ASSUME TypeOK, LifecycleInv, Next,
                      NEW c \in Conn, socket[c] = "open", socket'[c] = "closed"
               PROVE  ~InLoop(c) \/ Refused(c)
    OBVIOUS
  <2>1. ASSUME NEW d \in Conn, Connect(d) \/ Admit(d) \/ Check(d) \/ ReadError(d)
                               \/ Receive(d) \/ Handle(d)
        PROVE  socket' # socket => reader[d] \in {"idle"} \cup Admitting
                                   /\ \E v : socket' = [socket EXCEPT ![d] = v]
    BY <2>1, Zenon
    DEF Admit, Check, Receive, Handle, Connect, CheckUserConnectionLimit, CheckUniqueID,
        InitSession, CheckBegin, CheckEnd, WaiterDo, ReadError, StartAudio,
        StopNotStarted, StopStarted, DialOK, DialError, WaitDone, WaitTimeout,
        StopLookup, CompleteLookup, CommitEnd, SendCompleted, Admitting
  <2>2. ASSUME NEW d \in Conn, Connect(d) \/ Admit(d) \/ Check(d) \/ ReadError(d)
                               \/ Receive(d) \/ Handle(d)
        PROVE  ~InLoop(c)
    <3>1. d = c
      BY <2>1, <2>2 DEF TypeOK
    <3> QED
      BY <2>1, <2>2, <3>1 DEF InLoop, Serving, Admitting
  <2>3. ASSUME NEW t \in Task, Close(t) PROVE ~InLoop(c) \/ Refused(c)
    <3>1. closer[<<t[1], t[2]>>] # "none" /\ t[1] = c /\ t[2] \in Kind
      BY <2>3, TaskShape DEF Close, CloseSkip, CloseBegin, CloseEnd, TypeOK
    <3>2. ConnInv(c)
      BY DEF LifecycleInv
    <3> QED
      BY <3>1, <3>2 DEF ConnInv, Kind, InLoop, Serving
  <2>4. ASSUME NEW s \in SessionID, Clean(s) PROVE FALSE
    BY <2>4 DEF Clean, CleanerCollect, CleanerClose
  <2>5. CASE ServiceClose
    BY <2>5 DEF ServiceClose
  <2> QED
    BY <2>2, <2>3, <2>4, <2>5 DEF Next, Serve
<1> QED
  BY <1>1, TypeCorrect, Lifecycle, TurnsTaken, PTL DEF Spec, SocketClosedLast

\* A client that was refused is not forgotten: its socket is closed, so that its
\* next read fails, or an execution of closeSession that will close it is under way.
RefusalFollowed ==
    \A c \in Conn : Refused(c) =>
        socket[c] = "closed" \/ closer[<<c, "check">>] \in {"waiting", "graceful"}

LEMMA SocketStays ==
    ASSUME TypeOK, [Next]_vars, NEW c \in Conn, socket[c] = "closed", reader[c] # "idle"
    PROVE  socket'[c] = "closed"
<1>1. ASSUME NEW d \in Conn, Connect(d) \/ Admit(d) PROVE socket'[c] = "closed"
  BY <1>1 DEF Connect, Admit, CheckUserConnectionLimit, CheckUniqueID, InitSession, TypeOK
<1>2. ASSUME NEW d \in Conn, Check(d) \/ ReadError(d) \/ Receive(d) PROVE socket'[c] = "closed"
  BY <1>2 DEF Check, CheckBegin, CheckEnd, WaiterDo, ReadError, Receive, StartAudio,
              StopNotStarted, StopStarted
<1>3. ASSUME NEW d \in Conn, Handle(d) PROVE socket'[c] = "closed"
  BY <1>3 DEF Handle, DialOK, DialError, WaitDone, WaitTimeout, StopLookup,
              CompleteLookup, CommitEnd, SendCompleted
<1>4. ASSUME NEW t \in Task, Close(t) PROVE socket'[c] = "closed"
  BY <1>4 DEF Close, CloseSkip, CloseBegin, CloseEnd, TypeOK
<1>5. CASE (\E s \in SessionID : Clean(s)) \/ ServiceClose
  BY <1>5 DEF Clean, CleanerCollect, CleanerClose, ServiceClose
<1>6. CASE UNCHANGED vars
  BY <1>6 DEF vars
<1> QED
  BY <1>1, <1>2, <1>3, <1>4, <1>5, <1>6 DEF Next, Serve

\* With LockHeld, what RejectedEnds rests on: when clients take turns, the close that
\* a refusal starts never gives up before the socket is closed, however long it
\* waits for a client that goes on sending.
THEOREM RefusalsClose == TurnsSpec => []RefusalFollowed
<1>1. Init => RefusalFollowed
  BY DEF Init, RefusalFollowed, Refused
<1>2. ASSUME TypeOK, LifecycleInv, RefusalFollowed, [Next]_vars PROVE RefusalFollowed'
  <2> SUFFICES ASSUME NEW c \in Conn, check'[c] = "rejected", socket'[c] # "closed"
               PROVE  closer'[<<c, "check">>] \in {"waiting", "graceful"}
    BY DEF RefusalFollowed, Refused
  <2> USE <1>2
  <2> DEFINE own == <<c, "check">>
             Waits == closer[own] \in {"waiting", "graceful"}
  <2>1. own \in Task /\ ConnInv(c)
    BY DEF Task, Kind, LifecycleInv
  <2>2. check[c] = "rejected" => Waits
    <3>1. check[c] = "rejected" => reader[c] # "idle"
      BY <2>1 DEF ConnInv
    <3> QED
      BY <3>1, SocketStays DEF RefusalFollowed, Refused
  <2> HIDE DEF own
  <2>3. ASSUME NEW d \in Conn,
               Connect(d) \/ Admit(d) \/ Check(d) \/ ReadError(d) \/ Receive(d) \/ Handle(d)
        PROVE  closer'[own] \in {"waiting", "graceful"}
    <3>1. CASE Moves(d)
      <4>1. check[c] = "rejected" /\ closer' = closer
        BY <3>1 DEF Moves, TypeOK
      <4> QED
        BY <2>2, <4>1
    <3>2. CASE Refuses(d)
      BY <2>1, <2>2, <3>2 DEF Refuses, Spawned, TypeOK, own
    <3>3. CASE Leaves(d)
      <4>1. check' = check /\ closer'[own] = closer[own]
        BY <2>1, <3>3 DEF Leaves, Return, ReturnFromStop, Spawned, TypeOK, own
      <4> QED
        BY <2>2, <4>1
    <3> QED
      BY <2>3, <3>1, <3>2, <3>3, GoroutineStep
  <2>4. ASSUME NEW t \in Task, Close(t)
        PROVE  closer'[own] \in {"waiting", "graceful"}
    <3>1. check' = check
      BY <2>4 DEF Close, CloseSkip, CloseBegin, CloseEnd, checkVars
    <3>2. CASE t # own
      <4>1. closer'[own] = closer[own]
        BY <2>1, <2>4, <3>2 DEF Close, CloseSkip, CloseBegin, CloseEnd, TypeOK
      <4> QED
        BY <2>2, <3>1, <4>1
    <3>3. CASE t = own
      <4>1. t[1] = c /\ SidOf[c] \in SessionID
        BY <3>3, IdentityAssumption DEF own
      <4>2. ~CloseEnd(t)
        BY <4>1 DEF CloseEnd, TypeOK
      <4>3. ~CloseSkip(t)
        <5> SUFFICES ASSUME CloseSkip(t) PROVE FALSE
          OBVIOUS
        <5>1. ~Holds(c) /\ socket' = socket /\ socket[c] # "closed"
          BY <4>1, IdentityAssumption DEF CloseSkip, Holds
        <5>2. reader[c] \notin Serving \cup {"ended"}
          BY <2>1, <5>1 DEF ConnInv
        <5>3. check[c] = "none"
          BY <2>1, <5>2 DEF ConnInv, TypeOK, ReaderState
        <5> QED
          BY <3>1, <5>3
      <4>4. CloseBegin(t)
        BY <2>4, <4>2, <4>3 DEF Close
      <4> QED
        BY <2>1, <3>3, <4>4 DEF CloseBegin, TypeOK
    <3> QED
      BY <3>2, <3>3
  <2>5. CASE (\E s \in SessionID : Clean(s)) \/ ServiceClose \/ UNCHANGED vars
    <3>1. check' = check /\ closer' = closer
      BY <2>5 DEF Clean, CleanerCollect, CleanerClose, ServiceClose, vars, gatewayVars,
                  checkVars
    <3> QED
      BY <2>2, <3>1 DEF own
  <2> QED
    BY <2>3, <2>4, <2>5 DEF Next, Serve, own
<1>3. TypeOK /\ LifecycleInv /\ RefusalFollowed /\ [Next]_vars => RefusalFollowed'
  BY <1>2
<1> QED
  BY <1>1, <1>3, TypeCorrect, Lifecycle, TurnsTaken, PTL DEF Spec

\* When clients take turns, an execution of closeSession that takes effect finds
\* its own session: run gateway_stale_close shows what two clients of one id do
\* to each other.
THEOREM CloseFindsOwn == TurnsSpec => CloseFindsOwnSession
<1>1. TypeOK /\ TakingTurns /\ LifecycleInv /\ [Next]_vars
        => [\A t \in Task : closer[t] = "waiting" /\ closer'[t] = "graceful"
                              => sessions[SidOf[t[1]]] = t[1]]_vars
  <2> SUFFICES ASSUME TypeOK, TakingTurns, LifecycleInv, Next, NEW t \in Task,
                      closer[t] = "waiting", closer'[t] = "graceful"
               PROVE  sessions[SidOf[t[1]]] = t[1]
    OBVIOUS
  <2> USE DEF TypeOK
  <2>1. ASSUME NEW c \in Conn, Connect(c) \/ Admit(c) \/ Check(c) \/ ReadError(c)
                               \/ Receive(c) \/ Handle(c)
        PROVE  FALSE
    <3>1. \E kinds \in SUBSET Kind :
            closer' = [u \in Task |-> IF u[1] = c /\ u[2] \in kinds THEN "waiting" ELSE closer[u]]
      <4>1. closer = [u \in Task |-> IF u[1] = c /\ u[2] \in {} THEN "waiting" ELSE closer[u]]
        OBVIOUS
      <4>2. ReturnFromStop(c, "completed") \/ ReturnFromStop(c, "notStarted")
            \/ ReturnFromStop(c, "subscription") \/ ReturnFromStop(c, "timeout")
            \/ ReturnFromStop(c, "failed") \/ Return(c) \/ UNCHANGED closer
            \/ closer' = Spawned(closer, c, "check")
        BY <2>1, Zenon
        DEF Connect, Admit, CheckUserConnectionLimit, CheckUniqueID, InitSession, Check,
            CheckBegin, CheckEnd, WaiterDo, ReadError, Receive, StartAudio, StopNotStarted,
            StopStarted, Handle, DialOK, DialError, WaitDone, WaitTimeout, StopLookup,
            CompleteLookup, CommitEnd, SendCompleted, gatewayVars
      <4>3. closer' = Spawned(closer, c, "check")
              => closer' = [u \in Task |-> IF u[1] = c /\ u[2] \in {"check"} THEN "waiting"
                                                                             ELSE closer[u]]
        <5>1. \A u \in Task : u = <<c, "check">> <=> u[1] = c /\ u[2] = "check"
          BY DEF Task
        <5> QED
          BY <5>1 DEF Spawned
      <4> QED
        BY <4>1, <4>2, <4>3, ReturnLeaves DEF Kind
    <3> QED
      BY <3>1
  <2>2. ASSUME NEW u \in Task, Close(u) PROVE sessions[SidOf[t[1]]] = t[1]
    <3>1. CASE CloseBegin(u)
      <4>1. u = t
        BY <3>1 DEF CloseBegin
      <4> QED
        BY <3>1, <4>1, LifecycleCloseBegin DEF Holds
    <3>2. CASE CloseSkip(u) \/ CloseEnd(u)
      BY <3>2 DEF CloseSkip, CloseEnd
    <3> QED
      BY <2>2, <3>1, <3>2 DEF Close
  <2>3. ASSUME NEW s \in SessionID, Clean(s) PROVE FALSE
    BY <2>3 DEF Clean, CleanerCollect, CleanerClose, gatewayVars
  <2>4. CASE ServiceClose
    BY <2>4 DEF ServiceClose, gatewayVars
  <2> QED
    BY <2>1, <2>2, <2>3, <2>4 DEF Next, Serve
<1> QED
  BY <1>1, TypeCorrect, Lifecycle, TurnsTaken, PTL DEF Spec, CloseFindsOwnSession

(***************************************************************************)
(* The gateway implements the lease of session ids.  Only four kinds of    *)
(* steps move the lease: initSession grants an id, StartSession and the    *)
(* registration of the OpenAI session occupy it, every close and the       *)
(* cleaner vacate it, and the end of closeSession frees it.                *)
(***************************************************************************)
Occupied == {s \in SessionID :
               (processor[s] # NoConn \/ upstream[s] # NoConn) /\ ~RefusedID(s)}
Admitted == {c \in Conn : check[c] # "none"}

\* A step that registers nothing in the services, admits nobody, pardons nobody
\* and frees no id is a step of the lease in which services drop what they like.
LEMMA DropStep ==
    ASSUME UNCHANGED sessions, Admitted' = Admitted,
           \A s \in SessionID : /\ processor'[s] # NoConn => processor[s] # NoConn
                                /\ upstream'[s] # NoConn => upstream[s] # NoConn
                                /\ RefusedID(s) => RefusedID(s)'
    PROVE  Lease!Next
<1>1. PICK ids \in SUBSET SessionID : Occupied' = Occupied \ ids
  <2>1. Occupied' \subseteq Occupied /\ Occupied \ Occupied' \in SUBSET SessionID
    BY DEF Occupied
  <2> QED
    BY <2>1
<1>2. Lease!Vacate(ids)
  BY <1>1, Zenon DEF Lease!Vacate, Occupied, Admitted
<1> QED
  BY <1>2 DEF Lease!Next

\* A registration under an id that the connection holds occupies it; under the id
\* of a refused client it is not seen.
LEMMA OccupyStep ==
    ASSUME TypeOK, LifecycleInv, NEW c \in Conn, InLoop(c),
           UNCHANGED <<sessions, check>>,
           \A s \in SessionID \ {SidOf[c]} : processor'[s] = processor[s]
                                             /\ upstream'[s] = upstream[s],
           processor'[SidOf[c]] # NoConn \/ upstream'[SidOf[c]] # NoConn
    PROVE  [Lease!Next]_Lease!vars
<1>1. SidOf[c] \in SessionID /\ c # NoConn
  BY IdentityAssumption
<1>2. \A s \in SessionID : RefusedID(s)' <=> RefusedID(s)
  BY DEF RefusedID, Refused
<1>3. Admitted' = Admitted
  BY DEF Admitted
<1>4. CASE RefusedID(SidOf[c])
  <2>1. Occupied' = Occupied
    BY <1>2, <1>4 DEF Occupied
  <2> QED
    BY <1>3, <2>1, Zenon DEF Lease!vars, Occupied, Admitted
<1>5. CASE ~RefusedID(SidOf[c])
  <2>1. Occupied' = Occupied \cup {SidOf[c]}
    BY <1>1, <1>2, <1>5 DEF Occupied
  <2>2. sessions[SidOf[c]] # NoConn
    BY <1>1, <1>5 DEF LifecycleInv, ConnInv, RefusedID, Holds
  <2>3. Lease!Occupy(SidOf[c])
    BY <1>3, <2>1, <2>2, Zenon DEF Lease!Occupy, Occupied, Admitted
  <2> QED
    BY <1>1, <2>3 DEF Lease!Next
<1> QED
  BY <1>4, <1>5

\* When clients take turns, every step of the gateway is a step of the lease or
\* leaves it as it is.
LEMMA LeaseStep ==
    ASSUME TakingTurns, TypeOK, LifecycleInv, [Next]_vars
    PROVE  [Lease!Next]_Lease!vars
<1> USE IdentityAssumption, TaskAssumption
<1>a. UNCHANGED check => Admitted' = Admitted /\ \A s \in SessionID : RefusedID(s)' <=> RefusedID(s)
  BY DEF Admitted, RefusedID, Refused
<1>b. UNCHANGED <<sessions, processor, upstream, check>> => UNCHANGED Lease!vars
  BY DEF Lease!vars, RefusedID, Refused
<1>1. ASSUME NEW c \in Conn,
             Connect(c) \/ CheckUserConnectionLimit(c) \/ CheckUniqueID(c) \/ ReadError(c)
             \/ StopNotStarted(c) \/ StopStarted(c) \/ DialError(c) \/ WaitDone(c)
             \/ WaitTimeout(c) \/ StopLookup(c) \/ CompleteLookup(c) \/ SendCompleted(c)
             \/ WaiterDo(c)
      PROVE  UNCHANGED Lease!vars
  BY <1>1, <1>b, Zenon
  DEF Connect, CheckUserConnectionLimit, CheckUniqueID, ReadError, StopNotStarted,
      StopStarted, DialError, WaitDone, WaitTimeout, StopLookup, CompleteLookup,
      SendCompleted, WaiterDo, gatewayVars, checkVars, serviceVars
<1>2. ASSUME NEW c \in Conn, InitSession(c) PROVE Lease!Next
  <2>1. sessions[SidOf[c]] = NoConn
    BY <1>2, LifecycleInit
  <2>2. check[c] = "none"
    BY <1>2 DEF InitSession, LifecycleInv, ConnInv, Admitting
  <2>3. Admitted' = Admitted \cup {c} /\ c \notin Admitted
    BY <1>2, <2>2 DEF InitSession, Admitted, TypeOK
  <2>4. \A d \in Conn : Refused(d)' <=> Refused(d)
    BY <1>2, <2>2 DEF InitSession, Refused, TypeOK
  <2>5. Occupied' = Occupied
    BY <1>2, <2>4 DEF InitSession, Occupied, RefusedID, serviceVars
  <2>6. sessions' = [sessions EXCEPT ![SidOf[c]] = c]
    BY <1>2 DEF InitSession, Registered
  <2>7. Lease!Grant(c)
    BY <2>1, <2>3, <2>5, <2>6, Zenon DEF Lease!Grant, Admitted, Occupied
  <2> QED
    BY <2>7 DEF Lease!Next
<1>3. ASSUME NEW c \in Conn, CheckBegin(c) \/ CheckEnd(c) PROVE Lease!Next
  <2>1. Admitted' = Admitted
    BY <1>3 DEF CheckBegin, CheckEnd, Admitted, TypeOK
  <2>2. UNCHANGED <<sessions, processor, upstream>>
    BY <1>3 DEF CheckBegin, CheckEnd, gatewayVars, serviceVars
  <2>3. \A d \in Conn : Refused(d) => Refused(d)'
    BY <1>3 DEF CheckBegin, CheckEnd, Refused, TypeOK
  <2>4. \A s \in SessionID : RefusedID(s) => RefusedID(s)'
    BY <2>3 DEF RefusedID
  <2> QED
    BY <2>1, <2>2, <2>4, DropStep
<1>4. ASSUME NEW c \in Conn, StartAudio(c) PROVE [Lease!Next]_Lease!vars
  BY <1>4, OccupyStep
  DEF StartAudio, Tracked, InLoop, Serving, gatewayVars, checkVars, TypeOK
<1>5. ASSUME NEW c \in Conn, DialOK(c) PROVE [Lease!Next]_Lease!vars
  BY <1>5, OccupyStep DEF DialOK, InLoop, Serving, gatewayVars, checkVars, TypeOK
<1>6. ASSUME NEW c \in Conn, CommitEnd(c) PROVE Lease!Next
  BY <1>6, <1>a, DropStep DEF CommitEnd, CloseUpstream, gatewayVars, checkVars, TypeOK
<1>7. ASSUME NEW t \in Task, CloseSkip(t) PROVE UNCHANGED Lease!vars
  BY <1>7, <1>b DEF CloseSkip, checkVars, serviceVars
<1>8. ASSUME NEW t \in Task, CloseBegin(t) PROVE Lease!Next
  BY <1>8, <1>a, DropStep, TaskShape
  DEF CloseBegin, CloseUpstream, Untracked, checkVars, TypeOK
<1>9. ASSUME NEW t \in Task, CloseEnd(t) PROVE Lease!Next
  <2>1. t[1] \in Conn /\ SidOf[t[1]] \in SessionID
    BY TaskShape
  <2>2. /\ sessions[SidOf[t[1]]] # NoConn
        /\ SidOf[t[1]] \notin Occupied
    BY <1>9, <2>1
    DEF CloseEnd, LifecycleInv, CloseInv, Holds, Occupied, RefusedID
  <2>3. Occupied' = Occupied /\ Admitted' = Admitted
    BY <1>9, <1>a DEF CloseEnd, Occupied, checkVars, serviceVars
  <2>4. sessions' = [sessions EXCEPT ![SidOf[t[1]]] = NoConn]
    BY <1>9 DEF CloseEnd, Unregistered
  <2>5. Lease!Free(SidOf[t[1]])
    BY <2>2, <2>3, <2>4, Zenon DEF Lease!Free, Occupied, Admitted
  <2> QED
    BY <2>1, <2>5 DEF Lease!Next
<1>10. ASSUME NEW s \in SessionID, CleanerCollect(s) PROVE UNCHANGED Lease!vars
  BY <1>10, <1>b DEF CleanerCollect, gatewayVars, checkVars
<1>11. ASSUME NEW s \in SessionID, CleanerClose(s) PROVE Lease!Next
  BY <1>11, <1>a, DropStep DEF CleanerClose, CloseUpstream, gatewayVars, checkVars, TypeOK
<1>12. CASE ServiceClose
  BY <1>12, <1>a, DropStep DEF ServiceClose, gatewayVars, checkVars
<1>13. CASE UNCHANGED vars
  BY <1>13, <1>b DEF vars
<1> QED
  BY <1>1, <1>2, <1>3, <1>4, <1>5, <1>6, <1>7, <1>8, <1>9, <1>10, <1>11, <1>12, <1>13
  DEF Next, Serve, Admit, Check, Receive, Handle, Close, Clean

\* The gateway implements SessionLease for any number of connections and every
\* outcome of their checks, when clients take turns with an id: it is given once
\* to each, held by one at a time, and given up empty unless a client was refused.
THEOREM ImplementsLease == TurnsSpec => LeaseSpec
<1>1. Init => Lease!Init
  BY DEF Init, Lease!Init
<1>2. TakingTurns /\ TypeOK /\ LifecycleInv /\ [Next]_vars => [Lease!Next]_Lease!vars
  BY LeaseStep
<1> QED
  BY <1>1, <1>2, TypeCorrect, Lifecycle, TurnsTaken, PTL DEF Spec, LeaseSpec, Lease!Spec
=============================================================================
