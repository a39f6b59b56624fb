---------------------------- MODULE SessionLease ----------------------------
(***************************************************************************)
(* What a session id promises, without goroutines, locks or sockets: a     *)
(* connection holds it from its admission to its close, the services keep  *)
(* something under it only meanwhile, and it is given up empty.  Whoever   *)
(* gets it next starts from nothing.                                       *)
(***************************************************************************)
CONSTANTS
    Conn,       \* connections
    SessionID,  \* session ids
    SidOf,      \* the id that a connection asks for
    NoConn      \* a free id

VARIABLES
    owner,      \* id -> the connection that holds it
    occupied,   \* ids under which a service keeps something
    served      \* connections that were given their id

vars == <<owner, occupied, served>>

Init ==
    /\ owner = [s \in SessionID |-> NoConn]
    /\ occupied = {}
    /\ served = {}

\* A connection is given its id once, when nobody holds it.
Grant(c) ==
    /\ c \notin served
    /\ owner[SidOf[c]] = NoConn
    /\ owner' = [owner EXCEPT ![SidOf[c]] = c]
    /\ served' = served \cup {c}
    /\ UNCHANGED occupied

\* Only the holder's calls leave something under the id.
Occupy(s) ==
    /\ owner[s] # NoConn
    /\ occupied' = occupied \cup {s}
    /\ UNCHANGED <<owner, served>>

\* A service may drop what it keeps at any time, for many ids at once.
Vacate(ids) ==
    /\ occupied' = occupied \ ids
    /\ UNCHANGED <<owner, served>>

Free(s) ==
    /\ owner[s] # NoConn
    /\ s \notin occupied
    /\ owner' = [owner EXCEPT ![s] = NoConn]
    /\ UNCHANGED <<occupied, served>>

Next ==
    \/ \E c \in Conn : Grant(c)
    \/ \E s \in SessionID : Occupy(s) \/ Free(s)
    \/ \E ids \in SUBSET SessionID : Vacate(ids)

Spec == Init /\ [][Next]_vars
=============================================================================
