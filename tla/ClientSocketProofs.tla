------------------------- MODULE ClientSocketProofs -------------------------
(***************************************************************************)
(* Proofs about ClientSocket, for every number of errors and of partial    *)
(* results and every set of verdicts.                                      *)
(*                                                                         *)
(* What serialises the writers is not a lock: closeSession runs under      *)
(* sessionMutex, it is called for the stop and for the return only when    *)
(* the read loop writes no more, and for the check only after a refusal.   *)
(* SocketInv says so, and what each writer may be writing meanwhile.       *)
(***************************************************************************)
EXTENDS ClientSocket, FiniteSetTheorems, TLAPS

\* The read loop has given its answer, and writes no more.
Over == reader \in {"answered", "returning", "ended"} /\ Free("reader")

Sent(frame) == \E i \in DOMAIN frames : frames[i] = frame

\* closeSession: who holds sessionMutex, and who was called.
CloserInv ==
    /\ \A k \in Kind : closer[k] = "closing" <=> lock = k
    /\ closer["check"] # "none" => checker = "rejected"
    /\ closer["stop"] # "none" \/ closer["return"] # "none" => reader \in {"returning", "ended"}

\* What a writer may be writing, and when.
WriterInv ==
    /\ \A w \in inside : ~Free(w)
    /\ \A k \in Kind : writing[k] \in {NoFrame, "close"} /\ (~Free(k) => lock = k)
    /\ writing["consumer"] \in {NoFrame, "partial"}
    /\ writing["checker"] \in {NoFrame, "refusal"}
    /\ ~Free("checker") => checker = "telling"
    /\ writing["reader"] \notin {"partial", "close"}
    /\ reader \in {"starting", "waiting", "completing", "fixing", "returning", "ended"}
         => Free("reader")
    /\ reader = "reading" => writing["reader"] \in {NoFrame, "error"}
    /\ reader = "answered" => writing["reader"] # "error"
    /\ reader \in {"completing", "fixing"} \/ writing["reader"] = "completed"
         => checker = "valid"

\* What the client was told, and what that says of the goroutines.
ToldInv ==
    /\ Sent("completed") => Over /\ checker = "valid"
    /\ Sent("refusal") \/ Sent("failed") => Over \/ checker \in {"telling", "rejected"}

Inductive == TypeOK /\ pending <= partials /\ CloserInv /\ WriterInv

SocketInv == Inductive /\ ToldInv /\ CompletedIsFinal

\* Types, and no result is taken that was not sent.
LEMMA TypeStep ==
    ASSUME TypeOK, pending <= partials, WriterInv, [Next]_vars
    PROVE  TypeOK' /\ (pending <= partials)'
<1>1. ASSUME NEW w \in Writer, Enter(w) PROVE TypeOK' /\ (pending <= partials)'
  <2>1. writing' \in [Writer -> Frame \cup {NoFrame}] /\ inside' \in SUBSET Writer
    BY <1>1 DEF Enter, Drop, TypeOK
  <2>2. mixed' \in BOOLEAN
    BY <1>1 DEF Enter, TypeOK
  <2> QED
    BY <1>1, <2>1, <2>2 DEF Enter, TypeOK, sessionVars, resultVars, readVars
<1>2. ASSUME NEW w \in Writer, Leave(w) PROVE TypeOK' /\ (pending <= partials)'
  BY <1>2, BoundAssumption DEF Leave, Free, Drop, TypeOK, WriterInv, Kind, Writer,
                               Frame, NoFrame, sessionVars, resultVars, readVars,
                               wireVars
<1>3. ASSUME NEW w \in Writer, Crash(w) PROVE TypeOK' /\ (pending <= partials)'
  BY <1>3, BoundAssumption DEF Crash, TypeOK, WriterInv, Kind, Writer, Frame,
                               NoFrame, sessionVars, resultVars, readVars, wireVars
<1>4. ASSUME NEW w \in Writer, Recover(w) PROVE TypeOK' /\ (pending <= partials)'
  BY <1>4, BoundAssumption DEF Recover, Panics, Free, Drop, TypeOK, WriterInv, Kind,
                               Writer, Frame, NoFrame, sessionVars, resultVars,
                               readVars, wireVars
<1>5. CASE BadMessage
  BY <1>5, BoundAssumption DEF BadMessage, Receives, SendError, Send, Free, TypeOK,
                               WriterInv, Kind, Writer, Frame, NoFrame, sessionVars,
                               resultVars, readVars, wireVars
<1>6. CASE FirstAudio
  BY <1>6, BoundAssumption DEF FirstAudio, Receives, Free, TypeOK, WriterInv, Kind, Writer,
                               Frame, NoFrame, sessionVars, resultVars, readVars,
                               wireVars
<1>7. CASE NextAudio
  BY <1>7, BoundAssumption DEF NextAudio, Receives, SendError, Send, Free,
                               HandleAudioMessage, TypeOK, WriterInv, Kind, Writer,
                               Frame, NoFrame, sessionVars, resultVars, readVars,
                               wireVars
<1>8. CASE StopMessage
  BY <1>8, BoundAssumption DEF StopMessage, Receives, Send, Free, TypeOK, WriterInv,
                               Kind, Writer, Frame, NoFrame, sessionVars,
                               resultVars, readVars, wireVars
<1>9. CASE SubscriptionKnown
  BY <1>9, BoundAssumption DEF SubscriptionKnown, Send, Free, TypeOK, WriterInv,
                               Kind, Writer, Frame, NoFrame, sessionVars,
                               resultVars, readVars, wireVars
<1>10. CASE SubscriptionTimeout
  BY <1>10, BoundAssumption DEF SubscriptionTimeout, Send, Free, TypeOK, WriterInv,
                                Kind, Writer, Frame, NoFrame, sessionVars,
                                resultVars, readVars, wireVars
<1>11. CASE HandleStop
  BY <1>11, BoundAssumption DEF HandleStop, Send, ClosedChannel, Free, TypeOK,
                                WriterInv, Kind, Writer, Frame, NoFrame,
                                sessionVars, resultVars, readVars, wireVars
<1>12. CASE SendCompleted
  BY <1>12, BoundAssumption DEF SendCompleted, Send, Free, TypeOK, WriterInv, Kind,
                                Writer, Frame, NoFrame, sessionVars, resultVars,
                                readVars, wireVars
<1>13. CASE Answered
  BY <1>13, BoundAssumption DEF Answered, Free, TypeOK, WriterInv, Kind, Writer,
                                Frame, NoFrame, sessionVars, resultVars, readVars,
                                wireVars
<1>14. CASE ReadError
  BY <1>14, BoundAssumption DEF ReadError, Free, TypeOK, WriterInv, Kind, Writer,
                                Frame, NoFrame, sessionVars, resultVars, readVars,
                                wireVars
<1>15. CASE CheckBegin
  BY <1>15, BoundAssumption DEF CheckBegin, TypeOK, WriterInv, Kind, Writer, Frame,
                                NoFrame, sessionVars, resultVars, readVars, wireVars
<1>16. CASE CheckEnd
  BY <1>16, BoundAssumption DEF CheckEnd, Send, Free, TypeOK, WriterInv, Kind,
                                Writer, Frame, NoFrame, sessionVars, resultVars,
                                readVars, wireVars
<1>17. CASE CheckTold
  BY <1>17, BoundAssumption DEF CheckTold, Free, TypeOK, WriterInv, Kind, Writer,
                                Frame, NoFrame, sessionVars, resultVars, readVars,
                                wireVars
<1>18. CASE Result
  BY <1>18, BoundAssumption DEF Result, TypeOK, WriterInv, Kind, Writer, Frame,
                                NoFrame, sessionVars, resultVars, readVars, wireVars
<1>19. CASE Take
  BY <1>19, BoundAssumption DEF Take, Free, TypeOK, WriterInv, Kind, Writer, Frame,
                                NoFrame, sessionVars, resultVars, readVars, wireVars
<1>20. CASE SendPartial
  BY <1>20, BoundAssumption DEF SendPartial, Send, Free, TypeOK, WriterInv, Kind,
                                Writer, Frame, NoFrame, sessionVars, resultVars,
                                readVars, wireVars
<1>21. CASE ConsumerExit
  BY <1>21, BoundAssumption DEF ConsumerExit, Free, TypeOK, WriterInv, Kind, Writer,
                                Frame, NoFrame, sessionVars, resultVars, readVars,
                                wireVars
<1>22. CASE CleanerCloses
  BY <1>22, BoundAssumption DEF CleanerCloses, TypeOK, WriterInv, Kind, Writer,
                                Frame, NoFrame, sessionVars, resultVars, readVars,
                                wireVars
<1>23. CASE ClientLeaves
  BY <1>23, BoundAssumption DEF ClientLeaves, TypeOK, WriterInv, Kind, Writer,
                                Frame, NoFrame, sessionVars, resultVars, readVars,
                                wireVars
<1>24. ASSUME NEW k \in Kind, CloseSkip(k) PROVE TypeOK' /\ (pending <= partials)'
  BY <1>24, BoundAssumption DEF CloseSkip, Done, TypeOK, WriterInv, Kind, Writer,
                                Frame, NoFrame, sessionVars, resultVars, readVars,
                                wireVars
<1>25. ASSUME NEW k \in Kind, CloseBegin(k) PROVE TypeOK' /\ (pending <= partials)'
  <2>1. writing' \in [Writer -> Frame \cup {NoFrame}]
    BY <1>25 DEF CloseBegin, Send, TypeOK, Writer, Frame
  <2>2. closer' \in [Kind -> {"none", "waiting", "closing", "done"}]
    BY <1>25 DEF CloseBegin, TypeOK
  <2>3. channel' \in {"none", "open", "closed"}
    BY <1>25 DEF CloseBegin, ClosedChannel, TypeOK
  <2>4. UNCHANGED <<registered, started, mixed, crashed>> /\ tracked' = FALSE
    BY <1>25 DEF CloseBegin, wireVars, readVars
  <2>5. /\ UNCHANGED <<reader, errors, checker, consumer, pending, partials, socket, inside,
                       frames>>
        /\ lock' = k
    BY <1>25 DEF CloseBegin, wireVars, readVars
  <2>6. lock' \in Kind \cup {"free"} /\ tracked' \in BOOLEAN
    BY <2>4, <2>5
  <2>7. registered' \in BOOLEAN /\ started' \in BOOLEAN /\ mixed' \in BOOLEAN
        /\ crashed' \in BOOLEAN
    BY <2>4 DEF TypeOK
  <2>8. /\ reader' = reader /\ errors' = errors /\ checker' = checker
        /\ consumer' = consumer /\ pending' = pending /\ partials' = partials
        /\ socket' = socket /\ inside' = inside /\ frames' = frames
    BY <2>5
  <2>9. (pending <= partials)'
    BY <2>8
  <2>10. TypeOK'
    BY <2>1, <2>2, <2>3, <2>6, <2>7, <2>8, Zenon DEF TypeOK
  <2> QED
    BY <2>9, <2>10
<1>26. ASSUME NEW k \in Kind, CloseEnd(k) PROVE TypeOK' /\ (pending <= partials)'
  <2>1. closer' \in [Kind -> {"none", "waiting", "closing", "done"}]
    BY <1>26 DEF CloseEnd, Done, TypeOK
  <2> QED
    BY <1>26, <2>1 DEF CloseEnd, Done, TypeOK, resultVars
<1>27. CASE UNCHANGED vars
  BY <1>27, BoundAssumption DEF vars, TypeOK, WriterInv, Kind, Writer, Frame,
                                NoFrame
<1>28. CASE StartEnd
  BY <1>28, BoundAssumption DEF StartEnd, SendError, Send, Free,
                               HandleAudioMessage, TypeOK, WriterInv, Kind, Writer,
                               Frame, NoFrame, sessionVars, resultVars, readVars,
                               wireVars
<1> QED
  BY <1>1, <1>2, <1>3, <1>4, <1>5, <1>6, <1>7, <1>8, <1>9, <1>10, <1>11, <1>12,
     <1>13, <1>14, <1>15, <1>16, <1>17, <1>18, <1>19, <1>20, <1>21, <1>22, <1>23,
     <1>24, <1>25, <1>26, <1>27, <1>28
     DEF Next, Write, Receive, Answer, Check, Consume, Close

\* closeSession is called for the end of the read loop, or for a refusal.
LEMMA CloserStep ==
    ASSUME TypeOK, CloserInv, WriterInv, [Next]_vars
    PROVE  CloserInv'
<1>1. ASSUME NEW w \in Writer, Enter(w) PROVE CloserInv'
  BY <1>1 DEF Enter, Free, Drop, TypeOK, CloserInv, WriterInv, Kind, Writer, Frame,
              NoFrame, sessionVars, resultVars, readVars, wireVars
<1>2. ASSUME NEW w \in Writer, Leave(w) PROVE CloserInv'
  BY <1>2 DEF Leave, Free, Drop, TypeOK, CloserInv, WriterInv, Kind, Writer, Frame,
              NoFrame, sessionVars, resultVars, readVars, wireVars
<1>3. ASSUME NEW w \in Writer, Crash(w) PROVE CloserInv'
  BY <1>3 DEF Crash, TypeOK, CloserInv, WriterInv, Kind, Writer, Frame, NoFrame,
              sessionVars, resultVars, readVars, wireVars
<1>4. ASSUME NEW w \in Writer, Recover(w) PROVE CloserInv'
  BY <1>4 DEF Recover, Panics, Free, Drop, TypeOK, CloserInv, WriterInv, Kind,
              Writer, Frame, NoFrame, sessionVars, resultVars, readVars, wireVars
<1>5. CASE BadMessage
  BY <1>5 DEF BadMessage, Receives, SendError, Send, Free, TypeOK, CloserInv,
              WriterInv, Kind, Writer, Frame, NoFrame, sessionVars, resultVars,
              readVars, wireVars
<1>6. CASE FirstAudio
  BY <1>6 DEF FirstAudio, Receives, Free,
              TypeOK, CloserInv, WriterInv, Kind, Writer, Frame, NoFrame,
              sessionVars, resultVars, readVars, wireVars
<1>7. CASE NextAudio
  BY <1>7 DEF NextAudio, Receives, SendError, Send, Free, HandleAudioMessage,
              TypeOK, CloserInv, WriterInv, Kind, Writer, Frame, NoFrame,
              sessionVars, resultVars, readVars, wireVars
<1>8. CASE StopMessage
  BY <1>8 DEF StopMessage, Receives, Send, Free, TypeOK, CloserInv, WriterInv, Kind,
              Writer, Frame, NoFrame, sessionVars, resultVars, readVars, wireVars
<1>9. CASE SubscriptionKnown
  BY <1>9 DEF SubscriptionKnown, Send, Free, TypeOK, CloserInv, WriterInv, Kind,
              Writer, Frame, NoFrame, sessionVars, resultVars, readVars, wireVars
<1>10. CASE SubscriptionTimeout
  BY <1>10 DEF SubscriptionTimeout, Send, Free, TypeOK, CloserInv, WriterInv, Kind,
               Writer, Frame, NoFrame, sessionVars, resultVars, readVars, wireVars
<1>11. CASE HandleStop
  BY <1>11 DEF HandleStop, Send, ClosedChannel, Free, TypeOK, CloserInv, WriterInv,
               Kind, Writer, Frame, NoFrame, sessionVars, resultVars, readVars,
               wireVars
<1>12. CASE SendCompleted
  BY <1>12 DEF SendCompleted, Send, Free, TypeOK, CloserInv, WriterInv, Kind,
               Writer, Frame, NoFrame, sessionVars, resultVars, readVars, wireVars
<1>13. CASE Answered
  BY <1>13 DEF Answered, Free, TypeOK, CloserInv, WriterInv, Kind, Writer, Frame,
               NoFrame, sessionVars, resultVars, readVars, wireVars
<1>14. CASE ReadError
  BY <1>14 DEF ReadError, Free, TypeOK, CloserInv, WriterInv, Kind, Writer, Frame,
               NoFrame, sessionVars, resultVars, readVars, wireVars
<1>15. CASE CheckBegin
  BY <1>15 DEF CheckBegin, TypeOK, CloserInv, WriterInv, Kind, Writer, Frame,
               NoFrame, sessionVars, resultVars, readVars, wireVars
<1>16. CASE CheckEnd
  BY <1>16 DEF CheckEnd, Send, Free, TypeOK, CloserInv, WriterInv, Kind, Writer,
               Frame, NoFrame, sessionVars, resultVars, readVars, wireVars
<1>17. CASE CheckTold
  BY <1>17 DEF CheckTold, Free, TypeOK, CloserInv, WriterInv, Kind, Writer, Frame,
               NoFrame, sessionVars, resultVars, readVars, wireVars
<1>18. CASE Result
  BY <1>18 DEF Result, TypeOK, CloserInv, WriterInv, Kind, Writer, Frame, NoFrame,
               sessionVars, resultVars, readVars, wireVars
<1>19. CASE Take
  BY <1>19 DEF Take, Free, TypeOK, CloserInv, WriterInv, Kind, Writer, Frame,
               NoFrame, sessionVars, resultVars, readVars, wireVars
<1>20. CASE SendPartial
  BY <1>20 DEF SendPartial, Send, Free, TypeOK, CloserInv, WriterInv, Kind, Writer,
               Frame, NoFrame, sessionVars, resultVars, readVars, wireVars
<1>21. CASE ConsumerExit
  BY <1>21 DEF ConsumerExit, Free, TypeOK, CloserInv, WriterInv, Kind, Writer,
               Frame, NoFrame, sessionVars, resultVars, readVars, wireVars
<1>22. CASE CleanerCloses
  BY <1>22 DEF CleanerCloses, TypeOK, CloserInv, WriterInv, Kind, Writer, Frame,
               NoFrame, sessionVars, resultVars, readVars, wireVars
<1>23. CASE ClientLeaves
  BY <1>23 DEF ClientLeaves, TypeOK, CloserInv, WriterInv, Kind, Writer, Frame,
               NoFrame, sessionVars, resultVars, readVars, wireVars
<1>24. ASSUME NEW k \in Kind, CloseSkip(k) PROVE CloserInv'
  BY <1>24 DEF CloseSkip, Done, TypeOK, CloserInv, WriterInv, Kind, Writer, Frame,
               NoFrame, sessionVars, resultVars, readVars, wireVars
<1>25. ASSUME NEW k \in Kind, CloseBegin(k) PROVE CloserInv'
  BY <1>25 DEF CloseBegin, Send, ClosedChannel, Free, TypeOK, CloserInv, WriterInv,
               Kind, Writer, Frame, NoFrame, sessionVars, resultVars, readVars,
               wireVars
<1>26. ASSUME NEW k \in Kind, CloseEnd(k) PROVE CloserInv'
  BY <1>26 DEF CloseEnd, Done, Free, TypeOK, CloserInv, WriterInv, Kind, Writer,
               Frame, NoFrame, sessionVars, resultVars, readVars, wireVars
<1>27. CASE UNCHANGED vars
  BY <1>27 DEF vars, TypeOK, CloserInv, WriterInv, Kind, Writer, Frame, NoFrame
<1>28. CASE StartEnd
  BY <1>28 DEF StartEnd, SendError, Send, Free, HandleAudioMessage,
              TypeOK, CloserInv, WriterInv, Kind, Writer, Frame, NoFrame,
              sessionVars, resultVars, readVars, wireVars
<1> QED
  BY <1>1, <1>2, <1>3, <1>4, <1>5, <1>6, <1>7, <1>8, <1>9, <1>10, <1>11, <1>12,
     <1>13, <1>14, <1>15, <1>16, <1>17, <1>18, <1>19, <1>20, <1>21, <1>22, <1>23,
     <1>24, <1>25, <1>26, <1>27, <1>28
     DEF Next, Write, Receive, Answer, Check, Consume, Close

\* Who may be writing what.
LEMMA WriterStep ==
    ASSUME TypeOK, CloserInv, WriterInv, [Next]_vars
    PROVE  WriterInv'
<1>1. ASSUME NEW w \in Writer, Enter(w) PROVE WriterInv'
  <2>1. \/ /\ inside' = inside \cup {w}
           /\ ~Free(w)
           /\ UNCHANGED writing
        \/ /\ writing' = [writing EXCEPT ![w] = NoFrame]
           /\ w \notin inside
           /\ UNCHANGED inside
    BY <1>1 DEF Enter, Drop
  <2>2. \A v \in Writer : writing'[v] \in {writing[v], NoFrame}
    BY <2>1 DEF TypeOK
  <2>3. \A v \in inside' : ~Free(v)'
    BY <2>1 DEF TypeOK, WriterInv, Free
  <2>4. UNCHANGED <<lock, reader, checker>>
    BY <1>1 DEF Enter, sessionVars, readVars
  <2>5. \A k \in Kind : writing'[k] \in {NoFrame, "close"} /\ (~Free(k)' => lock' = k)
    BY <2>2, <2>4 DEF WriterInv, Free, Writer
  <2> QED
    BY <2>2, <2>3, <2>4, <2>5 DEF WriterInv, Free, Writer, NoFrame
<1>2. ASSUME NEW w \in Writer, Leave(w) PROVE WriterInv'
  BY <1>2 DEF Leave, Free, Drop, TypeOK, CloserInv, WriterInv, Kind, Writer, Frame,
              NoFrame, sessionVars, resultVars, readVars, wireVars
<1>3. ASSUME NEW w \in Writer, Crash(w) PROVE WriterInv'
  BY <1>3 DEF Crash, TypeOK, CloserInv, WriterInv, Free, Kind, Writer, Frame,
              NoFrame, sessionVars, resultVars, readVars, wireVars
<1>4. ASSUME NEW w \in Writer, Recover(w) PROVE WriterInv'
  BY <1>4 DEF Recover, Panics, Free, Drop, TypeOK, CloserInv, WriterInv, Kind,
              Writer, Frame, NoFrame, sessionVars, resultVars, readVars, wireVars
<1>5. CASE BadMessage
  BY <1>5 DEF BadMessage, Receives, SendError, Send, Free, TypeOK, CloserInv,
              WriterInv, Kind, Writer, Frame, NoFrame, sessionVars, resultVars,
              readVars, wireVars
<1>6. CASE FirstAudio
  BY <1>6 DEF FirstAudio, Receives, Free,
              TypeOK, CloserInv, WriterInv, Kind, Writer, Frame, NoFrame,
              sessionVars, resultVars, readVars, wireVars
<1>7. CASE NextAudio
  BY <1>7 DEF NextAudio, Receives, SendError, Send, Free, HandleAudioMessage,
              TypeOK, CloserInv, WriterInv, Kind, Writer, Frame, NoFrame,
              sessionVars, resultVars, readVars, wireVars
<1>8. CASE StopMessage
  BY <1>8 DEF StopMessage, Receives, Send, Free, TypeOK, CloserInv, WriterInv, Kind,
              Writer, Frame, NoFrame, sessionVars, resultVars, readVars, wireVars
<1>9. CASE SubscriptionKnown
  BY <1>9 DEF SubscriptionKnown, Send, Free, TypeOK, CloserInv, WriterInv, Kind,
              Writer, Frame, NoFrame, sessionVars, resultVars, readVars, wireVars
<1>10. CASE SubscriptionTimeout
  BY <1>10 DEF SubscriptionTimeout, Send, Free, TypeOK, CloserInv, WriterInv, Kind,
               Writer, Frame, NoFrame, sessionVars, resultVars, readVars, wireVars
<1>11. CASE HandleStop
  BY <1>11 DEF HandleStop, Send, ClosedChannel, Free, TypeOK, CloserInv, WriterInv,
               Kind, Writer, Frame, NoFrame, sessionVars, resultVars, readVars,
               wireVars
<1>12. CASE SendCompleted
  BY <1>12 DEF SendCompleted, Send, Free, TypeOK, CloserInv, WriterInv, Kind,
               Writer, Frame, NoFrame, sessionVars, resultVars, readVars, wireVars
<1>13. CASE Answered
  BY <1>13 DEF Answered, Free, TypeOK, CloserInv, WriterInv, Kind, Writer, Frame,
               NoFrame, sessionVars, resultVars, readVars, wireVars
<1>14. CASE ReadError
  BY <1>14 DEF ReadError, Free, TypeOK, CloserInv, WriterInv, Kind, Writer, Frame,
               NoFrame, sessionVars, resultVars, readVars, wireVars
<1>15. CASE CheckBegin
  BY <1>15 DEF CheckBegin, TypeOK, CloserInv, WriterInv, Free, Kind, Writer, Frame,
               NoFrame, sessionVars, resultVars, readVars, wireVars
<1>16. CASE CheckEnd
  BY <1>16 DEF CheckEnd, Send, Free, TypeOK, CloserInv, WriterInv, Kind, Writer,
               Frame, NoFrame, sessionVars, resultVars, readVars, wireVars
<1>17. CASE CheckTold
  BY <1>17 DEF CheckTold, Free, TypeOK, CloserInv, WriterInv, Kind, Writer, Frame,
               NoFrame, sessionVars, resultVars, readVars, wireVars
<1>18. CASE Result
  BY <1>18 DEF Result, TypeOK, CloserInv, WriterInv, Free, Kind, Writer, Frame,
               NoFrame, sessionVars, resultVars, readVars, wireVars
<1>19. CASE Take
  BY <1>19 DEF Take, Free, TypeOK, CloserInv, WriterInv, Kind, Writer, Frame,
               NoFrame, sessionVars, resultVars, readVars, wireVars
<1>20. CASE SendPartial
  BY <1>20 DEF SendPartial, Send, Free, TypeOK, CloserInv, WriterInv, Kind, Writer,
               Frame, NoFrame, sessionVars, resultVars, readVars, wireVars
<1>21. CASE ConsumerExit
  BY <1>21 DEF ConsumerExit, Free, TypeOK, CloserInv, WriterInv, Kind, Writer,
               Frame, NoFrame, sessionVars, resultVars, readVars, wireVars
<1>22. CASE CleanerCloses
  BY <1>22 DEF CleanerCloses, TypeOK, CloserInv, WriterInv, Free, Kind, Writer,
               Frame, NoFrame, sessionVars, resultVars, readVars, wireVars
<1>23. CASE ClientLeaves
  BY <1>23 DEF ClientLeaves, TypeOK, CloserInv, WriterInv, Free, Kind, Writer,
               Frame, NoFrame, sessionVars, resultVars, readVars, wireVars
<1>24. ASSUME NEW k \in Kind, CloseSkip(k) PROVE WriterInv'
  BY <1>24 DEF CloseSkip, Done, TypeOK, CloserInv, WriterInv, Free, Kind, Writer,
               Frame, NoFrame, sessionVars, resultVars, readVars, wireVars
<1>25. ASSUME NEW k \in Kind, CloseBegin(k) PROVE WriterInv'
  BY <1>25 DEF CloseBegin, Send, ClosedChannel, Free, TypeOK, CloserInv, WriterInv,
               Kind, Writer, Frame, NoFrame, sessionVars, resultVars, readVars,
               wireVars
<1>26. ASSUME NEW k \in Kind, CloseEnd(k) PROVE WriterInv'
  BY <1>26 DEF CloseEnd, Done, Free, TypeOK, CloserInv, WriterInv, Kind, Writer,
               Frame, NoFrame, sessionVars, resultVars, readVars, wireVars
<1>27. CASE UNCHANGED vars
  BY <1>27 DEF vars, TypeOK, CloserInv, WriterInv, Free, Kind, Writer, Frame,
               NoFrame
<1>28. CASE StartEnd
  BY <1>28 DEF StartEnd, SendError, Send, Free, HandleAudioMessage,
              TypeOK, CloserInv, WriterInv, Kind, Writer, Frame, NoFrame,
              sessionVars, resultVars, readVars, wireVars
<1> QED
  BY <1>1, <1>2, <1>3, <1>4, <1>5, <1>6, <1>7, <1>8, <1>9, <1>10, <1>11, <1>12,
     <1>13, <1>14, <1>15, <1>16, <1>17, <1>18, <1>19, <1>20, <1>21, <1>22, <1>23,
     <1>24, <1>25, <1>26, <1>27, <1>28
     DEF Next, Write, Receive, Answer, Check, Consume, Close

\* What the client was told.
LEMMA ToldStep ==
    ASSUME Inductive, ToldInv, [Next]_vars
    PROVE  ToldInv'
<1>1. ASSUME NEW w \in Writer, Enter(w) PROVE ToldInv'
  BY <1>1 DEF Enter, Free, Drop, Inductive, TypeOK, CloserInv, WriterInv, ToldInv,
              Over, Sent, Kind, Writer, Frame, NoFrame, sessionVars, resultVars,
              readVars, wireVars
<1>2. ASSUME NEW w \in Writer, Leave(w) PROVE ToldInv'
  BY <1>2 DEF Leave, Free, Drop, Inductive, TypeOK, CloserInv, WriterInv, ToldInv,
              Over, Sent, Kind, Writer, Frame, NoFrame, sessionVars, resultVars,
              readVars, wireVars
<1>3. ASSUME NEW w \in Writer, Crash(w) PROVE ToldInv'
  BY <1>3 DEF Crash, Inductive, TypeOK, CloserInv, WriterInv, ToldInv, Over, Sent,
              Free, Kind, Writer, Frame, NoFrame, sessionVars, resultVars, readVars,
              wireVars
<1>4. ASSUME NEW w \in Writer, Recover(w) PROVE ToldInv'
  BY <1>4 DEF Recover, Panics, Free, Drop, Inductive, TypeOK, CloserInv, WriterInv,
              ToldInv, Over, Sent, Kind, Writer, Frame, NoFrame, sessionVars,
              resultVars, readVars, wireVars
<1>5. CASE BadMessage
  BY <1>5 DEF BadMessage, Receives, SendError, Send, Free, Inductive, TypeOK,
              CloserInv, WriterInv, ToldInv, Over, Sent, Kind, Writer, Frame,
              NoFrame, sessionVars, resultVars, readVars, wireVars
<1>6. CASE FirstAudio
  BY <1>6 DEF FirstAudio, Receives, Free,
              Inductive, TypeOK, CloserInv, WriterInv, ToldInv, Over, Sent, Kind,
              Writer, Frame, NoFrame, sessionVars, resultVars, readVars, wireVars
<1>7. CASE NextAudio
  BY <1>7 DEF NextAudio, Receives, SendError, Send, Free, HandleAudioMessage,
              Inductive, TypeOK, CloserInv, WriterInv, ToldInv, Over, Sent, Kind,
              Writer, Frame, NoFrame, sessionVars, resultVars, readVars, wireVars
<1>8. CASE StopMessage
  BY <1>8 DEF StopMessage, Receives, Send, Free, Inductive, TypeOK, CloserInv,
              WriterInv, ToldInv, Over, Sent, Kind, Writer, Frame, NoFrame,
              sessionVars, resultVars, readVars, wireVars
<1>9. CASE SubscriptionKnown
  BY <1>9 DEF SubscriptionKnown, Send, Free, Inductive, TypeOK, CloserInv,
              WriterInv, ToldInv, Over, Sent, Kind, Writer, Frame, NoFrame,
              sessionVars, resultVars, readVars, wireVars
<1>10. CASE SubscriptionTimeout
  BY <1>10 DEF SubscriptionTimeout, Send, Free, Inductive, TypeOK, CloserInv,
               WriterInv, ToldInv, Over, Sent, Kind, Writer, Frame, NoFrame,
               sessionVars, resultVars, readVars, wireVars
<1>11. CASE HandleStop
  BY <1>11 DEF HandleStop, Send, ClosedChannel, Free, Inductive, TypeOK, CloserInv,
               WriterInv, ToldInv, Over, Sent, Kind, Writer, Frame, NoFrame,
               sessionVars, resultVars, readVars, wireVars
<1>12. CASE SendCompleted
  BY <1>12 DEF SendCompleted, Send, Free, Inductive, TypeOK, CloserInv, WriterInv,
               ToldInv, Over, Sent, Kind, Writer, Frame, NoFrame, sessionVars,
               resultVars, readVars, wireVars
<1>13. CASE Answered
  BY <1>13 DEF Answered, Free, Inductive, TypeOK, CloserInv, WriterInv, ToldInv,
               Over, Sent, Kind, Writer, Frame, NoFrame, sessionVars, resultVars,
               readVars, wireVars
<1>14. CASE ReadError
  BY <1>14 DEF ReadError, Free, Inductive, TypeOK, CloserInv, WriterInv, ToldInv,
               Over, Sent, Kind, Writer, Frame, NoFrame, sessionVars, resultVars,
               readVars, wireVars
<1>15. CASE CheckBegin
  BY <1>15 DEF CheckBegin, Inductive, TypeOK, CloserInv, WriterInv, ToldInv, Over,
               Sent, Free, Kind, Writer, Frame, NoFrame, sessionVars, resultVars,
               readVars, wireVars
<1>16. CASE CheckEnd
  BY <1>16 DEF CheckEnd, Send, Free, Inductive, TypeOK, CloserInv, WriterInv,
               ToldInv, Over, Sent, Kind, Writer, Frame, NoFrame, sessionVars,
               resultVars, readVars, wireVars
<1>17. CASE CheckTold
  BY <1>17 DEF CheckTold, Free, Inductive, TypeOK, CloserInv, WriterInv, ToldInv,
               Over, Sent, Kind, Writer, Frame, NoFrame, sessionVars, resultVars,
               readVars, wireVars
<1>18. CASE Result
  BY <1>18 DEF Result, Inductive, TypeOK, CloserInv, WriterInv, ToldInv, Over, Sent,
               Free, Kind, Writer, Frame, NoFrame, sessionVars, resultVars,
               readVars, wireVars
<1>19. CASE Take
  BY <1>19 DEF Take, Free, Inductive, TypeOK, CloserInv, WriterInv, ToldInv, Over,
               Sent, Kind, Writer, Frame, NoFrame, sessionVars, resultVars,
               readVars, wireVars
<1>20. CASE SendPartial
  BY <1>20 DEF SendPartial, Send, Free, Inductive, TypeOK, CloserInv, WriterInv,
               ToldInv, Over, Sent, Kind, Writer, Frame, NoFrame, sessionVars,
               resultVars, readVars, wireVars
<1>21. CASE ConsumerExit
  BY <1>21 DEF ConsumerExit, Free, Inductive, TypeOK, CloserInv, WriterInv, ToldInv,
               Over, Sent, Kind, Writer, Frame, NoFrame, sessionVars, resultVars,
               readVars, wireVars
<1>22. CASE CleanerCloses
  BY <1>22 DEF CleanerCloses, Inductive, TypeOK, CloserInv, WriterInv, ToldInv,
               Over, Sent, Free, Kind, Writer, Frame, NoFrame, sessionVars,
               resultVars, readVars, wireVars
<1>23. CASE ClientLeaves
  BY <1>23 DEF ClientLeaves, Inductive, TypeOK, CloserInv, WriterInv, ToldInv, Over,
               Sent, Free, Kind, Writer, Frame, NoFrame, sessionVars, resultVars,
               readVars, wireVars
<1>24. ASSUME NEW k \in Kind, CloseSkip(k) PROVE ToldInv'
  BY <1>24 DEF CloseSkip, Done, Inductive, TypeOK, CloserInv, WriterInv, ToldInv,
               Over, Sent, Free, Kind, Writer, Frame, NoFrame, sessionVars,
               resultVars, readVars, wireVars
<1>25. ASSUME NEW k \in Kind, CloseBegin(k) PROVE ToldInv'
  BY <1>25 DEF CloseBegin, Send, ClosedChannel, Free, Inductive, TypeOK, CloserInv,
               WriterInv, ToldInv, Over, Sent, Kind, Writer, Frame, NoFrame,
               sessionVars, resultVars, readVars, wireVars
<1>26. ASSUME NEW k \in Kind, CloseEnd(k) PROVE ToldInv'
  BY <1>26 DEF CloseEnd, Done, Free, Inductive, TypeOK, CloserInv, WriterInv,
               ToldInv, Over, Sent, Kind, Writer, Frame, NoFrame, sessionVars,
               resultVars, readVars, wireVars
<1>27. CASE UNCHANGED vars
  BY <1>27 DEF vars, Inductive, TypeOK, CloserInv, WriterInv, ToldInv, Over, Sent,
               Free, Kind, Writer, Frame, NoFrame
<1>28. CASE StartEnd
  BY <1>28 DEF StartEnd, SendError, Send, Free, HandleAudioMessage,
              Inductive, TypeOK, CloserInv, WriterInv, ToldInv, Over, Sent, Kind,
              Writer, Frame, NoFrame, sessionVars, resultVars, readVars, wireVars
<1> QED
  BY <1>1, <1>2, <1>3, <1>4, <1>5, <1>6, <1>7, <1>8, <1>9, <1>10, <1>11, <1>12,
     <1>13, <1>14, <1>15, <1>16, <1>17, <1>18, <1>19, <1>20, <1>21, <1>22, <1>23,
     <1>24, <1>25, <1>26, <1>27, <1>28
     DEF Next, Write, Receive, Answer, Check, Consume, Close

\* After the text the client hears no error, no refusal and no second text.
LEMMA FinalStep ==
    ASSUME Inductive, ToldInv, CompletedIsFinal, [Next]_vars
    PROVE  CompletedIsFinal'
<1>1. CASE frames' = frames
  BY <1>1 DEF CompletedIsFinal
<1>2. CASE frames' # frames
  <2>1. PICK w \in Writer : Leave(w)
    BY <1>2 DEF Next, vars, Write, Receive, Answer, Check, Consume, Close, Enter, Crash, Recover,
       BadMessage, FirstAudio, StartEnd, NextAudio, StopMessage, SubscriptionKnown, SubscriptionTimeout,
       HandleStop, SendCompleted, Answered, ReadError, CheckBegin, CheckEnd, CheckTold, Result,
       Take, SendPartial, ConsumerExit, CleanerCloses, ClientLeaves, CloseSkip, CloseBegin,
       CloseEnd, wireVars
  <2>2. PICK sent \in {writing[w], "mixed"} : frames' = Append(frames, sent)
    BY <1>2, <2>1 DEF Leave
  <2>3. /\ ~Free(w)
        /\ frames \in Seq(Frame \cup {"mixed"})
        /\ sent \in Frame \cup {"mixed"}
    BY <2>1, <2>2 DEF Leave, Inductive, WriterInv, TypeOK, Free
  <2>4. /\ DOMAIN frames' = 1..(Len(frames) + 1)
        /\ Len(frames') = Len(frames) + 1
        /\ frames'[Len(frames) + 1] = sent
        /\ \A i \in DOMAIN frames : i \in 1..Len(frames) /\ frames'[i] = frames[i]
        /\ \A i \in DOMAIN frames' : i \in DOMAIN frames \/ i = Len(frames) + 1
    BY <2>2, <2>3
  <2>5. Sent("completed") => sent \in {"partial", "close", "mixed"}
    BY <2>2, <2>3 DEF Inductive, ToldInv, Over, WriterInv, Free, Writer, Kind, NoFrame
  <2>6. sent = "completed" => ~Sent("refusal") /\ ~Sent("failed")
    BY <2>2, <2>3 DEF Inductive, ToldInv, Over, WriterInv, Free, Writer, Kind, NoFrame
  <2>7. ASSUME NEW i \in DOMAIN frames', frames'[i] = "completed"
        PROVE  /\ \A j \in (i + 1)..Len(frames') : frames'[j] \in {"partial", "close", "mixed"}
               /\ \A j \in 1..(i - 1) : frames'[j] \notin {"refusal", "failed"}
    <3>1. CASE i \in DOMAIN frames
      <4>1. Sent("completed")
        BY <2>4, <2>7, <3>1 DEF Sent
      <4>2. /\ \A j \in (i + 1)..Len(frames) : frames[j] \in {"partial", "close", "mixed"}
            /\ \A j \in 1..(i - 1) : frames[j] \notin {"refusal", "failed"}
        BY <2>4, <2>7, <3>1 DEF CompletedIsFinal
      <4> QED
        BY <2>3, <2>4, <2>5, <3>1, <4>1, <4>2
    <3>2. CASE i = Len(frames) + 1
      BY <2>3, <2>4, <2>6, <2>7, <3>2 DEF Sent
    <3> QED
      BY <2>4, <3>1, <3>2
  <2> QED
    BY <2>7 DEF CompletedIsFinal
<1> QED
  BY <1>1, <1>2

LEMMA SocketInvariant == Spec => []SocketInv
<1>1. Init => SocketInv
  <2> SUFFICES ASSUME Init PROVE SocketInv
    OBVIOUS
  <2>1. /\ registered \in BOOLEAN /\ tracked \in BOOLEAN /\ started \in BOOLEAN
        /\ mixed \in BOOLEAN /\ crashed \in BOOLEAN /\ inside \in SUBSET Writer
    BY DEF Init
  <2>2. /\ writing \in [Writer -> Frame \cup {NoFrame}]
        /\ closer \in [Kind -> {"none", "waiting", "closing", "done"}]
        /\ frames \in Seq(Frame \cup {"mixed"})
    BY DEF Init
  <2>3. /\ pending \in 0..MaxPartials /\ partials \in 0..MaxPartials
        /\ errors \in 0..MaxErrors /\ pending <= partials
    BY BoundAssumption DEF Init
  <2>4. TypeOK /\ pending <= partials
    BY <2>1, <2>2, <2>3 DEF Init, TypeOK
  <2>5. CloserInv /\ WriterInv
    BY DEF Init, CloserInv, WriterInv, Free, Kind, Writer, NoFrame
  <2>6. \A i \in DOMAIN frames : FALSE
    BY DEF Init
  <2>7. ToldInv
    BY <2>6 DEF ToldInv, Sent
  <2>8. CompletedIsFinal
    BY <2>6 DEF CompletedIsFinal
  <2> QED
    BY <2>4, <2>5, <2>7, <2>8 DEF SocketInv, Inductive
<1>2. SocketInv /\ [Next]_vars => SocketInv'
  BY TypeStep, CloserStep, WriterStep, ToldStep, FinalStep DEF SocketInv, Inductive
<1> QED
  BY <1>1, <1>2, PTL DEF Spec

\* Every variable keeps its type: above all, no result is taken from ResultCh
\* that was not put there.
THEOREM TypeCorrect == Spec => []TypeOK
<1>1. SocketInv => TypeOK
  BY DEF SocketInv, Inductive
<1> QED
  BY <1>1, SocketInvariant, PTL

\* The text is the client's last word, whatever the check answers and when.
THEOREM TextIsFinal == Spec => []CompletedIsFinal
<1>1. SocketInv => CompletedIsFinal
  BY DEF SocketInv
<1> QED
  BY <1>1, SocketInvariant, PTL

\* Nobody begins to close the socket while the read loop owes a frame.
THEOREM CloseAfterAnswer == Spec => []AnswerBeforeClose
<1>1. SocketInv => AnswerBeforeClose
  BY DEF SocketInv, Inductive, TypeOK, CloserInv, WriterInv, AnswerBeforeClose, Kind
<1> QED
  BY <1>1, SocketInvariant, PTL

\* Answers, errors and close frames are written one at a time.
THEOREM SerialAnswers == Spec => []AnswersAreSerial
<1>1. SocketInv => AnswersAreSerial
  <2> SUFFICES ASSUME SocketInv, checker \notin {"telling", "rejected"}
               PROVE  Cardinality(inside \ {"consumer"}) <= 1
    BY DEF AnswersAreSerial
  <2>1. AnswerBeforeClose
    BY DEF SocketInv, Inductive, TypeOK, CloserInv, WriterInv, AnswerBeforeClose, Kind
  <2>2. \E w : inside \ {"consumer"} \subseteq {w}
    <3>1. CASE lock = "free"
      <4>1. inside \ {"consumer"} \subseteq {"reader"}
        BY <3>1 DEF SocketInv, Inductive, TypeOK, WriterInv, Writer, Kind
      <4> QED
        BY <4>1
    <3>2. CASE lock # "free"
      <4>1. inside \ {"consumer"} \subseteq {lock}
        BY <2>1, <3>2 DEF SocketInv, Inductive, TypeOK, WriterInv, AnswerBeforeClose, Writer, Kind
      <4> QED
        BY <4>1
    <3> QED
      BY <3>1, <3>2
  <2>3. PICK w : inside \ {"consumer"} = {} \/ inside \ {"consumer"} = {w}
    BY <2>2
  <2>4. Cardinality(inside \ {"consumer"}) \in {0, 1}
    <3>1. Cardinality({}) = 0
      BY FS_EmptySet
    <3>2. Cardinality({w}) = 1
      BY FS_Singleton
    <3> QED
      BY <2>3, <3>1, <3>2, Zenon
  <2> QED
    BY <2>4
<1> QED
  BY <1>1, SocketInvariant, PTL

(***************************************************************************)
(* Nobody waits in a circle: what ConsumerEnds and HandlerReturns rest on. *)
(* Whoever must end has a step of its own that is possible, or waits for   *)
(* an execution of closeSession that has one; or the close of a refused    *)
(* client waits for that client, and nobody but the refused is waited for. *)
(***************************************************************************)
\* Every end of the handler is followed up: a return and a refusal have a closer,
\* and a closer that is done has closed the socket, or was the handler's own.
FollowInv ==
    /\ reader = "returning" => closer["return"] \in {"waiting", "closing"}
    /\ checker = "rejected" => closer["check"] # "none"
    /\ ~registered => socket = "closed"
    /\ \A k \in Kind : closer[k] = "done" => socket = "closed" \/ reader = "ended"

\* What the goroutines of a process that did not crash can do at once; a write that
\* was begun goes on by itself.
CloserGoes(k) ==
    \/ ~Free(k)
    \/ closer[k] = "waiting" /\ lock = "free"
    \/ closer[k] = "closing" /\ Free(k) /\ ~Lingers

ConsumerGoes ==
    \/ ~Free("consumer")
    \/ consumer = "ranging" /\ (pending > 0 \/ channel = "closed")
    \/ consumer = "asking" /\ lock = "free"

ReaderGoes ==
    \/ ~Free("reader")
    \/ reader = "reading" /\ socket = "closed"
    \/ reader \in {"starting", "waiting", "completing", "fixing", "answered"}

NobodyWaitsInACircle ==
    /\ lock # "free" => lock \in Kind /\ (CloserGoes(lock) \/ Lingers)
    /\ Lingers => lock = "check" /\ checker = "rejected"
    /\ consumer \in {"ranging", "asking"} /\ channel = "closed"
         => ConsumerGoes \/ (lock # "free" /\ CloserGoes(lock)) \/ Lingers
    /\ reader = "returning" => \E k \in Kind : CloserGoes(k)
    /\ checker = "rejected" /\ reader # "ended"
         => ReaderGoes \/ (\E k \in Kind : CloserGoes(k)) \/ Lingers

\* The steps that end nothing.
LEMMA FollowSame ==
    ASSUME FollowInv, UNCHANGED <<closer, registered>>,
           socket' = socket \/ socket = "open",
           reader' = reader \/ (reader # "ended" /\ reader' # "returning"),
           checker' = checker \/ checker' # "rejected"
    PROVE  FollowInv'
  BY DEF FollowInv

LEMMA FollowStep ==
    ASSUME Inductive, FollowInv, [Next]_vars
    PROVE  FollowInv'
<1> USE DEF sessionVars, resultVars, readVars, wireVars
<1>1. ASSUME NEW w \in Writer, Enter(w) \/ Leave(w) \/ Crash(w) PROVE FollowInv'
  BY <1>1, FollowSame DEF Enter, Leave, Crash
<1>2. ASSUME NEW w \in Writer, Recover(w) PROVE FollowInv'
  <2>1. w = "reader" => reader # "ended"
    BY <1>2 DEF Recover, Panics, Inductive, WriterInv
  <2>2. closer \in [Kind -> {"none", "waiting", "closing", "done"}]
    BY DEF Inductive, TypeOK
  <2>3. UNCHANGED <<registered, checker, socket>>
    BY <1>2 DEF Recover
  <2>4. CASE w = "reader" /\ reader' = "returning"
             /\ closer' = [closer EXCEPT !["return"] = "waiting"]
    BY <2>1, <2>2, <2>3, <2>4 DEF FollowInv, Kind
  <2>5. CASE reader' = "ended" /\ closer' = [closer EXCEPT !["return"] = "done"]
    BY <2>2, <2>3, <2>5 DEF FollowInv, Kind
  <2> QED
    BY <1>2, <2>4, <2>5 DEF Recover
<1>3. CASE Receive
  BY <1>3, FollowSame
  DEF Receive, BadMessage, FirstAudio, NextAudio, StopMessage, Receives
<1>4. CASE StartEnd
  BY <1>4, FollowSame DEF StartEnd
<1>5. CASE SubscriptionKnown \/ SubscriptionTimeout \/ HandleStop \/ SendCompleted
  BY <1>5, FollowSame DEF SubscriptionKnown, SubscriptionTimeout, HandleStop, SendCompleted
<1>6. CASE Answered \/ ReadError
  <2>1. closer["return"] # "done" /\ closer["stop"] # "done"
    BY <1>6 DEF Answered, ReadError, Inductive, CloserInv
  <2>2. /\ reader' = "returning" /\ reader # "ended"
        /\ UNCHANGED <<registered, checker, socket>>
        /\ \/ closer' = [closer EXCEPT !["return"] = "waiting"]
           \/ closer' = [closer EXCEPT !["stop"] = "waiting", !["return"] = "waiting"]
    BY <1>6 DEF Answered, ReadError
  <2>3. closer \in [Kind -> {"none", "waiting", "closing", "done"}]
    BY DEF Inductive, TypeOK
  <2> QED
    BY <2>1, <2>2, <2>3 DEF FollowInv, Kind
<1>7. CASE CheckBegin \/ CheckEnd
  BY <1>7, FollowSame DEF CheckBegin, CheckEnd
<1>8. CASE CheckTold
  <2>1. closer["check"] = "none"
    BY <1>8 DEF CheckTold, Inductive, CloserInv
  <2>2. closer \in [Kind -> {"none", "waiting", "closing", "done"}]
    BY DEF Inductive, TypeOK
  <2> QED
    BY <1>8, <2>1, <2>2 DEF CheckTold, FollowInv, Kind
<1>9. CASE Result \/ Consume \/ CleanerCloses
  BY <1>9, FollowSame DEF Result, Consume, Take, SendPartial, ConsumerExit, CleanerCloses
<1>10. CASE ClientLeaves
  BY <1>10, FollowSame DEF ClientLeaves
<1>11. ASSUME NEW k \in Kind, Close(k) PROVE FollowInv'
  <2>1. closer \in [Kind -> {"none", "waiting", "closing", "done"}]
    BY DEF Inductive, TypeOK
  <2>2. CASE CloseSkip(k)
    BY <2>1, <2>2 DEF CloseSkip, Done, FollowInv, Kind
  <2>3. CASE CloseBegin(k)
    BY <2>1, <2>3 DEF CloseBegin, FollowInv, Kind
  <2>4. CASE CloseEnd(k)
    BY <2>1, <2>4 DEF CloseEnd, Done, FollowInv, Kind
  <2> QED
    BY <1>11, <2>2, <2>3, <2>4 DEF Close
<1>12. CASE UNCHANGED vars
  BY <1>12, FollowSame DEF vars
<1> QED
  BY <1>1, <1>2, <1>3, <1>4, <1>5, <1>6, <1>7, <1>8, <1>9, <1>10, <1>11, <1>12
  DEF Next, Write, Answer, Check

\* Who holds sessionMutex has a step, or closes a refused client whose read loop
\* still takes messages; so the consumer whose channel is closed, the handler that
\* returns, and the one whose client was refused, have a step of their own or of a
\* closeSession to wait for, or that client: none waits for another that waits for
\* it, whatever panics are recovered meanwhile.
THEOREM NoCircularWait == Spec => []NobodyWaitsInACircle
<1>1. Init => FollowInv
  BY DEF Init, FollowInv
<1>2. SocketInv /\ FollowInv => NobodyWaitsInACircle
  <2> SUFFICES ASSUME Inductive, FollowInv PROVE NobodyWaitsInACircle
    BY DEF SocketInv
  <2>1. lock # "free" => lock \in Kind /\ (CloserGoes(lock) \/ Lingers)
    BY DEF Inductive, TypeOK, CloserInv, CloserGoes
  <2>2. Lingers => lock = "check" /\ checker = "rejected"
    <3> SUFFICES ASSUME Lingers PROVE lock = "check" /\ checker = "rejected"
      OBVIOUS
    <3>1. PICK k \in Kind : closer[k] = "closing" /\ reader = "reading"
      BY DEF Lingers
    <3>2. k \notin {"stop", "return"}
      BY <3>1 DEF Inductive, CloserInv
    <3> QED
      BY <3>1, <3>2 DEF Inductive, CloserInv, Kind
  <2>3. consumer \in {"ranging", "asking"} /\ channel = "closed"
          => ConsumerGoes \/ (lock # "free" /\ CloserGoes(lock)) \/ Lingers
    BY <2>1 DEF ConsumerGoes
  <2>4. ASSUME NEW k \in Kind, closer[k] \in {"waiting", "closing"}
        PROVE  (\E j \in Kind : CloserGoes(j)) \/ Lingers
    BY <2>1, <2>4 DEF CloserGoes
  <2>5. reader = "returning" => \E k \in Kind : CloserGoes(k)
    BY <2>4 DEF FollowInv, Kind, Lingers
  <2>6. ASSUME checker = "rejected", reader \notin {"ended", "returning"}
        PROVE  ReaderGoes \/ (\E k \in Kind : CloserGoes(k)) \/ Lingers
    <3>1. closer["check"] \in {"waiting", "closing", "done"}
      BY <2>6 DEF FollowInv, Inductive, TypeOK, Kind
    <3>2. CASE closer["check"] = "done"
      BY <2>6, <3>2 DEF FollowInv, Kind, ReaderGoes, Inductive, TypeOK
    <3> QED
      BY <2>4, <3>1, <3>2 DEF Kind
  <2> QED
    BY <2>1, <2>2, <2>3, <2>5, <2>6 DEF NobodyWaitsInACircle
<1> QED
  BY <1>1, <1>2, FollowStep, SocketInvariant, PTL DEF Spec, SocketInv
=============================================================================
