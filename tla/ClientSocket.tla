---------------------------- MODULE ClientSocket ----------------------------
(***************************************************************************)
(* One client's socket and everything that writes on it without a lock:    *)
(* the read loop (errors and the answer to the stop message), the consumer *)
(* of the partial results, the subscription check (its refusal) and the    *)
(* executions of closeSession (the close frame).  The connection is the    *)
(* only one of its id.                                                     *)
(*                                                                         *)
(* The library (external) asks for one writer at a time.  When two are     *)
(* inside, it panics in the later one or sends a frame mixed of both, or   *)
(* nothing happens; it does the same to a writer that comes after the      *)
(* handler returned and the connection went back to its pool.  A panic is  *)
(* recovered in the handler's goroutine only; elsewhere it ends the        *)
(* process.                                                                *)
(***************************************************************************)
EXTENDS Integers, Sequences, FiniteSets

CONSTANTS
    MaxErrors,      \* messages of the client that are answered by an error
    MaxPartials,    \* partial results of the session
    Verdicts        \* what getUserSubscription may answer

ASSUME BoundAssumption == MaxErrors \in Nat /\ MaxPartials \in Nat
ASSUME VerdictAssumption == Verdicts \subseteq {"valid", "invalid", "error"}

Kind == {"check", "stop", "return"}     \* the calls of closeSession
Writer == {"reader", "consumer", "checker"} \cup Kind
Frame == {"error", "partial", "completed", "refusal", "failed", "close"}
NoFrame == "none"

VARIABLES
    registered,     \* the session is in h.sessions
    tracked,        \* the processor has an entry for it
    lock,           \* the closeSession that holds sessionMutex, or "free"
    reader,         \* the goroutine of HandleWebSocket
    started,        \* session.Started
    checker,        \* the goroutine of startCheckSubscription, with its Once
    consumer,       \* the goroutine of handleRealtimeResults
    channel,        \* ResultCh
    pending,        \* results buffered in it
    errors,         \* error answers so far
    partials,       \* results so far
    closer,         \* the executions of closeSession
    socket,         \* the connection to the client
    writing,        \* the frame each writer is about to write or is writing
    inside,         \* the writers inside WriteMessage
    mixed,          \* two of them met there
    frames,         \* what reached the client
    crashed         \* a panic ended the process

sessionVars == <<registered, tracked, lock, closer>>
resultVars == <<consumer, channel, pending, partials>>
readVars == <<reader, started, errors>>
wireVars == <<socket, inside, mixed, frames, crashed>>
vars == <<registered, tracked, lock, closer, consumer, channel, pending, partials,
          reader, started, errors, checker, socket, inside, mixed, frames, crashed,
          writing>>

TypeOK ==
    /\ registered \in BOOLEAN /\ tracked \in BOOLEAN
    /\ lock \in Kind \cup {"free"}
    /\ reader \in {"reading", "starting", "waiting", "completing", "fixing",
                   "answered", "returning", "ended"}
    /\ started \in BOOLEAN
    /\ checker \in {"spawned", "running", "telling", "valid", "rejected", "skipped"}
    /\ consumer \in {"none", "ranging", "asking", "exited"}
    /\ channel \in {"none", "open", "closed"}
    /\ pending \in 0..MaxPartials /\ partials \in 0..MaxPartials
    /\ errors \in 0..MaxErrors
    /\ closer \in [Kind -> {"none", "waiting", "closing", "done"}]
    /\ socket \in {"open", "lost", "closed"}
    /\ writing \in [Writer -> Frame \cup {NoFrame}]
    /\ inside \in SUBSET Writer /\ mixed \in BOOLEAN
    /\ frames \in Seq(Frame \cup {"mixed"})
    /\ crashed \in BOOLEAN

Init ==
    /\ registered = TRUE /\ tracked = FALSE
    /\ lock = "free"
    /\ reader = "reading" /\ started = FALSE
    /\ checker = "spawned"
    /\ consumer = "none" /\ channel = "none"
    /\ pending = 0 /\ partials = 0 /\ errors = 0
    /\ closer = [k \in Kind |-> "none"]
    /\ socket = "open"
    /\ writing = [w \in Writer |-> NoFrame]
    /\ inside = {} /\ mixed = FALSE
    /\ frames = <<>>
    /\ crashed = FALSE

(***************************************************************************)
(* WriteMessage of the library.                                            *)
(***************************************************************************)
Free(w) == writing[w] = NoFrame
Send(w, frame) == writing' = [writing EXCEPT ![w] = frame]
Drop(w) == writing' = [writing EXCEPT ![w] = NoFrame]

\* The handler returned: the library took the connection back.
Released == reader = "ended"

Enter(w) ==
    /\ ~Free(w)
    /\ w \notin inside
    /\ \/ /\ ~Released
          /\ inside' = inside \cup {w}
          /\ mixed' = (mixed \/ inside # {})
          /\ UNCHANGED writing
       \/ /\ Released
          /\ Drop(w)
          /\ UNCHANGED <<inside, mixed>>
    /\ UNCHANGED <<sessionVars, resultVars, readVars, checker, socket, frames, crashed>>

\* A frame arrives while the client is there and no close frame was sent.
Arrives == socket = "open" /\ "close" \notin {frames[i] : i \in DOMAIN frames}

Leave(w) ==
    /\ w \in inside
    /\ inside' = inside \ {w}
    /\ mixed' = (mixed /\ inside' # {})
    /\ Drop(w)
    /\ \E sent \in {writing[w]} \cup (IF mixed THEN {"mixed"} ELSE {}) :
         frames' = IF Arrives THEN Append(frames, sent) ELSE frames
    /\ UNCHANGED <<sessionVars, resultVars, readVars, checker, socket, crashed>>

\* The panic of a writer that finds another one inside, or no connection.
Panics(w) == ~Free(w) /\ w \notin inside /\ (inside # {} \/ Released)

Crash(w) ==
    /\ Panics(w)
    /\ crashed' = TRUE
    /\ UNCHANGED <<sessionVars, resultVars, readVars, checker, socket, inside, mixed,
                   frames, writing>>

\* In the handler's goroutine: the deferred closeSession runs; or it was that
\* very call, which unlocks sessionMutex and leaves the session registered.
Recover(w) ==
    /\ Panics(w)
    /\ Drop(w)
    /\ \/ /\ w = "reader"
          /\ reader' = "returning"
          /\ closer' = [closer EXCEPT !["return"] = "waiting"]
          /\ UNCHANGED lock
       \/ /\ w = "return"
          /\ reader' = "ended"
          /\ closer' = [closer EXCEPT !["return"] = "done"]
          /\ lock' = "free"
    /\ UNCHANGED <<registered, tracked, resultVars, started, errors, checker, wireVars>>

(***************************************************************************)
(* The read loop.                                                          *)
(***************************************************************************)
\* A message arrives: the loop is not writing.
Receives == reader = "reading" /\ Free("reader") /\ socket # "closed"

\* sendErrorToSession
SendError == errors < MaxErrors /\ errors' = errors + 1 /\ Send("reader", "error")

\* A message that does not parse, with a foreign session id or an unknown type.
BadMessage ==
    /\ Receives
    /\ SendError
    /\ UNCHANGED <<sessionVars, resultVars, reader, started, checker, wireVars>>

\* AppendAudio and sendAudioData find the session of a channel while it is open,
\* and send the audio on unless the write to OpenAI fails.
AppendAudio(ch) == ch = "open"

\* processor.HandleAudioMessage: samples that cannot be parsed or are empty, and
\* audio that is not appended, are answered by an error.
HandleAudioMessage(ch) ==
    \/ AppendAudio(ch) /\ UNCHANGED <<errors, writing>>
    \/ SendError

\* The first audio: StartSession enters the session, and dials.
FirstAudio ==
    /\ Receives
    /\ ~started
    /\ started' = TRUE
    /\ tracked' = TRUE
    /\ reader' = "starting"
    /\ UNCHANGED <<registered, lock, closer, resultVars, errors, checker, wireVars, writing>>

\* OpenAI is there: the session has a channel, also when it was closed meanwhile,
\* and a consumer, and the first audio is handled.  Or an error, and it is not.
StartEnd ==
    /\ reader = "starting"
    /\ reader' = "reading"
    /\ \/ channel' = "open" /\ consumer' = "ranging" /\ HandleAudioMessage("open")
       \/ SendError /\ UNCHANGED <<channel, consumer>>
    /\ UNCHANGED <<sessionVars, pending, partials, started, checker, wireVars>>

\* The audio after it, also of a session that could not be started, or was closed.
NextAudio ==
    /\ Receives
    /\ started
    /\ HandleAudioMessage(channel)
    /\ UNCHANGED <<sessionVars, resultVars, reader, started, checker, wireVars>>

StopMessage ==
    /\ Receives
    /\ IF started
         THEN reader' = "waiting" /\ UNCHANGED writing
         ELSE reader' = "answered" /\ Send("reader", "failed")
    /\ UNCHANGED <<sessionVars, resultVars, started, errors, checker, wireVars>>

\* Mutant: the wait does not look at the result.
SubscriptionKnownUnread ==
    /\ reader = "waiting"
    /\ checker \notin {"running", "telling"}
    /\ checker' = IF checker = "spawned" THEN "skipped" ELSE checker
    /\ reader' = "completing"
    /\ UNCHANGED <<sessionVars, resultVars, started, errors, wireVars, writing>>

\* The Do(func() {}) of the wait comes after the check, or instead of it.
SubscriptionKnown ==
    /\ reader = "waiting"
    /\ checker \notin {"running", "telling"}
    /\ checker' = IF checker = "spawned" THEN "skipped" ELSE checker
    /\ IF checker = "valid"
         THEN reader' = "completing" /\ UNCHANGED writing
         ELSE reader' = "answered" /\ Send("reader", "refusal")
    /\ UNCHANGED <<sessionVars, resultVars, started, errors, wireVars>>

SubscriptionTimeout ==
    /\ reader = "waiting"
    /\ reader' = "answered"
    /\ Send("reader", "refusal")
    /\ UNCHANGED <<sessionVars, resultVars, started, errors, checker, wireVars>>

\* close(ResultCh), if there is one.
ClosedChannel == IF channel = "open" THEN "closed" ELSE channel

\* processor.HandleStopMessage up to the end of CompleteSession, which closes
\* the session; the buffered results are left to the consumer.
HandleStop ==
    /\ reader = "completing"
    /\ IF tracked
         THEN /\ reader' = "fixing"
              /\ channel' = ClosedChannel
              /\ UNCHANGED writing
         ELSE /\ reader' = "answered"
              /\ Send("reader", "failed")
              /\ UNCHANGED channel
    /\ UNCHANGED <<sessionVars, consumer, pending, partials, started, errors,
                   checker, wireVars>>

\* FixText is over; sendCompletedMessage.
SendCompleted ==
    /\ reader = "fixing"
    /\ reader' = "answered"
    /\ Send("reader", "completed")
    /\ UNCHANGED <<sessionVars, resultVars, started, errors, checker, wireVars>>

\* Mutant: closeSession is spawned before the answer is written.
AnsweredEarly ==
    /\ reader = "answered"
    /\ closer["stop"] = "none"
    /\ reader' = IF Free("reader") THEN "returning" ELSE reader
    /\ closer' = IF Free("reader")
                   THEN [closer EXCEPT !["stop"] = "waiting", !["return"] = "waiting"]
                   ELSE [closer EXCEPT !["stop"] = "waiting"]
    /\ UNCHANGED <<registered, tracked, lock, resultVars, started, errors, checker,
                   wireVars, writing>>

\* The answer is written: `go h.closeSession', and the deferred one.
Answered ==
    /\ reader = "answered"
    /\ Free("reader")
    /\ reader' = "returning"
    /\ closer' = [closer EXCEPT !["stop"] = "waiting", !["return"] = "waiting"]
    /\ UNCHANGED <<registered, tracked, lock, resultVars, started, errors, checker,
                   wireVars, writing>>

ReadError ==
    /\ reader = "reading"
    /\ Free("reader")
    /\ reader' = "returning"
    /\ closer' = [closer EXCEPT !["return"] = "waiting"]
    /\ UNCHANGED <<registered, tracked, lock, resultVars, started, errors, checker,
                   wireVars, writing>>

(***************************************************************************)
(* startCheckSubscription.                                                 *)
(***************************************************************************)
CheckBegin ==
    /\ checker = "spawned"
    /\ checker' = "running"
    /\ UNCHANGED <<sessionVars, resultVars, readVars, wireVars, writing>>

\* The verdict is stored under session.Mutex, which StartSession holds.
CheckEnd ==
    /\ checker = "running"
    /\ reader # "starting"
    /\ \E verdict \in Verdicts :
         IF verdict = "valid"
           THEN checker' = "valid" /\ UNCHANGED writing
           ELSE checker' = "telling" /\ Send("checker", "refusal")
    /\ UNCHANGED <<sessionVars, resultVars, readVars, wireVars>>

\* The refusal is written: `go h.closeSession', and the Once is done.
CheckTold ==
    /\ checker = "telling"
    /\ Free("checker")
    /\ checker' = "rejected"
    /\ closer' = [closer EXCEPT !["check"] = "waiting"]
    /\ UNCHANGED <<registered, tracked, lock, resultVars, readVars, wireVars, writing>>

(***************************************************************************)
(* The results and their consumer.                                         *)
(***************************************************************************)
\* OpenAI transcribed an utterance (RealtimeSession).
Result ==
    /\ channel = "open"
    /\ partials < MaxPartials
    /\ partials' = partials + 1
    /\ pending' = pending + 1
    /\ UNCHANGED <<sessionVars, consumer, channel, readVars, checker, wireVars, writing>>

\* Mutant: a receive on the closed channel counts as a result.
TakeUnchecked ==
    /\ consumer = "ranging"
    /\ Free("consumer")
    /\ pending > 0 \/ channel = "closed"
    /\ pending' = pending - 1
    /\ consumer' = "asking"
    /\ UNCHANGED <<sessionVars, channel, partials, readVars, checker, wireVars, writing>>

Take ==
    /\ consumer = "ranging"
    /\ Free("consumer")
    /\ pending > 0
    /\ pending' = pending - 1
    /\ consumer' = "asking"
    /\ UNCHANGED <<sessionVars, channel, partials, readVars, checker, wireVars, writing>>

\* sendPartialMessage: isSessionActive under the lock, the write after it.
SendPartial ==
    /\ consumer = "asking"
    /\ lock = "free"
    /\ consumer' = "ranging"
    /\ IF registered THEN Send("consumer", "partial") ELSE UNCHANGED writing
    /\ UNCHANGED <<sessionVars, channel, pending, partials, readVars, checker, wireVars>>

ConsumerExit ==
    /\ consumer = "ranging"
    /\ Free("consumer")
    /\ pending = 0
    /\ channel = "closed"
    /\ consumer' = "exited"
    /\ UNCHANGED <<sessionVars, channel, pending, partials, readVars, checker,
                   wireVars, writing>>

\* The transcriber's cleaner finds the session inactive.
CleanerCloses ==
    /\ channel = "open"
    /\ channel' = "closed"
    /\ UNCHANGED <<sessionVars, consumer, pending, partials, readVars, checker,
                   wireVars, writing>>

(***************************************************************************)
(* closeSession.                                                           *)
(***************************************************************************)
\* The deferred call is the last thing the handler does.
Done(k) ==
    /\ closer' = [closer EXCEPT ![k] = "done"]
    /\ reader' = IF k = "return" THEN "ended" ELSE reader

CloseSkip(k) ==
    /\ closer[k] = "waiting"
    /\ lock = "free"
    /\ ~registered
    /\ Done(k)
    /\ UNCHANGED <<registered, tracked, lock, resultVars, started, errors, checker,
                   wireVars, writing>>

\* Mutant: the close waits for the consumer while it holds sessionMutex.
CloseBeginJoin(k) ==
    /\ closer[k] = "waiting"
    /\ lock \in {"free", k}
    /\ registered
    /\ lock' = k
    /\ tracked' = FALSE
    /\ channel' = ClosedChannel
    /\ IF consumer \in {"none", "exited"}
         THEN closer' = [closer EXCEPT ![k] = "closing"] /\ Send(k, "close")
         ELSE UNCHANGED <<closer, writing>>
    /\ UNCHANGED <<registered, consumer, pending, partials, readVars, checker, wireVars>>

\* processor.CloseSession, then gracefulCloseConn begins.
CloseBegin(k) ==
    /\ closer[k] = "waiting"
    /\ lock = "free"
    /\ registered
    /\ lock' = k
    /\ tracked' = FALSE
    /\ channel' = ClosedChannel
    /\ closer' = [closer EXCEPT ![k] = "closing"]
    /\ Send(k, "close")
    /\ UNCHANGED <<registered, consumer, pending, partials, readVars, checker, wireVars>>

\* The write failed, or the read after it did: the peer answered, or the deadline
\* passed, which every message that the read loop takes meanwhile moves.
CloseEnd(k) ==
    /\ closer[k] = "closing"
    /\ Free(k)
    /\ socket' = "closed"
    /\ registered' = FALSE
    /\ lock' = "free"
    /\ Done(k)
    /\ UNCHANGED <<tracked, resultVars, started, errors, checker, inside, mixed,
                   frames, crashed, writing>>

\* The client is gone.
ClientLeaves ==
    /\ socket = "open"
    /\ socket' = "lost"
    /\ UNCHANGED <<sessionVars, resultVars, readVars, checker, inside, mixed, frames,
                   crashed, writing>>

----------------------------------------------------------------------------
Write(w) == Enter(w) \/ Leave(w) \/ Crash(w) \/ Recover(w)
Receive == BadMessage \/ FirstAudio \/ NextAudio \/ StopMessage
Answer == SubscriptionKnown \/ SubscriptionTimeout \/ HandleStop \/ SendCompleted
          \/ Answered
Check == CheckBegin \/ CheckEnd \/ CheckTold
Consume == Take \/ SendPartial \/ ConsumerExit
Close(k) == CloseSkip(k) \/ CloseBegin(k) \/ CloseEnd(k)

Next ==
    /\ ~crashed
    /\ \/ \E w \in Writer : Write(w)
       \/ Receive \/ StartEnd \/ Answer \/ ReadError \/ Check \/ Result \/ Consume
       \/ CleanerCloses \/ ClientLeaves
       \/ \E k \in Kind : Close(k)

Spec == Init /\ [][Next]_vars

\* A close waits on the socket while the read loop still takes messages from it.
Lingers ==
    reader = "reading" /\ socket = "open" /\ \E k \in Kind : closer[k] = "closing"

\* Goroutines run, writes have deadlines, the waits and the dial have timeouts, and
\* so has a close where nobody else reads the socket; a read of a closed socket
\* fails, and the cleaner's ticker finds what a handler left.
Fairness ==
    /\ \A w \in Writer : WF_vars(~crashed /\ Write(w))
    /\ \A k \in Kind :
         WF_vars(~crashed /\ (CloseSkip(k) \/ CloseBegin(k) \/ (~Lingers /\ CloseEnd(k))))
    /\ WF_vars(~crashed /\ StartEnd)
    /\ WF_vars(~crashed /\ Answer)
    /\ WF_vars(~crashed /\ socket = "closed" /\ ReadError)
    /\ WF_vars(~crashed /\ Check)
    /\ WF_vars(~crashed /\ Consume)
    /\ WF_vars(~crashed /\ reader = "ended" /\ CleanerCloses)

FairSpec == Spec /\ Fairness
----------------------------------------------------------------------------
(***************************************************************************)
(* Properties.                                                             *)
(***************************************************************************)
\* What keeps writers apart is the order of the calls alone: unless the check
\* refuses the user, no two of the answers, errors and close frames are written
\* at the same time.  Only a partial result meets another frame.
AnswersAreSerial ==
    checker \notin {"telling", "rejected"}
        => Cardinality(inside \ {"consumer"}) <= 1

\* The text is the last word: after "completed" the client gets no error, no
\* refusal and no second text, and it is never given to a refused client.
CompletedIsFinal ==
    \A i \in DOMAIN frames : frames[i] = "completed" =>
        /\ \A j \in (i + 1)..Len(frames) : frames[j] \in {"partial", "close", "mixed"}
        /\ \A j \in 1..(i - 1) : frames[j] \notin {"refusal", "failed"}

\* The close frame never overtakes an answer: nobody begins to close the socket
\* of a client with a valid subscription while the read loop owes it a frame.
AnswerBeforeClose ==
    checker \notin {"telling", "rejected"} /\ lock # "free" => Free("reader")

\* A client that was refused and is being closed does not go on sending for ever.
ClientStops == []<>~Lingers

\* The consumer, which asks for sessionMutex before each partial result, and the
\* closes, which hold it while they end the consumer's channel, never wait for
\* each other: the goroutine ends with its channel, or after its connection, unless
\* the lock is held for a refused client that never stops sending.
ConsumerEnds ==
    ClientStops =>
        ((consumer # "none" /\ (channel = "closed" \/ reader = "ended"))
             ~> (crashed \/ consumer = "exited"))

\* The handler returns once its read loop ended, whatever the writers do to each
\* other, and also after a refusal, unless that client never stops sending.
HandlerReturns ==
    /\ reader = "returning" ~> (crashed \/ reader = "ended")
    /\ ClientStops => (checker = "rejected" ~> (crashed \/ reader = "ended"))
=============================================================================
