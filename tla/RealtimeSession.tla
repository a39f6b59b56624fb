-------------------------- MODULE RealtimeSession --------------------------
(***************************************************************************)
(* One OpenAI realtime session (RealtimeSession) from its registration to  *)
(* its end, with the goroutines that share it: handleMessages, which reads *)
(* OpenAI's events; handleRealtimeResults, which consumes ResultCh; the    *)
(* CompleteSession of the client's stop message; and one CloseSession from *)
(* outside (the gateway's closeSession, the cleaner or the shutdown).      *)
(*                                                                         *)
(* OpenAI is external.  Items are numbered in the order of speech, as the  *)
(* previous_item_id of their committed events says; an item is started,    *)
(* stopped and committed by the server's voice detection, or committed on  *)
(* request, and its transcription arrives later, in any order, or never.   *)
(* An event is emitted when it is read, so a slow network is a late server.*)
(***************************************************************************)
EXTENDS TranscriptOrder

CONSTANTS
    MaxItems,   \* how many items the client's speech is cut into, at most
    ResultCap   \* capacity of ResultCh (10 in NewRealtimeSession)

ASSUME BoundAssumption == MaxItems \in Nat /\ ResultCap \in Nat

Item == 1..MaxItems
NoItem == 0     \* an empty id, or no text yet

VARIABLES
    registered,     \* the session is in RealtimeTranscriberService.sessions
    closing,        \* how far session.Close came
    outside,        \* the CloseSession from outside: none, running, done
    messages,       \* the handleMessages goroutine
    event,          \* the item of the event it is handling
    status,         \* conversationItems: Status, "absent" is no entry
    link,           \* conversationItems: PreviousItemID
    resultCh,       \* the texts buffered in ResultCh
    consumer,       \* the handleRealtimeResults goroutine
    lastText,       \* the processor session's lastTranscriptText
    request,        \* OpenAI's view of the commit request
    completer,      \* the CompleteSession of the stop message
    allDone,        \* what CommitAndWaitResult reported
    result          \* the items of the final text, in order

closeVars == <<registered, closing, outside>>
itemVars == <<status, link>>
resultVars == <<resultCh, consumer, lastText>>
stopVars == <<request, completer, allDone, result>>
vars == <<registered, closing, outside, messages, event, status, link, resultCh,
          consumer, lastText, request, completer, allDone, result>>

TypeOK ==
    /\ registered \in BOOLEAN
    /\ closing \in {"no", "marked", "channels", "closed"}
    /\ outside \in {"none", "running", "done"}
    /\ messages \in {"reading", "sending", "signalling", "exited", "panicked"}
    /\ event \in Item \cup {NoItem}
    /\ messages = "sending" => event # NoItem
    /\ status \in [Item -> {"absent", "started", "stopped", "committed", "completed"}]
    /\ link \in [Item -> Item \cup {NoItem}]
    /\ resultCh \in Seq(Item) /\ Len(resultCh) <= ResultCap
    /\ consumer \in {"ranging", "exited"}
    /\ lastText \in Item \cup {NoItem}
    /\ request \in {"none", "sent", "answered"}
    /\ completer \in {"idle", "committing", "sent", "awaiting", "items",
                      "collecting", "closing", "done"}
    /\ allDone \in BOOLEAN
    /\ result \in Seq(Item)

Init ==
    /\ registered = TRUE
    /\ closing = "no"
    /\ outside = "none"
    /\ messages = "reading"
    /\ event = NoItem
    /\ status = [i \in Item |-> "absent"]
    /\ link = [i \in Item |-> NoItem]
    /\ resultCh = <<>>
    /\ consumer = "ranging"
    /\ lastText = NoItem
    /\ request = "none"
    /\ completer = "idle"
    /\ allDone = FALSE
    /\ result = <<>>

\* A panic in any goroutine ends the process.
Running == messages # "panicked"

Completed == {i \in Item : status[i] = "completed"}
PendingItemIDs == {i \in Item : status[i] \notin {"absent", "completed"}}

(***************************************************************************)
(* handleMessages: reading an event, updating its item, and what follows.  *)
(***************************************************************************)
\* session.Close closed closeCh and ResultCh; it was only begun when it is "marked".
ChannelsClosed == closing \in {"channels", "closed"}

\* The loop looks at closeCh before it reads again.
NextRead == messages' = IF ChannelsClosed THEN "exited" ELSE "reading"

\* ReadMessage returns an event while the connection is open.
CanRead == Running /\ messages = "reading" /\ closing # "closed"

\* Mutant: the previous id is taken for the next one.
UpdateItemNextID(i, newStatus) ==
    /\ status' = [status EXCEPT ![i] = newStatus]
    /\ link' = IF newStatus = "committed" THEN [link EXCEPT ![i] = i + 1] ELSE link

\* UpdateOrCreateConversationItem: status always, previous id when it is given.
UpdateItem(i, newStatus) ==
    /\ status' = [status EXCEPT ![i] = newStatus]
    /\ link' = IF newStatus = "committed" THEN [link EXCEPT ![i] = i - 1] ELSE link

Committed(i) == status[i] \in {"committed", "completed"}

\* The server hears one utterance at a time, and none once the commit request
\* took the rest of the audio.
SpeechStarted(i) ==
    /\ CanRead
    /\ request # "answered"
    /\ status[i] = "absent"
    /\ \A j \in 1..(i - 1) : Committed(j)
    /\ UpdateItem(i, "started")
    /\ NextRead
    /\ UNCHANGED <<closeVars, resultVars, stopVars, event>>

SpeechStopped(i) ==
    /\ CanRead
    /\ status[i] = "started"
    /\ UpdateItem(i, "stopped")
    /\ NextRead
    /\ UNCHANGED <<closeVars, resultVars, stopVars, event>>

\* handleAudioBufferCommitted, first half: the item is updated.
AudioBufferCommitted(i) ==
    /\ CanRead
    /\ \/ status[i] = "stopped" /\ UNCHANGED request
       \/ /\ request = "sent"
          /\ request' = "answered"
          /\ status[i] \in {"absent", "started", "stopped"}
          /\ \A j \in 1..(i - 1) : Committed(j)
    /\ UpdateItem(i, "committed")
    /\ event' = i
    /\ messages' = "signalling"
    /\ UNCHANGED <<closeVars, resultVars, completer, allDone, result>>

\* The error event of a commit request: of an empty buffer, or another one.
CommitError ==
    /\ CanRead
    /\ request = "sent"
    /\ request' = "answered"
    /\ \/ /\ \A i \in Item : status[i] \notin {"started", "stopped"}
          /\ messages' = "signalling"
       \/ NextRead
    /\ UNCHANGED <<closeVars, itemVars, resultVars, event, completer, allDone, result>>

\* The non-blocking send on the unbuffered commitCh: it is received only by a
\* CompleteSession that waits in its select; otherwise it is lost.
Signal ==
    /\ Running
    /\ messages = "signalling"
    /\ completer' = IF completer = "awaiting" THEN "items" ELSE completer
    /\ event' = NoItem
    /\ NextRead
    /\ UNCHANGED <<closeVars, itemVars, resultVars, request, allDone, result>>

\* Mutant: the result is sent on and the item keeps its status.
TranscriptionCompletedNoUpdate(i) ==
    /\ CanRead
    /\ status[i] = "committed"
    /\ event' = i
    /\ messages' = "sending"
    /\ UNCHANGED <<closeVars, itemVars, resultVars, stopVars>>

\* handleTranscriptionCompleted, first half: the item is updated.
TranscriptionCompleted(i) ==
    /\ CanRead
    /\ status[i] = "committed"
    /\ UpdateItem(i, "completed")
    /\ event' = i
    /\ messages' = "sending"
    /\ UNCHANGED <<closeVars, resultVars, stopVars>>

\* Second half: the non-blocking send.  On a closed channel Go panics, also
\* inside a select with a default branch; on a full one the result is dropped.
SendResult ==
    /\ Running
    /\ messages = "sending"
    /\ event' = NoItem
    /\ IF ChannelsClosed
         THEN messages' = "panicked" /\ UNCHANGED resultCh
         ELSE /\ NextRead
              /\ resultCh' = IF Len(resultCh) < ResultCap
                               THEN Append(resultCh, event) ELSE resultCh
    /\ UNCHANGED <<closeVars, itemVars, stopVars, consumer, lastText>>

\* ReadMessage fails: the connection was closed here, or was lost.
ReadError ==
    /\ Running
    /\ messages = "reading"
    /\ messages' = "exited"
    /\ UNCHANGED <<closeVars, itemVars, resultVars, stopVars, event>>

(***************************************************************************)
(* handleRealtimeResults.                                                  *)
(***************************************************************************)
Consume ==
    /\ Running
    /\ consumer = "ranging"
    /\ resultCh # <<>>
    /\ lastText' = Head(resultCh)
    /\ resultCh' = Tail(resultCh)
    /\ UNCHANGED <<closeVars, itemVars, stopVars, messages, event, consumer>>

ConsumerExit ==
    /\ Running
    /\ consumer = "ranging"
    /\ resultCh = <<>>
    /\ ChannelsClosed
    /\ consumer' = "exited"
    /\ UNCHANGED <<closeVars, itemVars, stopVars, messages, event, resultCh, lastText>>

(***************************************************************************)
(* CompleteSession, with CommitAndWaitResult and WaitForCompletion.        *)
(***************************************************************************)
\* The stop message finds the session registered; without it the last partial
\* text is the answer and nothing else happens.
CompleteSession ==
    /\ Running
    /\ completer = "idle"
    /\ IF registered
         THEN completer' = "committing" /\ UNCHANGED result
         ELSE /\ completer' = "done"
              /\ result' = IF lastText = NoItem THEN <<>> ELSE <<lastText>>
    /\ UNCHANGED <<closeVars, itemVars, resultVars, messages, event, request, allDone>>

\* commitAudioBuffer: refused once closed is set, some time between the removal of
\* the session and the close of its channels; the write fails when the connection
\* was lost.
CommitAudioBuffer ==
    /\ Running
    /\ completer = "committing"
    /\ \/ ~ChannelsClosed /\ request' = "sent" /\ completer' = "sent"
       \/ completer' = "collecting" /\ UNCHANGED request
    /\ UNCHANGED <<closeVars, itemVars, resultVars, messages, event, allDone, result>>

\* WaitForCommitResult raises waitingCommit and enters its select only now,
\* after the request went out.
AwaitCommit ==
    /\ Running
    /\ completer = "sent"
    /\ completer' = "awaiting"
    /\ UNCHANGED <<closeVars, itemVars, resultVars, messages, event, request,
                   allDone, result>>

\* Mutant: there is no commitTimeout, only closeCh.
CommitTimeoutNever ==
    /\ Running
    /\ completer = "awaiting"
    /\ ChannelsClosed
    /\ completer' = "collecting"
    /\ UNCHANGED <<closeVars, itemVars, resultVars, messages, event, request,
                   allDone, result>>

\* commitTimeout (5 s), or closeCh.
CommitTimeout ==
    /\ Running
    /\ completer = "awaiting"
    /\ completer' = "collecting"
    /\ UNCHANGED <<closeVars, itemVars, resultVars, messages, event, request,
                   allDone, result>>

\* A tick of WaitForCompletion finds no pending item.
ItemsDone ==
    /\ Running
    /\ completer = "items"
    /\ PendingItemIDs = {}
    /\ completer' = "collecting"
    /\ allDone' = TRUE
    /\ UNCHANGED <<closeVars, itemVars, resultVars, messages, event, request, result>>

\* transcriptionWaitTimeout (5 s), or closeCh.
ItemsTimeout ==
    /\ Running
    /\ completer = "items"
    /\ completer' = "collecting"
    /\ UNCHANGED <<closeVars, itemVars, resultVars, messages, event, request,
                   allDone, result>>

\* GetCompletedTranscripts, whatever the waits reported.
Collect ==
    /\ Running
    /\ completer = "collecting"
    /\ \E order \in SortByPreviousItemID(Completed, link) : result' = order
    /\ completer' = "closing"
    /\ UNCHANGED <<closeVars, itemVars, resultVars, messages, event, request, allDone>>

(***************************************************************************)
(* CloseSession: whoever removes the registration runs session.Close.      *)
(***************************************************************************)
CompleterCloses ==
    /\ Running
    /\ completer = "closing"
    /\ \/ /\ registered
          /\ registered' = FALSE
          /\ closing' = "marked"
          /\ UNCHANGED completer
       \/ /\ ~registered
          /\ outside # "none" \/ closing = "closed"
          /\ completer' = "done"
          /\ UNCHANGED <<registered, closing>>
    /\ UNCHANGED <<itemVars, resultVars, messages, event, outside, request,
                   allDone, result>>

OutsideCloses ==
    /\ Running
    /\ outside = "none"
    /\ registered
    /\ outside' = "running"
    /\ registered' = FALSE
    /\ closing' = "marked"
    /\ UNCHANGED <<itemVars, resultVars, stopVars, messages, event>>

\* Mutant: session.Close returns before it closes the channels.
CloseChannelsLeft ==
    /\ Running
    /\ closing = "marked"
    /\ closing' = "marked"
    /\ UNCHANGED <<itemVars, resultVars, stopVars, messages, event, registered, outside>>

\* close(closeCh) and close(ResultCh), then conn.Close.
CloseChannels ==
    /\ Running
    /\ closing = "marked"
    /\ closing' = "channels"
    /\ UNCHANGED <<itemVars, resultVars, stopVars, messages, event, registered, outside>>

CloseConn ==
    /\ Running
    /\ closing = "channels"
    /\ closing' = "closed"
    /\ outside' = IF outside = "running" THEN "done" ELSE outside
    /\ UNCHANGED <<itemVars, resultVars, stopVars, messages, event, registered>>

----------------------------------------------------------------------------
ServerEvent ==
    \/ \E i \in Item : SpeechStarted(i) \/ SpeechStopped(i)
                       \/ AudioBufferCommitted(i) \/ TranscriptionCompleted(i)
    \/ CommitError
Handler == Signal \/ SendResult
Consumer == Consume \/ ConsumerExit
Stop == CommitAudioBuffer \/ AwaitCommit \/ CommitTimeout \/ ItemsDone
        \/ ItemsTimeout \/ Collect \/ CompleterCloses
SessionClose == CloseChannels \/ CloseConn

Next == ServerEvent \/ Handler \/ ReadError \/ Consumer \/ CompleteSession
        \/ Stop \/ OutsideCloses \/ SessionClose

Spec == Init /\ [][Next]_vars

\* Runnable goroutines run, the waits of CompleteSession have timeouts, and a
\* read of a closed connection fails.  A write to OpenAI, which has no deadline in
\* the code, is taken to end.  OpenAI owes nothing else.
Fairness ==
    /\ WF_vars(Handler)
    /\ WF_vars(closing = "closed" /\ ReadError)
    /\ WF_vars(Consumer)
    /\ WF_vars(Stop)
    /\ WF_vars(SessionClose)

FairSpec == Spec /\ Fairness

----------------------------------------------------------------------------
(***************************************************************************)
(* Properties.                                                             *)
(***************************************************************************)
\* The final text never has two utterances swapped, repeated, or one left out
\* between two others: whatever arrived by the time of collection, in whatever
\* order, the items are consecutive and in the order of speech.
TextIsContiguous ==
    completer \in {"closing", "done"} =>
        \A k \in 1..(Len(result) - 1) : result[k + 1] = result[k] + 1

\* Once the stop's own commit was answered and every transcription arrived, the
\* final text is whole, whoever closes the session before it is collected.
Settled == completer = "items" /\ request = "answered" /\ PendingItemIDs = {}
Whole == \A i \in Item : status[i] # "absent" => i \in Range(result)
Collected == completer \in {"closing", "done"}
SettledTextIsWhole == [](Settled => [](Collected => Whole))

\* What the order of the text rests on: a committed item is linked to the one
\* before it, which was committed earlier.
OrderInv ==
    /\ \A i \in Item : Committed(i) => link[i] = i - 1
    /\ \A i \in Item : status[i] # "absent" => \A j \in 1..(i - 1) : Committed(j)
    /\ TextIsContiguous

\* A partial text on its way to the client is of a completed item, so the last
\* one, which stands in when the session is gone, is no invention either.
PartialInv ==
    /\ messages = "sending" => event \in Completed
    /\ Range(resultCh) \subseteq Completed
    /\ lastText = NoItem \/ lastText \in Completed

\* The session keeps the promise of a dictation: its text is given once, is a run
\* of transcribed utterances, and never changes, on every path to it.
Dictation == INSTANCE SpokenText WITH
    transcribed <- Completed, given <- Collected, text <- result
DictationSpec == Dictation!Spec

\* CompleteSession ends and the OpenAI connection is closed by then or soon
\* after: no wait in it outlasts its timeout or a close from outside.
StopEnds ==
    (completer = "committing")
        ~> (~Running \/ (completer = "done" /\ closing = "closed"))

\* Closing the session ends the two goroutines that serve it.
GoroutinesEnd ==
    (closing = "marked")
        ~> (~Running \/ (messages = "exited" /\ consumer = "exited"))

(***************************************************************************)
(* What the comments of the code say and its steps do not keep.            *)
(***************************************************************************)
\* "Failed to send transcript: channel full or closed": sending a result on a
\* closed channel is a case that is handled.
SendOnClosedIsHandled == messages # "panicked"

\* "GetCompletedTranscripts returns all completed transcriptions in the right
\* order": every transcription completed when the text is put together is in it.
AllCompletedReturned ==
    [][completer = "collecting" /\ completer' = "closing"
         => Completed \subseteq Range(result')]_vars

\* "Waits for the committed event after the commit of the buffer": the signal
\* that ends WaitForCommitResult is the answer to the commit request.
CommitAnswerAwaited == completer = "items" => request = "answered"
=============================================================================
