--------------------------- MODULE FileRecordings ---------------------------
(***************************************************************************)
(* Dictations that are kept as files: FileWebSocketService over            *)
(* AudioService, with the text correction at the end.                      *)
(*                                                                         *)
(* A recording is what one connection does: StartSession with its first    *)
(* message, messages, possibly a stop, and CloseSession.  AudioService's   *)
(* close is cut into its file operations: each may fail, and the program   *)
(* may stop between any two of them.  The files are in the temporary       *)
(* directory: they outlive the program, and nothing is said of the machine. *)
(*                                                                         *)
(* Neither service keeps two recordings of one id, or two calls for one    *)
(* recording, apart.  The gateway makes the calls of a client whom the     *)
(* subscription check accepts one after the other, but its own test of the *)
(* id leaves a gap.  TurnsSpec is about such clients, in turns on an id.   *)
(***************************************************************************)
EXTENDS TextCorrection, AudioFormats, FiniteSets

CONSTANTS
    Recording,      \* the dictations
    SessionID,      \* the ids of their sessions, also the names of the files
    SidOf,          \* the id of a recording
    FormatOf,       \* the sample format of a recording
    Samples,        \* the messages a client may send
    MaxMessages,    \* bound on the messages written for a recording
    WordSize,       \* 2^32: sizes in a WAV header are words
    Transcription,  \* the text of processAudioDataFromFile
    Exchanges,      \* how an exchange with OpenAI may go
    None            \* no entry, no file, no bytes

ASSUME RecordingAssumption == SidOf \in [Recording -> SessionID]
ASSUME SamplesAssumption == Samples \subseteq Seq(Byte)
ASSUME BoundAssumption == MaxMessages \in Nat /\ WordSize \in Nat \ {0}

\* processAudioDataFromFile answers a fixed text.
ASSUME TranscriptionAssumption == Transcription # NoText
ASSUME ExchangesAssumption == Exchanges \subseteq Exchange

VARIABLES
    sessions,       \* FileWebSocketService.sessions: id -> recording
    audioSessions,  \* AudioService.audioSessions: id -> path and descriptor
    disk,           \* the files as the program sees them
    phase,          \* where the calls for a recording are
    by,             \* the handler that called AudioService.Close
    answer,         \* the result of the stop
    exchange,       \* the exchange about the correction
    messages,       \* messages written so far
    accepted,       \* bytes acknowledged, None when Create failed
    torn,           \* a write failed part of the way
    kept            \* id -> the bytes written for its latest raw file

vars == <<sessions, audioSessions, disk, phase, by, answer, exchange,
          messages, accepted, torn, kept>>
fileVars == <<disk, kept>>
clientVars == <<messages, accepted, torn>>
textVars == <<answer, exchange>>

Converting == {"sync", "closeRaw", "openRaw", "createWav", "header", "copy",
               "syncWav", "removeTmp"}
Active == Converting \cup {"open", "fixing", "closing"}
Word == 0..(WordSize - 1)
File == [header : {<<>>} \cup (Word \X Word), data : Seq(Byte)]
Files == [tmp : File \cup {None}, wav : File \cup {None}]
AudioSession == [path : {"tmp", "wav"}, file : {"open", "broken", "nil"}]

ASSUME NoneAssumption == None \notin File \cup AudioSession \cup Seq(Byte)

TypeOK ==
    /\ sessions \in [SessionID -> Recording \cup {None}]
    /\ audioSessions \in [SessionID -> AudioSession \cup {None}]
    /\ disk \in [SessionID -> Files]
    /\ kept \in [SessionID -> Seq(Byte) \cup {None}]
    /\ phase \in [Recording -> Active \cup {"idle", "ended", "lost"}]
    /\ by \in [Recording -> {"none", "stop", "close"}]
    /\ messages \in [Recording -> 0..MaxMessages]
    /\ accepted \in [Recording -> Seq(Byte) \cup {None}]
    /\ torn \in [Recording -> BOOLEAN]

Init ==
    /\ sessions = [s \in SessionID |-> None]
    /\ audioSessions = [s \in SessionID |-> None]
    /\ disk = [s \in SessionID |-> [tmp |-> None, wav |-> None]]
    /\ phase = [r \in Recording |-> "idle"]
    /\ by = [r \in Recording |-> "none"]
    /\ answer = [r \in Recording |-> None]
    /\ exchange = [r \in Recording |-> None]
    /\ messages = [r \in Recording |-> 0]
    /\ accepted = [r \in Recording |-> None]
    /\ torn = [r \in Recording |-> FALSE]
    /\ kept = [s \in SessionID |-> None]

(***************************************************************************)
(* Helpers.                                                                *)
(***************************************************************************)
GoTo(r, place) == phase' = [phase EXCEPT ![r] = place]
Raw(bytes) == [header |-> <<>>, data |-> bytes]

\* Mutant: the size is not cut to 32 bits.
HeaderWide(size) == <<size + 36, size>>
\* writeWavHeader: the RIFF size and the size of the data.
Header(size) == <<(size + 36) % WordSize, size % WordSize>>
Wav(bytes) == [header |-> Header(Len(bytes)), data |-> bytes]

\* AudioService.Close returned to the handler that called it.
Returned(r, caller, ok) ==
    IF caller = "stop"
      THEN /\ GoTo(r, IF ok THEN "fixing" ELSE "closing")
           /\ UNCHANGED sessions
      ELSE /\ GoTo(r, "ended")
           /\ sessions' = [sessions EXCEPT ![SidOf[r]] = None]

(***************************************************************************)
(* StartSession and the messages.                                          *)
(***************************************************************************)
\* Mutant: an existing raw file is continued.
CreatedOver(old) == IF old = None THEN Raw(<<>>) ELSE old
\* os.Create: an existing file is truncated.
Created(old) == Raw(<<>>)

\* The session is entered first; an audio session of an earlier recording is
\* overwritten when the file was created and stays when it was not.
StartSession(r) ==
    LET s == SidOf[r] IN
    /\ phase[r] = "idle"
    /\ sessions' = [sessions EXCEPT ![s] = r]
    /\ GoTo(r, "open")
    /\ \/ /\ audioSessions' = [audioSessions EXCEPT ![s] = [path |-> "tmp", file |-> "open"]]
          /\ disk' = [disk EXCEPT ![s].tmp = Created(@)]
          /\ accepted' = [accepted EXCEPT ![r] = <<>>]
          /\ kept' = [kept EXCEPT ![s] = <<>>]
       \/ UNCHANGED <<audioSessions, disk, accepted, kept>>
    /\ UNCHANGED <<by, textVars, messages, torn>>

WriteRaw(s, bytes) ==
    /\ disk' = [disk EXCEPT ![s].tmp.data = @ \o bytes]
    /\ kept' = [kept EXCEPT ![s] = @ \o bytes]

\* WriteData: a message that is refused, and one for a session without an open
\* file, is answered with an error and changes nothing.
HandleAudioMessage(r, data) ==
    LET s == SidOf[r]
        samples == Process(FormatOf[r], data)
    IN
    /\ phase[r] = "open"
    /\ messages[r] < MaxMessages
    /\ Accepts(FormatOf[r], data)
    /\ audioSessions[s] # None
    /\ audioSessions[s].file = "open"
    /\ messages' = [messages EXCEPT ![r] = @ + 1]
    /\ \/ /\ WriteRaw(s, samples)
          /\ accepted' = [accepted EXCEPT ![r] = IF @ = None THEN None ELSE @ \o samples]
          /\ UNCHANGED torn
       \/ /\ \E piece \in Prefixes(samples) \ {samples} : WriteRaw(s, piece)
          /\ torn' = [torn EXCEPT ![r] = TRUE]
          /\ UNCHANGED accepted
    /\ UNCHANGED <<sessions, audioSessions, phase, by, textVars>>

(***************************************************************************)
(* AudioService.Close, for the stop and for CloseSession.                  *)
(***************************************************************************)
\* No audio session is an error; a descriptor that was cleared is a success,
\* whatever became of the conversion.
CallClose(r, caller) ==
    LET s == SidOf[r] IN
    /\ by' = [by EXCEPT ![r] = caller]
    /\ IF audioSessions[s] = None THEN Returned(r, caller, FALSE)
       ELSE IF audioSessions[s].file = "nil" THEN Returned(r, caller, TRUE)
       ELSE GoTo(r, "sync") /\ UNCHANGED sessions
    /\ UNCHANGED <<audioSessions, fileVars, clientVars, textVars>>

HandleStopMessage(r) == phase[r] = "open" /\ CallClose(r, "stop")
CloseSession(r) == phase[r] \in {"open", "closing"} /\ CallClose(r, "close")

\* A failing step ends close() and leaves what the steps before it did; a
\* descriptor that cannot be closed stays set.
StepFails(r) ==
    /\ phase[r] \in Converting \ {"removeTmp"}
    /\ Returned(r, by[r], FALSE)
    /\ audioSessions' =
         IF phase[r] = "closeRaw" THEN [audioSessions EXCEPT ![SidOf[r]].file = "broken"]
         ELSE audioSessions
    /\ UNCHANGED <<fileVars, by, clientVars, textVars>>

\* Sync makes no difference to a program that reads the file later.
SyncRaw(r) ==
    /\ phase[r] = "sync"
    /\ audioSessions[SidOf[r]].file = "open"
    /\ GoTo(r, "closeRaw")
    /\ UNCHANGED <<sessions, audioSessions, fileVars, by, clientVars, textVars>>

\* The path has the extension .tmp as long as the descriptor is set, so the
\* early return for .wav is never taken.
CloseRaw(r) ==
    /\ phase[r] = "closeRaw"
    /\ audioSessions' = [audioSessions EXCEPT ![SidOf[r]].file = "nil"]
    /\ GoTo(r, "openRaw")
    /\ UNCHANGED <<sessions, fileVars, by, clientVars, textVars>>

OpenRaw(r) ==
    /\ phase[r] = "openRaw"
    /\ disk[SidOf[r]].tmp # None
    /\ GoTo(r, "createWav")
    /\ UNCHANGED <<sessions, audioSessions, fileVars, by, clientVars, textVars>>

CreateWav(r) ==
    /\ phase[r] = "createWav"
    /\ disk' = [disk EXCEPT ![SidOf[r]].wav = Raw(<<>>)]
    /\ GoTo(r, "header")
    /\ UNCHANGED <<sessions, audioSessions, kept, by, clientVars, textVars>>

WriteWavHeader(r) ==
    LET s == SidOf[r] IN
    /\ phase[r] = "header"
    /\ disk' = [disk EXCEPT ![s].wav.header = Header(Len(disk[s].tmp.data))]
    /\ GoTo(r, "copy")
    /\ UNCHANGED <<sessions, audioSessions, kept, by, clientVars, textVars>>

\* Mutant: one read is taken for the whole file.
CopyDataOnce(r) ==
    /\ phase[r] = "copy"
    /\ \E piece \in Prefixes(disk[SidOf[r]].tmp.data) :
         disk' = [disk EXCEPT ![SidOf[r]].wav.data = piece]
    /\ GoTo(r, "syncWav")
    /\ UNCHANGED <<sessions, audioSessions, kept, by, clientVars, textVars>>

\* io.Copy, piece by piece until the end of the raw file.
CopyData(r) ==
    LET raw == disk[SidOf[r]].tmp.data IN
    /\ phase[r] = "copy"
    /\ \E piece \in Prefixes(raw) :
         /\ Len(piece) >= Len(disk[SidOf[r]].wav.data)
         /\ disk' = [disk EXCEPT ![SidOf[r]].wav.data = piece]
         /\ GoTo(r, IF piece = raw THEN "syncWav" ELSE "copy")
    /\ UNCHANGED <<sessions, audioSessions, kept, by, clientVars, textVars>>

SyncWav(r) ==
    /\ phase[r] = "syncWav"
    /\ GoTo(r, "removeTmp")
    /\ UNCHANGED <<sessions, audioSessions, fileVars, by, clientVars, textVars>>

\* A raw file that cannot be removed is only logged.
RemoveTmp(r) ==
    LET s == SidOf[r] IN
    /\ phase[r] = "removeTmp"
    /\ disk' = [disk EXCEPT ![s].tmp = None] \/ UNCHANGED disk
    /\ audioSessions' = [audioSessions EXCEPT ![s].path = "wav"]
    /\ Returned(r, by[r], TRUE)
    /\ UNCHANGED <<kept, by, clientVars, textVars>>

\* The transcription is corrected and answered.
FixTextAnswer(r) ==
    /\ phase[r] = "fixing"
    /\ \E made \in Exchanges :
         /\ exchange' = [exchange EXCEPT ![r] = made]
         /\ answer' = [answer EXCEPT ![r] = Corrected(Transcription, made)]
    /\ GoTo(r, "closing")
    /\ UNCHANGED <<sessions, audioSessions, fileVars, by, clientVars>>

\* The program stops, and starts again with empty maps and the files as they are.
Crash ==
    /\ \E r \in Recording : phase[r] \in Active
    /\ phase' = [r \in Recording |-> IF phase[r] \in Active THEN "lost" ELSE phase[r]]
    /\ sessions' = [s \in SessionID |-> None]
    /\ audioSessions' = [s \in SessionID |-> None]
    /\ UNCHANGED <<fileVars, by, clientVars, textVars>>
----------------------------------------------------------------------------
Convert(r) ==
    \/ SyncRaw(r) \/ CloseRaw(r) \/ OpenRaw(r) \/ CreateWav(r)
    \/ WriteWavHeader(r) \/ CopyData(r) \/ SyncWav(r) \/ RemoveTmp(r)

\* The recordings of an id take turns: the next one starts after CloseSession has
\* ended the last.
Turn(r) == \A other \in Recording : SidOf[other] = SidOf[r] => phase[other] \notin Active

TurnsNext ==
    \/ \E r \in Recording :
         \/ Turn(r) /\ StartSession(r)
         \/ HandleStopMessage(r) \/ CloseSession(r)
         \/ \E data \in Samples : HandleAudioMessage(r, data)
         \/ Convert(r) \/ StepFails(r) \/ FixTextAnswer(r)
    \/ Crash

TurnsSpec == Init /\ [][TurnsNext]_vars
----------------------------------------------------------------------------
(***************************************************************************)
(* Properties.                                                             *)
(***************************************************************************)
\* Audio that was written is not lost again, whatever step of the conversion fails,
\* how often close is called and wherever the program stops: until the next
\* recording under the id, the raw file holds all of it or a complete WAV does.
AudioSurvives ==
    \A s \in SessionID : kept[s] # None =>
        \/ disk[s].tmp # None /\ disk[s].tmp.data = kept[s]
        \/ disk[s].wav = Wav(kept[s])

\* When the stop handler goes on to transcribe a recording whose file was
\* created, its WAV file holds every acknowledged byte and nothing else, under
\* a header with its size: no second close, failed conversion or earlier file
\* of the id stands in for it.
StopFindsItsAudio ==
    [][\A r \in Recording :
         phase[r] # "fixing" /\ phase'[r] = "fixing" /\ accepted[r] # None /\ ~torn[r]
           => disk'[SidOf[r]].wav = Wav(accepted[r])]_vars

ItemTexts(item) == {item.content[j].text : j \in DOMAIN item.content}
Texts(output) == UNION {ItemTexts(output[i]) : i \in DOMAIN output}
Messages(output) == {i \in DOMAIN output : output[i].type = "message"}
MessageTexts(output) == UNION {ItemTexts(output[i]) : i \in Messages(output)}

\* The client gets the transcription when the exchange broke off anywhere or
\* was refused, and otherwise a text of the reply: no reasoning of the model
\* where a message of the reply has an output text, nothing of an error's body.
AnswerIsCorrection ==
    \A r \in Recording : answer[r] # None =>
        LET output == exchange[r].output
            answered == exchange[r].went = "through" /\ exchange[r].status = 200
                        /\ exchange[r].json
        IN
        /\ ~answered => answer[r] = Transcription
        /\ answered => answer[r] \in Texts(output) \cup {NoText}
        /\ answered /\ (\E i \in Messages(output) : HasOutputText(output[i].content))
             => answer[r] \in MessageTexts(output)
=============================================================================
