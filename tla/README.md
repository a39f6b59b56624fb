# Formal model of the voice keyboard backend

TLA+ modules, TLC runs and TLAPS proofs about the Go backend of the voice
keyboard: a server that takes dictated audio over a WebSocket, streams it to
OpenAI's realtime transcription, and returns the corrected text. `PROJECT.json`
lists the components, the runs, the mutants, the source lines behind every
definition, the findings, the hazards and the theorems; this file explains
them. Source paths are relative to the repository.

## 1. Inventory

| component | state | operations | where it is hard |
|---|---|---|---|
| **WebSocket gateway** `internal/services/transcribe/transcribe_handler.go` | `sessions` (id to session), `userSessions` (user to set of ids), `sessionMutex`; per session `Started`, `subscriptionOnce`, `subscriptionValid` | `HandleWebSocket` (limit, unique id, `initSession`), `handleSession` (read loop), `startCheckSubscription`, `waitForSubscriptionStatus`, `closeSession` | check-then-act across two critical sections; up to three `closeSession` for one connection, each acting by id; a graceful close under the write lock, of up to 2 s, and longer for a refused client that keeps sending; a `sync.Once` used both to run and to await the check; a 5 s timeout against the check |
| **Realtime processor** `internal/services/transcribe/realtime_service.go` | `sessions` (id to session: start flag, last partial text) | `StartSession`, `HandleAudioMessage`, `HandleStopMessage`, `CloseSession`, the goroutine `handleRealtimeResults` | looked up by id several times during one stop; the last partial text is the fallback result |
| **Realtime transcriber** `internal/services/openai/realtime.go` (`RealtimeTranscriberService`) | `sessions` (id to OpenAI session), the cleaner's ticker | `StartSession`, `AppendAudio`, `CompleteSession`, `CloseSession`, `cleanSessions`, `Close` | the dial happens before the registration; the cleaner collects ids and closes them later |
| **Realtime session** same file (`RealtimeSession`) | connection, `closeCh`, `ResultCh`, `commitCh`, `waitingCommit`, `conversationItems` | `handleMessages`, `commitAudioBuffer`, `WaitForCommitResult`, `WaitForCompletion`, `GetCompletedTranscripts`, `Close` | events in any order against two timed waits; non-blocking sends; channels closed while others send |
| **Authentication** `internal/services/auth.go` and the repositories of tokens, users and social accounts | tables `user_tokens`, `users`, `users_social_auths`; the connection pool | `RefreshTokensPair`, `SignInWithSocial`, `ValidateToken` | concurrent requests with one token or one account; a statement outside its transaction; a bounded pool |
| **Audio files** `internal/services/audio.go` | `audioSessions` (an unlocked map, never emptied), raw and WAV files | `Create`, `WriteData`, `Close`, `Remove` | conversion in steps that fail one by one, or that a crash cuts; 32-bit sizes |
| File processor `internal/services/transcribe/file_service.go` | `sessions` | as the realtime processor, over the audio files | nothing constructs it (its head comment says it is not used) |
| Audio formats `internal/services/transcribe/audio_processor.go` | none | conversions of samples | boundaries of integer widths |
| Text correction `internal/services/openai/text.go` | none | `FixText` | which of the texts of a reply is the correction |
| **Yandex OAuth** `internal/services/yandex_oauth.go`, `internal/controllers/public_auth_providers.go` | none on the server; the browser's `oauth_state` cookie | the login page, the callback with its two requests to Yandex | one cookie for all visits; a callback can be opened again, elsewhere, late, or while an earlier execution still waits; a code is good once |
| **Updates** `internal/services/releases.go`, `internal/controllers/public_releases.go` | the release directories, which people fill by hand, `releases.actual_version`, read at the start, and the files that `SendFile` keeps open | `GetReleases`, the download | a sequence of reads while somebody copies or removes; the download comes later, perhaps from another process or from a file opened before |
| Other controllers, middleware, mail, configuration, logging, migrations, wiring | none, or read-only | one request each | nothing a model would add to |
| Start and shutdown `commands/application/start.go` | the server | start, `Close` of the transcriber, server shutdown | sessions that start while the shutdown closes them |

How they interact. A client connects to the gateway, which registers the
connection under the session id the client chose and starts the subscription
check in a goroutine. The first audio message makes the gateway call the
processor's `StartSession`, which dials OpenAI through the transcriber and starts
two goroutines: `handleMessages` reads OpenAI's events and puts completed
transcriptions in `ResultCh`, `handleRealtimeResults` takes them out and calls
back into the gateway, which sends partial results while the id is registered.
The stop message waits for the subscription check and then calls the processor's
`HandleStopMessage`: commit, wait for the outstanding items, put the text in
order, correct it. `closeSession` undoes it all, and gateway, processor and
transcriber each find their part by the id. Authentication shares only the
database with the rest: its result is the `userID` a connection carries. Sign-ins
come from the callback of the login with Yandex only. The desktop application
asks for updates by itself and shares nothing with the other parts.

What makes each part correct:

- gateway: the user index counts exactly the registered sessions, nothing
  survives its connection, a result is sent to subscribed clients only, the
  socket outlives the read loop, and everything that is waited for happens;
- processor and transcriber: an id that is free in the gateway is free there;
- realtime session: the final text is in order and without gaps, whole when
  everything arrived, every wait ends, both goroutines end;
- one client's socket: answers, errors and the close frame never meet, the text
  is the last word, and nobody waits for ever for somebody who waits for him;
- authentication: no user without an account to sign in with, one user for one
  account, an answered session is a stored one, requests end;
- login: tokens are shown in the browser that asked for them, for the account
  that was allowed, and a code signs in once;
- updates: an offer is of one build and can be installed, and clients come to run
  the actual version and are then left alone.

## 2. Plan

Order of work, the most important behaviour first:

1. `TranscribeGateway` (gateway with the id maps of processor and transcriber),
   its runs, its proofs. **Done.**
2. `TranscriptOrder` and `RealtimeSession` (one OpenAI session with the
   goroutines that share it), its runs, its proofs. **Done.**
3. `AuthSessions`, its runs, its proofs. **Done.**
4. `AudioFormats`, `TextCorrection` and `FileRecordings`, which composes them
   with the audio files and the file processor; its run. **Done.**
5. The shutdown's `Close` of the transcriber in `TranscribeGateway`. **Done.**
6. `ClientSocket`, the composition of everything that writes on one WebSocket;
   its run, its proofs. **Done.**
7. `SessionLease`, what a session id promises, implemented by `TranscribeGateway`
   when the clients of an id take turns; checked and proved. **Done.**
8. `SpokenText`, what a dictation promises, implemented by `RealtimeSession`;
   checked and proved. **Done.**
9. `SocialLogin`, which composes the login with Yandex with `AuthSessions` and
   implements it; its run, its proofs. **Done.**
10. `Updates`; its run, its proofs. **Done.**
11. Proofs for `FileRecordings`. **Done.**
12. Ids that are used again, and clients that the check refused: the lease and the
    gateway's properties say what is promised to whom, and their theorems hold for
    every outcome of the check. **Done.**
13. What the liveness properties rest on: that nobody is stuck, and that steps lead
    nearer to the end. **Done.**

## 3. Modules

| module | models |
|---|---|
| `TranscribeGateway` | `transcribe_handler.go` and the session maps of `realtime_service.go` and `RealtimeTranscriberService` |
| `MCTranscribeGateway` | who connects with which id and as which user, for TLC |
| `SessionLease` | abstract: what a session id promises |
| `TranscribeGatewayProofs` | theorems about `TranscribeGateway`, and that it implements `SessionLease` |
| `ClientSocket` | the writers of one client's socket, of `transcribe_handler.go` and `realtime_service.go`, over the WebSocket library |
| `ClientSocketProofs` | theorems about `ClientSocket` |
| `TranscriptOrder` | `sortByPreviousItemID` as an operator: the set of orders that Go's map iteration allows |
| `RealtimeSession` | `RealtimeSession` of `realtime.go` with `CompleteSession`, `CloseSession` and `handleRealtimeResults` |
| `SpokenText` | abstract: what a dictation promises |
| `MCRealtimeSession` | its instance for TLC |
| `RealtimeSessionProofs` | theorems about `TranscriptOrder` and `RealtimeSession`, and that the latter implements `SpokenText` |
| `AuthSessions` | `RefreshTokensPair` and `SignInWithSocial` statement by statement |
| `AuthSessionsProofs` | theorems about `AuthSessions` |
| `SocialLogin` | `PublicController`'s two actions of the login and `YandexOAuthService`, around the sign-ins of `AuthSessions` |
| `MCSocialLogin` | two logins for one account in two browsers, two executions of callbacks and two refreshes, for TLC |
| `SocialLoginProofs` | theorems about `SocialLogin`, and that it implements `AuthSessions` |
| `AudioFormats` | `audio_processor.go` as operators on bytes |
| `TextCorrection` | what `FixText` makes of a reply, as operators |
| `FileRecordings` | `AudioService` and `FileWebSocketService`, one file operation a step, with crashes |
| `MCFileRecordings` | two recordings in turn under one id, for TLC |
| `FileRecordingsProofs` | theorems about `FileRecordings` |
| `Updates` | `ReleasesService` and the two actions of the updater, beside the people who publish |
| `MCUpdates` | two clients, three releases and two versions, for TLC |
| `UpdatesProofs` | theorems about `Updates` |

### TranscribeGateway

A connection `c` is one execution of `HandleWebSocket`. Its goroutine is
`reader[c]`: `limit`, `unique` and `init` are the three critical sections of the
admission, `reading` is the read loop, `dialing` is the first audio message while
`StartSession` dials, `waiting` to `fixing` are the phases of a stop message, and
`closing` is the deferred `closeSession`. `check[c]` and `waiter[c]` are the two
goroutines of the subscription check, with `once[c]` the `sync.Once` between
them; `closer[<<c, kind>>]` is an execution of `closeSession` by who started it.
`sessions` and `userSessions` are the gateway's maps, `processor` and `upstream`
the other services' maps with the connection each entry was made for, `live` the
OpenAI connections that are open. `holder` is the owner of `sessionMutex` when it
is held across steps, which only the graceful close does; every other critical
section is one action whose guard is `holder = NoTask`. `session.Mutex`, which
the first audio message holds through its dial, is the guard of `CheckEnd`: the
verdict is stored under it. Partial results, and `isSessionActive` before each,
are in `ClientSocket`.

`SubscriptionResults` is what `getUserSubscription` may answer. The code of today
always answers that the subscription is valid (`{"valid"}`); the handling of the
other answers is written and modelled, and the runs take both. `Quiet` is the set
of ids the cleaner may find inactive. `MayStop` lets the program be told to shut
down: `ServiceClose` is `RealtimeTranscriberService.Close`, which
`container.Stop` calls while the server still serves; it takes effect at any
time, once (`stopped`).

`Lease` instantiates `SessionLease` with the gateway's map as the owners, the ids
under which the processor or the transcriber keeps something as the occupied
ones, and the connections whose check was spawned as those that were served.
Every step is a grant, an entry in a service's map, the removal of some (of many
at a shutdown), an id given up empty, or nothing an id's holder can see.

The id is the client's to choose. `TurnsSpec` is the gateway with clients that
connect under an id only when every goroutine of a former connection under it is
over (`Over`): only `Connect` is held back, and `TurnsKept` proves that this is
enough. The gateway does not see to it. A client whose check did not answer
that it is subscribed is `Refused`: it is closed while its reader is still in the
loop, and a dial that its audio begins meanwhile registers its OpenAI session
afterwards. What is under its id is therefore left out of the lease, and of the
promises about ended connections.

The graceful close reads the socket until a read fails, under a deadline of 2 s.
Where the read loop of the same connection still runs, which is so for a refused
client only (`HolderIsLastReader`), each message that the loop takes sets the
deadline to `IdleTimeout` again (line 208). Such a close `Lingers`, and
`sessionMutex` is held meanwhile. Nothing makes it end but the client, so no
fairness does either: `NobodyLingers` is the condition under which the gateway
promises an end.

`UnderLimit` is the code's order: a user without an entry is let in before the
limit is looked at, so a limit of 0 lets a first connection in.

### ClientSocket

One connection that is registered, from its read loop to the end of its handler,
and whatever writes on its socket. `writing[w]` is the frame that writer `w` is
about to write, `inside` who is inside the library's `WriteMessage`. The library
is external: it panics in the later of two writers, or in one that comes after
the handler returned and the connection went back to its pool, or mixes the
frames, or nothing happens. It recovers a panic in the goroutine of the handler,
whose deferred `closeSession` then runs; any other ends the process (`crashed`).
`lock` is `sessionMutex`, held by an execution of `closeSession`, and
`session.Mutex` is the guard of `CheckEnd`. `CompleteSession` and the wait for
OpenAI are one step here, their parts are in `RealtimeSession`; the results that
remain in the channel when it is closed are still taken. `Lingers` is the close of
a refused client whose read loop still takes messages, as in the gateway.

### RealtimeSession and TranscriptOrder

Items are numbered in the order of speech. OpenAI is external: it starts, stops
and commits items in that order (or commits the rest on request) and completes
committed ones in any order or never; an event is emitted when it is read, so
delay on the network is delay of the server. A handler that changes its item and
then sends on a channel is two actions, because others run in between:
`AudioBufferCommitted` then `Signal`, `TranscriptionCompleted` then `SendResult`.
`commitCh` is unbuffered and sent to without blocking, so `Signal` reaches a
`CompleteSession` that is in its select and is lost otherwise. A close is begun
(`marked`) before `session.Close` closes `closeCh` and `ResultCh`
(`ChannelsClosed`): only then does the message loop end, and until then it handles
whatever comes. A text is
represented by the item it transcribes. `SortByPreviousItemID` returns every
order the code may produce from an unordered map. When the session is gone
before the stop, the last partial text is the answer; the code reads that text
just before it looks the session up, here both are one step. `Dictation`
instantiates `SpokenText` with the completed items, whether the text was put
together, and the text.

### AuthSessions

A step is one database statement. PostgreSQL's read committed isolation is what
the code relies on: what is not committed is not seen, and the writer of a unique
key makes others wait (`locked`). `conns` are the connections held by
transactions; a statement outside of one asks for a connection of its own, which
is how `RefreshTokensPair` deletes the old session: its repository was built from
`as.db`, not from `tx`. Rows are named by the request that creates them. Tokens
are random, and two tokens are never equal; expiry is a time the refresh does not
look at. Two refreshes with one token may both succeed: the second deletes
nothing, which the code does not notice, and makes a session of its own.

### SocialLogin

A flow is one visit of the login page, in any browser. A call is one execution of
`YandexCallbackAction`, and is named as the `SignInWithSocial` it makes, so that
`SocialLogin` extends `AuthSessions` and every step is one of its steps or leaves
the tables alone (`LoginImplementsAuth`). A flow may have any number of calls: its
callback can be opened in any browser, and again before, while or after another
call of it waits for Yandex or the database. `cookie[b]` is the one `oauth_state`
cookie of browser `b`: the login page overwrites it and nothing deletes it.
Whether a call runs is decided by the cookie of its browser. Yandex is external:
it gives a code to a user who allows it and exchanges it once (`spent`). A code
belongs to the flow whose state is in the same address, and the account of its
calls is the one the user chose there (`Allowed`). A callback without a code, with
another state or with an expired cookie is refused and changes nothing, so it is
no step.

### FileRecordings, AudioFormats and TextCorrection

The file processor is not constructed by the program as it is wired today; it is
modelled as the gateway calls a processor, for a client that the check accepts:
the calls of one recording come one after the other. `phase[r]` is the place in
`AudioService.close`, one file operation a step, and `by[r]` the handler that
called it. `disk` is the raw file and the WAV file of an id, `kept` what was
written to its latest raw file. `StepFails` is the error of any operation, and
`Crash` ends the program between any two; it finds the files as it left them.

`StartSession` has no guard against another recording of its id, as the code has
none. With two live recordings of one id, which the gateway's gap allows
(`gateway_stale_close`), the second `Create` truncates the first's raw file and
replaces its audio session: nothing is promised then. `TurnsSpec` is about
recordings that take turns: only `StartSession` is held back (`Turn`), and what is
checked and proved is about it.

Data are bytes; the conversions of `AudioFormats` work on them as the code does,
and a WAV header's sizes are words (`WordSize` stands for 2^32). `TextCorrection`
keeps types and order of a reply's items and contents, since they decide which
text is taken, and how the exchange went, since every failure must leave the
original.

### Updates

A request is a sequence of reads: whether the directory is there, its listing,
whether the signature is there, its bytes, and the date of the program file, each
of the file system as it is then. What a request holds in between is `req[c]`. A
file is a build of a program, whole or still being copied. The people who publish
are external: they copy a program before its signature, replace nothing in place,
and may remove a release and publish another build of it. The application is
external: it installs a download that its signature verifies, and asks again.
The actual version is read at the start of the server, so `Restart` changes it
and ends the requests under way; an offer that was answered outlives it. The
name of a version is its number and whether it is written with a "v", which is
taken off for the comparison and kept in the directory's path. `env` and `arch`
are parts of that path which a client never changes.

The download is sent by Fiber's `SendFile`, over fasthttp's file server (external),
which keeps a file that it opened for some seconds and meanwhile answers with it,
whatever became of the file: `opened` is what is open, `CloseOpened` ends it. A
file that is open and no longer the one of its name is `Outdated`. A download of
it after the release was withdrawn and published again carries the former build's
bytes, which the offered signature does not fit: `OfferedInstalls` excepts it (TLC
finds the counterexample otherwise), and `ClientsConverge` does not.

## 4. Runs

| run | question | result |
|---|---|---|
| `gateway_turns` | three connections of one user over two ids, one of them used again in turn, checks that answer valid, cleaner active, shutdown at any time: do the maps agree, does anything outlive its connection, is an id good as new when it is used again? | holds: `UserIndexExact`, `EndedLeavesNothing`, and the refinement `LeaseSpec` |
| `gateway_checks` | two users, every answer of the check, under fairness: is an unsubscribed client ever answered, is a client served that is not registered, is a socket closed too early, does everybody get on, as long as no refused client sends without end? | holds: `CompletedOnlySubscribed`, `ServedIsRegistered`, `SocketClosedLast`, `AdmissionDecided`, `RejectedEnds`, `StopAnswered` |
| `gateway_limit` | is the connection limit a limit? | violated: two admissions pass the check before either registers |
| `gateway_stale_close` | does `closeSession` close its own session? | violated when a client reconnects under its id: a late execution finds the new connection's entry |
| `client_socket` | one connection, every verdict, a partial result, errors, panics of the library: do answers meet, is the text the last word, do consumer and handler end? | holds: `AnswersAreSerial`, `CompletedIsFinal`, `AnswerBeforeClose`, `ConsumerEnds`, `HandlerReturns` |
| `realtime_session` | three utterances, stop and a close from outside: is the text right, do waits and goroutines end? | holds: `TextIsContiguous`, `SettledTextIsWhole`, `StopEnds`, `GoroutinesEnd`, and the refinement `DictationSpec` |
| `realtime_panic` | is a send on the closed result channel handled? | violated: it panics, `default` or not |
| `realtime_dropped` | are all completed transcriptions returned? | violated: a gap cuts the chain |
| `realtime_commit` | is it the answer to the commit that ends the wait for it? | violated: any committed event does |
| `social_login` | two logins for one account, both in one browser or not, two executions of callbacks beside each other, two refreshes, two connections, failures and restarts: are rows, codes and pages right, and does every request end unless the refreshes have the whole pool? | holds: `NoOrphanUser`, `OneUserPerAccount`, `AnsweredIsStored`, `ShownWhereAsked`, `ShownSignedIn`, `CodeSignsInOnce`, `RequestsEnd`, `LoginAnswered` |
| `file_recordings` | two recordings in turn under one id, all file operations failing, partial copies, crashes, nine kinds of exchange with OpenAI: is audio lost, is it the right audio, the right text? | holds: `AudioSurvives`, `StopFindsItsAudio`, `AnswerIsCorrection` |
| `updates` | two clients, two versions, releases published, withdrawn and published again, files kept open by the server, a restart with another version: is an offer consistent, does it install, do clients come to rest? | holds: `OfferIsOfOneRelease`, `OfferedInstalls`, `ClientsConverge`, `UpdatesStop` |

Every passing run but `gateway_checks` checks the type invariant of its module as
well. The inductive invariants of the proofs are in no run.

Each passing property has a mutant: an operator next to the definition it stands
for, marked `Mutant` in its comment, which changes the code's step the way a
plausible mistake would and makes TLC find the property violated.

### Bounds

- *Two or three connections, two ids, two users.* The interactions in the gateway
  are between pairs: two admissions, or one closing while another is admitted.
  Every connection already brings up to six goroutines. An id that is used again
  needs a third connection for there to be another one beside it; the two that
  share the id differ in nothing but their names, and TLC takes them as symmetric
  in that run, whose properties are all safety. The theorems remove the bound for
  the safety properties.
- *`MaxConnectionsPerUser`* is 1, so that a second connection meets the limit,
  and 2 in the run about one id, where the second must get past it.
- *One connection, an error and a partial result in `ClientSocket`.* Who meets
  whom on a socket is decided by the six writers, of which all are there; one
  more result or error is a writer that comes back. The theorems remove the bound.
- *Three items, `ResultCap = 1`.* A gap in the middle needs three items; a full
  channel needs a capacity below the number of items (the code's is 10).
- *Two flows, two browsers, two calls, one account, two refreshes,
  `MaxOpenConns = 2`.* The races are between two sign-ins with one account, between
  two flows whose states overwrite each other in one browser or are opened in the
  other, and between two executions of one callback. A refresh needs a second
  connection while it holds one: two refreshes are as many as there are
  connections, and TLC meets the state where they wait for each other
  (`Exhausted`). The theorems are about any number of refreshes, flows and calls
  and any pool.
- *Two clients, two versions, three directories, two builds of one of them, one
  restart.* The release of version 1 has two installers, the one of version 2 is
  named with a "v", may be published twice and the third is of a platform that the
  server does not know. A restart leads from each version to the other, also back.
- *Two recordings, one id, two messages each, `WordSize = 3`.* Recordings with
  different ids share no file. The second recording meets every state the first
  can leave behind. Messages of one byte and of two, over an 8-bit and a 16-bit
  format, are accepted and refused; with up to four bytes every word wraps.

Deadlock is checked in `updates`, whose clients go on for ever. The other
instances serve their connections, session or requests once and then have
nothing left to do.

### Fairness

- Gateway: weak fairness of the reader (for steps of the admission and the
  handlers), of the check with its waiter, and of every `closeSession`. Go's
  scheduler runs what is runnable, and every blocking call has a timeout: the
  dial, the commit and item waits, the HTTP client, and the graceful close where
  nobody else reads the socket. The end of a close is not fair while it `Lingers`,
  because the client's messages move its deadline; the properties that wait for
  `sessionMutex` have `NobodyLingers` as their condition. A read fails for certain
  only on a closed socket. No fairness of clients (`Connect`,
  `Receive`) or of the cleaner. `RWMutex` admits waiting readers and writers; with
  finitely many closes weak fairness is enough for that.
- Realtime session: weak fairness of the handlers, the consumer, `CompleteSession`
  and `Close`; none of OpenAI's events. The writes to OpenAI have no deadline in the
  code; they are taken to end.
- One client's socket: weak fairness of every writer, of the read loop where it
  does not wait for the client, of the check, the consumer, every `closeSession` that
  does not linger,
  and of the cleaner once the handler has returned, since its ticker goes on. None
  of the client, of OpenAI's results, or of an earlier visit of the cleaner.
- Authentication and login: weak fairness of every refresh that was received, of
  every sign-in that was begun, and of a call once Yandex has told who the user
  is, always of the step that goes on and never of a failure: no statement has a
  deadline, so one that waits for a row or for a connection is not forced to end.
  None of arrivals, restarts, browsers, or Yandex, for whom `http.DefaultClient`
  waits without a limit. `RequestsEnd` and `LoginAnswered` therefore except the
  one wait that nothing ends, of refreshes that hold the whole pool (`Exhausted`).
- Updates: weak fairness of every client, which asks periodically, and of the end
  of a file's time in the server's cache; none of the
  people who publish or of restarts. `ClientsConverge` and `UpdatesStop` are
  therefore about releases that are there and stay.

## 5. Proofs

`TranscribeGatewayProofs`, for every set of connections, ids and users, every
limit and every set of quiet ids, from the assumptions on the constants alone:

- `TypeCorrect`: `TypeOK` is inductive;
- `IndexCovers`: a registered session is in its owner's set; inductive with the
  types, because the two maps are written in one critical section;
- `IndexExact`: the index is exact, from `SameUserPerID` (an id belongs to one
  user). It is strengthened by "an id is registered for a connection that uses
  it", so that `closeSession`'s removal by id touches the right entry. The
  hypothesis is needed: when two users share an id, the overwritten
  connection leaves its slot behind;
- `CompletedSubscribed`: `CompletedOnlySubscribed` for every set of outcomes of
  the check. The strengthening says that `subscriptionValid` is set only by a
  check that answered valid and that the phases of a stop past the wait were
  entered on it.

- `LimitKept`: `ConnectionLimit` for `ApartSpec`, where no two admissions of one
  user are between the check of the limit and the registration. The invariant
  adds that an admission in between still finds its user under the limit. It needs
  a limit of one or more: a limit of 0 lets a first connection in.
  `gateway_limit` shows two that overlap: the theorem says that there is no other
  way around such a limit;
- `LockHeld` and `AnswersOnce`: `sessionMutex` is held across steps by nobody but
  the graceful half of one `closeSession`, and the read loop of its connection has
  ended, so that nobody moves the deadline it waits for, unless it closes a refused
  client; and a stop message is answered once.

For `TurnsSpec`, where the clients of an id take turns, with every outcome of the
check:

- `Lifecycle`: `LifecycleInv`, with `ServedRegistered`, `FreedIDClean`,
  `EndedClean` and `SocketLast` as its consequences. None of these is inductive on
  its own: that an id is empty when it is freed needs that the graceful close
  found it empty and nothing was registered since, hence that the reader was out
  of its loop when the close began (no execution of `closeSession` exists while
  it is in the loop, unless its client was refused) and that the lock was held
  throughout. `ConnInv`, `CloseInv` and `MapInv` say just that. `SocketLast` is an
  action property from the same invariant;
- `ImplementsLease`: `LeaseSpec`, from the same invariant, with one lemma for each
  kind of step. That an id is given up empty is `FreedIDClean`'s argument; that a
  connection gets its id once needs that a check is spawned by the admission only;
- `CloseFindsOwn`: `CloseFindsOwnSession`, which `gateway_stale_close` shows
  violated when a client connects again before its last connection is over. The
  theorem says that this is the only way to it;
- `RefusalsClose`: the `closeSession` of a refused client closes its socket, where
  without turns the close of another connection under the id may take the entry
  away, and it finds nothing to close.

`OwnIDs` says that clients with an id for every connection take turns, so the
theorems hold of them; `NobodyRefused` that nobody is refused while the check
answers what it is coded to answer today (`AlwaysValid`), so that the exceptions
for refused clients are then empty.

`ClientSocketProofs`, for every number of errors and results and every set of
verdicts: `TypeCorrect`, `TextIsFinal`, `CloseAfterAnswer` and `SerialAnswers`. The
socket has no lock, and the invariant says what stands in for one: `CloserInv`
(an execution of `closeSession` that holds `sessionMutex` was called by the end
of the read loop, or by a refusal), `WriterInv` (what each writer may be writing
in which phase) and `ToldInv` (what a frame that arrived says of the goroutines).
`NoCircularWait` says of the handler, the consumer and the executions of
`closeSession`, which wait for each other over `sessionMutex`, the result channel
and the socket, that in every reachable state the one that is waited for can go,
or closes a refused client whose read loop still takes messages (`Lingers`):
`FollowInv` adds that each end of the handler has an execution of `closeSession`
that follows it up, and that one that is done has closed the socket.

`AuthSessionsProofs`, for every set of requests, users and accounts and every
pool size: `TypeCorrect` and `AuthInvariant`, with `NoOrphans`, `OneUser`,
`SessionsHaveUsers` and `AnswersStored` as consequences. `AuthInv` adds to the
properties the lock a sign-in holds from its insert or update to its end, the
account's committed row meanwhile, and whom a request is for in each phase. The
commit needs all of it: the lock says no other sign-in is past its insert, and
the row that nobody else is linked. `PoolInvariant` says that exactly the requests
in a transaction hold a connection and that whoever holds a row's lock waits for
nothing more. `OneDeadlock` follows, for any number of requests and any pool: some
running request can go on, unless refreshes have the whole pool and each asks for
a second connection (`Exhausted`). When no connection is free and not all are
theirs, a sign-in holds one, or a refresh that is not at its deletion does; a
sign-in waits for a row only, whose holder can go. `NoPoolDeadlock` is the case of
fewer refreshes than connections, where counting excludes the exception.
`RequestsFinish` says that no step takes a request back.

`SocialLoginProofs`, for every set of browsers, flows, states, calls and refreshes:
`LoginImplementsAuth` (so that the theorems of `AuthSessionsProofs` hold of the
composition: `LoginKeepsTables` and `LoginNeverStuck` state them),
`LoginTypeCorrect`, and `LoginInvariant` with `CodeOnce` and `PagesSignedIn` as
consequences. The invariant says in which phase of a call the code of its flow is
spent, its sign-in begun, ended, and its page shown, and that of all calls of a
flow one at most has got past the exchange of the code (`OneEnters`): two that run
beside each other both pass the comparison with the cookie, and only Yandex's
refusal keeps them apart. `PagesWhereAsked` rests on the states being the flows'
own and on the cookie: a browser holds only states of flows that it began.
`CallbackAdvances` says that a call whose user is known is not taken back, by
another flow or a reload, and that its sign-in only loses statements to run; a
restart ends both with an error.

`RealtimeSessionProofs`, for every number of items and every capacity of the
result channel:

- about the order alone: `OrderTyped` (a sort returns a sequence of the items it
  was given), `HeadExists`, `OrderConsecutive` (when every item is linked to the
  one before, the chain is made of consecutive items) and `OrderComplete` (when
  the items are a beginning of the speech as well, it holds all of them). They
  rest on the least item of a set, from the library's well-foundedness of the
  naturals: the operator has no recursion to do an induction over;
- `TypeCorrect`;
- `OrderInvariant`: `OrderInv`, which says that a committed item is linked to the
  one before it and that the commits go in the order of speech.
  `TextIsContiguous` alone says nothing about the items and is not inductive; with
  the links, `OrderConsecutive` gives it at the collection. `TextContiguous` is
  its consequence;
- `SettledWhole`: `SettledTextIsWhole`, by an invariant that holds from the moment
  the text is settled (`SettledInv`): the request was answered, so the server has
  nothing to start or commit, nothing is pending, and `OrderComplete` says what
  the collection returns;
- `PartialInvariant` and `ImplementsSpokenText`: `DictationSpec`. A text that is
  given is a run of completed items: from the collection by `OrderConsecutive`,
  or, when the session is gone, the last partial text, of which `PartialInv` says
  that it is of a completed item;
- `StopGoesOn`, `StopApproaches` and `GoroutinesApproach`: from `CompleteSession` to
  its end there is always a next step for it, of at most ten; and once `closeCh`
  and `ResultCh` are closed every step of the two goroutines brings them nearer to
  their end, of which one event and the buffered texts are left at most. Before
  that, also while a close is under way, any number of events may be handled. That
  the collection can go on needs
  that the items have an order at all (`OrderExists`, from the least item and the
  first gap after it).

`FileRecordingsProofs`, for every set of recordings, ids, messages and exchanges
and every size of a word, when the recordings of an id take turns (`TurnsSpec`):
`TypeCorrect` and `AudioKept` from one invariant (who converts under an id is alone,
and what the files hold at each stage of the conversion); `AnswerCorrect`, from
lemmas about the first of a reply's items that has a text; and `StopFinds`, an
action property, by following the bytes that a recording acknowledged into the raw
file and from there into the WAV file (`HeardInv`). `SamplesKept` and `HeaderTells`
say what those bytes are: for every format and length the samples that the client
sent, and up to 36 bytes below the size of a word the header tells their number.

`UpdatesProofs`, for every set of clients, names and releases and however often
they are published: `TypeCorrect`, `OfferConsistent` and `OfferHolds`. `FilesInv`
is what the publishers keep: whoever has a signature has the whole program of the
same build; `ReadInv` what a request may believe of it after each of its reads.
`OfferHolds` is about a file that the server does not keep open from before.

They also prove `ClientsApproach`, by a distance of at most nine steps: while the
release of the actual version is complete and the server is not restarted, each
step of a client lowers its distance to running that version, and no step of the
publishers or of other clients raises it. The download of an outdated file that
the server still has open is the exception, and no file of such a release becomes
one, so that with the closing of those that are open the exceptions end. And
`SettledClients`: a client that runs the version stays settled.

Only model-checked: that something happens at all, since the prover handles
neither fairness nor `ENABLED`. What the liveness properties rest on is proved:

| TLC checks | the proofs say |
|---|---|
| `AdmissionDecided`, `StopAnswered` | `LockHeld`: who holds the lock that they wait for waits for a deadline that nobody moves, but for a refused client; `AnswersOnce` |
| `StopEnds`, `GoroutinesEnd` | `StopGoesOn`, `StopApproaches`, `GoroutinesApproach` |
| `ConsumerEnds`, `HandlerReturns` | `NoCircularWait` |
| `RequestsEnd` | `OneDeadlock`, `NoPoolDeadlock`, `RequestsFinish` |
| `ClientsConverge`, `UpdatesStop` | `ClientsApproach`, `SettledClients` |
| `RejectedEnds` | `RefusalsClose`, `LockHeld`: the close that a refusal starts closes the socket, and only a client that keeps sending makes one wait beyond its deadline |
| `LoginAnswered` | `CallbackAdvances`, `OneDeadlock`, `LoginNeverStuck`: a call and its sign-in only come nearer to the page, and are stuck only behind an exhausted pool |

`IndexCovers` is proved and in no run: where ids are one user's the exact index
implies it. No definition of the models is recursive, so no theorem is missing for
want of an induction over data.

## 6. Findings

1. *The connection limit* (`transcribe_handler.go:121`) is checked and enforced
   under different locks and can be exceeded.
2. *`closeSession`* (`transcribe_handler.go:421`) looks up by id only, and can tear
   down another connection's session.
3. *A panic* (`realtime.go:252`): a send on `ResultCh` after `Close` closed it is
   not caught by the `default` branch, and ends the process.
4. *Dropped transcriptions* (`realtime.go:473`): utterances beyond a gap are left
   out of the final text.
5. *The commit's wait* (`realtime.go:271`) ends with anybody's committed event,
   and a commit answered before the wait begins is not noticed at all.

## 7. Not modelled

- Messages' contents, parsing, base64, wording and logging: that a message is
  answered by an error is modelled, for which of the reasons is not.
- `LastActive` and the clock: the cleaner may find any id of `Quiet` inactive, and
  any session of `ClientSocket`.
- Which of two concurrent readers of one socket (the read loop and the graceful
  close of a refused client) takes a message: the library promises nothing there.
  That the read loop moves the deadline of both is modelled.
- Power losses. `close` syncs the two files, but neither `Create` nor the conversion
  syncs their directory, which is under `os.TempDir()`: the code gives no ground to
  say which of them is there after one.
- Two live recordings of one id in the file processor, and calls for one recording
  beside each other, as a refused client's may be: the program uses the realtime
  processor, and the file processor has no defence that a property could be about.
- The expiry of the `oauth_state` cookie, which only refuses callbacks.
- Requests for a part of a release file, and its compression.
- The end of the process at a shutdown, after `app.Shutdown`.
- `ValidateToken` (a check of a signature), the controllers that render what a
  service returned, middleware, mail, configuration, migrations: no state of their
  own, or one request and its answer.
- `LinkSocialAccount`, `AudioService.Remove` and `GenerateText`, which nothing
  calls, and the monitor getters, which only read.
- The unlocked access to `audioSessions`: a map access is one step, and what Go
  does when it notices ends the program. The controller that serves WAV files reads
  whatever is at the path, also during a conversion.
- The WAV header's format fields, which always say 16-bit PCM whatever the
  samples are.
- The notes of a release, and a path in a download's URL that no offer named.
