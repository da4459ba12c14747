# FlowChat: a TLA+ verification project

FlowChat is a chat server written in Go. A user keeps chat sessions; a message
posted to a session is answered by a language model whose output is streamed to
the browser as server-sent events. The server keeps its data in MySQL, a
generation lock per session in Redis, and does the book-keeping of a finished
model call (call log, usage statistics, session title) asynchronously, through
a Redis stream and a consumer group.

The modules here are translated from the Go code. TLC checks them on small
instances; TLAPS proves the theorems for every value of the constants.

## 1. Inventory

| Component | State it keeps | Operations | Interacts with |
|---|---|---|---|
| Stream handler (`internal/handler/chat_handler.go`) | `streamStatus`, the text so far | `Stream`: chunk loop, settlement, deferred publication and release | chat service, publisher, client |
| Chat service (`internal/service/chat_service.go`) | `lockHeld`, provider context | `BeginStream`, `Complete`, `Fail`, `Cancel`, `ReleaseLock`, `Cleanup` | lock, messages, compression, providers |
| Session lock (`internal/lock/session_lock.go`) | one Redis key per session with a TTL | `Acquire` (SETNX), `Release` (compare and delete) | chat service, the clock |
| Messages (`internal/service/message_service.go`, `internal/repository/message_repo.go`) | `chat_messages`: status generating, completed, failed, cancelled | save question and placeholder, update, page, search, context | sessions |
| Context compression (`internal/service/compression_service.go`) | `chat_session_summaries` | `GetContextWithSummary` | messages, provider |
| Sessions (`internal/service/session_service.go`) | `chat_sessions`: title, active or deleted | create, list, get, delete, set title | all of the above |
| Model providers (`internal/provider`) | a goroutine and a buffered channel per call | `StreamChat` | handler, compression |
| Publisher, consumer (`internal/event/redis_stream.go`) | Redis stream, the group's place and pending list, dead letter stream | `Publish`, `consumeNew`, `claimPending`, `processMessage`, `moveToDLQ`, `ack` | event handler |
| Event handler (`internal/event/model_call_handler.go`) | `model_call_logs`, `user_model_usage_stats`, session titles | `Handle` | consumer, sessions |
| Credentials (`internal/service/credential_service.go`) | `user_provider_credentials`: one encrypted key per user and provider, active or deleted | save, read, list, delete | chat service |
| Accounts (`internal/service/user_service.go`, `internal/auth`) | `users`; stateless tokens kept by the browsers | register, login | middleware |
| Queries (call log, statistics, export) | none | read | the tables above |
| Browser client (`frontend/src`) | token, active session, message list, streaming text, `generating` | send, stream callbacks, refresh, switch session | HTTP API |

What is hard to get right, and hard to test:

* **The lock has a TTL and the section it protects has not.** Every request runs
  in a goroutine of its own; between any two of its calls the lock may expire,
  the client may hang up, the session may be deleted, another request may come.
* **Two owners release the lock** (`BeginStream` until it returns a handle,
  `Stream` afterwards), on about a dozen exit paths; a release may be late.
* **One closed channel means three things** (deadline, disconnect, provider), and
  the context that tells them apart is also the one the event is published with.
* **A select picks any arm that is ready**: when a context ends, the chunk at hand,
  the error of the interrupted read and the end of the channel compete.
* **The consumer delivers at least once**, with two goroutines per process that
  can hold one entry together, and it acknowledges before it publishes again.
* **No step is retried safely by itself**: the unique `request_id` makes a second
  delivery an error, which is retried and ends as a dead letter.
* **A context is read in several statements** while other messages of the session
  are stored and settled, and a page is read while ids become visible late.
* **Checks before an insert are statements of their own**: registrations and saved
  keys race, and a failing check of a registration counts as passed.
* **The browser's callbacks outlive what they belong to**: the answer, the session
  the window shows, the window.

What makes each component correct, and the property that says so:

| Component | Property |
|---|---|
| lock | exclusive until it lapses (`ExclusiveUntilLapse`); only its holder or its TTL removes it (`OnlyHolderReleases`); always freed (`LockFreed`, `LockFreedOnExit`) |
| chat service and handler | one generating request per session (`SingleGenerator`); one answer, settled at most once (`KeepsPromise`); a message is left generating for three reasons only (`SettledOnExit`); event and message agree (`EventAgreesWithMessage`) and stay (`OutcomeFinal`); the call ends (`CallEnds`) |
| model providers | a completed answer is whole (`WholeAnswer`); a channel closes early only with its context (`ClosedMeansDone`); goroutine and reader end (`CallFinishes`); a call recorded as failed met a cause outside the program (`FailureHasCause`) |
| messages and compression | a context with a summary leaves nothing out (`NothingForgotten`) and ends with the question (`EndsWithQuestion`); no answer rests on half a summary (`HalfSummaryUnused`); the stored summary moves forward (`SummaryAdvances`); pages are complete and disjoint (`WalkComplete`, `WalkOnce`) |
| accounts and credentials | names and emails are unique (`UniqueAccounts`); an acknowledged account exists (`AcknowledgedExists`); a call uses a key of its own account (`OwnKey`); the keys are one register per user and provider (`KeepsRegister`) |
| browser | no message is sent while an answer is awaited (`BlockedWhileAnswering`); one text is one answer (`TextOfOne`); the list is of the session shown (`ShowsOwnSession`); the input comes back (`InputComesBack`) |
| publisher, consumer, event handler | each call logged once and counted at most once (`CountedOnce`, `KeepsLedger`); none lost but by a refused publication or a crash of its carrier (`NothingLost`), and none by a single fault (`OneFaultLosesNothing`); no dead letter before the retries are used up (`DeadLetterEarned`); a transient failure heals (`RetriesHeal`, which does not hold); all worked off unless no consumer is left (`WorkedOff`) |

## 2. Modules

| Module | Content |
|---|---|
| `Generation` | Abstract: per session, which request is at work; per request, its answer: placed once, settled at most once, only by the request at work. |
| `ChatStream` | A streaming request from `BeginStream` to the deferred release: lock, messages, provider call with retries and deadline, chunk loop, settlement, publication; disconnects, deletions, the clock, a crash, failing stores. |
| `MCChatStream` | Instances of `ChatStream`. |
| `ChatStreamProofs`, `ChatStreamRefinement` | Theorems about `ChatStream`; the second shows that it implements `Generation`. |
| `ProviderStream` | One `StreamChat` call: the goroutine of the provider, its buffered channel, and the loop that reads it (handler or summary). |
| `ProviderStreamProofs` | Theorems about `ProviderStream`. |
| `CallLedger` | Abstract: a call is recorded once, and counted at most once after it was recorded. |
| `EventPipeline` | Publication, the consumer group, the event handler, retries and dead letters; lost, duplicated and half-done calls, crashes. |
| `MCEventPipeline` | Instances of `EventPipeline`. |
| `EventPipelineProofs` | Theorems about `EventPipeline`; it implements `CallLedger`. |
| `Conversation` | The messages of a session as they are read back: the context of a model call and its summary, and the pages of a client, while requests add and settle messages. |
| `MCConversation`, `ConversationProofs` | Instances of `Conversation`; theorems about it. |
| `KeyRegister` | Abstract: a register for each user and provider; a call takes effect at one moment between its beginning and its reply. |
| `Accounts` | Registration, login, tokens, and the calls that save, delete, list and use a key. |
| `MCAccounts`, `AccountsProofs` | Instances of `Accounts`; theorems about it, among them that it implements `KeyRegister`. |
| `ChatWindow` | The browser's chat window: streams, refreshes and loads that return in any order. |
| `ChatWindowProofs` | Theorems about `ChatWindow`. |

How they fit together: `ChatStream` takes from `ProviderStream` what a channel can
do, and from `Conversation` that the context read under the lock is a step that
may fail; `Conversation` takes from `ProviderStream` when a channel closes early
(`ClosesEarly`), and both it and `ChatWindow` take from `ChatStream` that locks may
lapse and that every response ends. What `ChatStream` publishes is what
`EventPipeline` starts from.

### ChatStream and the code

`pc[r]` names the call that request `r` makes next; one step is one call to
Redis, MySQL, the provider or the client, because that is where other goroutines
run in between.

| `pc` | call in the code |
|---|---|
| `idle` | the refusals of `Stream` and the look-ups of `BeginStream` |
| `acquiring` | `lockManager.Acquire` |
| `checking`, `saving` | `SaveUserAndAssistantMessages`: `sessionSvc.Get`, the transaction |
| `finding`, `loading` | `GetContextWithSummary`: `sessionSvc.Get`; its reads and the summary call |
| `calling` | `p.StreamChat`, once per attempt |
| `writing`, `streaming` | an event written to the client; the next receive from the channel |
| `settling`, `updating` | `Complete`, `Fail` or `Cancel`: `sessionSvc.Get`, the UPDATE |
| `publishing` | the deferred `Publish` |
| `releasing` | the deferred `ReleaseLock` and `Cleanup` |
| `unwinding` | the deferred release of `BeginStream` |

`lock[s]` and `ttl[s]` are the Redis key of a session and the time it has left;
`budget[r]` is what is left of `providerCtx`; `status[r]` is `streamStatus`;
`msg[r]`, `event[r]` and `told[r]` are what the request leaves behind: the status
of its assistant message, the status in its published event, and the last of the
SSE events `done` and `error`. `lapsed[r]` is a history variable.

Time. `Tick` is one unit of time: keys and deadlines run down. It happens only
when every request may wait where it is. A request may wait in the steps listed
in the constant `SlowSteps`, except that a step that watches a context does not
wait once that context is done (`MayWait`). The steps outside `SlowSteps` are
taken to be short against the TTL. The instances say which steps are slow, and
no property assumes more than its run.

Failures. `Faults` selects which stores may fail. A failing Redis command may
have been executed (`AcquireReplyLost`, the lost reply of `PublishFails`), and
so may a failing transaction (`SaveMessages`). A crash ends every request in
flight and leaves the stores as they are.

### ProviderStream and the code

`ChatStream` takes what arrives on the channel as given; `ProviderStream` is the
other side of it. `producer` is the place of the goroutine of `StreamChat`
(`scanning`: `scanner.Scan` or the loop of the mock; `sending`, `finishing`: at
the `select` around a content or a final chunk; `ended`: the channel is closed),
`receiver` that of the reader. `source` and `reader` are drawn once, so that one
run covers both providers and both readers. A call sends contents and then at
most one final chunk, hence the channel is a number of contents (`queued`) and
the final chunk behind them (`last`). `CtxDone` is the context `StreamChat` was
given: `providerCtx` for the handler, the context of the request for a summary,
which has no deadline. `gone`, `expired` and `cleaned` are its three ways to end.
`broken` is a history variable: the upstream failed by itself. Lines without
content are no step.

The theorem `ClosedMeansDoneHolds` is the guard `CtxDead` of
`ChatStream!ChannelClosed`, and `CallFinishes` is what `ChatStream!MayWait` takes
for granted of a step under a deadline.

### EventPipeline and the code

A worker is a pair of a process and one of its goroutines, `consumeNew` or
`claimPending`. `stream` is the Redis stream, `next` the place of the group,
`pending` its list of entries delivered and not acknowledged; `up` are the processes
that serve and publish, `consuming` those whose `Consumer.Start` has brought up the two
goroutines: it may fail at XGROUP CREATE, and `main` serves all the same. `logged`, `usage`
and `title` are the three tables `Handle` writes; `dead` is the dead letter
stream. `stage[w]` names the call that worker `w` makes next. A database call
fails before its effect (`"db"`) or after it (`"dbreply"`); a Redis command is
lost, loses its reply, or is executed twice by the client library (`"redis"`);
`Republish` and `PublishDLQ` drop the error, so that a lost reply costs them nothing but
a duplicate. All processes are down initially.
The number of faults in an execution is bounded by `MaxFaults` in the runs and
by nothing in the proofs.

### Conversation and the code

One session. A message is its id; `next` is the AUTO_INCREMENT value, `rows` the
committed messages, `completed` those of that status, `summary` the row of
`chat_session_summaries`: the last message it stands for and whether it breaks
off. The contents of a context are sets of ids: `recent[r]` the recent messages of
request `r`, `older[r]` what its summary stands for, so that a context is what its
two variables name.

| `pc` | call in the code |
|---|---|
| `inserting`, `placing`, `committing` | the two inserts and the commit of `CreateUserAndAssistantMessagesTx`: an id is taken at the insert and visible from the commit |
| `recent`, `counting`, `reading` | `FindCompletedBySessionID`, `CountCompletedBySessionID`, `FindAllCompletedBySessionID` |
| `summarising`, `storing` | `generateSummary`, `summaryRepo.Upsert` |
| `calling`, `answering` | the model call, `UpdateAssistantMessage` |

`Refused` is the look-up of the session that precedes a statement, `Abort` any
error and the death of the process. Requests of one session may overlap, since
locks lapse; the history variable `overlapped` tells the executions in which they
did, and `EndsWithQuestion` and `SummaryAdvances` speak of the others.
`ListMessages(p)` is one request of a client that asks for the page before the
last one it got: the query of `limit + 1` rows, the cut, `has_more` and
`next_before_id`.

### Accounts and the code

A step is one statement. A registration is its two checks and its insert, guarded
only by the unique indexes (`Free`); a statement that fails may have been
executed, and an id that was not used is lost. `token[c]` is the user id in the
token a browser keeps: `JWTAuth` looks nothing up, and a token lasts until logout
or expiry. A call about keys takes its user from the token; a save is the find and
the insert or update that follows it, and a delete keeps the row (`active`).
Passwords and keys are opaque; a key is told by the account it was saved in
(`of`), which is what `OwnKey` is about, and by its end (`suffix`), which is what a
list shows. `KeysInForce` maps the rows to the registers of `KeyRegister`.

### ChatWindow and the code

`active` is the active session of `App.tsx`, `token` that of the auth context; a window is
mounted while there are both, and each mounting is another window. It is the same
window for all sessions: a change of session loads its messages and keeps the rest
of the state. `stream[k]` is where the response to the k-th message is; `told` means
that `done` or `error` was received. `home[k]` is the window and session it was sent from, which
its callbacks keep. The list of messages is the session it was loaded for, the
text under way the set of answers whose chunks are in it. A setter of an unmounted
window changes nothing (`Here`). `Reload` is the 401 answer of the API client, to
whichever component called it. `clean` is a history variable: nothing of another session
is under way for the window, and no load of its own session has failed since.

## 3. Runs

Runs that pass:

| Run | Shows |
|---|---|
| `ChatStreamFaults` | Two requests of one session, all faults, slow summary, provider and client: types, exclusion until a lapse, no foreign release, event and message agree, and neither changes once it is settled or published. |
| `ChatStreamTimely` | Three requests on two sessions, only the provider slow, the deadline below the TTL (requirement 417), no store fault: one request per session in its section, the refinement of `Generation`, locks freed on every exit path, and messages left generating only by a deletion or by a provider none of whose calls returned a stream. |
| `ChatStreamLive` | A silent provider and summary call, lost Redis replies, a crash: locks are freed, provider calls end. |
| `ProviderStream` | Both providers, both readers, disconnect, deadline and failing upstream at any step: an answer stored as completed is whole, one recorded as failed has a cause, a channel closes without a final chunk only when its context is done, both goroutines end. |
| `EventPipelineFaults` | One call, any four faults of any kind, slow workers: counted once, the refinement of `CallLedger`; the call is lost only by a second publication or a dead letter that Redis refuses, or by a crash of the worker that carries it, never by one fault; its dead letter was earned. |
| `EventPipelineLive` | Two calls, two processes, two faults: with fair workers and restarts everything published is worked off, unless the consumer of no process has started and none of them ends. |
| `Conversation` | Two requests that may overlap, both providers, hang-ups, a deletion and failures anywhere, and a client that pages back: the contexts, the stored summary and the pages. |
| `Accounts` | Two browsers, two names, emails and passwords, saves with two keys, failing checks and lost outcomes: unique accounts, own keys, the refinement of `KeyRegister`. |
| `ChatWindow` | Two messages, two sessions, two windows, all callbacks in any order: the input, the text and the list. |

Runs in which the code departs from what the repository says of it:

| Run | The code | The text |
|---|---|---|
| `ChatStreamSlowSummary` | the summary call has no deadline, and the lock lapses while it waits | requirements 386, 417 |
| `ChatStreamCancelLog` | the event of a cancelled call is published with the cancelled context | requirements 1048, 1049 |
| `EventPipelineRetry` | a failed statistics update is retried, and the retries fail at the log row they find | `backend-features.md:456` |

Further divergences, visible in the actions and without a run of their own:

* `CallFails` and `Unwind`: a provider call that finally fails leaves the message
  generating, where requirements 1045 has it failed. It is the third case of
  `SettledOnExit`.
* `Abandon` and `SendFinal` of `ProviderStream`: the error of a read that a disconnect
  interrupted may win the select, and the call is recorded as failed, where
  requirements 1048 has it cancelled. `FailureHasCause` names the disconnect among the causes.
* `FindSession` and `SetTitle`: two workers that both read the default title both
  write, where the comment at `model_call_handler.go:145` has it updated only while
  it is the default.
* `ChannelClosed` never reports status timeout (requirements 515, 1047).
* `CallFails` calls again after a timeout or a cancellation (requirements 533, 534).
* `PublishFails` sends an error event after done (comment `chat_handler.go:141`,
  `backend-features.md:428`). In the browser (`Error` from `told`) it unlocks the
  input while the next answer is under way, so that two answers can be in one
  text: the exception of `BlockedWhileAnswering` and `TextOfOne`.
* `ReceiveClose` with a summary: `generateSummary` takes the text so far for the
  summary when the client hangs up, where the comment at
  `compression_service.go:38` falls back to recent messages.
* `MockSummary` sends no content, so that its summary is always refused as empty,
  where the comment at `mock/provider.go:23` returns a short fixed summary.
* The lock is released after the publication (deferred calls run last to first),
  where `README.md:312` of the repository has it before.
* `AckForRetry` acknowledges an event whose handler failed (comment
  `redis_stream.go:82`), and `AckBuried` one whose dead letter was refused; `NothingLost`
  says what that can cost.
* `Start`: when XGROUP CREATE fails the server serves with no consumer, and neither
  goroutine of it runs. The comment at `main.go:149` has the side tasks processed when the
  consumer is restarted, which nothing in the program does, or when pending messages are
  claimed later, which takes another process, and entries it has been delivered. `WorkedOff`
  names the case (`Deaf`).
* `WriteCallLog` and `UpdateUsageStat`: `Handle` stops at the first error, where
  the comment at `model_call_handler.go:35` has all three tasks attempted.
* `CountCompleted`: between `max_context_messages` and
  `max_messages_before_compress` (10 and 30 in `configs/config.yaml`) the older
  messages are neither recent nor summarised. `NothingForgotten` speaks of
  contexts that hold a summary.
* `Upsert`: the stored summary is never read back (`SummaryRepository.FindBySessionID`
  has no caller); every context above the threshold pays for a new one.
* `Create`: a registration that loses the race at the unique index is answered 500
  where one that loses at the checks is answered 409 (`auth_handler.go:44-53`).
* `GetDecrypted` has no case for the mock provider (`backend-features.md:63`);
  `BeginStream` does not call it for one.
* `RegisterForm.tsx:23` logs in with the token in the answer to a registration,
  which has none (`auth_handler.go:56`).
* `Change` with requests under way: the load of the new session and the refresh of
  an earlier answer return in any order, and the list can stay that of another
  session; `Refreshed` clears the text of a later answer. `ShowsOwnSession` says
  that nothing but this and a failed load leads there, and that the next change or answer
  of the session's own leads back once nothing of another session is under way.
* `Deselect` closes the window of whatever session is active when the deletion
  returns, if the deleted one was active at the click (`SessionList.tsx:82`).

("requirements" is `docs/flowchat_requirements.md`.)

Bounds, and why they are enough:

* Two requests per session are what the lock has to keep apart; the theorems of
  section 5 lift exclusion to any number. `ChatStreamTimely` adds a third request
  and a second session.
* `LockTTL` 2 and `CallTimeout` 1 are the smallest values with
  `CallTimeout < LockTTL`: the deadline passes with the lock still held, and the
  lock can expire at any step of a request that waits.
* One retry and one content chunk reach each branch of both loops; `ChatStreamTimely` and
  `ChatStreamLive` drop them, since neither loop touches what they check: each loop
  only adds steps that are counted (`attempts`, bounded by `TypeOK`; `chunks`).
* A channel of 2 (10 in the code) and 4 contents: one received, two in the channel,
  one waiting at the full channel. The theorems hold for every size.
* A call is published once, but its event may be in the stream several times (sent
  twice, retried), so that one call makes workers compete for it and for its title, in
  batches of `BatchSize` 2. `MaxRetry` (3 in the code) is 1, so that a retry and a dead
  letter are both reached, and 3 in `EventPipelineRetry`. `EventPipelineFaults` allows
  four faults: two failing deliveries, a refused dead letter, and one more in the
  handling of these. With two faults the refused dead letter is never reached, which
  is how a first version of `NothingLost` passed that did not allow for it.
  `EventPipelineLive` has two calls in one session and two processes, so that one may
  consume for another whose consumer has not started; two faults are what it takes for
  neither to have. The safety theorems hold for any number.
* `Conversation`: `MaxContextMessages`, `MaxMessagesBeforeCompress` 1 (10 and 30 in
  the code) and 5 ids: two completed messages start a compression, so that
  contexts with older, recent and late messages and overlapping builders all occur;
  a page of 2 takes a walk of two or three pages. The theorems hold for all settings.
* `Accounts`: two browsers and two users are what a race and a foreign key need;
  two suffixes tell two saves apart. The theorems hold for any number.
* `ChatWindow`: two messages and two windows give each callback one other message,
  session or window to interfere with. `MaxSends` and `MaxMounts` bound the run, and
  the theorems hold for every value.
* Symmetry is used for safety only, over values that the properties treat alike.

`CHECK_DEADLOCK` is on everywhere: the only states in which a system stops are
those in which every request has ended (`Quiescent`) or the stream is worked off
(`Drained`), and both are explicit steps.

## 4. Fairness

`ChatStream!Fairness`: a request that stands at a step that may not wait takes
it, and time passes when every request may wait. Goroutines are scheduled, the
stores answer or fail, and a call bound to a context returns when the context is
done (both providers select on it). Nothing is assumed of a step in `SlowSteps`:
neither that the provider answers nor that the summary call returns.
A client that neither reads nor hangs up is left out of `ChatStreamLive`: nothing in
the server gets its request out of a write (`WriteEvent`), so that `CallEnds` would not
hold; the lock is freed by its TTL then too.
`ProviderStream!Fairness`: both goroutines run, deadlines pass, the client takes
what is written to it. A connect or a scan that nobody interrupts may wait for
ever; it returns once the context of its HTTP request is done (`net/http`).
`EventPipeline!Fairness`: the two goroutines of a running process run, and a
process that died is started again by its supervisor; an entry left pending
becomes old enough to be claimed. A process whose consumer did not start is not
started again: nothing watches for that.
`ChatWindow!FairSpec`: a response that was asked for is accepted and told its end or
breaks off, which `ChatStream!CallEnds` and the closing connection of a dead server
justify; nothing is assumed of the user, of chunks, loads or refreshes.
`Conversation` and `Accounts` state safety only.

## 5. Proofs

All for any constants that satisfy the assumptions named in the modules
(`RequestAssumption`, `BoundAssumption`, `StepAssumption`; `SizeAssumption`;
`CallAssumption`, `LimitAssumption`).

`ChatStreamProofs`

* `TypeCorrect`: `TypeOK`, strengthened by the bound on retries that makes the
  type of `attempts` inductive.
* `LockFreedOnExitHolds`: when neither Redis nor the process fails, a key names a
  request of its session that is in its section (`KeyInv`); the two releases are
  the only ways out of the section.
* `ExclusiveUntilLapseHolds`: exclusion is not inductive as it stands. The
  invariant adds that a request in its section whose lock has not lapsed *is*
  the value of its session's key, with time left on it. Then a second request
  cannot acquire, and a release compares against the right value.
* `TimelySingleGenerator`, assuming `Timely`: in addition, the key has more time
  left than the provider call for as long as the call may wait, so no lock
  lapses.
* `OnlyHolderReleasesHolds`: an action property, from the same typing.

`ChatStreamRefinement`

* `EventAgreesWithMessageHolds`: what is settled, reported and published comes
  from the one value of `status`, fixed once the chunk loop is left.
* `SettledOnExitHolds`: when neither database nor process fails, a message that is
  still generating after the settling update belongs to a deleted session, and a
  request unwinds with a stored message only when the session is deleted or its
  provider calls are used up (`SettledInv`, over `MessageInv`).
* `OutcomeFinalHolds`: a message is written where `MessageInv` says it is absent or
  generating, an event where it says there is none, and nowhere else.
* `TimelyKeepsPromise`, assuming `Timely`: each step maps to a step of
  `Generation` or to a stutter. `Current(s)` is the request in its section; by
  the invariant above there is at most one.

`ProviderStreamProofs`

* `WholeAnswerHolds`: every chunk scanned is received, in the channel or at hand;
  the exception is a producer that dropped one, and such a producer has ended
  without a final chunk, so that no success can follow (`Accounted`,
  `FinalIsLast`).
* `ClosedMeansDoneHolds`: inductive with the types, because no context comes back.
* `FailureHasCauseHolds`: an error chunk, at hand or in the channel, has its cause
  already: a broken upstream or one of the three ends of the context; and a context
  is cleaned up only by a reader that has left (`Caused`).

`EventPipelineProofs`

* `TypeCorrect`: with the invariant that a busy worker holds an entry and that
  only an event with retries left is published again, which bounds `retry_count`.
* `CountedOnceHolds`: the invariant says that a worker between the log and the
  statistics is the only one there for its call, which is logged and uncounted.
  It holds because only the insert that succeeds leads there, and the unique key
  lets one insert succeed.
* `KeepsLedgerHolds`: the refinement of `CallLedger`, from the same invariant.
* `DeadLetterEarnedHolds`: every retry is paid for by a fault. Of a call that is not in
  the log, an entry has seen as many faults as its `retry_count` (`RetryInv`), and a worker that has
  given one up has seen one more (`TollInv`), since without its row a delivery fails
  only by a fault. `Failed` compares what was paid with `MaxRetry`.
* `NothingLostHolds`: the last trace of a call is an entry or a worker that carries it
  (`Traced`). An entry leaves the pending list by an acknowledgement: after
  success its call is in the log (`LoggedInv`), before a retry the worker carries it
  on, and after a burial the loss was in the burial. Entries and what they hold stay
  (`Grows`), and what workers hold has been delivered (`HoldInv`), so that no one
  begins an entry the group has yet to deliver.
* `OneFaultLosesNothingHolds`: a loss takes a fault of its own (`NothingLostHolds`)
  and a worker that carries the event, which has paid for one before (`TollInv`).
* `DatabaseLosesNothing`, assuming that neither `"redis"` nor `"crash"` is among the
  faults: every published call keeps a trace.
* `TitleEarnedHolds`: workers race for a title, but only those that have counted a
  successful call of the session get that far (`TitleInv`, over the invariant of
  `CountedOnceHolds`). Two such workers may overwrite each other.

`ConversationProofs`

* One invariant `IInv` of named parts. `ContextInv`: `recent[r]` is the last `KeepRecent`
  of the messages seen, the older ones are completed, and where there are older ones
  every message seen is recent or older. That nothing is forgotten rests on a lemma about `Last`: the last n of a larger set leave out, of
  the smaller one, nothing but what the older messages hold.
* `EndsWithQuestionHolds`, `SummaryAdvancesHolds`: as long as no two requests have
  overlapped, at most one is at work and the ids it took are the highest (`Alone`).
* `HalfSummaryUnusedHolds`: a half summary implies openai and a client that has hung
  up, and then the model call never answers (`HalfInv`).
* `WalkCompleteHolds`, `WalkOnceHolds`: the number served is the number of messages
  got, so none came twice; all of them are at or above `before`; of the messages there
  were when the walk began, each has been got or is below `before`, and at the end
  each has been got (`WalkInv`).

`AccountsProofs`

* `UniqueAccountsHolds`, `AcknowledgedExistsHolds`: the index guards the one action that
  adds rows, and rows stay.
* `OwnKeyHolds`: the invariant ties three tables: the token of a browser is the row of
  the email it logged in with, and a row of keys was saved by the account it is of.
* `KeepsRegisterHolds`: each step maps to a step of `KeyRegister` or to a stutter. The
  insert and the update are the moments of a save; one row per user and provider
  (from the index) makes `InForce` a function of the rows.

`ChatWindowProofs`

* Windows are numbered, and the number of a new one has been used by no earlier
  response; so a fresh window has no answer under way. From there: of the
  responses of one window at most one is posted or open, unless one went on
  after its end.
* `ShowsOwnSessionHolds`: all loads, awaited responses and refreshes of a clean window
  are of the active session, and it shows that session unless a load is pending
  (`OwnSession`); a window that becomes clean again has just loaded or asked for it.

Every invariant and action property of the runs that pass is a theorem. Model-checked
only: liveness (`LockFreed`, `CallEnds`, `CallFinishes`, `WorkedOff`, `InputComesBack`),
which the prover does not do under fairness.

## 6. Not modelled

* Text: contents, titles and prompts are abstract; only whether a title is the
  default one matters.
* Malformed stream entries (`processMessage` lines 239-262): the publisher never
  writes one. `Consumer.Stop` is never called.
* `AutoGenerateTitle`, `SaveUserMessage`, `CreateAssistantPlaceholder` and
  `UpdateTitleIfDefault`: no caller in the program.
* Search, export, the call log and the statistics queries, the profile, the list of
  models: reads of one or two statements that keep nothing. Creating and listing
  sessions: one statement each.
* The forms, the session list and the panels of the browser.
* Configuration, start-up, routing, logging, the sensitive word list, AES, bcrypt and
  the signature of tokens: no state that steps of several actors share.
* Collisions of the 32-bit `request_id`.

## 7. Plan

1. `ChatService`: `ChatStream` composed with `EventPipeline`, from request to
   statistics, and with `Conversation` on the messages of one session.
2. Sessions: creation, list and title beside the title update of the event handler.
