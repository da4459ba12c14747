----------------------------- MODULE ChatStream -----------------------------
(***************************************************************************)
(* The life of a streaming chat request: ChatHandler.Stream and the        *)
(* ChatService.BeginStream it calls, the Redis generation lock of the      *)
(* session, the assistant message in MySQL, the provider call with its     *)
(* deadline, and the call event published at the end.                      *)
(*                                                                         *)
(* Every request runs in a goroutine of its own; pc[r] is the call it is   *)
(* about to make.  One step is one call to Redis, MySQL, the provider or   *)
(* the client, so that the requests, the clients that hang up, the session *)
(* deletions, the clock and a crash interleave between any two calls.      *)
(***************************************************************************)
EXTENDS Integers, FiniteSets

CONSTANTS
    Requests,       \* POST .../messages/stream requests; each has its request_id
    Sessions,       \* chat sessions
    SessionOf,      \* the session a request posts to
    NoRequest,      \* the value of a lock key that does not exist
    MaxRetries,     \* max_retries of the model configuration
    MaxChunks,      \* bound: content chunks in an answer
    LockTTL,        \* lock TTL, in ticks of the clock
    CallTimeout,    \* timeout_seconds of the model, in ticks of the clock
    SlowSteps,      \* the steps during which the clock may advance
    Faults          \* which of "redis", "db", "crash" may happen

\* The steps of a request that has got past validation.  The request is in
\* its section (it has acquired the lock and has not yet given it back)
\* from "checking" on.
Section == {"checking", "saving", "finding", "loading", "calling",
            "streaming", "writing", "settling", "updating", "publishing",
            "releasing", "unwinding"}
InFlight == Section \cup {"acquiring"}
Labels == InFlight \cup {"idle", "done", "crashed"}

\* The steps that wait for the provider under the deadline of providerCtx.
Timed == {"calling", "streaming"}

Verdicts == {"success", "failed", "cancelled"}

ASSUME RequestAssumption ==
    /\ NoRequest \notin Requests
    /\ SessionOf \in [Requests -> Sessions]
ASSUME BoundAssumption ==
    /\ MaxRetries \in Nat
    /\ MaxChunks \in Nat
    /\ LockTTL \in Nat \ {0}
    /\ CallTimeout \in Nat \ {0}
ASSUME StepAssumption ==
    /\ SlowSteps \subseteq InFlight
    /\ Faults \subseteq {"redis", "db", "crash"}

VARIABLES
    pc,             \* pc[r]: the step request r is about to take
    lock,           \* lock[s]: value of the Redis key of session s
    ttl,            \* ttl[s]: ticks left before that key expires
    active,         \* active[s]: session s is not soft-deleted
    cancelled,      \* cancelled[r]: the client of r has hung up (ctx.Done)
    budget,         \* budget[r]: ticks left before providerCtx times out
    attempts,       \* attempts[r]: provider calls of r that returned an error
    chunks,         \* chunks[r]: content chunks read by r
    status,         \* status[r]: streamStatus of the handler
    msg,            \* msg[r]: status of the assistant message of r
    event,          \* event[r]: status in the published call event of r
    told,           \* told[r]: last of the SSE events "done", "error"
    lapsed          \* history: the lock of r expired during its section

lockVars == <<lock, ttl>>
callVars == <<budget, attempts, chunks, status>>
outVars == <<msg, event, told>>
vars == <<pc, lockVars, active, cancelled, callVars, outVars, lapsed>>

TypeOK ==
    /\ pc \in [Requests -> Labels]
    /\ lock \in [Sessions -> Requests \cup {NoRequest}]
    /\ ttl \in [Sessions -> 0..LockTTL]
    /\ active \in [Sessions -> BOOLEAN]
    /\ cancelled \in [Requests -> BOOLEAN]
    /\ budget \in [Requests -> 0..CallTimeout]
    /\ attempts \in [Requests -> 0..(MaxRetries + 1)]
    /\ chunks \in [Requests -> 0..MaxChunks]
    /\ status \in [Requests -> Verdicts \cup {"none"}]
    /\ msg \in [Requests -> {"absent", "generating", "completed", "failed",
                             "cancelled"}]
    /\ event \in [Requests -> Verdicts \cup {"none"}]
    /\ told \in [Requests -> {"none", "done", "error"}]
    /\ lapsed \in [Requests -> BOOLEAN]

Init ==
    /\ pc = [r \in Requests |-> "idle"]
    /\ lock = [s \in Sessions |-> NoRequest]
    /\ ttl = [s \in Sessions |-> 0]
    /\ active = [s \in Sessions |-> TRUE]
    /\ cancelled = [r \in Requests |-> FALSE]
    /\ budget = [r \in Requests |-> 0]
    /\ attempts = [r \in Requests |-> 0]
    /\ chunks = [r \in Requests |-> 0]
    /\ status = [r \in Requests |-> "none"]
    /\ msg = [r \in Requests |-> "absent"]
    /\ event = [r \in Requests |-> "none"]
    /\ told = [r \in Requests |-> "none"]
    /\ lapsed = [r \in Requests |-> FALSE]

-----------------------------------------------------------------------------
Goto(r, label) == pc' = [pc EXCEPT ![r] = label]

Tell(r, sse) == told' = [told EXCEPT ![r] = sse]

\* Mutant of CtxDead: the provider is called without the deadline.
NoDeadline(r) == cancelled[r]

\* providerCtx is done: its parent was cancelled or its deadline has passed.
CtxDead(r) == cancelled[r] \/ budget[r] = 0

\* Request r may still let the clock advance before its next step.  A step
\* that waits for the provider returns when its context is done, and so do
\* the summary call and a write to a client that has hung up.
MayWait(r) ==
    \/ pc[r] \notin InFlight
    \/ /\ pc[r] \in SlowSteps
       /\ pc[r] \in Timed => ~CtxDead(r)
       /\ pc[r] \in {"loading", "writing"} => ~cancelled[r]

-----------------------------------------------------------------------------
(* Redis generation lock: SETNX with a TTL, compare-and-delete in Lua.      *)

\* Mutants of Take: the TTL is no longer than the deadline of the call; the
\* key has no TTL.
TakeBriefly(r) ==
    /\ lock' = [lock EXCEPT ![SessionOf[r]] = r]
    /\ ttl' = [ttl EXCEPT ![SessionOf[r]] = CallTimeout]

TakeForever(r) ==
    /\ lock' = [lock EXCEPT ![SessionOf[r]] = r]
    /\ UNCHANGED ttl

Take(r) ==
    /\ lock' = [lock EXCEPT ![SessionOf[r]] = r]
    /\ ttl' = [ttl EXCEPT ![SessionOf[r]] = LockTTL]

\* Mutant of ReleaseLock: DEL without the comparison.
DeleteLock(r) ==
    /\ lock' = [lock EXCEPT ![SessionOf[r]] = NoRequest]
    /\ ttl' = [ttl EXCEPT ![SessionOf[r]] = 0]

ReleaseLock(r) ==
    LET s == SessionOf[r] IN
    IF lock[s] = r
      THEN /\ lock' = [lock EXCEPT ![s] = NoRequest]
           /\ ttl' = [ttl EXCEPT ![s] = 0]
      ELSE UNCHANGED lockVars

\* The error of Release is dropped by both of its callers.
TryRelease(r) ==
    \/ ReleaseLock(r)
    \/ "redis" \in Faults /\ UNCHANGED lockVars

-----------------------------------------------------------------------------
(* ChatService.BeginStream                                                  *)

\* Content, session, model, provider and credential are looked up; the first
\* that is refused ends the request with nothing changed.
Validate(r) ==
    /\ pc[r] = "idle"
    /\ \/ active[SessionOf[r]] /\ Goto(r, "acquiring") /\ UNCHANGED told
       \/ Goto(r, "done") /\ Tell(r, "error")
    /\ UNCHANGED <<lockVars, active, cancelled, callVars, msg, event, lapsed>>

\* Mutant of Acquire: SET in place of SETNX.
AcquireAnyway(r) ==
    /\ pc[r] = "acquiring"
    /\ ~cancelled[r]
    /\ Take(r)
    /\ Goto(r, "checking")
    /\ UNCHANGED <<active, cancelled, callVars, outVars, lapsed>>

\* The lock is free and SETNX takes it.
Acquire(r) ==
    /\ pc[r] = "acquiring"
    /\ ~cancelled[r]
    /\ lock[SessionOf[r]] = NoRequest
    /\ Take(r)
    /\ Goto(r, "checking")
    /\ UNCHANGED <<active, cancelled, callVars, outVars, lapsed>>

\* ErrSessionGenerating, or an error of Redis or of a request context that is
\* already done: nothing was acquired, nothing is deferred.
AcquireRefused(r) ==
    /\ pc[r] = "acquiring"
    /\ lock[SessionOf[r]] # NoRequest \/ cancelled[r] \/ "redis" \in Faults
    /\ Goto(r, "done")
    /\ Tell(r, "error")
    /\ UNCHANGED <<lockVars, active, cancelled, callVars, msg, event, lapsed>>

\* SETNX is executed but its reply is lost.  BeginStream returns the error
\* before it has deferred the release: the key stays until its TTL ends.
AcquireReplyLost(r) ==
    /\ "redis" \in Faults
    /\ pc[r] = "acquiring"
    /\ ~cancelled[r]
    /\ lock[SessionOf[r]] = NoRequest
    /\ Take(r)
    /\ Goto(r, "done")
    /\ Tell(r, "error")
    /\ UNCHANGED <<active, cancelled, callVars, msg, event, lapsed>>

\* SaveUserAndAssistantMessages looks the session up once more ...
CheckSession(r) ==
    /\ pc[r] = "checking"
    /\ \/ active[SessionOf[r]] /\ Goto(r, "saving")
       \/ (~active[SessionOf[r]] \/ "db" \in Faults) /\ Goto(r, "unwinding")
    /\ UNCHANGED <<lockVars, active, cancelled, callVars, outVars, lapsed>>

\* ... and stores user message and placeholder in one transaction.  When the
\* transaction fails the error may also hide a commit.
SaveMessages(r) ==
    /\ pc[r] = "saving"
    /\ \/ Goto(r, "finding") /\ msg' = [msg EXCEPT ![r] = "generating"]
       \/ /\ "db" \in Faults
          /\ Goto(r, "unwinding")
          /\ \/ UNCHANGED msg
             \/ msg' = [msg EXCEPT ![r] = "generating"]
    /\ UNCHANGED <<lockVars, active, cancelled, callVars, event, told, lapsed>>

\* GetContextWithSummary looks the session up ...
FindSession(r) ==
    /\ pc[r] = "finding"
    /\ \/ active[SessionOf[r]] /\ Goto(r, "loading")
       \/ (~active[SessionOf[r]] \/ "db" \in Faults) /\ Goto(r, "unwinding")
    /\ UNCHANGED <<lockVars, active, cancelled, callVars, outVars, lapsed>>

\* ... and reads and summarises its messages, deleted or not by then; it fails
\* only with the database.  Then the deadline of the provider call starts.
LoadContext(r) ==
    /\ pc[r] = "loading"
    /\ \/ Goto(r, "calling") /\ budget' = [budget EXCEPT ![r] = CallTimeout]
       \/ "db" \in Faults /\ Goto(r, "unwinding") /\ UNCHANGED budget
    /\ UNCHANGED <<lockVars, active, cancelled, attempts, chunks, status,
                   outVars, lapsed>>

\* StreamChat returns a channel: BeginStream hands the lock to the handler,
\* whose streamStatus starts as failed and which writes the meta event.
CallSucceeds(r) ==
    /\ pc[r] = "calling"
    /\ Goto(r, "writing")
    /\ status' = [status EXCEPT ![r] = "failed"]
    /\ UNCHANGED <<lockVars, active, cancelled, budget, attempts, chunks,
                   outVars, lapsed>>

\* Mutant of CallFails: the retry loop runs once more.
CallFailsOnceMore(r) ==
    /\ pc[r] = "calling"
    /\ attempts' = [attempts EXCEPT ![r] = @ + 1]
    /\ Goto(r, IF attempts[r] <= MaxRetries THEN "calling" ELSE "unwinding")
    /\ UNCHANGED <<lockVars, active, cancelled, budget, chunks, status,
                   outVars, lapsed>>

\* StreamChat returns an error; it is called again until the retries are
\* used up, whatever the error and whatever the state of the context.
CallFails(r) ==
    /\ pc[r] = "calling"
    /\ attempts' = [attempts EXCEPT ![r] = @ + 1]
    /\ Goto(r, IF attempts[r] < MaxRetries THEN "calling" ELSE "unwinding")
    /\ UNCHANGED <<lockVars, active, cancelled, budget, chunks, status,
                   outVars, lapsed>>

\* Mutant of Unwind: the deferred release of BeginStream is forgotten.
UnwindLocked(r) ==
    /\ pc[r] = "unwinding"
    /\ budget' = [budget EXCEPT ![r] = 0]
    /\ Goto(r, "done")
    /\ Tell(r, "error")
    /\ UNCHANGED <<lockVars, active, cancelled, attempts, chunks, status, msg,
                   event, lapsed>>

\* BeginStream fails with the lock held: it cancels the provider context and
\* releases the lock, and the handler answers with an error.
Unwind(r) ==
    /\ pc[r] = "unwinding"
    /\ TryRelease(r)
    /\ budget' = [budget EXCEPT ![r] = 0]
    /\ Goto(r, "done")
    /\ Tell(r, "error")
    /\ UNCHANGED <<active, cancelled, attempts, chunks, status, msg, event,
                   lapsed>>

-----------------------------------------------------------------------------
(* ChatHandler.Stream                                                       *)

\* A content chunk is read ...
ReadContent(r) ==
    /\ pc[r] = "streaming"
    /\ chunks[r] < MaxChunks
    /\ chunks' = [chunks EXCEPT ![r] = @ + 1]
    /\ Goto(r, "writing")
    /\ UNCHANGED <<lockVars, active, cancelled, budget, attempts, status,
                   outVars, lapsed>>

\* ... and written to the client and flushed, as is the meta event.
WriteEvent(r) ==
    /\ pc[r] = "writing"
    /\ Goto(r, "streaming")
    /\ UNCHANGED <<lockVars, active, cancelled, callVars, outVars, lapsed>>

\* Mutant of ReadError: a chunk with an error ends the stream without Fail.
ReadErrorUnsettled(r) ==
    /\ pc[r] = "streaming"
    /\ Goto(r, "publishing")
    /\ UNCHANGED <<lockVars, active, cancelled, callVars, outVars, lapsed>>

\* A chunk with an error ends the loop; streamStatus keeps its first value.
ReadError(r) ==
    /\ pc[r] = "streaming"
    /\ Goto(r, "settling")
    /\ UNCHANGED <<lockVars, active, cancelled, callVars, outVars, lapsed>>

\* The Done chunk.
ReadDone(r) ==
    /\ pc[r] = "streaming"
    /\ status' = [status EXCEPT ![r] = "success"]
    /\ Goto(r, "settling")
    /\ UNCHANGED <<lockVars, active, cancelled, budget, attempts, chunks,
                   outVars, lapsed>>

\* A provider closes the channel without Done only when providerCtx is done;
\* the handler then asks whether it was the request that was cancelled.
ChannelClosed(r) ==
    /\ pc[r] = "streaming"
    /\ CtxDead(r)
    /\ status' = [status EXCEPT ![r] = IF cancelled[r] THEN "cancelled"
                                                       ELSE "failed"]
    /\ Goto(r, "settling")
    /\ UNCHANGED <<lockVars, active, cancelled, budget, attempts, chunks,
                   outVars, lapsed>>

\* The SSE event that follows Complete, Fail or Cancel, whatever they return.
Report(r) ==
    Tell(r, IF status[r] = "success" THEN "done"
            ELSE IF status[r] = "failed" THEN "error" ELSE told[r])

\* UpdateAssistantMessage looks up the session and refuses when it is deleted;
\* the handler drops the error.
SettleCheck(r) ==
    /\ pc[r] = "settling"
    /\ \/ active[SessionOf[r]] /\ Goto(r, "updating") /\ UNCHANGED told
       \/ /\ ~active[SessionOf[r]] \/ "db" \in Faults
          /\ Goto(r, "publishing")
          /\ Report(r)
    /\ UNCHANGED <<lockVars, active, cancelled, callVars, msg, event, lapsed>>

\* The message status Complete, Fail and Cancel write for a verdict.
Outcome(verdict) == IF verdict = "success" THEN "completed" ELSE verdict

\* Mutant of SettleWrite: the provider context is asked once more.
SettleFromContext(r) ==
    /\ pc[r] = "updating"
    /\ msg' = [msg EXCEPT ![r] = IF CtxDead(r) THEN "failed"
                                               ELSE Outcome(status[r])]
    /\ Report(r)
    /\ Goto(r, "publishing")
    /\ UNCHANGED <<lockVars, active, cancelled, callVars, event, lapsed>>

\* Complete, Fail or Cancel writes the outcome of the message.
SettleWrite(r) ==
    /\ pc[r] = "updating"
    /\ \/ msg' = [msg EXCEPT ![r] = Outcome(status[r])]
       \/ "db" \in Faults /\ UNCHANGED msg
    /\ Report(r)
    /\ Goto(r, "publishing")
    /\ UNCHANGED <<lockVars, active, cancelled, callVars, event, lapsed>>

\* The event is published, with the context of the request.
PublishOK(r) ==
    /\ pc[r] = "publishing"
    /\ ~cancelled[r]
    /\ event' = [event EXCEPT ![r] = status[r]]
    /\ Goto(r, "releasing")
    /\ UNCHANGED <<lockVars, active, cancelled, callVars, msg, told, lapsed>>

\* The context is done or Redis fails (perhaps after the XADD): the client is
\* sent one more error event.
PublishFails(r) ==
    /\ pc[r] = "publishing"
    /\ \/ (cancelled[r] \/ "redis" \in Faults) /\ UNCHANGED event
       \/ /\ ~cancelled[r] /\ "redis" \in Faults
          /\ event' = [event EXCEPT ![r] = status[r]]
    /\ Tell(r, "error")
    /\ Goto(r, "releasing")
    /\ UNCHANGED <<lockVars, active, cancelled, callVars, msg, lapsed>>

\* Mutant of Release: a deferred Fail that runs on every exit path.
ReleaseAndFail(r) ==
    /\ pc[r] = "releasing"
    /\ TryRelease(r)
    /\ budget' = [budget EXCEPT ![r] = 0]
    /\ msg' = [msg EXCEPT ![r] = "failed"]
    /\ Goto(r, "done")
    /\ UNCHANGED <<active, cancelled, attempts, chunks, status, event, told,
                   lapsed>>

\* The deferred release of the lock and Cleanup of the provider context.
Release(r) ==
    /\ pc[r] = "releasing"
    /\ TryRelease(r)
    /\ budget' = [budget EXCEPT ![r] = 0]
    /\ Goto(r, "done")
    /\ UNCHANGED <<active, cancelled, attempts, chunks, status, outVars,
                   lapsed>>

-----------------------------------------------------------------------------
(* Clients, the clock and the process                                       *)

Disconnect(r) ==
    /\ pc[r] \in InFlight
    /\ ~cancelled[r]
    /\ cancelled' = [cancelled EXCEPT ![r] = TRUE]
    /\ UNCHANGED <<pc, lockVars, active, callVars, outVars, lapsed>>

\* SessionService.Delete does not ask whether an answer is being generated.
DeleteSession(s) ==
    /\ active[s]
    /\ active' = [active EXCEPT ![s] = FALSE]
    /\ UNCHANGED <<pc, lockVars, cancelled, callVars, outVars, lapsed>>

\* One unit of time: the lock keys and the provider deadlines run down.
Tick ==
    /\ \A r \in Requests : MayWait(r)
    /\ (\E s \in Sessions : ttl[s] > 0) \/ (\E r \in Requests : budget[r] > 0)
    /\ ttl' = [s \in Sessions |-> IF ttl[s] > 0 THEN ttl[s] - 1 ELSE 0]
    /\ lock' = [s \in Sessions |-> IF ttl[s] = 1 THEN NoRequest ELSE lock[s]]
    /\ budget' = [r \in Requests |-> IF budget[r] > 0 THEN budget[r] - 1 ELSE 0]
    /\ lapsed' = [r \in Requests |->
                    \/ lapsed[r]
                    \/ /\ pc[r] \in Section
                       /\ lock[SessionOf[r]] = r
                       /\ ttl[SessionOf[r]] = 1]
    /\ UNCHANGED <<pc, active, cancelled, attempts, chunks, status, outVars>>

\* The server process dies: its requests are gone, Redis and MySQL are not.
Crash ==
    /\ "crash" \in Faults
    /\ \E r \in Requests : pc[r] \in InFlight
    /\ pc' = [r \in Requests |-> IF pc[r] \in InFlight THEN "crashed" ELSE pc[r]]
    /\ budget' = [r \in Requests |-> 0]
    /\ UNCHANGED <<lockVars, active, cancelled, attempts, chunks, status,
                   outVars, lapsed>>

-----------------------------------------------------------------------------
Begin(r) ==
    \/ Validate(r) \/ Acquire(r) \/ AcquireRefused(r) \/ AcquireReplyLost(r)
    \/ CheckSession(r) \/ SaveMessages(r) \/ FindSession(r) \/ LoadContext(r)
    \/ CallSucceeds(r) \/ CallFails(r) \/ Unwind(r)

Stream(r) ==
    \/ ReadContent(r) \/ WriteEvent(r) \/ ReadError(r) \/ ReadDone(r)
    \/ ChannelClosed(r) \/ SettleCheck(r) \/ SettleWrite(r)
    \/ PublishOK(r) \/ PublishFails(r) \/ Release(r)

Handler(r) == Begin(r) \/ Stream(r)

Ended(r) == pc[r] \in {"done", "crashed"}

\* Every request has been served; the specification may stop here only.
Quiescent ==
    /\ \A r \in Requests : Ended(r)
    /\ UNCHANGED vars

Next ==
    \/ \E r \in Requests : Handler(r) \/ Disconnect(r)
    \/ \E s \in Sessions : DeleteSession(s)
    \/ Tick
    \/ Crash
    \/ Quiescent

Spec == Init /\ [][Next]_vars

\* A step that may not wait is taken (the goroutine runs, and the stores and
\* the client answer), and the clock runs whenever every request may wait.
\* Nothing is assumed of the steps in SlowSteps, nor of the provider.
Fairness ==
    /\ \A r \in Requests : WF_vars(~MayWait(r) /\ Handler(r))
    /\ WF_vars(Tick)

FairSpec == Spec /\ Fairness

-----------------------------------------------------------------------------
(* Properties                                                               *)

\* Two requests of one session are in their sections together only when the
\* lock of one of them has expired under it: the lock of chat_service.go:98
\* is exclusive for as long as it lasts, through every error path, late
\* release, deletion and crash.
ExclusiveUntilLapse ==
    \A r, q \in Requests :
        /\ r # q
        /\ SessionOf[r] = SessionOf[q]
        /\ pc[r] \in Section
        /\ pc[q] \in Section
        => lapsed[r] \/ lapsed[q]

\* The case the lock TTL is made for: the deadline of the provider call is
\* shorter than the TTL (requirement 417) and nothing else takes time.
Timely ==
    /\ CallTimeout < LockTTL
    /\ SlowSteps \subseteq Timed

\* At most one request of a session is in its section ("one generating
\* request per session at a time", flowchat_requirements.md:386).
SingleGenerator ==
    \A r, q \in Requests :
        /\ SessionOf[r] = SessionOf[q]
        /\ pc[r] \in Section
        /\ pc[q] \in Section
        => r = q

\* A lock key disappears or changes hands only because its holder gave it
\* back at the end of its section or because its TTL ran out: the late
\* release of a request whose lock expired leaves the next holder's key alone
\* (the compare-and-delete of session_lock.go:36-42).
OnlyHolderReleases ==
    [][\A s \in Sessions : \A r \in Requests :
         lock[s] = r /\ lock'[s] # r =>
            \/ pc[r] \in {"unwinding", "releasing"} /\ pc'[r] = "done"
            \/ ttl[s] = 1 /\ ttl'[s] = 0]_vars

\* The event that feeds call log and statistics never contradicts the stored
\* message: when both exist, the message has the outcome the event reports or
\* was left generating by a failed or refused update (chat_handler.go:113-199).
EventAgreesWithMessage ==
    \A r \in Requests :
        event[r] # "none" => msg[r] \in {"generating", Outcome(event[r])}

\* What a request has concluded stays concluded, also when its lock lapses and
\* another request of the session runs beside it: a settled message is never
\* written again, by its own request or another, and a request publishes at
\* most one event.  The consumer's ledger of one row and one count per call
\* (chat_handler.go:183-199) relies on it.
OutcomeFinal ==
    [][\A r \in Requests :
         /\ msg[r] \notin {"absent", "generating"} => msg'[r] = msg[r]
         /\ event[r] # "none" => event'[r] = event[r]]_vars

\* With Redis and the process up, a request that has ended has given its lock
\* back, on all the exit paths of BeginStream and Stream
\* (chat_handler.go:99 "Release the session lock on all exit paths").
LockFreedOnExit ==
    \A s \in Sessions : \A r \in Requests :
        lock[s] = r /\ pc[r] = "done" => Faults \cap {"redis", "crash"} # {}

\* A request whose database and process do not fail leaves its message
\* generating in two cases only: the session was deleted under it
\* (message_service.go:144 refuses to touch its messages), or no call of the
\* provider returned a stream, after which nobody settles the placeholder
\* (chat_service.go:169).
SettledOnExit ==
    \A r \in Requests :
        pc[r] = "done" /\ msg[r] = "generating" =>
            \/ Faults \cap {"db", "crash"} # {}
            \/ ~active[SessionOf[r]]
            \/ status[r] = "none" /\ attempts[r] > MaxRetries

\* Requirements 1049: a cancelled call is logged like any other, so when
\* nothing else fails its event has been published by the time it ends.
CancelledIsLogged ==
    \A r \in Requests :
        pc[r] = "done" /\ status[r] = "cancelled" => event[r] = "cancelled"

\* Whatever a request meets, crash and lost replies included, its session
\* does not stay locked by it (the TTL of session_lock.go:25).
LockFreed ==
    \A r \in Requests : lock[SessionOf[r]] = r ~> lock[SessionOf[r]] # r

\* A request that reaches its provider call comes to an end, however silent
\* the provider is: the deadline of chat_service.go:137 gets it out.
CallEnds ==
    \A r \in Requests : pc[r] = "calling" ~> Ended(r)

-----------------------------------------------------------------------------
(* Refinement: the request in whose section session s is.                   *)

Current(s) ==
    IF \E r \in Requests : SessionOf[r] = s /\ pc[r] \in Section
      THEN CHOOSE r \in Requests : SessionOf[r] = s /\ pc[r] \in Section
      ELSE NoRequest

Promise ==
    INSTANCE Generation
        WITH current <- [s \in Sessions |-> Current(s)], answer <- msg

\* As long as no lock lapses, the stream handler implements the promise of
\* Generation: one request per session, and an answer placed once, settled at
\* most once, by the request that has the session.
KeepsPromise == Promise!GSpec
=============================================================================
