--------------------------- MODULE ProviderStream ---------------------------
(***************************************************************************)
(* One call of a model provider: StreamChat, the goroutine it starts, the  *)
(* buffered channel of chunks, and the goroutine that reads the channel -- *)
(* the loop of ChatHandler.Stream or generateSummary of the compression.   *)
(*                                                                         *)
(* A call sends content chunks and after them at most one final chunk, so  *)
(* the channel is the number of content chunks in it and the final chunk   *)
(* behind them.  Each step is one scan, send, receive or write; a send may *)
(* have to wait for room, a receive for a chunk.                           *)
(***************************************************************************)
EXTENDS Naturals

CONSTANTS
    Capacity,       \* capacity of the channel (10 in both providers)
    MaxContents     \* bound: content chunks of an answer

ASSUME SizeAssumption ==
    /\ Capacity \in Nat \ {0}
    /\ MaxContents \in Nat

VARIABLES
    source,         \* the provider called: "openai" or "mock"
    reader,         \* who reads the channel: "handler" or "summary"
    producer,       \* where the goroutine of StreamChat is
    receiver,       \* where the reading goroutine is
    scanned,        \* content chunks in fullContent of the producer
    queued,         \* content chunks in the channel
    last,           \* final chunk put in the channel
    final,          \* final chunk the producer has at hand
    received,       \* content chunks in fullContent of the reader
    outcome,        \* what the reader makes of the call
    gone,           \* the client has hung up: the request context is done
    expired,        \* the deadline of providerCtx has passed
    cleaned,        \* the handler has called Cleanup
    broken          \* history: the upstream failed by itself

callVars == <<source, reader>>
channelVars == <<queued, last>>
contextVars == <<gone, expired, cleaned>>
vars == <<callVars, producer, receiver, scanned, channelVars, final, received,
          outcome, contextVars, broken>>

TypeOK ==
    /\ source \in {"openai", "mock"}
    /\ reader \in {"handler", "summary"}
    /\ producer \in {"none", "scanning", "sending", "finishing", "ended"}
    /\ receiver \in {"calling", "reading", "writing", "leaving", "left"}
    /\ scanned \in 0..MaxContents
    /\ queued \in 0..Capacity
    /\ last \in {"none", "done", "err"}
    /\ final \in {"none", "done", "err"}
    /\ received \in 0..MaxContents
    /\ outcome \in {"none", "refused", "success", "failed", "cancelled",
                    "summary", "nosummary"}
    /\ gone \in BOOLEAN
    /\ expired \in BOOLEAN
    /\ cleaned \in BOOLEAN
    /\ broken \in BOOLEAN

Init ==
    /\ source \in {"openai", "mock"}
    /\ reader \in {"handler", "summary"}
    /\ producer = "none"
    /\ receiver = "calling"
    /\ scanned = 0
    /\ queued = 0
    /\ last = "none"
    /\ final = "none"
    /\ received = 0
    /\ outcome = "none"
    /\ gone = FALSE
    /\ expired = FALSE
    /\ cleaned = FALSE
    /\ broken = FALSE

-----------------------------------------------------------------------------
\* The context StreamChat was given is done.  The handler's is providerCtx,
\* which has a deadline and is cancelled by Cleanup; the summary's is the
\* context of the request itself.
CtxDone == gone \/ (reader = "handler" /\ (expired \/ cleaned))

\* Mutant of Interrupted: the request is built without the context.
NeverInterrupted == FALSE

\* The request carries the context: once that is done, a read of the response
\* body returns with an error.  The mock provider asks the context itself.
Interrupted == CtxDone

\* The summary mode of the mock provider: one final chunk, no content, and
\* the context is not asked.
MockSummary == source = "mock" /\ reader = "summary"

\* Mutant of Room: an off-by-one in the size of the channel.
RoomForOneMore == queued <= Capacity

Room == queued < Capacity

-----------------------------------------------------------------------------
(* StreamChat                                                               *)

\* The upstream answers 200 (or the provider is the mock): goroutine and
\* channel are made.  The handler writes its meta event before it reads.
Open ==
    /\ receiver = "calling"
    /\ producer' = "scanning"
    /\ receiver' = IF reader = "handler" THEN "writing" ELSE "reading"
    /\ UNCHANGED <<callVars, scanned, channelVars, final, received, outcome,
                   contextVars, broken>>

\* No key, no connection, a status other than 200, or the context is done:
\* there is neither goroutine nor channel.
OpenFails ==
    /\ receiver = "calling"
    /\ source = "openai"
    /\ receiver' = "left"
    /\ outcome' = "refused"
    /\ UNCHANGED <<callVars, producer, scanned, channelVars, final, received,
                   contextVars, broken>>

\* A chunk with content is read, the context not being done.
ScanContent ==
    /\ producer = "scanning"
    /\ ~MockSummary
    /\ ~CtxDone
    /\ scanned < MaxContents
    /\ scanned' = scanned + 1
    /\ producer' = "sending"
    /\ UNCHANGED <<callVars, receiver, channelVars, final, received, outcome,
                   contextVars, broken>>

\* The check of the context after a scan: the goroutine ends and closes the
\* channel with nothing more to say.
SeeContext ==
    /\ producer = "scanning"
    /\ ~MockSummary
    /\ CtxDone
    /\ producer' = "ended"
    /\ UNCHANGED <<callVars, receiver, scanned, channelVars, final, received,
                   outcome, contextVars, broken>>

\* [DONE], or the end of the body without it (when the context is not asked),
\* or the last chunk of the mock.
ScanEnd ==
    /\ producer = "scanning"
    /\ producer' = "finishing"
    /\ final' = "done"
    /\ UNCHANGED <<callVars, receiver, scanned, channelVars, received, outcome,
                   contextVars, broken>>

\* The scanner stops with an error: the upstream broke off or sent a line that
\* is too long, or the read was interrupted because the context is done.
ScanFails ==
    /\ producer = "scanning"
    /\ source = "openai"
    /\ \/ Interrupted /\ UNCHANGED broken
       \/ broken' = TRUE
    /\ producer' = "finishing"
    /\ final' = "err"
    /\ UNCHANGED <<callVars, receiver, scanned, channelVars, received, outcome,
                   contextVars>>

SendContent ==
    /\ producer = "sending"
    /\ Room
    /\ queued' = queued + 1
    /\ producer' = "scanning"
    /\ UNCHANGED <<callVars, receiver, scanned, last, final, received, outcome,
                   contextVars, broken>>

SendFinal ==
    /\ producer = "finishing"
    /\ Room
    /\ last' = final
    /\ producer' = "ended"
    /\ UNCHANGED <<callVars, receiver, scanned, queued, final, received,
                   outcome, contextVars, broken>>

\* Mutants of Abandon: the loop goes on after a chunk was dropped; a chunk
\* that finds the channel full is dropped and the stream ended.
AbandonAndGoOn ==
    /\ producer \in {"sending", "finishing"}
    /\ ~MockSummary
    /\ CtxDone
    /\ producer' = IF producer = "sending" THEN "scanning" ELSE "ended"
    /\ UNCHANGED <<callVars, receiver, scanned, channelVars, final, received,
                   outcome, contextVars, broken>>

AbandonWhenFull ==
    /\ producer \in {"sending", "finishing"}
    /\ ~MockSummary
    /\ CtxDone \/ ~Room
    /\ producer' = "ended"
    /\ UNCHANGED <<callVars, receiver, scanned, channelVars, final, received,
                   outcome, contextVars, broken>>

\* The other arm of the select around a send, which may be taken even when
\* there is room: the chunk is dropped and the channel closed.
Abandon ==
    /\ producer \in {"sending", "finishing"}
    /\ ~MockSummary
    /\ CtxDone
    /\ producer' = "ended"
    /\ UNCHANGED <<callVars, receiver, scanned, channelVars, final, received,
                   outcome, contextVars, broken>>

-----------------------------------------------------------------------------
(* The reading goroutine                                                    *)

\* The reader has made up its mind: the handler still has to settle the
\* message and publish the event before it cleans up.
Conclude(verdict) ==
    /\ outcome' = verdict
    /\ receiver' = IF reader = "handler" THEN "leaving" ELSE "left"

\* A summary of the text so far, unless that is blank.
Summarize ==
    \/ Conclude("nosummary")
    \/ received > 0 /\ Conclude("summary")

ReceiveContent ==
    /\ receiver = "reading"
    /\ queued > 0
    /\ queued' = queued - 1
    /\ received' = received + 1
    /\ receiver' = IF reader = "handler" THEN "writing" ELSE "reading"
    /\ UNCHANGED <<callVars, producer, scanned, last, final, outcome,
                   contextVars, broken>>

\* An event is written to the client and flushed.
WriteEvent ==
    /\ receiver = "writing"
    /\ receiver' = "reading"
    /\ UNCHANGED <<callVars, producer, scanned, channelVars, final, received,
                   outcome, contextVars, broken>>

ReceiveDone ==
    /\ receiver = "reading"
    /\ queued = 0
    /\ last = "done"
    /\ IF reader = "handler" THEN Conclude("success") ELSE Summarize
    /\ UNCHANGED <<callVars, producer, scanned, channelVars, final, received,
                   contextVars, broken>>

ReceiveErr ==
    /\ receiver = "reading"
    /\ queued = 0
    /\ last = "err"
    /\ Conclude(IF reader = "handler" THEN "failed" ELSE "nosummary")
    /\ UNCHANGED <<callVars, producer, scanned, channelVars, final, received,
                   contextVars, broken>>

\* The channel is closed without a final chunk.  The handler asks the context
\* of the request; generateSummary asks nothing.
ReceiveClose ==
    /\ receiver = "reading"
    /\ queued = 0
    /\ last = "none"
    /\ producer = "ended"
    /\ IF reader = "handler"
         THEN Conclude(IF gone THEN "cancelled" ELSE "failed")
         ELSE Summarize
    /\ UNCHANGED <<callVars, producer, scanned, channelVars, final, received,
                   contextVars, broken>>

\* The deferred Cleanup of the handler.
Cleanup ==
    /\ receiver = "leaving"
    /\ receiver' = "left"
    /\ cleaned' = TRUE
    /\ UNCHANGED <<callVars, producer, scanned, channelVars, final, received,
                   outcome, gone, expired, broken>>

-----------------------------------------------------------------------------
(* The client and the clock                                                 *)

Disconnect ==
    /\ receiver # "left"
    /\ ~gone
    /\ gone' = TRUE
    /\ UNCHANGED <<callVars, producer, receiver, scanned, channelVars, final,
                   received, outcome, expired, cleaned, broken>>

\* The deadline of providerCtx; the summary call has none.
Expire ==
    /\ reader = "handler"
    /\ ~expired
    /\ ~cleaned
    /\ expired' = TRUE
    /\ UNCHANGED <<callVars, producer, receiver, scanned, channelVars, final,
                   received, outcome, gone, cleaned, broken>>

-----------------------------------------------------------------------------
Scan == ScanContent \/ SeeContext \/ ScanEnd \/ ScanFails

Send == SendContent \/ SendFinal \/ Abandon

Receive ==
    \/ ReceiveContent \/ WriteEvent \/ ReceiveDone \/ ReceiveErr
    \/ ReceiveClose \/ Cleanup

\* The reader has left and the goroutine of StreamChat, if any, has ended.
Finished == receiver = "left" /\ producer \in {"none", "ended"}

Rest == Finished /\ UNCHANGED vars

Next ==
    \/ Open \/ OpenFails \/ Scan \/ Send \/ Receive
    \/ Disconnect \/ Expire \/ Rest

Spec == Init /\ [][Next]_vars

\* The goroutines run, the client takes what is written to it, and deadlines
\* pass.  The upstream may be silent for ever: a connect or a scan is sure to
\* return only when interrupted.  The mock provider waits for nobody.
Fairness ==
    /\ WF_vars(Send)
    /\ WF_vars(Receive)
    /\ WF_vars((Interrupted \/ source = "mock") /\ (Open \/ OpenFails))
    /\ WF_vars((Interrupted \/ source = "mock") /\ Scan)
    /\ WF_vars(Expire)

FairSpec == Spec /\ Fairness

-----------------------------------------------------------------------------
(* Properties                                                               *)

\* An answer that is stored as completed is the whole answer: the handler has
\* read every chunk that went into the token count, none of them dropped by
\* the select of provider.go:120 on the way (chat_handler.go:167-185).
WholeAnswer == outcome = "success" => received = scanned

\* A channel that is closed without a final chunk means that the context is
\* done, and nothing else, full buffer included: what the handler concludes
\* from it at chat_handler.go:189-200 rests on this.
ClosedMeansDone == producer = "ended" /\ last = "none" => CtxDone

\* A call made by the handler ends on both sides, however silent the upstream
\* is: the reader leaves, and goroutine and connection are not leaked.  So
\* does a summary call once its client has hung up.
CallFinishes ==
    reader = "handler" \/ gone ~> Finished

\* A call the handler reports as failed did fail: the upstream broke off, the
\* deadline passed or the client hung up -- a disconnect may be reported either
\* way, since the error of the interrupted read competes with the context in
\* the select of provider.go:130.  The "stream closed unexpectedly" of
\* chat_handler.go:196 is always a deadline.
FailureHasCause == outcome = "failed" => broken \/ expired \/ gone
=============================================================================
