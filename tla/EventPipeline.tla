---------------------------- MODULE EventPipeline ----------------------------
(***************************************************************************)
(* The side tasks of a finished model call: the event published to the     *)
(* Redis stream, the consumer group with its two goroutines per server     *)
(* process (consumeNew and claimPending), the event handler that writes    *)
(* the call log, the usage statistics and the session title, and retries,  *)
(* dead letters, lost replies and crashes.                                 *)
(*                                                                         *)
(* One step is one call to Redis or MySQL.  A stream entry is named by its *)
(* position; its payload is the event it carries and its retry_count.      *)
(***************************************************************************)
EXTENDS Integers, FiniteSets, Sequences

CONSTANTS
    Calls,          \* finished calls, by request_id
    Sessions,       \* chat sessions
    SessionOf,      \* the session of a call
    Successful,     \* the calls whose event has status success
    Processes,      \* server processes, each one a consumer of the group
    DefaultTitle,   \* the title of a session that was given none
    MaxRetry,       \* redis_stream.go:23
    BatchSize,      \* COUNT of XREADGROUP and XAUTOCLAIM
    SlowWorkers,    \* BOOLEAN: an entry may wait in a batch for 60 seconds
    Faults,         \* which of "redis", "db", "dbreply", "crash" may happen
    MaxFaults       \* bound: faults in an execution

Kinds == {"consumeNew", "claimPending"}
Workers == Processes \X Kinds

Stages == {"idle", "log", "usage", "findSession", "setTitle", "ack",
           "retryAck", "republish", "bury", "buryAck"}

Payload == [call : Calls, retry : 0..MaxRetry]

ASSUME CallAssumption ==
    /\ SessionOf \in [Calls -> Sessions]
    /\ Successful \subseteq Calls
    /\ DefaultTitle \notin Calls
ASSUME LimitAssumption ==
    /\ MaxRetry \in Nat
    /\ BatchSize \in Nat \ {0}
    /\ MaxFaults \in Nat
    /\ SlowWorkers \in BOOLEAN
    /\ Faults \subseteq {"redis", "db", "dbreply", "crash"}

VARIABLES
    published,      \* calls whose event has been published
    stream,         \* the entries of the stream, oldest first
    next,           \* the first entry the group has not delivered
    pending,        \* delivered entries that are not acknowledged
    dead,           \* dead[c]: entries of the dead letter stream for call c
    logged,         \* logged[c]: call c has a row in model_call_logs
    usage,          \* usage[c]: times call c was added to the statistics
    title,          \* title[s]: DefaultTitle or the call that titled s
    up,             \* the server processes that run
    consuming,      \* those whose Consumer.Start has started its goroutines
    stage,          \* stage[w]: the call worker w is about to make
    cur,            \* cur[w]: the entry w is processing, or 0
    batch,          \* batch[w]: entries w has received and not yet begun
    faults          \* faults so far

streamVars == <<stream, next>>
bookVars == <<logged, usage, title>>
workVars == <<stage, cur, batch>>
procVars == <<up, consuming>>
vars == <<published, streamVars, pending, dead, bookVars, procVars, workVars,
          faults>>

TypeOK ==
    /\ published \subseteq Calls
    /\ stream \in Seq(Payload)
    /\ next \in 1..(Len(stream) + 1)
    /\ pending \subseteq 1..Len(stream)
    /\ dead \in [Calls -> Nat]
    /\ logged \in [Calls -> BOOLEAN]
    /\ usage \in [Calls -> Nat]
    /\ title \in [Sessions -> Calls \cup {DefaultTitle}]
    /\ up \subseteq Processes
    /\ consuming \subseteq up
    /\ stage \in [Workers -> Stages]
    /\ cur \in [Workers -> 0..Len(stream)]
    /\ batch \in [Workers -> SUBSET (1..Len(stream))]
    /\ faults \in 0..MaxFaults

Init ==
    /\ published = {}
    /\ stream = <<>>
    /\ next = 1
    /\ pending = {}
    /\ dead = [c \in Calls |-> 0]
    /\ logged = [c \in Calls |-> FALSE]
    /\ usage = [c \in Calls |-> 0]
    /\ title = [s \in Sessions |-> DefaultTitle]
    /\ up = {}
    /\ consuming = {}
    /\ stage = [w \in Workers |-> "idle"]
    /\ cur = [w \in Workers |-> 0]
    /\ batch = [w \in Workers |-> {}]
    /\ faults = 0

-----------------------------------------------------------------------------
\* A fault of the given kind happens in this step.
Fault(kind) ==
    /\ kind \in Faults
    /\ faults < MaxFaults
    /\ faults' = faults + 1

OK == UNCHANGED faults

At(w, s) == w[1] \in consuming /\ stage[w] = s

Goto(w, s) == stage' = [stage EXCEPT ![w] = s]

\* Worker w is done with its entry.
Leave(w) ==
    /\ stage' = [stage EXCEPT ![w] = "idle"]
    /\ cur' = [cur EXCEPT ![w] = 0]

\* The call and the retry_count of the entry w is processing.
CallOf(w) == stream[cur[w]].call
RetryOf(w) == stream[cur[w]].retry

\* XADD; an error may hide an entry that was added.
Append1(payload) == stream' = Append(stream, payload)

\* The reply to an XADD is lost and the client library sends it again.
AppendTwice(payload) == stream' = stream \o <<payload, payload>>

-----------------------------------------------------------------------------
(* Publisher.Publish                                                        *)

\* The event of a finished call enters the stream with retry_count 0.  A server
\* serves, and publishes, whether or not its consumer has started.
Publish(c) ==
    /\ up # {}
    /\ c \notin published
    /\ published' = published \cup {c}
    /\ Append1([call |-> c, retry |-> 0])
    /\ OK
    /\ UNCHANGED <<next, pending, dead, bookVars, procVars, workVars>>

\* The same, with the reply to the XADD lost.
PublishTwice(c) ==
    /\ Fault("redis")
    /\ up # {}
    /\ c \notin published
    /\ published' = published \cup {c}
    /\ AppendTwice([call |-> c, retry |-> 0])
    /\ UNCHANGED <<next, pending, dead, bookVars, procVars, workVars>>

-----------------------------------------------------------------------------
(* Consumer.consumeNew and Consumer.autoClaim                               *)

\* Up to BatchSize entries the group has not delivered yet.
Upto == IF next + BatchSize <= Len(stream) THEN next + BatchSize
                                           ELSE Len(stream) + 1
Undelivered == next..(Upto - 1)

\* XREADGROUP delivers what there is; the entries become pending.  When the
\* reply is lost they are pending and nobody has them.
ReadNew(w) ==
    /\ w[2] = "consumeNew"
    /\ At(w, "idle")
    /\ batch[w] = {}
    /\ next <= Len(stream)
    /\ next' = Upto
    /\ pending' = pending \cup Undelivered
    /\ \/ OK /\ batch' = [batch EXCEPT ![w] = Undelivered]
       \/ Fault("redis") /\ UNCHANGED batch
    /\ UNCHANGED <<published, stream, dead, bookVars, procVars, stage, cur>>

InHand(i) ==
    \E w \in Workers : w[1] \in consuming /\ (cur[w] = i \/ i \in batch[w])

\* Mutant of ClaimIdle: only entries that some running worker holds.
ClaimHeld(w) ==
    /\ w[2] = "claimPending"
    /\ At(w, "idle")
    /\ batch[w] = {}
    /\ \E i \in pending :
          /\ InHand(i)
          /\ batch' = [batch EXCEPT ![w] = {i}]
    /\ OK
    /\ UNCHANGED <<published, streamVars, pending, dead, bookVars, procVars, stage, cur>>

\* XAUTOCLAIM takes entries that have been pending for 60 seconds, whoever
\* received them: a process that is gone, a lost reply, or a worker of this
\* very group that is still busy with its batch.
ClaimIdle(w) ==
    /\ w[2] = "claimPending"
    /\ At(w, "idle")
    /\ batch[w] = {}
    /\ \E idle \in SUBSET {i \in pending : SlowWorkers \/ ~InHand(i)} :
          /\ idle # {}
          /\ Cardinality(idle) <= BatchSize
          /\ batch' = [batch EXCEPT ![w] = idle]
    /\ OK
    /\ UNCHANGED <<published, streamVars, pending, dead, bookVars, procVars, stage, cur>>

-----------------------------------------------------------------------------
(* Consumer.processMessage and ModelCallEventHandler.Handle                 *)

\* Mutant of Begin: the statistics before the log.
BeginWithUsage(w) ==
    /\ At(w, "idle")
    /\ \E i \in batch[w] :
          /\ \A j \in batch[w] : i <= j
          /\ cur' = [cur EXCEPT ![w] = i]
          /\ batch' = [batch EXCEPT ![w] = @ \ {i}]
    /\ Goto(w, "usage")
    /\ OK
    /\ UNCHANGED <<published, streamVars, pending, dead, bookVars, procVars>>

\* Mutant of Begin: the entry is acknowledged before it is handled.
BeginAcked(w) ==
    /\ At(w, "idle")
    /\ \E i \in batch[w] :
          /\ \A j \in batch[w] : i <= j
          /\ cur' = [cur EXCEPT ![w] = i]
          /\ batch' = [batch EXCEPT ![w] = @ \ {i}]
          /\ pending' = pending \ {i}
    /\ Goto(w, "log")
    /\ OK
    /\ UNCHANGED <<published, streamVars, dead, bookVars, procVars>>

\* The next entry of the batch, in stream order.
Begin(w) ==
    /\ At(w, "idle")
    /\ \E i \in batch[w] :
          /\ \A j \in batch[w] : i <= j
          /\ cur' = [cur EXCEPT ![w] = i]
          /\ batch' = [batch EXCEPT ![w] = @ \ {i}]
    /\ Goto(w, "log")
    /\ OK
    /\ UNCHANGED <<published, streamVars, pending, dead, bookVars, procVars>>

\* Mutant of Failed: the retry limit is compared before the increment.
FailedOnceMore(w) ==
    Goto(w, IF RetryOf(w) > MaxRetry THEN "bury" ELSE "retryAck")

\* Mutant of Failed: the last retry is not made.
FailedOnceLess(w) ==
    Goto(w, IF RetryOf(w) + 1 >= MaxRetry THEN "bury" ELSE "retryAck")

\* What a worker whose handler returned an error does next.
Failed(w) == Goto(w, IF RetryOf(w) + 1 > MaxRetry THEN "bury" ELSE "retryAck")

\* Mutant of WriteCallLog: a duplicate request_id is taken for success.
WriteCallLogOnce(w) ==
    /\ At(w, "log")
    /\ logged' = [logged EXCEPT ![CallOf(w)] = TRUE]
    /\ OK
    /\ Goto(w, "usage")
    /\ UNCHANGED <<published, streamVars, pending, dead, usage, title, procVars, cur, batch>>

\* INSERT INTO model_call_logs, where request_id is unique: a second row for
\* the call is an error like any other.
WriteCallLog(w) ==
    /\ At(w, "log")
    /\ \/ /\ ~logged[CallOf(w)]
          /\ logged' = [logged EXCEPT ![CallOf(w)] = TRUE]
          /\ \/ OK /\ Goto(w, "usage")
             \/ Fault("dbreply") /\ Failed(w)
       \/ /\ logged[CallOf(w)]
          /\ OK
          /\ Failed(w)
          /\ UNCHANGED logged
       \/ /\ Fault("db")
          /\ Failed(w)
          /\ UNCHANGED logged
    /\ UNCHANGED <<published, streamVars, pending, dead, usage, title, procVars, cur, batch>>

\* INSERT ... ON DUPLICATE KEY UPDATE total_calls = total_calls + 1.
UpdateUsageStat(w) ==
    /\ At(w, "usage")
    /\ \/ /\ usage' = [usage EXCEPT ![CallOf(w)] = @ + 1]
          /\ \/ /\ OK
                /\ Goto(w, IF CallOf(w) \in Successful THEN "findSession"
                                                       ELSE "ack")
             \/ Fault("dbreply") /\ Failed(w)
       \/ Fault("db") /\ Failed(w) /\ UNCHANGED usage
    /\ UNCHANGED <<published, streamVars, pending, dead, logged, title, procVars, cur, batch>>

\* The session is read; its title is to be set when it is still the default.
\* Errors of the title task are dropped.
FindSession(w) ==
    /\ At(w, "findSession")
    /\ \/ OK /\ Goto(w, IF title[SessionOf[CallOf(w)]] = DefaultTitle
                          THEN "setTitle" ELSE "ack")
       \/ Fault("db") /\ Goto(w, "ack")
    /\ UNCHANGED <<published, streamVars, pending, dead, bookVars, procVars, cur, batch>>

\* UPDATE ... SET title, unconditionally.
SetTitle(w) ==
    /\ At(w, "setTitle")
    /\ \/ OK /\ title' = [title EXCEPT ![SessionOf[CallOf(w)]] = CallOf(w)]
       \/ Fault("db") /\ UNCHANGED title
    /\ Goto(w, "ack")
    /\ UNCHANGED <<published, streamVars, pending, dead, logged, usage, procVars, cur, batch>>

\* XACK; its error is only logged.
Acknowledge(w) ==
    \/ OK /\ pending' = pending \ {cur[w]}
    \/ Fault("redis") /\ UNCHANGED pending

\* The handler returned nil.
AckDone(w) ==
    /\ At(w, "ack")
    /\ Acknowledge(w)
    /\ Leave(w)
    /\ UNCHANGED <<published, streamVars, dead, bookVars, procVars, batch>>

\* Mutant of AckForRetry: the event is not published again.
AckAndDrop(w) ==
    /\ At(w, "retryAck")
    /\ Acknowledge(w)
    /\ Leave(w)
    /\ UNCHANGED <<published, streamVars, dead, bookVars, procVars, batch>>

\* The handler returned an error: the original is acknowledged first ...
AckForRetry(w) ==
    /\ At(w, "retryAck")
    /\ Acknowledge(w)
    /\ Goto(w, "republish")
    /\ UNCHANGED <<published, streamVars, dead, bookVars, procVars, cur, batch>>

\* ... and the event is published again with its retry_count incremented.
Republish(w) ==
    /\ At(w, "republish")
    /\ \/ /\ Append1([call |-> CallOf(w), retry |-> RetryOf(w) + 1])
          /\ OK \/ Fault("redis")
       \/ /\ AppendTwice([call |-> CallOf(w), retry |-> RetryOf(w) + 1])
          /\ Fault("redis")
       \/ Fault("redis") /\ UNCHANGED stream
    /\ Leave(w)
    /\ UNCHANGED <<published, next, pending, dead, bookVars, procVars, batch>>

\* moveToDLQ: the dead letter is published ...
PublishDLQ(w) ==
    /\ At(w, "bury")
    /\ \/ /\ dead' = [dead EXCEPT ![CallOf(w)] = @ + 1]
          /\ OK \/ Fault("redis")
       \/ /\ dead' = [dead EXCEPT ![CallOf(w)] = @ + 2]
          /\ Fault("redis")
       \/ Fault("redis") /\ UNCHANGED dead
    /\ Goto(w, "buryAck")
    /\ UNCHANGED <<published, streamVars, pending, bookVars, procVars, cur, batch>>

\* ... and the original is acknowledged, published or not.
AckBuried(w) ==
    /\ At(w, "buryAck")
    /\ Acknowledge(w)
    /\ Leave(w)
    /\ UNCHANGED <<published, streamVars, dead, bookVars, procVars, batch>>

-----------------------------------------------------------------------------
(* The server process                                                       *)

\* A process dies with its two goroutines, if they run; what it received stays
\* pending.
Crash(p) ==
    /\ p \in up
    /\ Fault("crash")
    /\ up' = up \ {p}
    /\ consuming' = consuming \ {p}
    /\ stage' = [w \in Workers |-> IF w[1] = p THEN "idle" ELSE stage[w]]
    /\ cur' = [w \in Workers |-> IF w[1] = p THEN 0 ELSE cur[w]]
    /\ batch' = [w \in Workers |-> IF w[1] = p THEN {} ELSE batch[w]]
    /\ UNCHANGED <<published, streamVars, pending, dead, bookVars>>

\* The server starts, and with it its consumer.  A group that exists already
\* (BUSYGROUP) keeps its place.  When XGROUP CREATE fails neither goroutine is
\* started, and the server serves all the same (main.go:147-151): nothing but
\* the next start of the process tries again.
Start(p) ==
    /\ p \notin up
    /\ up' = up \cup {p}
    /\ \/ OK /\ consuming' = consuming \cup {p}
       \/ Fault("redis") /\ UNCHANGED consuming
    /\ UNCHANGED <<published, streamVars, pending, dead, bookVars, workVars>>

-----------------------------------------------------------------------------
Process(w) ==
    \/ Begin(w) \/ WriteCallLog(w) \/ UpdateUsageStat(w)
    \/ FindSession(w) \/ SetTitle(w) \/ AckDone(w)
    \/ AckForRetry(w) \/ Republish(w) \/ PublishDLQ(w) \/ AckBuried(w)

Work(w) == ReadNew(w) \/ ClaimIdle(w) \/ Process(w)

\* The group has no entry to deliver and none that is not acknowledged.
Empty == next = Len(stream) + 1 /\ pending = {}

\* Every server runs, and the consumer of none has started.
Deaf == up = Processes /\ consuming = {}

\* Everything is published and worked off, or there is nobody to work it off.
Drained ==
    /\ published = Calls
    /\ up = Processes
    /\ Empty \/ Deaf
    /\ \A w \in Workers : stage[w] = "idle" /\ batch[w] = {}

Next ==
    \/ \E c \in Calls : Publish(c) \/ PublishTwice(c)
    \/ \E w \in Workers : Work(w)
    \/ \E p \in Processes : Crash(p) \/ Start(p)
    \/ Drained /\ UNCHANGED vars

Spec == Init /\ [][Next]_vars

\* The goroutines of a running process run, and a process that died is
\* started again.
Fairness ==
    /\ \A w \in Workers : WF_vars(Work(w))
    /\ \A p \in Processes : WF_vars(Start(p))

FairSpec == Spec /\ Fairness

-----------------------------------------------------------------------------
(* Properties                                                               *)

\* However often an event is delivered, duplicated, retried or claimed by two
\* workers at once, its call is added to the statistics at most once, and
\* only when it is in the call log (the order of model_call_handler.go:40-47
\* and the unique key of model_call_logs make it so).
CountedOnce ==
    \A c \in Calls : usage[c] <= 1 /\ (usage[c] = 1 => logged[c])

\* Entry i is still to be delivered, or to be acknowledged by a worker that
\* has not given it up: moveToDLQ acknowledges what it could not bury, too.
Outstanding(i) ==
    \/ i >= next
    \/ /\ i \in pending
       /\ \A w \in Workers : cur[w] = i => stage[w] # "buryAck"

\* A worker has taken the event of call c out of its entry, or is about to.
Carried(c, w) == stage[w] \in {"retryAck", "republish", "bury"} /\ CallOf(w) = c

\* Call c has left a trace.
Traced(c) ==
    \/ logged[c]
    \/ dead[c] > 0
    \/ \E i \in 1..Len(stream) : stream[i].call = c /\ Outstanding(i)
    \/ \E w \in Workers : Carried(c, w)

\* A call loses its last trace only when Redis refuses the second publication
\* or the dead letter, or when the process dies between the acknowledgement
\* and the second publication (redis_stream.go:283-284, 324-332); no failure
\* of the database, no claim and no duplicate loses it.
NothingLost ==
    [][\A c \in Calls :
         Traced(c) =>
            \/ Traced(c)'
            \/ /\ faults' > faults
               /\ \E w \in Workers : Carried(c, w) /\ stage'[w] # stage[w]]_vars

\* A single fault, of whatever kind, costs no call: the entry outlives the
\* worker that received it and, until the call is logged, every delivery
\* (redis_stream.go:272-305).  Two may.
OneFaultLosesNothing == \A c \in published : Traced(c) \/ faults >= 2

\* An event whose call is not in the log is given up only after every one of
\* its MaxRetry + 1 deliveries has failed (redis_stream.go:276).
DeadLetterEarned ==
    \A c \in Calls : dead[c] > 0 /\ ~logged[c] => faults > MaxRetry

\* backend-features.md:456: a step that fails makes the event be retried, so
\* with fewer faults than retries every published call comes to be counted.
RetriesHeal ==
    \A c \in Calls : c \in published ~> usage[c] = 1

\* Every published event is worked off: the retries end (MaxRetry), dead
\* letters are acknowledged, and what a crashed process or a lost reply left
\* pending is claimed.  It is not, only when no consumer is left for good: the
\* start of every one has failed since its process last came up, and none of
\* these processes ends (redis_stream.go:98-103, main.go:147-151).  One
\* consumer suffices, for the entries of all.
WorkedOff == (published = Calls) ~> (Empty \/ []Deaf)

-----------------------------------------------------------------------------
(* Refinement                                                               *)

Ledger ==
    INSTANCE CallLedger
        WITH recorded <- {c \in Calls : logged[c]},
             counted <- {c \in Calls : usage[c] > 0}

\* The consumer keeps the books the way CallLedger promises.
KeepsLedger == Ledger!LSpec
=============================================================================
