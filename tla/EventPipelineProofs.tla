------------------------- MODULE EventPipelineProofs -------------------------
(***************************************************************************)
(* Theorems about EventPipeline, for every set of calls and processes,     *)
(* every retry limit and batch size, and any number of faults.             *)
(***************************************************************************)
EXTENDS EventPipeline, TLAPS

-----------------------------------------------------------------------------
(* Types.  A worker that is busy has an entry; an entry that may be retried *)
(* has retries left.                                                        *)

BusyInv ==
    \A w \in Workers :
        /\ stage[w] # "idle" => cur[w] \in 1..Len(stream)
        /\ stage[w] \in {"retryAck", "republish"} => RetryOf(w) < MaxRetry

TypeInv == TypeOK /\ BusyInv

\* What an entry carries.
LEMMA EntryType ==
    ASSUME TypeInv, NEW w \in Workers, stage[w] # "idle"
    PROVE  /\ cur[w] \in 1..Len(stream)
           /\ stream[cur[w]] \in Payload
           /\ CallOf(w) \in Calls
           /\ RetryOf(w) \in 0..MaxRetry
<1>1. cur[w] \in 1..Len(stream)
  BY DEF TypeInv, BusyInv
<1>2. stream[cur[w]] \in Payload
  BY <1>1 DEF TypeInv, TypeOK
<1>3. QED
  BY <1>1, <1>2 DEF Payload, CallOf, RetryOf

\* Entries keep their place and payload when the stream grows.
LEMMA StreamGrows ==
    ASSUME TypeInv, NEW p \in Payload, stream' = Append(stream, p)
    PROVE  /\ stream' \in Seq(Payload)
           /\ Len(stream') = Len(stream) + 1
           /\ Len(stream) \in Nat
           /\ \A i \in 1..Len(stream) : stream'[i] = stream[i]
  BY DEF TypeInv, TypeOK

LEMMA StreamGrowsTwice ==
    ASSUME TypeInv, NEW p \in Payload, AppendTwice(p)
    PROVE  /\ stream' \in Seq(Payload)
           /\ Len(stream') = Len(stream) + 2
           /\ Len(stream) \in Nat
           /\ \A i \in 1..Len(stream) : stream'[i] = stream[i]
           /\ \A i \in 1..Len(stream') : i > Len(stream) => stream'[i] = p
<1>1. <<p, p>> \in Seq(Payload) /\ Len(<<p, p>>) = 2
  OBVIOUS
<1>2. stream \in Seq(Payload) /\ stream' = stream \o <<p, p>>
  BY DEF TypeInv, TypeOK, AppendTwice
<1>3. /\ stream' \in Seq(Payload)
      /\ Len(stream') = Len(stream) + 2
      /\ Len(stream) \in Nat
      /\ \A i \in 1..Len(stream) : stream'[i] = stream[i]
      /\ stream'[Len(stream) + 1] = p
      /\ stream'[Len(stream) + 2] = p
  BY <1>1, <1>2
<1>4. ASSUME NEW i \in 1..Len(stream'), i > Len(stream)
      PROVE  stream'[i] = p
  <2>1. i = Len(stream) + 1 \/ i = Len(stream) + 2
    BY <1>3, <1>4
  <2>2. QED
    BY <1>3, <2>1
<1>5. QED
  BY <1>3, <1>4

\* A longer stream disturbs nothing that TypeInv says about workers.
LEMMA GrowthKeepsTypes ==
    ASSUME TypeInv,
           stream' \in Seq(Payload), Len(stream') \in Nat, Len(stream) \in Nat,
           Len(stream') >= Len(stream),
           \A i \in 1..Len(stream) : stream'[i] = stream[i],
           published' \subseteq Calls, faults' \in 0..MaxFaults,
           UNCHANGED <<next, pending, dead, bookVars, procVars, workVars>>
    PROVE  TypeInv'
<1>1. TypeOK'
  BY DEF TypeInv, TypeOK, bookVars, procVars, workVars
<1>2. BusyInv'
  BY DEF TypeInv, BusyInv, workVars, RetryOf, TypeOK
<1>3. QED
  BY <1>1, <1>2 DEF TypeInv

LEMMA InitTypeInv == Init => TypeInv
  BY LimitAssumption, CallAssumption
     DEF Init, TypeInv, TypeOK, BusyInv, Payload, Stages

LEMMA FaultType ==
    ASSUME TypeInv,
           \/ OK
           \/ Fault("redis") \/ Fault("db") \/ Fault("dbreply") \/ Fault("crash")
    PROVE  faults' \in 0..MaxFaults
<1>1. UNCHANGED faults \/ (faults < MaxFaults /\ faults' = faults + 1)
  BY DEF OK, Fault
<1>2. faults \in 0..MaxFaults
  BY DEF TypeInv, TypeOK
<1>3. QED
  BY <1>1, <1>2, LimitAssumption

LEMMA PublishTypeInv ==
    ASSUME TypeInv, NEW c \in Calls, Publish(c) \/ PublishTwice(c)
    PROVE  TypeInv'
<1>1. [call |-> c, retry |-> 0] \in Payload
  BY LimitAssumption DEF Payload
<1>2. faults' \in 0..MaxFaults /\ published' \subseteq Calls
  BY FaultType DEF Publish, PublishTwice, TypeInv, TypeOK
<1>3. CASE Publish(c)
  BY <1>1, <1>2, <1>3, StreamGrows, GrowthKeepsTypes DEF Publish, Append1
<1>4. CASE PublishTwice(c)
  BY <1>1, <1>2, <1>4, StreamGrowsTwice, GrowthKeepsTypes DEF PublishTwice
<1>5. QED
  BY <1>3, <1>4

LEMMA FetchTypeInv ==
    ASSUME TypeInv, NEW w \in Workers, ReadNew(w) \/ ClaimIdle(w) \/ Begin(w)
    PROVE  TypeInv'
<1>1. faults' \in 0..MaxFaults
  BY FaultType DEF ReadNew, ClaimIdle, Begin
<1>2. Len(stream) \in Nat
  BY DEF TypeInv, TypeOK
<1>3. CASE ReadNew(w)
  <2>1. Upto \in 1..(Len(stream) + 1) /\ Undelivered \subseteq 1..Len(stream)
    BY <1>2, <1>3, LimitAssumption DEF ReadNew, Upto, Undelivered, TypeInv, TypeOK
  <2>2. QED
    BY <1>1, <1>3, <2>1
       DEF ReadNew, TypeInv, TypeOK, BusyInv, RetryOf, bookVars, procVars
<1>4. CASE ClaimIdle(w)
  BY <1>1, <1>4
     DEF ClaimIdle, TypeInv, TypeOK, BusyInv, RetryOf, bookVars, streamVars,
         procVars
<1>5. CASE Begin(w)
  BY <1>1, <1>2, <1>5
     DEF Begin, Goto, TypeInv, TypeOK, BusyInv, RetryOf, bookVars, streamVars,
         procVars, Stages
<1>6. QED
  BY <1>3, <1>4, <1>5

\* A handler that failed retries only while retries are left.
LEMMA FailedTypes ==
    ASSUME TypeInv, NEW w \in Workers, stage[w] # "idle", Failed(w),
           UNCHANGED <<stream, cur>>
    PROVE  stage' \in [Workers -> Stages] /\ BusyInv'
<1>1. RetryOf(w) \in 0..MaxRetry /\ cur[w] \in 1..Len(stream)
  BY EntryType
<1>2. QED
  BY <1>1, LimitAssumption
     DEF Failed, Goto, TypeInv, TypeOK, BusyInv, RetryOf, Stages

\* A worker that goes on with its entry outside the retry path.
LEMMA GotoTypes ==
    ASSUME TypeInv, NEW w \in Workers, stage[w] # "idle",
           NEW s \in Stages \ {"retryAck", "republish"}, Goto(w, s),
           UNCHANGED <<stream, cur>>
    PROVE  stage' \in [Workers -> Stages] /\ BusyInv'
  BY DEF Goto, TypeInv, TypeOK, BusyInv, RetryOf

LEMMA HandleTypeInv ==
    ASSUME TypeInv, NEW w \in Workers,
           \/ WriteCallLog(w) \/ UpdateUsageStat(w)
           \/ FindSession(w) \/ SetTitle(w)
    PROVE  TypeInv'
<1> USE DEF streamVars, bookVars, procVars, At
<1>1. faults' \in 0..MaxFaults
  BY FaultType DEF WriteCallLog, UpdateUsageStat, FindSession, SetTitle
<1>2. stage[w] # "idle" /\ UNCHANGED <<stream, cur>>
  BY DEF WriteCallLog, UpdateUsageStat, FindSession, SetTitle
<1>3. CallOf(w) \in Calls
  BY <1>2, EntryType
<1>4. stage' \in [Workers -> Stages] /\ BusyInv'
  <2>1. Failed(w) \/ \E s \in Stages \ {"retryAck", "republish"} : Goto(w, s)
    BY DEF WriteCallLog, UpdateUsageStat, FindSession, SetTitle, Stages
  <2>2. QED
    BY <1>2, <2>1, FailedTypes, GotoTypes
<1>5. logged' \in [Calls -> BOOLEAN] /\ usage' \in [Calls -> Nat]
  <2>1. logged \in [Calls -> BOOLEAN] /\ usage \in [Calls -> Nat]
    BY DEF TypeInv, TypeOK
  <2>2. UNCHANGED logged \/ logged' = [logged EXCEPT ![CallOf(w)] = TRUE]
    BY DEF WriteCallLog, UpdateUsageStat, FindSession, SetTitle
  <2>3. UNCHANGED usage \/ usage' = [usage EXCEPT ![CallOf(w)] = @ + 1]
    BY DEF WriteCallLog, UpdateUsageStat, FindSession, SetTitle
  <2>4. logged' \in [Calls -> BOOLEAN]
    BY <1>3, <2>1, <2>2
  <2>5. usage' \in [Calls -> Nat]
    BY <1>3, <2>1, <2>3
  <2>6. QED
    BY <2>4, <2>5
<1>6. title' \in [Sessions -> Calls \cup {DefaultTitle}]
  BY <1>3 DEF WriteCallLog, UpdateUsageStat, FindSession, SetTitle, TypeInv, TypeOK
<1>7. UNCHANGED <<published, stream, next, pending, dead, procVars, cur, batch>>
  BY DEF WriteCallLog, UpdateUsageStat, FindSession, SetTitle
<1>8. QED
  BY <1>1, <1>4, <1>5, <1>6, <1>7 DEF TypeInv, TypeOK

\* A dead letter is counted for the call of its worker, or it is refused.
LEMMA Buries ==
    ASSUME TypeInv, NEW w \in Workers, PublishDLQ(w)
    PROVE  /\ stage[w] = "bury"
           /\ CallOf(w) \in Calls
           /\ dead' \in [Calls -> Nat]
           /\ \A c \in Calls : dead'[c] >= dead[c]
           /\ \A c \in Calls : c # CallOf(w) => dead'[c] = dead[c]
           /\ Fault("redis") \/ dead'[CallOf(w)] > 0
<1>1. stage[w] = "bury" /\ CallOf(w) \in Calls
  BY EntryType DEF PublishDLQ, At
<1>2. dead \in [Calls -> Nat]
  BY DEF TypeInv, TypeOK
<1>3. CASE UNCHANGED dead /\ Fault("redis")
  BY <1>1, <1>2, <1>3
<1>4. ASSUME NEW n \in {1, 2},
             dead' = [dead EXCEPT ![CallOf(w)] = dead[CallOf(w)] + n]
      PROVE  /\ dead' \in [Calls -> Nat]
             /\ \A c \in Calls : dead'[c] >= dead[c]
             /\ \A c \in Calls : c # CallOf(w) => dead'[c] = dead[c]
             /\ dead'[CallOf(w)] > 0
  BY <1>1, <1>2, <1>4
<1>5. \/ UNCHANGED dead /\ Fault("redis")
      \/ \E n \in {1, 2} :
            dead' = [dead EXCEPT ![CallOf(w)] = dead[CallOf(w)] + n]
  BY DEF PublishDLQ
<1>6. QED
  BY <1>1, <1>3, <1>4, <1>5

LEMMA FinishTypeInv ==
    ASSUME TypeInv, NEW w \in Workers,
           \/ AckDone(w) \/ AckForRetry(w) \/ PublishDLQ(w) \/ AckBuried(w)
    PROVE  TypeInv'
<1> USE DEF streamVars, bookVars, procVars, At
<1>1. faults' \in 0..MaxFaults
  BY FaultType DEF AckDone, AckForRetry, PublishDLQ, AckBuried, Acknowledge
<1>2. CASE AckDone(w) \/ AckBuried(w)
  <2>1. /\ Leave(w)
        /\ pending' \subseteq pending
        /\ UNCHANGED <<published, stream, next, dead, logged, usage, title,
                       procVars, batch>>
    BY <1>2 DEF AckDone, AckBuried, Acknowledge
  <2>2. TypeOK'
    BY <1>1, <2>1 DEF Leave, TypeInv, TypeOK, Stages
  <2>3. BusyInv'
    BY <2>1 DEF Leave, TypeInv, TypeOK, BusyInv, RetryOf
  <2>4. QED
    BY <2>2, <2>3 DEF TypeInv
<1>3. CASE AckForRetry(w)
  BY <1>1, <1>3
     DEF AckForRetry, Acknowledge, Goto, TypeInv, TypeOK, BusyInv, RetryOf,
         Stages
<1>4. CASE PublishDLQ(w)
  <2>1. /\ Goto(w, "buryAck") /\ stage[w] # "idle"
        /\ UNCHANGED <<published, stream, next, pending, logged, usage, title,
                       procVars, cur, batch>>
    BY <1>4 DEF PublishDLQ
  <2>2. stage' \in [Workers -> Stages] /\ BusyInv'
    BY <2>1, GotoTypes DEF Stages
  <2>3. dead' \in [Calls -> Nat]
    BY <1>4, Buries
  <2>4. QED
    BY <1>1, <2>1, <2>2, <2>3 DEF TypeInv, TypeOK
<1>5. QED
  BY <1>2, <1>3, <1>4

\* What is published again has a retry left; the entries before it stay.
LEMMA RepublishKeeps ==
    ASSUME TypeInv, NEW w \in Workers, Republish(w)
    PROVE  /\ [call |-> CallOf(w), retry |-> RetryOf(w) + 1] \in Payload
           /\ stream' \in Seq(Payload)
           /\ Len(stream) \in Nat /\ Len(stream') \in Nat
           /\ Len(stream') >= Len(stream)
           /\ \A i \in 1..Len(stream) : stream'[i] = stream[i]
<1>1. stage[w] = "republish" /\ RetryOf(w) \in 0..MaxRetry /\ CallOf(w) \in Calls
  BY EntryType DEF Republish, At
<1>2. RetryOf(w) < MaxRetry
  BY <1>1 DEF TypeInv, BusyInv
<1>3. [call |-> CallOf(w), retry |-> RetryOf(w) + 1] \in Payload
  BY <1>1, <1>2, LimitAssumption DEF Payload
<1>4. CASE UNCHANGED stream
  BY <1>3, <1>4 DEF TypeInv, TypeOK
<1>5. CASE Append1([call |-> CallOf(w), retry |-> RetryOf(w) + 1])
  BY <1>3, <1>5, StreamGrows DEF Append1
<1>6. CASE AppendTwice([call |-> CallOf(w), retry |-> RetryOf(w) + 1])
  BY <1>3, <1>6, StreamGrowsTwice
<1>7. QED
  BY <1>4, <1>5, <1>6 DEF Republish

LEMMA RepublishTypeInv ==
    ASSUME TypeInv, NEW w \in Workers, Republish(w)
    PROVE  TypeInv'
<1>1. faults' \in 0..MaxFaults
  BY FaultType DEF Republish
<1>2. /\ stream' \in Seq(Payload)
      /\ Len(stream) \in Nat /\ Len(stream') \in Nat
      /\ Len(stream') >= Len(stream)
      /\ \A i \in 1..Len(stream) : stream'[i] = stream[i]
  BY RepublishKeeps
<1>3. TypeOK'
  BY <1>1, <1>2 DEF Republish, Leave, TypeInv, TypeOK, Stages, bookVars, procVars
<1>4. BusyInv'
  BY <1>2 DEF Republish, Leave, TypeInv, TypeOK, BusyInv, RetryOf
<1>5. QED
  BY <1>3, <1>4 DEF TypeInv

LEMMA ProcessTypeInv ==
    ASSUME TypeInv, NEW p \in Processes, Crash(p) \/ Start(p)
    PROVE  TypeInv'
<1>1. faults' \in 0..MaxFaults
  BY FaultType DEF Crash, Start
<1>2. CASE Crash(p)
  <2>1. TypeOK'
    BY <1>1, <1>2 DEF Crash, TypeInv, TypeOK, Stages, streamVars, bookVars
  <2>2. BusyInv'
    BY <1>2 DEF Crash, TypeInv, TypeOK, BusyInv, RetryOf, streamVars
  <2>3. QED
    BY <2>1, <2>2 DEF TypeInv
<1>3. CASE Start(p)
  BY <1>1, <1>3
     DEF Start, TypeInv, TypeOK, BusyInv, RetryOf, streamVars, bookVars,
         workVars
<1>4. QED
  BY <1>2, <1>3

LEMMA NextTypeInv ==
    ASSUME TypeInv, [Next]_vars
    PROVE  TypeInv'
<1>1. ASSUME NEW w \in Workers, Work(w) PROVE TypeInv'
  BY <1>1, FetchTypeInv, HandleTypeInv, FinishTypeInv, RepublishTypeInv
     DEF Work, Process
<1>2. CASE UNCHANGED vars
  BY <1>2 DEF vars, streamVars, bookVars, procVars, workVars, TypeInv, TypeOK,
              BusyInv, RetryOf
<1>3. QED
  BY <1>1, <1>2, PublishTypeInv, ProcessTypeInv DEF Next

LEMMA TypeInvHolds == Spec => []TypeInv
<1>1. Init => TypeInv
  BY InitTypeInv
<1>2. TypeInv /\ [Next]_vars => TypeInv'
  BY NextTypeInv
<1>3. QED
  BY <1>1, <1>2, PTL DEF Spec

\* Every reachable state is well typed; in particular no entry of the stream
\* ever carries a retry_count above MaxRetry (redis_stream.go:276).
THEOREM TypeCorrect == Spec => []TypeOK
<1>1. TypeInv => TypeOK
  BY DEF TypeInv
<1>2. QED
  BY <1>1, TypeInvHolds, PTL

-----------------------------------------------------------------------------
(* Counting.  CountedOnce is not inductive: what keeps a second count out is *)
(* that the log row admits one worker to the statistics.  A worker about to  *)
(* count a call has written the row of a call that nobody has counted, and   *)
(* no other worker is about to count the same call.                          *)

Counting(w) == stage[w] = "usage"

CountInv ==
    /\ \A c \in Calls : usage[c] \in {0, 1} /\ (usage[c] = 1 => logged[c])
    /\ \A w \in Workers :
          Counting(w) => logged[CallOf(w)] /\ usage[CallOf(w)] = 0
    /\ \A w, v \in Workers :
          Counting(w) /\ Counting(v) /\ w # v => CallOf(w) # CallOf(v)

LEMMA CountInvCounts == CountInv => CountedOnce
  BY DEF CountInv, CountedOnce

\* The call of a worker that keeps its entry does not change.
LEMMA CallStays ==
    ASSUME TypeInv, NEW v \in Workers, stage[v] # "idle", cur'[v] = cur[v],
           \A i \in 1..Len(stream) : stream'[i] = stream[i]
    PROVE  CallOf(v)' = CallOf(v) /\ CallOf(v) \in Calls
  BY EntryType DEF CallOf

\* A step that leaves the books alone and brings no worker to the statistics.
LEMMA QuietKeepsCountInv ==
    ASSUME TypeInv, CountInv, UNCHANGED <<logged, usage>>,
           \A i \in 1..Len(stream) : stream'[i] = stream[i],
           \A v \in Workers :
              Counting(v)' => Counting(v) /\ cur'[v] = cur[v]
    PROVE  CountInv'
<1>1. ASSUME NEW v \in Workers, Counting(v)'
      PROVE  Counting(v) /\ CallOf(v)' = CallOf(v)
  <2>1. Counting(v) /\ stage[v] # "idle" /\ cur'[v] = cur[v]
    BY <1>1 DEF Counting
  <2>2. QED
    BY <2>1, CallStays
<1>2. QED
  BY <1>1 DEF CountInv

LEMMA LogCountInv ==
    ASSUME TypeInv, CountInv, NEW w \in Workers, WriteCallLog(w)
    PROVE  CountInv'
<1> USE DEF At
<1>1. /\ stage[w] = "log" /\ stage[w] # "idle"
      /\ UNCHANGED <<stream, cur, usage>>
  BY DEF WriteCallLog, streamVars
<1>2. CallOf(w) \in Calls
  BY <1>1, EntryType
<1>3. \A v \in Workers : CallOf(v)' = CallOf(v)
  BY <1>1 DEF CallOf
<1>4. \A v \in Workers : v # w => (Counting(v)' <=> Counting(v))
  BY DEF WriteCallLog, Goto, Failed, Counting, TypeInv, TypeOK
<1>5. CASE ~logged[CallOf(w)] /\ logged' = [logged EXCEPT ![CallOf(w)] = TRUE]
  \* The row is new: the call is uncounted and no worker is counting it.
  <2>1. usage[CallOf(w)] = 0
    BY <1>2, <1>5 DEF CountInv
  <2>2. \A v \in Workers : Counting(v) => CallOf(v) # CallOf(w)
    BY <1>5 DEF CountInv
  <2>3. logged'[CallOf(w)] /\ \A c \in Calls : logged[c] => logged'[c]
    BY <1>2, <1>5 DEF TypeInv, TypeOK
  <2>4. \A v \in Workers : Counting(v) => CallOf(v) \in Calls
    BY EntryType DEF Counting
  <2>5. /\ \A c \in Calls :
              usage'[c] \in {0, 1} /\ (usage'[c] = 1 => logged'[c])
        /\ \A v \in Workers :
              Counting(v)' => logged'[CallOf(v)'] /\ usage'[CallOf(v)'] = 0
    <3>1. ASSUME NEW v \in Workers, Counting(v)'
          PROVE  logged'[CallOf(v)'] /\ usage'[CallOf(v)'] = 0
      <4>1. CASE v = w
        BY <1>1, <1>3, <2>1, <2>3, <4>1
      <4>2. CASE v # w
        BY <1>1, <1>3, <1>4, <2>3, <2>4, <3>1, <4>2 DEF CountInv
      <4>3. QED
        BY <4>1, <4>2
    <3>2. QED
      BY <1>1, <2>3, <3>1 DEF CountInv
  <2>6. ASSUME NEW v \in Workers, NEW u \in Workers,
               Counting(v)', Counting(u)', v # u
        PROVE  CallOf(v)' # CallOf(u)'
    BY <1>3, <1>4, <2>2, <2>6 DEF CountInv
  <2>7. QED
    BY <2>5, <2>6 DEF CountInv
<1>6. CASE UNCHANGED logged
  <2>1. ~Counting(w)'
    <3>1. Failed(w)
      BY <1>2, <1>6 DEF WriteCallLog, TypeInv, TypeOK
    <3>2. QED
      BY <3>1 DEF Failed, Goto, Counting, TypeInv, TypeOK
  <2>2. \A v \in Workers : Counting(v)' => Counting(v) /\ cur'[v] = cur[v]
    BY <1>1, <1>4, <2>1
  <2>3. QED
    BY <1>1, <1>6, <2>2, QuietKeepsCountInv
<1>7. QED
  BY <1>5, <1>6 DEF WriteCallLog

LEMMA UsageCountInv ==
    ASSUME TypeInv, CountInv, NEW w \in Workers, UpdateUsageStat(w)
    PROVE  CountInv'
<1> USE DEF At
<1>1. Counting(w) /\ stage[w] # "idle" /\ UNCHANGED <<stream, cur, logged>>
  BY DEF UpdateUsageStat, Counting, streamVars
<1>2. CallOf(w) \in Calls /\ usage[CallOf(w)] = 0 /\ logged[CallOf(w)]
  BY <1>1, EntryType DEF CountInv
<1>3. ~Counting(w)' /\ \A v \in Workers : v # w => (Counting(v)' <=> Counting(v))
  BY DEF UpdateUsageStat, Goto, Failed, Counting, TypeInv, TypeOK
<1>4. \A v \in Workers : Counting(v)' => Counting(v) /\ CallOf(v) # CallOf(w)
  BY <1>1, <1>3 DEF CountInv
<1>5. \A v \in Workers : CallOf(v)' = CallOf(v)
  BY <1>1 DEF CallOf
<1>6. CASE usage' = [usage EXCEPT ![CallOf(w)] = @ + 1]
  <2>1. usage'[CallOf(w)] = 1
    BY <1>2, <1>6 DEF TypeInv, TypeOK
  <2>2. \A c \in Calls : c # CallOf(w) => usage'[c] = usage[c]
    BY <1>6 DEF TypeInv, TypeOK
  <2>3. \A c \in Calls : usage'[c] \in {0, 1} /\ (usage'[c] = 1 => logged'[c])
    BY <1>1, <1>2, <2>1, <2>2 DEF CountInv
  <2>4. ASSUME NEW v \in Workers, Counting(v)'
        PROVE  logged'[CallOf(v)'] /\ usage'[CallOf(v)'] = 0
    <3>1. CallOf(v) \in Calls /\ CallOf(v) # CallOf(w) /\ Counting(v)
      BY <1>4, <2>4, EntryType DEF Counting
    <3>2. QED
      BY <1>1, <1>5, <2>2, <3>1 DEF CountInv
  <2>5. \A v, u \in Workers :
           Counting(v)' /\ Counting(u)' /\ v # u => CallOf(v)' # CallOf(u)'
    BY <1>4, <1>5 DEF CountInv
  <2>6. QED
    BY <2>3, <2>4, <2>5 DEF CountInv
<1>7. CASE UNCHANGED usage
  BY <1>1, <1>4, <1>7, QuietKeepsCountInv
<1>8. QED
  BY <1>6, <1>7 DEF UpdateUsageStat

LEMMA WorkCountInv ==
    ASSUME TypeInv, CountInv, NEW w \in Workers, Work(w)
    PROVE  CountInv'
<1>1. CASE WriteCallLog(w)
  BY <1>1, LogCountInv
<1>2. CASE UpdateUsageStat(w)
  BY <1>2, UsageCountInv
<1>3. CASE \/ ReadNew(w) \/ ClaimIdle(w) \/ Begin(w)
           \/ FindSession(w) \/ SetTitle(w) \/ AckDone(w)
           \/ AckForRetry(w) \/ PublishDLQ(w) \/ AckBuried(w)
  <2>1. UNCHANGED <<logged, usage, stream>>
    BY <1>3
       DEF ReadNew, ClaimIdle, Begin, FindSession, SetTitle, AckDone,
           AckForRetry, PublishDLQ, AckBuried, bookVars, streamVars
  <2>2. \A v \in Workers : Counting(v)' => Counting(v) /\ cur'[v] = cur[v]
    BY <1>3
       DEF ReadNew, ClaimIdle, Begin, FindSession, SetTitle, AckDone,
           AckForRetry, PublishDLQ, AckBuried, Goto, Leave, At, Counting,
           TypeInv, TypeOK
  <2>3. QED
    BY <2>1, <2>2, QuietKeepsCountInv
<1>4. CASE Republish(w)
  <2>1. UNCHANGED <<logged, usage>>
    BY <1>4 DEF Republish, bookVars
  <2>2. \A v \in Workers : Counting(v)' => Counting(v) /\ cur'[v] = cur[v]
    BY <1>4 DEF Republish, Leave, At, Counting, TypeInv, TypeOK
  <2>3. \A i \in 1..Len(stream) : stream'[i] = stream[i]
    BY <1>4, RepublishKeeps
  <2>4. QED
    BY <2>1, <2>2, <2>3, QuietKeepsCountInv
<1>5. QED
  BY <1>1, <1>2, <1>3, <1>4 DEF Work, Process

LEMMA NextCountInv ==
    ASSUME TypeInv, CountInv, [Next]_vars
    PROVE  CountInv'
<1>1. ASSUME NEW w \in Workers, Work(w) PROVE CountInv'
  BY <1>1, WorkCountInv
<1>2. ASSUME NEW c \in Calls, Publish(c) \/ PublishTwice(c) PROVE CountInv'
  <2>1. \A i \in 1..Len(stream) : stream'[i] = stream[i]
    <3>1. [call |-> c, retry |-> 0] \in Payload
      BY <1>2, LimitAssumption DEF Payload
    <3>2. CASE Publish(c)
      BY <3>1, <3>2, StreamGrows DEF Publish, Append1
    <3>3. CASE PublishTwice(c)
      BY <3>1, <3>3, StreamGrowsTwice DEF PublishTwice
    <3>4. QED
      BY <1>2, <3>2, <3>3
  <2>2. UNCHANGED <<logged, usage, stage, cur>>
    BY <1>2 DEF Publish, PublishTwice, bookVars, workVars
  <2>3. QED
    BY <2>1, <2>2, QuietKeepsCountInv DEF Counting
<1>3. ASSUME NEW p \in Processes, Crash(p) \/ Start(p) PROVE CountInv'
  <2>1. UNCHANGED <<logged, usage, stream>>
    BY <1>3 DEF Crash, Start, bookVars, streamVars
  <2>2. \A v \in Workers : Counting(v)' => Counting(v) /\ cur'[v] = cur[v]
    BY <1>3 DEF Crash, Start, workVars, Counting
  <2>3. QED
    BY <2>1, <2>2, QuietKeepsCountInv
<1>4. CASE UNCHANGED vars
  BY <1>4, QuietKeepsCountInv DEF vars, bookVars, streamVars, workVars, Counting
<1>5. QED
  BY <1>1, <1>2, <1>3, <1>4 DEF Next

\* Through duplicates, concurrent claims, retries, lost replies and crashes a
\* call is added to the statistics at most once, and only when it is logged.
THEOREM CountedOnceHolds == Spec => []CountedOnce
<1>1. Init => CountInv
  BY DEF Init, CountInv, Counting
<1>2. TypeInv /\ CountInv /\ [Next]_vars => CountInv'
  BY NextCountInv
<1>3. QED
  BY <1>1, <1>2, TypeInvHolds, CountInvCounts, PTL DEF Spec
-----------------------------------------------------------------------------
(* The ledger.  Only WriteCallLog and UpdateUsageStat move it.              *)

Recorded == {c \in Calls : logged[c]}
Counted == {c \in Calls : usage[c] > 0}

\* A worker that writes the log records the call, if it writes anything.
LEMMA LogStep ==
    ASSUME TypeInv, NEW w \in Workers, WriteCallLog(w)
    PROVE  [Ledger!LNext]_(Ledger!lvars)
<1>1. stage[w] # "idle"
  BY DEF WriteCallLog, At
<1>2. PICK d \in Calls : d = CallOf(w)
  BY <1>1, EntryType
<1>3. Counted' = Counted
  BY DEF WriteCallLog, Counted
<1>4. CASE /\ ~logged[CallOf(w)]
           /\ logged' = [logged EXCEPT ![CallOf(w)] = TRUE]
  <2>1. CallOf(w) \notin Recorded
    BY <1>4 DEF Recorded
  <2>2. Recorded' = Recorded \cup {CallOf(w)}
    BY <1>2, <1>4 DEF Recorded, TypeInv, TypeOK
  <2>3. Ledger!Record(d)
    BY <1>2, <1>3, <2>1, <2>2 DEF Ledger!Record, Recorded, Counted
  <2>4. QED
    BY <1>2, <2>3 DEF Ledger!LNext
<1>5. CASE UNCHANGED logged
  BY <1>3, <1>5 DEF Ledger!lvars, Counted
<1>6. QED
  BY <1>4, <1>5 DEF WriteCallLog

\* A worker that updates the statistics counts a recorded, uncounted call.
LEMMA UsageStep ==
    ASSUME TypeInv, CountInv, NEW w \in Workers, UpdateUsageStat(w)
    PROVE  [Ledger!LNext]_(Ledger!lvars)
<1>1. Counting(w) /\ stage[w] # "idle" /\ UNCHANGED logged
  BY DEF UpdateUsageStat, Counting, At
<1>2. PICK d \in Calls : d = CallOf(w) /\ usage[d] = 0 /\ logged[d]
  BY <1>1, EntryType DEF CountInv
<1>3. Recorded' = Recorded
  BY <1>1 DEF Recorded
<1>4. CASE usage' = [usage EXCEPT ![CallOf(w)] = @ + 1]
  <2>1. usage'[d] = 1
    BY <1>2, <1>4 DEF TypeInv, TypeOK
  <2>2. \A c \in Calls : c # d => usage'[c] = usage[c]
    BY <1>2, <1>4 DEF TypeInv, TypeOK
  <2>3. Counted' = Counted \cup {d}
    BY <1>2, <2>1, <2>2 DEF Counted
  <2>4. d \in Recorded /\ d \notin Counted
    BY <1>2 DEF Recorded, Counted
  <2>5. Ledger!Count(d)
    BY <1>2, <1>3, <2>3, <2>4 DEF Ledger!Count, Recorded, Counted
  <2>6. QED
    BY <1>2, <2>5 DEF Ledger!LNext
<1>5. CASE UNCHANGED usage
  BY <1>3, <1>5 DEF Ledger!lvars, Recorded
<1>6. QED
  BY <1>4, <1>5 DEF UpdateUsageStat

\* Every step of the pipeline is a step of the ledger or leaves it alone.
LEMMA NextLedger ==
    ASSUME TypeInv, CountInv, [Next]_vars
    PROVE  [Ledger!LNext]_(Ledger!lvars)
<1>1. ASSUME UNCHANGED <<logged, usage>>
      PROVE  UNCHANGED Ledger!lvars
  BY <1>1 DEF Ledger!lvars
<1>2. ASSUME NEW w \in Workers, Work(w), ~WriteCallLog(w), ~UpdateUsageStat(w)
      PROVE  UNCHANGED <<logged, usage>>
  BY <1>2
     DEF Work, Process, ReadNew, ClaimIdle, Begin, FindSession, SetTitle,
         AckDone, AckForRetry, Republish, PublishDLQ, AckBuried, bookVars
<1>3. ASSUME NEW w \in Workers, Work(w)
      PROVE  [Ledger!LNext]_(Ledger!lvars)
  BY <1>1, <1>2, <1>3, LogStep, UsageStep
<1>4. ASSUME NEW c \in Calls, Publish(c) \/ PublishTwice(c)
      PROVE  UNCHANGED <<logged, usage>>
  BY <1>4 DEF Publish, PublishTwice, bookVars
<1>5. ASSUME NEW p \in Processes, Crash(p) \/ Start(p)
      PROVE  UNCHANGED <<logged, usage>>
  BY <1>5 DEF Crash, Start, bookVars
<1>6. CASE UNCHANGED vars
  BY <1>1, <1>6 DEF vars, bookVars
<1>7. QED
  BY <1>1, <1>3, <1>4, <1>5, <1>6 DEF Next

\* The consumer keeps the books: a call is logged once, and counted once and
\* only when logged, whatever is delivered twice, retried, claimed or lost.
THEOREM KeepsLedgerHolds == Spec => KeepsLedger
<1>1. Init => Ledger!LInit
  BY DEF Init, Ledger!LInit
<1>2. TypeInv /\ CountInv /\ [Next]_vars => [Ledger!LNext]_(Ledger!lvars)
  BY NextLedger
<1>3. Init => CountInv
  BY DEF Init, CountInv, Counting
<1>4. TypeInv /\ CountInv /\ [Next]_vars => CountInv'
  BY NextCountInv
<1>5. QED
  BY <1>1, <1>2, <1>3, <1>4, TypeInvHolds, PTL DEF Spec, KeepsLedger, Ledger!LSpec

-----------------------------------------------------------------------------
(* Losses.  What workers hold has been delivered; past the log, the call is *)
(* in it; and every retry of a call that is not in the log was paid for by  *)
(* a fault.                                                                 *)

HoldInv ==
    /\ pending \subseteq 1..(next - 1)
    /\ \A w \in Workers :
          /\ batch[w] \subseteq 1..(next - 1)
          /\ stage[w] # "idle" => cur[w] < next

LoggedInv ==
    \A w \in Workers :
        stage[w] \in {"usage", "findSession", "setTitle", "ack"} =>
            logged[CallOf(w)]

RetryInv ==
    \A i \in 1..Len(stream) :
        logged[stream[i].call] \/ faults >= stream[i].retry

\* The stages of a worker whose handler has returned an error.
GivenUp == {"retryAck", "republish", "bury"}

TollInv ==
    /\ \A w \in Workers :
          stage[w] \in GivenUp => logged[CallOf(w)] \/ faults > RetryOf(w)
    /\ \A w \in Workers : stage[w] = "bury" => RetryOf(w) = MaxRetry
    /\ DeadLetterEarned

LossInv == HoldInv /\ LoggedInv /\ RetryInv /\ TollInv

\* The stream grows only, entries keep what they carry, and rows of the log,
\* dead letters and faults stay.
Grows ==
    /\ Len(stream') \in Nat /\ Len(stream) \in Nat
    /\ Len(stream') >= Len(stream)
    /\ \A i \in 1..Len(stream) : stream'[i] = stream[i]
    /\ \A c \in Calls : logged[c] => logged'[c]
    /\ \A c \in Calls : dead'[c] >= dead[c]
    /\ faults' >= faults

LEMMA FaultsGrow ==
    ASSUME TypeInv,
           \/ OK
           \/ Fault("redis") \/ Fault("db") \/ Fault("dbreply") \/ Fault("crash")
    PROVE  faults' >= faults
  BY DEF OK, Fault, TypeInv, TypeOK

\* A step that leaves stream, log and dead letters alone.
LEMMA StillGrows ==
    ASSUME TypeInv, UNCHANGED <<stream, logged, dead>>, faults' >= faults
    PROVE  Grows
  BY DEF Grows, TypeInv, TypeOK

LEMMA PublishGrows ==
    ASSUME TypeInv, NEW c \in Calls, Publish(c) \/ PublishTwice(c)
    PROVE  /\ Grows
           /\ Len(stream') > Len(stream)
           /\ stream'[Len(stream) + 1] = [call |-> c, retry |-> 0]
           /\ \A i \in 1..Len(stream') :
                 i > Len(stream) => stream'[i] = [call |-> c, retry |-> 0]
<1> DEFINE p == [call |-> c, retry |-> 0]
<1>1. p \in Payload
  BY LimitAssumption DEF Payload
<1>2. faults' >= faults /\ UNCHANGED <<logged, dead>>
  BY FaultsGrow DEF Publish, PublishTwice, bookVars
<1>3. stream \in Seq(Payload) /\ dead \in [Calls -> Nat]
  BY DEF TypeInv, TypeOK
<1>4. CASE Publish(c)
  <2>1. stream' = Append(stream, p)
    BY <1>4 DEF Publish, Append1
  <2>2. QED
    BY <1>1, <1>2, <1>3, <2>1 DEF Grows
<1>5. CASE PublishTwice(c)
  <2>1. AppendTwice(p)
    BY <1>5 DEF PublishTwice
  <2>2. /\ Len(stream') = Len(stream) + 2
        /\ Len(stream) \in Nat
        /\ \A i \in 1..Len(stream) : stream'[i] = stream[i]
        /\ \A i \in 1..Len(stream') : i > Len(stream) => stream'[i] = p
    BY <1>1, <2>1, StreamGrowsTwice
  <2>3. Grows
    BY <1>2, <1>3, <2>2 DEF Grows
  <2>4. QED
    BY <2>2, <2>3
<1>6. QED
  BY <1>4, <1>5

LEMMA RepublishGrows ==
    ASSUME TypeInv, NEW w \in Workers, Republish(w)
    PROVE  /\ Grows
           /\ \/ UNCHANGED stream
              \/ /\ Len(stream') > Len(stream)
                 /\ \A i \in 1..Len(stream') :
                       i > Len(stream) =>
                          stream'[i] =
                             [call |-> CallOf(w), retry |-> RetryOf(w) + 1]
<1> DEFINE p == [call |-> CallOf(w), retry |-> RetryOf(w) + 1]
<1>1. /\ UNCHANGED <<logged, dead>>
      /\ faults' >= faults
      /\ UNCHANGED stream \/ stream' = Append(stream, p) \/ AppendTwice(p)
  BY FaultsGrow DEF Republish, Append1, bookVars
<1>2. stream \in Seq(Payload) /\ dead \in [Calls -> Nat]
  BY DEF TypeInv, TypeOK
<1>3. p \in Payload
  BY RepublishKeeps
<1>4. CASE UNCHANGED stream
  BY <1>1, <1>4, StillGrows
<1>5. CASE stream' = Append(stream, p)
  BY <1>1, <1>2, <1>3, <1>5 DEF Grows
<1>6. CASE AppendTwice(p)
  <2>1. /\ Len(stream') = Len(stream) + 2
        /\ Len(stream) \in Nat
        /\ \A i \in 1..Len(stream) : stream'[i] = stream[i]
        /\ \A i \in 1..Len(stream') : i > Len(stream) => stream'[i] = p
    BY <1>3, <1>6, StreamGrowsTwice
  <2>2. Grows
    BY <1>1, <1>2, <2>1 DEF Grows
  <2>3. QED
    BY <2>1, <2>2
<1>7. QED
  BY <1>1, <1>4, <1>5, <1>6

LEMMA NextGrows == ASSUME TypeInv, [Next]_vars PROVE Grows
<1>1. ASSUME NEW c \in Calls, Publish(c) \/ PublishTwice(c) PROVE Grows
  BY <1>1, PublishGrows
<1>2. ASSUME NEW w \in Workers, Work(w) PROVE Grows
  <2>1. CASE Republish(w)
    BY <2>1, RepublishGrows
  <2>2. CASE WriteCallLog(w)
    <3>1. faults' >= faults /\ UNCHANGED <<stream, dead>>
      BY <2>2, FaultsGrow DEF WriteCallLog, streamVars
    <3>2. UNCHANGED logged \/ logged' = [logged EXCEPT ![CallOf(w)] = TRUE]
      BY <2>2 DEF WriteCallLog
    <3>3. \A c \in Calls : logged[c] => logged'[c]
      BY <3>2 DEF TypeInv, TypeOK
    <3>4. QED
      BY <3>1, <3>3 DEF Grows, TypeInv, TypeOK
  <2>3. CASE PublishDLQ(w)
    <3>1. faults' >= faults /\ UNCHANGED <<stream, logged>>
      BY <2>3, FaultsGrow DEF PublishDLQ, streamVars, bookVars
    <3>2. \A c \in Calls : dead'[c] >= dead[c]
      BY <2>3, Buries
    <3>3. QED
      BY <3>1, <3>2 DEF Grows, TypeInv, TypeOK
  <2>4. CASE \/ ReadNew(w) \/ ClaimIdle(w) \/ Begin(w) \/ UpdateUsageStat(w)
             \/ FindSession(w) \/ SetTitle(w) \/ AckDone(w) \/ AckForRetry(w)
             \/ AckBuried(w)
    <3>1. UNCHANGED <<stream, logged, dead>>
      BY <2>4 DEF ReadNew, ClaimIdle, Begin, UpdateUsageStat, FindSession,
                  SetTitle, AckDone, AckForRetry, AckBuried, streamVars, bookVars
    <3>2. faults' >= faults
      BY <2>4, FaultsGrow
         DEF ReadNew, ClaimIdle, Begin, UpdateUsageStat, FindSession, SetTitle,
             AckDone, AckForRetry, AckBuried, Acknowledge
    <3>3. QED
      BY <3>1, <3>2, StillGrows
  <2>5. QED
    BY <1>2, <2>1, <2>2, <2>3, <2>4 DEF Work, Process
<1>3. ASSUME NEW p \in Processes, Crash(p) \/ Start(p) PROVE Grows
  <2>1. UNCHANGED <<stream, logged, dead>> /\ faults' >= faults
    BY <1>3, FaultsGrow DEF Crash, Start, streamVars, bookVars
  <2>2. QED
    BY <2>1, StillGrows
<1>4. CASE UNCHANGED vars
  <2>1. UNCHANGED <<stream, logged, dead>> /\ faults' >= faults
    BY <1>4 DEF vars, streamVars, bookVars, TypeInv, TypeOK
  <2>2. QED
    BY <2>1, StillGrows
<1>5. QED
  BY <1>1, <1>2, <1>3, <1>4 DEF Next

\* What a busy worker that keeps its entry carries stays the same.
LEMMA EntryStays ==
    ASSUME TypeInv, Grows, NEW v \in Workers, stage[v] # "idle",
           cur'[v] = cur[v]
    PROVE  CallOf(v)' = CallOf(v) /\ RetryOf(v)' = RetryOf(v)
<1>1. cur[v] \in 1..Len(stream)
  BY EntryType
<1>2. QED
  BY <1>1 DEF Grows, CallOf, RetryOf

LEMMA NextHoldInv ==
    ASSUME TypeInv, LossInv, [Next]_vars
    PROVE  HoldInv'
<1>1. /\ next \in 1..(Len(stream) + 1) /\ Len(stream) \in Nat
      /\ stage \in [Workers -> Stages] /\ cur \in [Workers -> 0..Len(stream)]
      /\ batch \in [Workers -> SUBSET (1..Len(stream))]
  BY DEF TypeInv, TypeOK
<1>2. HoldInv
  BY DEF LossInv
<1>3. ASSUME NEW c \in Calls, Publish(c) \/ PublishTwice(c) PROVE HoldInv'
  BY <1>2, <1>3 DEF Publish, PublishTwice, HoldInv, workVars
<1>4. ASSUME NEW w \in Workers, ReadNew(w) PROVE HoldInv'
  <2>1. next' \in Nat /\ next' > next /\ Undelivered \subseteq 1..(next' - 1)
    BY <1>1, <1>4, LimitAssumption DEF ReadNew, Upto, Undelivered
  <2>2. pending' \subseteq 1..(next' - 1)
    BY <1>1, <1>2, <1>4, <2>1 DEF ReadNew, HoldInv
  <2>3. ASSUME NEW v \in Workers
        PROVE  batch'[v] \subseteq 1..(next' - 1)
    <3>1. batch'[v] = batch[v] \/ batch'[v] = Undelivered
      BY <1>1, <1>4 DEF ReadNew
    <3>2. batch[v] \subseteq 1..(next - 1)
      BY <1>2 DEF HoldInv
    <3>3. 1..(next - 1) \subseteq 1..(next' - 1)
      <4>1. ASSUME NEW m \in Nat, NEW n \in Nat, m < n
            PROVE  1..(m - 1) \subseteq 1..(n - 1)
        BY <4>1
      <4>2. next \in Nat
        BY <1>1
      <4>3. next' \in Nat /\ next < next'
        BY <2>1
      <4>4. QED
        BY <4>1, <4>2, <4>3
    <3>4. batch[v] \subseteq 1..(next' - 1)
      BY <3>2, <3>3
    <3>5. QED
      BY <2>1, <3>1, <3>4
  <2>4. ASSUME NEW v \in Workers, stage'[v] # "idle"
        PROVE  cur'[v] < next'
    BY <1>1, <1>2, <1>4, <2>1, <2>4 DEF ReadNew, HoldInv
  <2>5. QED
    BY <2>2, <2>3, <2>4 DEF HoldInv
<1>5. ASSUME NEW w \in Workers, ClaimIdle(w) PROVE HoldInv'
  <2>1. /\ UNCHANGED <<next, pending, stage, cur>>
        /\ \E idle \in SUBSET pending : batch' = [batch EXCEPT ![w] = idle]
    BY <1>5 DEF ClaimIdle, streamVars
  <2>2. QED
    BY <1>1, <1>2, <2>1 DEF HoldInv
<1>6. ASSUME NEW w \in Workers, Begin(w) PROVE HoldInv'
  <2>1. PICK i \in batch[w] : /\ cur' = [cur EXCEPT ![w] = i]
                              /\ batch' = [batch EXCEPT ![w] = @ \ {i}]
    BY <1>6 DEF Begin
  <2>2. i < next
    BY <1>1, <1>2 DEF HoldInv
  <2>3. UNCHANGED <<next, pending>> /\ stage' = [stage EXCEPT ![w] = "log"]
    BY <1>6 DEF Begin, Goto, streamVars
  <2>4. QED
    BY <1>1, <1>2, <2>1, <2>2, <2>3 DEF HoldInv
<1>7. ASSUME NEW w \in Workers,
             \/ WriteCallLog(w) \/ UpdateUsageStat(w) \/ FindSession(w)
             \/ SetTitle(w) \/ AckForRetry(w) \/ PublishDLQ(w)
      PROVE  HoldInv'
  <2>1. UNCHANGED <<next, cur, batch>> /\ pending' \subseteq pending
    BY <1>7 DEF WriteCallLog, UpdateUsageStat, FindSession, SetTitle,
                AckForRetry, PublishDLQ, Acknowledge, streamVars
  <2>2. stage[w] # "idle"
    BY <1>7 DEF WriteCallLog, UpdateUsageStat, FindSession, SetTitle,
                AckForRetry, PublishDLQ, At
  <2>3. \E s \in Stages : stage' = [stage EXCEPT ![w] = s]
    BY <1>7 DEF WriteCallLog, UpdateUsageStat, FindSession, SetTitle,
                AckForRetry, PublishDLQ, Goto, Failed, Stages
  <2>4. \A v \in Workers : stage'[v] # "idle" => stage[v] # "idle"
    BY <1>1, <2>2, <2>3
  <2>5. QED
    BY <1>2, <2>1, <2>4 DEF HoldInv
<1>8. ASSUME NEW w \in Workers, AckDone(w) \/ AckBuried(w) \/ Republish(w)
      PROVE  HoldInv'
  <2>1. /\ UNCHANGED <<next, batch>> /\ pending' \subseteq pending
        /\ Leave(w)
    BY <1>8 DEF AckDone, AckBuried, Republish, Acknowledge, streamVars
  <2>2. QED
    BY <1>1, <1>2, <2>1 DEF HoldInv, Leave
<1>9. ASSUME NEW p \in Processes, Crash(p) \/ Start(p) PROVE HoldInv'
  <2>1. /\ UNCHANGED <<next, pending>>
        /\ \A v \in Workers :
              /\ batch'[v] = batch[v] \/ batch'[v] = {}
              /\ stage'[v] = "idle" \/ (stage'[v] = stage[v] /\ cur'[v] = cur[v])
    BY <1>9 DEF Crash, Start, streamVars, workVars
  <2>2. QED
    BY <1>2, <2>1 DEF HoldInv
<1>10. CASE UNCHANGED vars
  BY <1>2, <1>10 DEF HoldInv, vars, streamVars, workVars
<1>11. QED
  BY <1>3, <1>4, <1>5, <1>6, <1>7, <1>8, <1>9, <1>10 DEF Next, Work, Process

\* The other parts speak of busy workers.  A step moves at most one of them
\* into a stage past the log; the others keep stage and entry or end.
LEMMA OthersStay ==
    ASSUME TypeInv, NEW w \in Workers, Work(w)
    PROVE  \A v \in Workers \ {w} : stage'[v] = stage[v] /\ cur'[v] = cur[v]
<1>1. /\ \/ UNCHANGED stage
         \/ \E s \in Stages : stage' = [stage EXCEPT ![w] = s]
      /\ \/ UNCHANGED cur
         \/ \E i \in Int : cur' = [cur EXCEPT ![w] = i]
  <2>1. CASE ReadNew(w) \/ ClaimIdle(w)
    BY <2>1 DEF ReadNew, ClaimIdle
  <2>2. CASE Begin(w)
    <3>1. batch[w] \subseteq Int
      BY DEF TypeInv, TypeOK
    <3>2. QED
      BY <2>2, <3>1 DEF Begin, Goto, Stages
  <2>3. CASE \/ WriteCallLog(w) \/ UpdateUsageStat(w) \/ FindSession(w)
             \/ SetTitle(w) \/ AckForRetry(w) \/ PublishDLQ(w)
    BY <2>3 DEF WriteCallLog, UpdateUsageStat, FindSession, SetTitle,
                AckForRetry, PublishDLQ, Goto, Failed, Stages
  <2>4. CASE AckDone(w) \/ AckBuried(w) \/ Republish(w)
    BY <2>4 DEF AckDone, AckBuried, Republish, Leave, Stages
  <2>5. QED
    BY <2>1, <2>2, <2>3, <2>4 DEF Work, Process
<1>2. stage \in [Workers -> Stages] /\ cur \in [Workers -> 0..Len(stream)]
  BY DEF TypeInv, TypeOK
<1>3. QED
  BY <1>1, <1>2

\* A step of something else than a worker moves no worker, or stops it.
LEMMA WorkersStay ==
    ASSUME TypeInv, [Next]_vars, ~\E w \in Workers : Work(w)
    PROVE  \A v \in Workers :
              stage'[v] = "idle" \/ (stage'[v] = stage[v] /\ cur'[v] = cur[v])
<1>1. ASSUME NEW c \in Calls, Publish(c) \/ PublishTwice(c)
      PROVE  UNCHANGED <<stage, cur>>
  BY <1>1 DEF Publish, PublishTwice, workVars
<1>2. ASSUME NEW p \in Processes, Crash(p)
      PROVE  \A v \in Workers :
                stage'[v] = "idle" \/ (stage'[v] = stage[v] /\ cur'[v] = cur[v])
  BY <1>2 DEF Crash
<1>3. ASSUME NEW p \in Processes, Start(p)
      PROVE  UNCHANGED <<stage, cur>>
  BY <1>3 DEF Start, workVars
<1>4. CASE UNCHANGED vars
  BY <1>4 DEF vars, workVars
<1>5. QED
  BY <1>1, <1>2, <1>3, <1>4 DEF Next

LEMMA NextLoggedInv ==
    ASSUME TypeInv, LossInv, [Next]_vars
    PROVE  LoggedInv'
<1> DEFINE Past == {"usage", "findSession", "setTitle", "ack"}
<1>1. Grows
  BY NextGrows
<1>2. LoggedInv /\ stage \in [Workers -> Stages]
  BY DEF LossInv, TypeInv, TypeOK
<1>3. ASSUME NEW v \in Workers, stage'[v] \in Past, stage[v] \in Past,
             cur'[v] = cur[v]
      PROVE  logged'[CallOf(v)']
  <2>1. stage[v] # "idle"
    BY <1>3
  <2>2. CallOf(v)' = CallOf(v) /\ CallOf(v) \in Calls
    BY <1>1, <1>3, <2>1, EntryStays, EntryType
  <2>3. logged[CallOf(v)]
    BY <1>2, <1>3 DEF LoggedInv
  <2>4. QED
    BY <1>1, <2>2, <2>3 DEF Grows
<1>4. ASSUME NEW w \in Workers, Work(w), stage'[w] \in Past
      PROVE  logged'[CallOf(w)']
  <2>1. CASE WriteCallLog(w)
    <3>1. ~Failed(w) /\ stage[w] = "log" /\ stage[w] # "idle" /\ UNCHANGED cur
      BY <1>2, <1>4, <2>1 DEF WriteCallLog, Failed, Goto, At
    <3>2. logged' = [logged EXCEPT ![CallOf(w)] = TRUE]
      BY <2>1, <3>1 DEF WriteCallLog
    <3>3. CallOf(w)' = CallOf(w) /\ CallOf(w) \in Calls
      BY <1>1, <3>1, EntryStays, EntryType
    <3>4. QED
      BY <3>2, <3>3 DEF TypeInv, TypeOK
  <2>2. CASE UpdateUsageStat(w) \/ FindSession(w) \/ SetTitle(w)
    <3>1. stage[w] \in Past /\ UNCHANGED cur
      BY <2>2 DEF UpdateUsageStat, FindSession, SetTitle, At
    <3>2. QED
      BY <1>3, <1>4, <3>1
  <2>3. CASE ReadNew(w) \/ ClaimIdle(w)
    <3>1. UNCHANGED <<stage, cur>>
      BY <2>3 DEF ReadNew, ClaimIdle
    <3>2. QED
      BY <1>3, <1>4, <3>1
  <2>4. CASE \/ Begin(w) \/ AckDone(w) \/ AckForRetry(w) \/ Republish(w)
             \/ PublishDLQ(w) \/ AckBuried(w)
    <3>1. stage'[w] \in {"log", "idle", "republish", "buryAck"}
      BY <1>2, <2>4 DEF Begin, AckDone, AckForRetry, Republish, PublishDLQ,
                        AckBuried, Leave, Goto
    <3>2. QED
      BY <1>4, <3>1
  <2>5. QED
    BY <1>4, <2>1, <2>2, <2>3, <2>4 DEF Work, Process
<1>5. CASE \E w \in Workers : Work(w)
  <2>1. PICK w \in Workers : Work(w)
    BY <1>5
  <2>2. ASSUME NEW v \in Workers, stage'[v] \in Past
        PROVE  logged'[CallOf(v)']
    BY <1>3, <1>4, <2>1, <2>2, OthersStay
  <2>3. QED
    BY <2>2 DEF LoggedInv
<1>6. CASE ~\E w \in Workers : Work(w)
  <2>1. ASSUME NEW v \in Workers, stage'[v] \in Past
        PROVE  logged'[CallOf(v)']
    BY <1>3, <1>6, <2>1, WorkersStay
  <2>2. QED
    BY <2>1 DEF LoggedInv
<1>7. QED
  BY <1>5, <1>6

\* An entry that is added to the stream bears no retry, or the retry of a
\* worker that has given up.
LEMMA NextRetryInv ==
    ASSUME TypeInv, LossInv, [Next]_vars
    PROVE  RetryInv'
<1>1. Grows
  BY NextGrows
<1>2. faults \in Nat /\ stream \in Seq(Payload)
  BY LimitAssumption DEF TypeInv, TypeOK
<1>3. ASSUME NEW i \in 1..Len(stream)
      PROVE  logged'[stream'[i].call] \/ faults' >= stream'[i].retry
  <2>1. stream'[i] = stream[i] /\ stream[i] \in Payload
    BY <1>1, <1>2 DEF Grows
  <2>2. stream[i].call \in Calls /\ stream[i].retry \in Int
    BY <2>1, LimitAssumption DEF Payload
  <2>3. logged[stream[i].call] \/ faults >= stream[i].retry
    BY DEF LossInv, RetryInv
  <2>4. faults' \in Int
    BY <1>2, NextTypeInv DEF TypeInv, TypeOK
  <2>5. QED
    BY <1>1, <1>2, <2>1, <2>2, <2>3, <2>4 DEF Grows
<1>4. ASSUME NEW c \in Calls, Publish(c) \/ PublishTwice(c) PROVE RetryInv'
  <2>1. ASSUME NEW i \in 1..Len(stream'), i > Len(stream)
        PROVE  faults' >= stream'[i].retry
    <3>1. stream'[i] = [call |-> c, retry |-> 0]
      BY <1>4, <2>1, PublishGrows
    <3>2. faults' >= 0
      BY <1>1, <1>2, NextTypeInv DEF Grows, TypeInv, TypeOK
    <3>3. QED
      BY <3>1, <3>2
  <2>2. Len(stream) \in Nat
    BY <1>2
  <2>3. QED
    BY <1>3, <2>1, <2>2 DEF RetryInv
<1>5. ASSUME NEW w \in Workers, Republish(w) PROVE RetryInv'
  <2>1. CASE UNCHANGED stream
    BY <1>3, <2>1 DEF RetryInv
  <2>2. CASE /\ Len(stream') > Len(stream)
             /\ \A i \in 1..Len(stream') :
                   i > Len(stream) =>
                      stream'[i] = [call |-> CallOf(w), retry |-> RetryOf(w) + 1]
    <3>1. stage[w] = "republish" /\ UNCHANGED logged
      BY <1>5 DEF Republish, At, bookVars
    <3>2. logged[CallOf(w)] \/ faults > RetryOf(w)
      BY <3>1 DEF LossInv, TollInv, GivenUp
    <3>3. RetryOf(w) \in Int /\ faults' \in Int
      <4>1. RetryOf(w) \in 0..MaxRetry
        BY <3>1, EntryType
      <4>2. faults' \in Int
        BY NextTypeInv DEF TypeInv, TypeOK
      <4>3. QED
        BY <4>1, <4>2, LimitAssumption
    <3>4. logged'[CallOf(w)] \/ faults' >= RetryOf(w) + 1
      BY <1>1, <1>2, <3>1, <3>2, <3>3 DEF Grows
    <3>5. Len(stream) \in Nat
      BY <1>2
    <3>6. ASSUME NEW i \in 1..Len(stream'), i > Len(stream)
          PROVE  \/ logged'[stream'[i].call]
                 \/ faults' >= stream'[i].retry
      BY <2>2, <3>4, <3>6
    <3>7. QED
      BY <1>3, <3>5, <3>6 DEF RetryInv
  <2>3. QED
    BY <1>5, <2>1, <2>2, RepublishGrows
<1>6. ASSUME UNCHANGED stream PROVE RetryInv'
  BY <1>3, <1>6 DEF RetryInv
<1>7. ASSUME NEW w \in Workers, Work(w), ~Republish(w)
      PROVE  UNCHANGED stream
  BY <1>7 DEF Work, Process, ReadNew, ClaimIdle, Begin, WriteCallLog,
              UpdateUsageStat, FindSession, SetTitle, AckDone, AckForRetry,
              PublishDLQ, AckBuried, streamVars
<1>8. ASSUME NEW p \in Processes, Crash(p) \/ Start(p)
      PROVE  UNCHANGED stream
  BY <1>8 DEF Crash, Start, streamVars
<1>9. CASE UNCHANGED vars
  BY <1>6, <1>9 DEF vars, streamVars
<1>10. QED
  BY <1>4, <1>5, <1>6, <1>7, <1>8, <1>9 DEF Next

\* A handler that fails has found its call in the log, or has put it there, or
\* has met one more fault than its event had seen.
LEMMA FailureToll ==
    ASSUME TypeInv, LossInv, [Next]_vars, NEW w \in Workers,
           WriteCallLog(w) \/ UpdateUsageStat(w), stage'[w] \in GivenUp
    PROVE  /\ logged'[CallOf(w)'] \/ faults' > RetryOf(w)'
           /\ stage'[w] = "bury" => RetryOf(w)' = MaxRetry
<1>1. Grows
  BY NextGrows
<1>2. /\ stage[w] \in {"log", "usage"} /\ stage[w] # "idle"
      /\ UNCHANGED <<cur, stream>>
  BY DEF WriteCallLog, UpdateUsageStat, At, streamVars
<1>3. CallOf(w)' = CallOf(w) /\ RetryOf(w)' = RetryOf(w)
  BY <1>2 DEF CallOf, RetryOf
<1>4. CallOf(w) \in Calls /\ RetryOf(w) \in 0..MaxRetry /\ cur[w] \in 1..Len(stream)
  BY <1>2, EntryType
<1>5. stage \in [Workers -> Stages] /\ logged \in [Calls -> BOOLEAN]
      /\ faults \in Nat
  BY DEF TypeInv, TypeOK
<1>6. Failed(w)
  BY <1>5 DEF WriteCallLog, UpdateUsageStat, Goto, GivenUp
<1>7. stage'[w] = "bury" => RetryOf(w) = MaxRetry
  BY <1>4, <1>5, <1>6, LimitAssumption DEF Failed, Goto
<1>8. logged[CallOf(w)] \/ faults >= RetryOf(w)
  BY <1>4 DEF LossInv, RetryInv, CallOf, RetryOf
<1>9. logged'[CallOf(w)] \/ faults' > RetryOf(w)
  <2>1. CASE logged[CallOf(w)]
    BY <1>1, <1>4, <2>1 DEF Grows
  <2>2. CASE stage[w] = "usage"
    BY <2>1, <2>2 DEF LossInv, LoggedInv
  <2>3. CASE WriteCallLog(w)
    <3>1. CASE logged' = [logged EXCEPT ![CallOf(w)] = TRUE]
      BY <1>4, <1>5, <3>1
    <3>2. CASE Fault("db")
      BY <1>4, <1>5, <1>8, <2>1, <3>2 DEF Fault
    <3>3. QED
      BY <2>1, <2>3, <3>1, <3>2 DEF WriteCallLog
  <2>4. QED
    BY <2>2, <2>3 DEF UpdateUsageStat, At
<1>10. QED
  BY <1>3, <1>7, <1>9

LEMMA NextTollInv ==
    ASSUME TypeInv, LossInv, [Next]_vars
    PROVE  TollInv'
<1>1. Grows
  BY NextGrows
<1>2. TollInv /\ stage \in [Workers -> Stages]
  BY DEF LossInv, TypeInv, TypeOK
<1>3. faults \in Int /\ faults' \in Int
  BY NextTypeInv DEF TypeInv, TypeOK
<1> DEFINE Toll(v) == /\ stage[v] \in GivenUp =>
                            logged[CallOf(v)] \/ faults > RetryOf(v)
                      /\ stage[v] = "bury" => RetryOf(v) = MaxRetry
<1>4. ASSUME NEW v \in Workers, stage[v] \in GivenUp, cur'[v] = cur[v],
             stage'[v] = "bury" => stage[v] = "bury"
      PROVE  Toll(v)'
  <2>1. stage[v] # "idle"
    BY <1>4 DEF GivenUp
  <2>2. CallOf(v)' = CallOf(v) /\ RetryOf(v)' = RetryOf(v)
    BY <1>1, <1>4, <2>1, EntryStays
  <2>3. CallOf(v) \in Calls /\ RetryOf(v) \in Int
    BY <2>1, EntryType, LimitAssumption
  <2>4. logged[CallOf(v)] \/ faults > RetryOf(v)
    BY <1>2, <1>4 DEF TollInv
  <2>5. logged'[CallOf(v)] \/ faults' > RetryOf(v)
    BY <1>1, <1>3, <2>3, <2>4 DEF Grows
  <2>6. QED
    BY <1>2, <1>4, <2>2, <2>5 DEF TollInv
<1>5. ASSUME NEW v \in Workers, stage'[v] \notin GivenUp
      PROVE  Toll(v)'
  BY <1>5 DEF GivenUp
<1>6. ASSUME NEW v \in Workers, stage'[v] = stage[v], cur'[v] = cur[v]
      PROVE  Toll(v)'
  BY <1>4, <1>5, <1>6
<1>7. ASSUME NEW w \in Workers, Work(w)
      PROVE  Toll(w)'
  <2>1. CASE WriteCallLog(w) \/ UpdateUsageStat(w)
    <3>1. CASE stage'[w] \in GivenUp
      BY <2>1, <3>1, FailureToll
    <3>2. QED
      BY <1>5, <3>1
  <2>2. CASE AckForRetry(w)
    <3>1. stage[w] \in GivenUp /\ cur'[w] = cur[w] /\ stage'[w] = "republish"
      BY <1>2, <2>2 DEF AckForRetry, At, Goto, GivenUp
    <3>2. QED
      BY <1>4, <3>1
  <2>3. CASE ReadNew(w) \/ ClaimIdle(w)
    BY <1>6, <2>3 DEF ReadNew, ClaimIdle
  <2>4. CASE \/ Begin(w) \/ FindSession(w) \/ SetTitle(w) \/ AckDone(w)
             \/ Republish(w) \/ PublishDLQ(w) \/ AckBuried(w)
    <3>1. stage'[w] \notin GivenUp
      BY <1>2, <2>4 DEF Begin, FindSession, SetTitle, AckDone, Republish,
                        PublishDLQ, AckBuried, Leave, Goto, GivenUp
    <3>2. QED
      BY <1>5, <3>1
  <2>5. QED
    BY <1>7, <2>1, <2>2, <2>3, <2>4 DEF Work, Process
<1>8. ASSUME NEW v \in Workers PROVE Toll(v)'
  <2>1. CASE \E w \in Workers : Work(w)
    BY <1>6, <1>7, <2>1, OthersStay
  <2>2. CASE ~\E w \in Workers : Work(w)
    <3>1. stage'[v] = "idle" \/ (stage'[v] = stage[v] /\ cur'[v] = cur[v])
      BY <2>2, WorkersStay
    <3>2. QED
      BY <1>5, <1>6, <3>1 DEF GivenUp
  <2>3. QED
    BY <2>1, <2>2
<1>9. DeadLetterEarned'
  <2>1. SUFFICES ASSUME NEW c \in Calls, dead'[c] > 0, ~logged'[c]
                 PROVE  faults' > MaxRetry
    BY DEF DeadLetterEarned
  <2>2. dead \in [Calls -> Nat] /\ ~logged[c]
    BY <1>1, <2>1 DEF Grows, TypeInv, TypeOK
  <2>3. CASE dead[c] > 0
    <3>1. faults > MaxRetry
      BY <1>2, <2>2, <2>3 DEF TollInv, DeadLetterEarned
    <3>2. QED
      BY <1>1, <1>3, <3>1, LimitAssumption DEF Grows
  <2>4. CASE dead[c] = 0
    <3>1. dead' # dead
      BY <2>1, <2>4
    <3>2. PICK w \in Workers : PublishDLQ(w)
      <4>1. ASSUME NEW w \in Workers, Work(w), ~PublishDLQ(w)
            PROVE  dead' = dead
        BY <4>1 DEF Work, Process, ReadNew, ClaimIdle, Begin, WriteCallLog,
                    UpdateUsageStat, FindSession, SetTitle, AckDone,
                    AckForRetry, Republish, AckBuried
      <4>2. ASSUME NEW d \in Calls, Publish(d) \/ PublishTwice(d)
            PROVE  dead' = dead
        BY <4>2 DEF Publish, PublishTwice
      <4>3. ASSUME NEW p \in Processes, Crash(p) \/ Start(p)
            PROVE  dead' = dead
        BY <4>3 DEF Crash, Start
      <4>4. ASSUME UNCHANGED vars PROVE dead' = dead
        BY <4>4 DEF vars
      <4>5. QED
        BY <3>1, <4>1, <4>2, <4>3, <4>4 DEF Next
    <3>3. stage[w] = "bury"
      BY <3>2, Buries
    <3>4. CallOf(w) = c
      <4>1. dead'[c] # dead[c]
        BY <2>1, <2>4
      <4>2. QED
        BY <3>2, <4>1, Buries
    <3>5. faults > RetryOf(w) /\ RetryOf(w) = MaxRetry
      BY <1>2, <2>2, <3>3, <3>4 DEF TollInv, GivenUp
    <3>6. QED
      BY <1>1, <1>3, <3>5, LimitAssumption DEF Grows
  <2>5. QED
    BY <2>2, <2>3, <2>4
<1>10. QED
  BY <1>8, <1>9 DEF TollInv

LEMMA LossInvHolds == Spec => []LossInv
<1>1. Init => LossInv
  BY DEF Init, LossInv, HoldInv, LoggedInv, RetryInv, TollInv, DeadLetterEarned,
         GivenUp
<1>2. TypeInv /\ LossInv /\ [Next]_vars => LossInv'
  BY NextHoldInv, NextLoggedInv, NextRetryInv, NextTollInv DEF LossInv
<1>3. QED
  BY <1>1, <1>2, TypeInvHolds, PTL DEF Spec

\* The retries of redis_stream.go:272-285 are all made: an unlogged call goes
\* to the dead letters only after MaxRetry + 1 faults.
THEOREM DeadLetterEarnedHolds == Spec => []DeadLetterEarned
<1>1. LossInv => DeadLetterEarned
  BY DEF LossInv, TollInv
<1>2. QED
  BY <1>1, LossInvHolds, PTL

\* The step that takes a call its last trace.
Lost(c) ==
    /\ faults' > faults
    /\ \E w \in Workers : Carried(c, w) /\ stage'[w] # stage[w]

\* A trace is kept, or lost as NothingLost says, when each of its kinds is.
LEMMA TraceStays ==
    ASSUME TypeInv, [Next]_vars, NEW c \in Calls, Traced(c),
           \A i \in 1..Len(stream) :
              stream[i].call = c /\ Outstanding(i) =>
                 Outstanding(i)' \/ Traced(c)' \/ Lost(c),
           \A w \in Workers : Carried(c, w) => Traced(c)' \/ Lost(c)
    PROVE  Traced(c)' \/ Lost(c)
<1> Grows
  BY NextGrows
<1>1. CASE logged[c]
  BY <1>1 DEF Traced, Grows
<1>2. CASE dead[c] > 0
  <2>1. dead[c] \in Nat /\ dead'[c] \in Nat
    BY NextTypeInv DEF TypeInv, TypeOK
  <2>2. dead'[c] > 0
    BY <1>2, <2>1 DEF Grows
  <2>3. QED
    BY <2>2 DEF Traced
<1>3. ASSUME NEW i \in 1..Len(stream), stream[i].call = c, Outstanding(i)
      PROVE  Traced(c)' \/ Lost(c)
  <2>1. CASE Outstanding(i)'
    <3>1. i \in 1..Len(stream') /\ stream'[i].call = c
      BY <1>3 DEF Grows
    <3>2. QED
      BY <2>1, <3>1 DEF Traced
  <2>2. QED
    BY <1>3, <2>1
<1>4. QED
  BY <1>1, <1>2, <1>3 DEF Traced

\* An entry stays outstanding unless it is acknowledged or given up.
LEMMA OutstandingStays ==
    ASSUME NEW i, Outstanding(i), next' = next, i \in pending => i \in pending',
           \A v \in Workers :
              cur'[v] = i /\ stage'[v] = "buryAck" =>
                 cur[v] = i /\ stage[v] = "buryAck"
    PROVE  Outstanding(i)'
  BY DEF Outstanding

LEMMA CarriedStays ==
    ASSUME TypeInv, [Next]_vars, NEW c \in Calls, NEW v \in Workers,
           Carried(c, v), stage'[v] \in GivenUp, cur'[v] = cur[v]
    PROVE  Traced(c)'
<1>1. stage[v] # "idle" /\ CallOf(v) = c
  BY DEF Carried
<1>2. CallOf(v)' = CallOf(v)
  BY <1>1, NextGrows, EntryStays
<1>3. Carried(c, v)'
  BY <1>1, <1>2 DEF Carried, GivenUp
<1>4. QED
  BY <1>3 DEF Traced

\* The worker that carries a call hands it on, or a fault stops it.
LEMMA CarrierTrace ==
    ASSUME TypeInv, LossInv, [Next]_vars, NEW c \in Calls, NEW w \in Workers,
           Work(w), Carried(c, w)
    PROVE  Traced(c)' \/ Lost(c)
<1>1. stage[w] \in GivenUp /\ CallOf(w) = c /\ stage \in [Workers -> Stages]
  BY DEF Carried, GivenUp, TypeInv, TypeOK
<1>2. CASE AckForRetry(w)
  <2>1. stage'[w] \in GivenUp /\ cur'[w] = cur[w]
    BY <1>1, <1>2 DEF AckForRetry, Goto, GivenUp
  <2>2. QED
    BY <2>1, CarriedStays
<1>3. CASE Republish(w)
  <2>1. CASE UNCHANGED stream
    <3>1. faults' > faults \/ stream' = Append(stream,
             [call |-> CallOf(w), retry |-> RetryOf(w) + 1])
      BY <1>3 DEF Republish, Fault, Append1, TypeInv, TypeOK
    <3>2. stream' # Append(stream, [call |-> CallOf(w), retry |-> RetryOf(w) + 1])
      BY <2>1 DEF TypeInv, TypeOK
    <3>3. stage'[w] = "idle" /\ stage[w] # "idle"
      BY <1>1, <1>3 DEF Republish, Leave, GivenUp
    <3>4. QED
      BY <3>1, <3>2, <3>3 DEF Lost
  <2>2. CASE /\ Len(stream') > Len(stream)
             /\ \A i \in 1..Len(stream') :
                   i > Len(stream) =>
                      stream'[i] = [call |-> CallOf(w), retry |-> RetryOf(w) + 1]
    <3>1. Len(stream) + 1 \in 1..Len(stream') /\ Len(stream) + 1 >= next'
      BY <1>3, <2>2 DEF Republish, TypeInv, TypeOK
    <3>2. stream'[Len(stream) + 1].call = c
      BY <1>1, <2>2
    <3>3. QED
      BY <3>1, <3>2 DEF Traced, Outstanding
  <2>3. QED
    BY <1>3, <2>1, <2>2, RepublishGrows
<1>4. CASE PublishDLQ(w)
  <2>1. CASE dead'[CallOf(w)] > 0
    BY <1>1, <2>1 DEF Traced
  <2>2. CASE Fault("redis")
    <3>1. faults' > faults
      BY <2>2 DEF Fault, TypeInv, TypeOK
    <3>2. stage'[w] = "buryAck" /\ stage[w] # "buryAck"
      BY <1>1, <1>4 DEF PublishDLQ, Goto, At
    <3>3. QED
      BY <3>1, <3>2 DEF Lost
  <2>3. QED
    BY <1>4, <2>1, <2>2, Buries
<1>5. AckForRetry(w) \/ Republish(w) \/ PublishDLQ(w)
  BY <1>1 DEF Work, Process, ReadNew, ClaimIdle, Begin, WriteCallLog,
              UpdateUsageStat, FindSession, SetTitle, AckDone, AckBuried, At,
              GivenUp
<1>6. QED
  BY <1>2, <1>3, <1>4, <1>5

\* An entry is acknowledged only by a worker that has logged its call, or that
\* carries its event on, or that has given it up.
LEMMA WorkerTrace ==
    ASSUME TypeInv, LossInv, [Next]_vars, NEW c \in Calls, NEW w \in Workers,
           Work(w), NEW i \in 1..Len(stream), stream[i].call = c, Outstanding(i)
    PROVE  Outstanding(i)' \/ Traced(c)' \/ Lost(c)
<1>1. /\ stage \in [Workers -> Stages]
      /\ \A v \in Workers \ {w} : stage'[v] = stage[v] /\ cur'[v] = cur[v]
  BY OthersStay DEF TypeInv, TypeOK
<1>2. HoldInv /\ LoggedInv /\ next \in Nat
  BY DEF LossInv, TypeInv, TypeOK
<1>3. CASE ReadNew(w)
  <2>1. /\ UNCHANGED <<stage, cur>>
        /\ pending' = pending \cup Undelivered
        /\ next' = Upto
    BY <1>3 DEF ReadNew
  <2>2. Upto \in Nat /\ (i < Upto => i < next \/ i \in Undelivered)
    BY <1>2, LimitAssumption DEF Upto, Undelivered, TypeInv, TypeOK
  <2>3. ASSUME NEW v \in Workers, i >= next, cur[v] = i
        PROVE  stage[v] # "buryAck"
    <3>1. stage[v] # "idle" => cur[v] < next
      BY <1>2 DEF HoldInv
    <3>2. QED
      BY <1>2, <2>3, <3>1
  <2>4. CASE i >= next'
    BY <2>4 DEF Outstanding
  <2>5. CASE i < next'
    <3>1. i \in pending' /\ \A v \in Workers : cur[v] = i => stage[v] # "buryAck"
      BY <1>2, <2>1, <2>3, <2>5, <2>2 DEF Outstanding
    <3>2. QED
      BY <2>1, <3>1 DEF Outstanding
  <2>6. QED
    BY <1>2, <2>1, <2>4, <2>5, <2>2
<1>4. CASE \/ ClaimIdle(w) \/ Begin(w) \/ WriteCallLog(w) \/ UpdateUsageStat(w)
           \/ FindSession(w) \/ SetTitle(w) \/ Republish(w)
  <2>1. UNCHANGED <<next, pending>>
    BY <1>4 DEF ClaimIdle, Begin, WriteCallLog, UpdateUsageStat, FindSession,
                SetTitle, Republish, streamVars
  <2>2. stage'[w] # "buryAck"
    BY <1>1, <1>4 DEF ClaimIdle, Begin, WriteCallLog, UpdateUsageStat,
                      FindSession, SetTitle, Republish, At, Goto, Failed, Leave
  <2>3. QED
    BY <1>1, <2>1, <2>2, OutstandingStays
<1>5. CASE i # cur[w] /\ (AckDone(w) \/ AckForRetry(w) \/ PublishDLQ(w) \/ AckBuried(w))
  <2>1. next' = next /\ pending \ {cur[w]} \subseteq pending'
    BY <1>5 DEF AckDone, AckForRetry, PublishDLQ, AckBuried, Acknowledge,
                streamVars
  <2>2. stage'[w] # "buryAck" \/ cur'[w] = cur[w]
    BY <1>1, <1>5 DEF AckDone, AckForRetry, PublishDLQ, AckBuried, Leave
  <2>3. QED
    BY <1>1, <1>5, <2>1, <2>2, OutstandingStays
<1>6. CASE i = cur[w] /\ AckDone(w)
  <2>1. stage[w] = "ack" /\ CallOf(w) = c
    BY <1>6 DEF AckDone, At, CallOf
  <2>2. logged[c] /\ UNCHANGED logged
    BY <1>2, <1>6, <2>1 DEF LoggedInv, AckDone, bookVars
  <2>3. QED
    BY <2>2 DEF Traced
<1>7. CASE i = cur[w] /\ (AckForRetry(w) \/ PublishDLQ(w))
  <2>1. Carried(c, w)
    BY <1>7 DEF AckForRetry, PublishDLQ, At, CallOf, Carried
  <2>2. QED
    BY <2>1, CarrierTrace
<1>8. CASE i = cur[w] /\ AckBuried(w)
  <2>1. stage[w] = "buryAck" /\ cur[w] < next
    BY <1>2, <1>8 DEF AckBuried, At, HoldInv
  <2>2. FALSE
    BY <1>2, <1>8, <2>1 DEF Outstanding, TypeInv, TypeOK
  <2>3. QED
    BY <2>2
<1>9. QED
  BY <1>3, <1>4, <1>5, <1>6, <1>7, <1>8 DEF Work, Process

LEMMA NextTrace ==
    ASSUME TypeInv, LossInv, [Next]_vars, NEW c \in Calls, Traced(c)
    PROVE  Traced(c)' \/ Lost(c)
<1>1. CASE \E w \in Workers : Work(w)
  <2>1. PICK w \in Workers : Work(w)
    BY <1>1
  <2>2. ASSUME NEW v \in Workers, Carried(c, v)
        PROVE  Traced(c)' \/ Lost(c)
    <3>1. CASE v = w
      BY <2>1, <2>2, <3>1, CarrierTrace
    <3>2. CASE v # w
      <4>1. stage'[v] = stage[v] /\ cur'[v] = cur[v]
        BY <2>1, <3>2, OthersStay
      <4>2. stage'[v] \in GivenUp
        BY <2>2, <4>1 DEF Carried, GivenUp
      <4>3. QED
        BY <2>2, <4>1, <4>2, CarriedStays
    <3>3. QED
      BY <3>1, <3>2
  <2>3. QED
    BY <2>1, <2>2, WorkerTrace, TraceStays
<1>2. CASE ~\E w \in Workers : Work(w)
  <2>1. \A v \in Workers :
           stage'[v] = "idle" \/ (stage'[v] = stage[v] /\ cur'[v] = cur[v])
    BY <1>2, WorkersStay
  <2>2. UNCHANGED <<next, pending>>
        /\ (UNCHANGED <<stage, cur>> \/ faults' > faults)
    <3>1. ASSUME NEW d \in Calls, Publish(d) \/ PublishTwice(d)
          PROVE  UNCHANGED <<next, pending, stage, cur>>
      BY <3>1 DEF Publish, PublishTwice, workVars
    <3>2. ASSUME NEW p \in Processes, Start(p)
          PROVE  UNCHANGED <<next, pending, stage, cur>>
      BY <3>2 DEF Start, streamVars, workVars
    <3>3. ASSUME NEW p \in Processes, Crash(p)
          PROVE  UNCHANGED <<next, pending>> /\ faults' > faults
      BY <3>3 DEF Crash, Fault, streamVars, TypeInv, TypeOK
    <3>4. CASE UNCHANGED vars
      BY <3>4 DEF vars, streamVars, workVars
    <3>5. QED
      BY <1>2, <3>1, <3>2, <3>3, <3>4 DEF Next
  <2>3. ASSUME NEW i \in 1..Len(stream), Outstanding(i)
        PROVE  Outstanding(i)'
    BY <2>1, <2>2, <2>3, OutstandingStays
  <2>4. ASSUME NEW v \in Workers, Carried(c, v)
        PROVE  Traced(c)' \/ Lost(c)
    <3>1. stage[v] \in GivenUp
      BY <2>4 DEF Carried, GivenUp
    <3>2. CASE stage'[v] = stage[v] /\ cur'[v] = cur[v]
      BY <2>4, <3>1, <3>2, CarriedStays
    <3>3. CASE stage'[v] # stage[v] \/ cur'[v] # cur[v]
      <4>1. stage'[v] = "idle" /\ faults' > faults
        BY <2>1, <2>2, <3>3
      <4>2. QED
        BY <2>4, <3>1, <4>1 DEF Lost, GivenUp
    <3>4. QED
      BY <3>2, <3>3
  <2>5. QED
    BY <2>3, <2>4, TraceStays
<1>3. QED
  BY <1>1, <1>2

\* The only ways to lose a call are a fault of Redis at the second publication
\* or at the dead letter, and the end of a process on the way to either
\* (redis_stream.go:283-284, 324-332).
THEOREM NothingLostHolds == Spec => NothingLost
<1>1. ASSUME TypeInv, LossInv, [Next]_vars
      PROVE  \A c \in Calls :
                Traced(c) =>
                   \/ Traced(c)'
                   \/ /\ faults' > faults
                      /\ \E w \in Workers : Carried(c, w) /\ stage'[w] # stage[w]
  BY <1>1, NextTrace DEF Lost
<1>2. QED
  BY <1>1, TypeInvHolds, LossInvHolds, PTL DEF Spec, NothingLost

\* A published call leaves a trace at once.
LEMMA PublishedTraced ==
    ASSUME TypeInv, [Next]_vars, NEW c \in published', c \notin published
    PROVE  c \in Calls /\ Traced(c)'
<1>1. PICK d \in Calls : Publish(d) \/ PublishTwice(d)
  <2>1. ASSUME NEW w \in Workers, Work(w) PROVE published' = published
    BY <2>1 DEF Work, Process, ReadNew, ClaimIdle, Begin, WriteCallLog,
                UpdateUsageStat, FindSession, SetTitle, AckDone, AckForRetry,
                Republish, PublishDLQ, AckBuried
  <2>2. ASSUME NEW p \in Processes, Crash(p) \/ Start(p)
        PROVE  published' = published
    BY <2>2 DEF Crash, Start
  <2>3. ASSUME UNCHANGED vars PROVE published' = published
    BY <2>3 DEF vars
  <2>4. QED
    BY <2>1, <2>2, <2>3 DEF Next
<1>2. c = d
  BY <1>1 DEF Publish, PublishTwice
<1>3. /\ Grows /\ Len(stream') > Len(stream)
      /\ stream'[Len(stream) + 1] = [call |-> d, retry |-> 0]
  BY <1>1, PublishGrows
<1>4. Len(stream) + 1 \in 1..Len(stream') /\ Len(stream) \in Nat
  BY <1>3 DEF Grows
<1>5. Len(stream) + 1 >= next'
  BY <1>1, <1>4 DEF Publish, PublishTwice, TypeInv, TypeOK
<1>6. (stream'[Len(stream) + 1]).call = c
  BY <1>2, <1>3
<1>7. QED
  BY <1>2, <1>5, <1>4, <1>6 DEF Traced, Outstanding

\* A call that left a trace loses it to a second fault at the earliest: what
\* made its worker give up was the first.
THEOREM OneFaultLosesNothingHolds == Spec => []OneFaultLosesNothing
<1>1. Init => OneFaultLosesNothing
  BY DEF Init, OneFaultLosesNothing
<1>2. ASSUME TypeInv, LossInv, [Next]_vars, OneFaultLosesNothing
      PROVE  OneFaultLosesNothing'
  <2>1. SUFFICES ASSUME NEW c \in published', ~Traced(c)'
                 PROVE  faults' >= 2
    BY DEF OneFaultLosesNothing
  <2>2. c \in published /\ c \in Calls
    BY <1>2, <2>1, PublishedTraced DEF TypeInv, TypeOK
  <2>3. faults \in Nat /\ faults' \in Nat /\ faults' >= faults
    BY <1>2, NextTypeInv, NextGrows DEF TypeInv, TypeOK, Grows
  <2>4. CASE faults >= 2
    BY <2>3, <2>4
  <2>5. CASE Traced(c)
    <3>1. Lost(c)
      BY <1>2, <2>1, <2>2, <2>5, NextTrace
    <3>2. PICK w \in Workers : Carried(c, w)
      BY <3>1 DEF Lost
    <3>3. RetryOf(w) \in 0..MaxRetry
      BY <1>2, <3>2, EntryType DEF Carried
    <3>4. ~logged[c]
      BY <1>2, <2>1, <2>2, NextGrows DEF Grows, Traced
    <3>5. faults > RetryOf(w)
      BY <1>2, <3>2, <3>4 DEF LossInv, TollInv, Carried, GivenUp
    <3>6. QED
      BY <2>3, <3>1, <3>3, <3>5 DEF Lost
  <2>6. QED
    BY <1>2, <2>2, <2>4, <2>5 DEF OneFaultLosesNothing
<1>3. QED
  BY <1>1, <1>2, TypeInvHolds, LossInvHolds, PTL DEF Spec

\* Only Redis and the end of a process stop a worker that carries a call.
LEMMA LostToRedisOrCrash ==
    ASSUME TypeInv, [Next]_vars, NEW c \in Calls, Lost(c)
    PROVE  Faults \cap {"redis", "crash"} # {}
<1>1. PICK v \in Workers : Carried(c, v) /\ stage'[v] # stage[v]
  BY DEF Lost
<1>2. stage[v] \in GivenUp /\ faults' # faults
  BY <1>1 DEF Carried, GivenUp, Lost, TypeInv, TypeOK
<1>3. ASSUME NEW w \in Workers, Work(w) PROVE "redis" \in Faults
  <2>1. w = v
    BY <1>1, <1>3, OthersStay
  <2>2. AckForRetry(v) \/ Republish(v) \/ PublishDLQ(v)
    BY <1>2, <1>3, <2>1
       DEF Work, Process, ReadNew, ClaimIdle, Begin, WriteCallLog,
           UpdateUsageStat, FindSession, SetTitle, AckDone, AckBuried, At,
           GivenUp
  <2>3. QED
    BY <1>2, <2>2 DEF AckForRetry, Republish, PublishDLQ, Acknowledge, Fault, OK
<1>4. ASSUME NEW p \in Processes, Crash(p) PROVE "crash" \in Faults
  BY <1>4 DEF Crash, Fault
<1>5. ASSUME \/ \E d \in Calls : Publish(d) \/ PublishTwice(d)
             \/ \E p \in Processes : Start(p)
             \/ UNCHANGED vars
      PROVE  stage' = stage
  BY <1>5 DEF Publish, PublishTwice, Start, vars, workVars
<1>6. QED
  BY <1>1, <1>3, <1>4, <1>5 DEF Next

\* As long as Redis answers and the processes live, a published call keeps a
\* trace, whatever the database refuses, executes without a reply or is asked
\* twice: the retries and dead letters of redis_stream.go:272-305 lose nothing
\* to the failures they are made for.
THEOREM DatabaseLosesNothing ==
    ASSUME Faults \cap {"redis", "crash"} = {}
    PROVE  Spec => [](\A c \in published : Traced(c))
<1> DEFINE AllTraced == \A c \in published : Traced(c)
<1>1. Init => AllTraced
  BY DEF Init
<1>2. ASSUME TypeInv, LossInv, [Next]_vars, AllTraced
      PROVE  AllTraced'
  <2>1. SUFFICES ASSUME NEW c \in published'
                 PROVE  Traced(c)'
    OBVIOUS
  <2>2. CASE c \notin published
    BY <1>2, <2>2, PublishedTraced
  <2>3. CASE c \in published
    <3>1. c \in Calls /\ Traced(c)
      BY <1>2, <2>3 DEF TypeInv, TypeOK
    <3>2. ~Lost(c)
      BY <1>2, <3>1, LostToRedisOrCrash
    <3>3. QED
      BY <1>2, <3>1, <3>2, NextTrace
  <2>4. QED
    BY <2>2, <2>3
<1> HIDE DEF AllTraced
<1>3. Spec => []AllTraced
  BY <1>1, <1>2, TypeInvHolds, LossInvHolds, PTL DEF Spec
<1>4. QED
  BY <1>3 DEF AllTraced
-----------------------------------------------------------------------------
(* Titles.  Only a worker that has counted its call gets to the title, and   *)
(* what was counted stays counted.                                           *)

\* The title of a session is the default one or that of a successful call of
\* this session which is in the statistics (model_call_handler.go:40-58).
TitleEarned ==
    \A s \in Sessions :
        title[s] # DefaultTitle =>
           /\ title[s] \in Successful
           /\ SessionOf[title[s]] = s
           /\ usage[title[s]] = 1

Titling == {"findSession", "setTitle"}

TitleInv ==
    /\ TitleEarned
    /\ \A w \in Workers :
          stage[w] \in Titling =>
              CallOf(w) \in Successful /\ usage[CallOf(w)] = 1

\* The statistics move for a call that is not in them, and by one.
LEMMA UsageStays ==
    ASSUME TypeInv, CountInv, [Next]_vars, NEW c \in Calls, usage[c] = 1
    PROVE  usage'[c] = 1
<1>1. ASSUME NEW w \in Workers, UpdateUsageStat(w) PROVE usage'[c] = 1
  <2>1. CallOf(w) # c
    BY <1>1 DEF UpdateUsageStat, At, CountInv, Counting
  <2>2. QED
    BY <1>1, <2>1 DEF UpdateUsageStat, TypeInv, TypeOK
<1>2. ASSUME NEW w \in Workers, Work(w), ~UpdateUsageStat(w)
      PROVE  UNCHANGED usage
  BY <1>2 DEF Work, Process, ReadNew, ClaimIdle, Begin, WriteCallLog,
              FindSession, SetTitle, AckDone, AckForRetry, Republish,
              PublishDLQ, AckBuried, bookVars
<1>3. CASE ~\E w \in Workers : Work(w)
  BY <1>3 DEF Next, Publish, PublishTwice, Crash, Start, vars, bookVars
<1>4. QED
  BY <1>1, <1>2, <1>3

\* Who gets to the title has just counted a successful call.
LEMMA TitlingStep ==
    ASSUME TypeInv, CountInv, TitleInv, [Next]_vars, NEW v \in Workers,
           stage'[v] \in Titling
    PROVE  CallOf(v)' \in Successful /\ usage'[CallOf(v)'] = 1
<1>1. Grows /\ stage \in [Workers -> Stages] /\ usage \in [Calls -> Nat]
  BY NextGrows DEF TypeInv, TypeOK
<1>2. ASSUME stage[v] \in Titling, cur'[v] = cur[v]
      PROVE  CallOf(v)' \in Successful /\ usage'[CallOf(v)'] = 1
  <2>1. CallOf(v)' = CallOf(v) /\ CallOf(v) \in Calls
    BY <1>1, <1>2, EntryStays, EntryType DEF Titling
  <2>2. CallOf(v) \in Successful /\ usage[CallOf(v)] = 1
    BY <1>2 DEF TitleInv
  <2>3. QED
    BY <2>1, <2>2, UsageStays
<1>3. CASE UpdateUsageStat(v)
  <2>1. /\ stage[v] = "usage"
        /\ cur' = cur
        /\ CallOf(v) \in Successful
        /\ usage' = [usage EXCEPT ![CallOf(v)] = @ + 1]
    BY <1>1, <1>3 DEF UpdateUsageStat, Failed, Goto, At, Titling
  <2>2. CallOf(v)' = CallOf(v) /\ CallOf(v) \in Calls
    BY <1>1, <2>1, EntryStays, EntryType
  <2>3. usage[CallOf(v)] = 0
    BY <2>1 DEF CountInv, Counting
  <2>4. QED
    BY <1>1, <2>1, <2>2, <2>3
<1>4. ASSUME Work(v), ~UpdateUsageStat(v)
      PROVE  stage[v] \in Titling /\ cur'[v] = cur[v]
  BY <1>1, <1>4
     DEF Work, Process, ReadNew, ClaimIdle, Begin, WriteCallLog, FindSession,
         SetTitle, AckDone, AckForRetry, Republish, PublishDLQ, AckBuried,
         Failed, Leave, Goto, At, Titling, workVars
<1>5. ASSUME ~Work(v)
      PROVE  stage[v] \in Titling /\ cur'[v] = cur[v]
  BY <1>5, OthersStay, WorkersStay DEF Titling
<1>6. QED
  BY <1>2, <1>3, <1>4, <1>5

LEMMA NextTitleInv ==
    ASSUME TypeInv, CountInv, TitleInv, [Next]_vars
    PROVE  TitleInv'
<1>1. TypeOK /\ TitleEarned
  BY DEF TypeInv, TitleInv
<1>2. ASSUME NEW w \in Workers, SetTitle(w), ~UNCHANGED title
      PROVE  TitleEarned'
  <2>1. /\ CallOf(w) \in Successful /\ CallOf(w) \in Calls
        /\ usage[CallOf(w)] = 1
        /\ UNCHANGED usage
    BY <1>2, EntryType, CallAssumption DEF SetTitle, At, TitleInv, Titling
  <2>2. title' = [title EXCEPT ![SessionOf[CallOf(w)]] = CallOf(w)]
    BY <1>2 DEF SetTitle
  <2>3. QED
    BY <1>1, <2>1, <2>2 DEF TypeOK, TitleEarned
<1>3. ASSUME UNCHANGED title PROVE TitleEarned'
  <2>1. ASSUME NEW s \in Sessions, title[s] # DefaultTitle
        PROVE  usage'[title[s]] = 1
    BY <1>1, <2>1, UsageStays DEF TypeOK, TitleEarned
  <2>2. QED
    BY <1>1, <1>3, <2>1 DEF TitleEarned
<1>4. ASSUME NEW w \in Workers, Work(w), ~SetTitle(w)
      PROVE  UNCHANGED title
  BY <1>4 DEF Work, Process, ReadNew, ClaimIdle, Begin, WriteCallLog,
              UpdateUsageStat, FindSession, AckDone, AckForRetry, Republish,
              PublishDLQ, AckBuried, bookVars
<1>5. ASSUME ~\E w \in Workers : Work(w) PROVE UNCHANGED title
  BY <1>5 DEF Next, Publish, PublishTwice, Crash, Start, vars, bookVars
<1>6. TitleEarned'
  BY <1>2, <1>3, <1>4, <1>5
<1>7. QED
  BY <1>6, TitlingStep DEF TitleInv

\* However its workers race for the title (model_call_handler.go:140-160), a
\* session bears the title of one of its own calls, a successful one that is
\* in the statistics; a delivery that failed titles nothing.
THEOREM TitleEarnedHolds == Spec => []TitleEarned
<1>1. Init => CountInv /\ TitleInv
  BY DEF Init, CountInv, Counting, TitleInv, TitleEarned, Titling
<1>2. TypeInv /\ CountInv /\ [Next]_vars => CountInv'
  BY NextCountInv
<1>3. TypeInv /\ CountInv /\ TitleInv /\ [Next]_vars => TitleInv'
  BY NextTitleInv
<1>4. TitleInv => TitleEarned
  BY DEF TitleInv
<1>5. QED
  BY <1>1, <1>2, <1>3, <1>4, TypeInvHolds, PTL DEF Spec

=============================================================================
