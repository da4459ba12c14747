-------------------------- MODULE ChatStreamProofs --------------------------
(***************************************************************************)
(* Theorems about ChatStream, for every set of requests and sessions, every *)
(* number of retries and chunks, every TTL and deadline and every fault.    *)
(***************************************************************************)
EXTENDS ChatStream, TLAPS

-----------------------------------------------------------------------------
(* Type correctness.  TypeOK alone is not inductive: that the attempts stay *)
(* within MaxRetries + 1 depends on where the request is.                   *)

BeforeCall == {"idle", "acquiring", "checking", "saving", "finding", "loading"}

AttemptsBounded ==
    \A r \in Requests :
        /\ pc[r] \in BeforeCall => attempts[r] = 0
        /\ pc[r] = "calling" => attempts[r] <= MaxRetries
        /\ pc[r] \in {"writing", "streaming", "settling", "updating",
                      "publishing", "releasing"} => status[r] # "none"

TypeInv == TypeOK /\ AttemptsBounded

LEMMA InitTypeInv == Init => TypeInv
<1> SUFFICES ASSUME Init PROVE TypeInv
  OBVIOUS
<1>1. TypeOK
  BY BoundAssumption DEF Init, TypeOK, Labels, InFlight, Section
<1>2. AttemptsBounded
  BY BoundAssumption DEF Init, AttemptsBounded, BeforeCall
<1>3. QED
  BY <1>1, <1>2 DEF TypeInv

LEMMA BeginTypeInv ==
    ASSUME TypeInv, NEW r \in Requests, Begin(r)
    PROVE  TypeInv'
<1> USE BoundAssumption, RequestAssumption
    DEF TypeInv, TypeOK, AttemptsBounded, BeforeCall, Labels, InFlight,
        Section, Verdicts, Goto, Tell, lockVars, callVars, outVars
<1>1. CASE Validate(r)
  BY <1>1 DEF Validate
<1>2. CASE Acquire(r)
  BY <1>2 DEF Acquire, Take
<1>3. CASE AcquireRefused(r)
  BY <1>3 DEF AcquireRefused
<1>4. CASE AcquireReplyLost(r)
  BY <1>4 DEF AcquireReplyLost, Take
<1>5. CASE CheckSession(r)
  BY <1>5 DEF CheckSession
<1>6. CASE SaveMessages(r)
  BY <1>6 DEF SaveMessages
<1>7. CASE FindSession(r) \/ LoadContext(r)
  BY <1>7 DEF FindSession, LoadContext
<1>8. CASE CallSucceeds(r)
  BY <1>8 DEF CallSucceeds
<1>9. CASE CallFails(r)
  BY <1>9 DEF CallFails
<1>10. CASE Unwind(r)
  BY <1>10 DEF Unwind, TryRelease, ReleaseLock
<1>11. QED
  BY <1>1, <1>2, <1>3, <1>4, <1>5, <1>6, <1>7, <1>8, <1>9, <1>10 DEF Begin

LEMMA StreamTypeInv ==
    ASSUME TypeInv, NEW r \in Requests, Stream(r)
    PROVE  TypeInv'
<1> USE BoundAssumption, RequestAssumption
    DEF TypeInv, TypeOK, AttemptsBounded, BeforeCall, Labels, InFlight,
        Section, Verdicts, Goto, Tell, lockVars, callVars, outVars
<1>1. CASE ReadContent(r)
  BY <1>1 DEF ReadContent
<1>2. CASE WriteEvent(r)
  BY <1>2 DEF WriteEvent
<1>3. CASE ReadError(r)
  BY <1>3 DEF ReadError
<1>4. CASE ReadDone(r)
  BY <1>4 DEF ReadDone
<1>5. CASE ChannelClosed(r)
  BY <1>5 DEF ChannelClosed
<1>6. CASE SettleCheck(r)
  BY <1>6 DEF SettleCheck, Report
<1>7. CASE SettleWrite(r)
  BY <1>7 DEF SettleWrite, Report, Outcome
<1>8. CASE PublishOK(r)
  BY <1>8 DEF PublishOK
<1>9. CASE PublishFails(r)
  BY <1>9 DEF PublishFails
<1>10. CASE Release(r)
  BY <1>10 DEF Release, TryRelease, ReleaseLock
<1>11. QED
  BY <1>1, <1>2, <1>3, <1>4, <1>5, <1>6, <1>7, <1>8, <1>9, <1>10 DEF Stream

LEMMA NextTypeInv ==
    ASSUME TypeInv, [Next]_vars
    PROVE  TypeInv'
<1> USE BoundAssumption, RequestAssumption
<1>1. ASSUME NEW r \in Requests, Handler(r) PROVE TypeInv'
  BY <1>1, BeginTypeInv, StreamTypeInv DEF Handler
<1>2. ASSUME NEW r \in Requests, Disconnect(r) PROVE TypeInv'
  BY <1>2 DEF Disconnect, TypeInv, TypeOK, AttemptsBounded, lockVars,
              callVars, outVars
<1>3. ASSUME NEW s \in Sessions, DeleteSession(s) PROVE TypeInv'
  BY <1>3 DEF DeleteSession, TypeInv, TypeOK, AttemptsBounded, lockVars,
              callVars, outVars
<1>4. CASE Tick
  BY <1>4 DEF Tick, TypeInv, TypeOK, AttemptsBounded, outVars
<1>5. CASE Crash
  BY <1>5 DEF Crash, TypeInv, TypeOK, AttemptsBounded, lockVars, outVars,
              BeforeCall, InFlight, Section, Labels
<1>6. CASE UNCHANGED vars
  BY <1>6 DEF vars, TypeInv, TypeOK, AttemptsBounded, lockVars, callVars,
              outVars
<1>7. QED
  BY <1>1, <1>2, <1>3, <1>4, <1>5, <1>6 DEF Next, Quiescent

LEMMA TypeInvHolds == Spec => []TypeInv
<1>1. Init => TypeInv
  BY InitTypeInv
<1>2. TypeInv /\ [Next]_vars => TypeInv'
  BY NextTypeInv
<1>3. QED
  BY <1>1, <1>2, PTL DEF Spec

\* Every reachable state of ChatStream is well typed; in particular the
\* provider is called at most MaxRetries + 1 times for a request
\* (the loop of chat_service.go:148).
THEOREM TypeCorrect == Spec => []TypeOK
<1>1. TypeInv => TypeOK
  BY DEF TypeInv
<1>2. QED
  BY <1>1, TypeInvHolds, PTL

-----------------------------------------------------------------------------
(* Mutual exclusion.  ExclusiveUntilLapse does not follow from itself: what *)
(* every step keeps is that the key still names a request that is in its    *)
(* section and has not lost its lock.                                       *)

LockInv ==
    \A r \in Requests :
        pc[r] \in Section /\ ~lapsed[r] => lock[SessionOf[r]] = r

\* Two requests cannot both be named by the key of their session.
LEMMA LockInvExcludes == LockInv => ExclusiveUntilLapse
  BY DEF LockInv, ExclusiveUntilLapse

\* Taking a free lock keeps LockInv: no live section relied on the key.
LEMMA TakeKeepsLockInv ==
    ASSUME TypeInv, LockInv, NEW r \in Requests,
           lock[SessionOf[r]] = NoRequest, Take(r), UNCHANGED lapsed,
           NEW label \in Labels, Goto(r, label)
    PROVE  LockInv'
<1>1. SUFFICES ASSUME NEW q \in Requests, pc'[q] \in Section, ~lapsed'[q]
               PROVE  lock'[SessionOf[q]] = q
  BY DEF LockInv
<1>2. CASE q = r
  BY <1>2, RequestAssumption DEF Take, TypeInv, TypeOK
<1>3. CASE q # r
  <2>1. lock[SessionOf[q]] = q
    BY <1>1, <1>3 DEF LockInv, Goto, TypeInv, TypeOK
  <2>2. SessionOf[q] # SessionOf[r]
    BY <2>1, RequestAssumption
  <2>3. QED
    BY <2>1, <2>2, RequestAssumption DEF Take, TypeInv, TypeOK
<1>4. QED
  BY <1>2, <1>3

\* Giving a lock back while leaving the section keeps LockInv: only the key
\* of the request that leaves can go.
LEMMA ReleaseKeepsLockInv ==
    ASSUME TypeInv, LockInv, NEW r \in Requests, TryRelease(r),
           UNCHANGED lapsed, Goto(r, "done")
    PROVE  LockInv'
<1>1. SUFFICES ASSUME NEW q \in Requests, pc'[q] \in Section, ~lapsed'[q]
               PROVE  lock'[SessionOf[q]] = q
  BY DEF LockInv
<1>2. q # r
  BY <1>1 DEF Goto, TypeInv, TypeOK, Section
<1>3. lock[SessionOf[q]] = q
  BY <1>1, <1>2 DEF LockInv, Goto, TypeInv, TypeOK
<1>4. QED
  BY <1>2, <1>3, RequestAssumption
     DEF TryRelease, ReleaseLock, lockVars, TypeInv, TypeOK

\* A step that moves one request within or out of its section and leaves the
\* keys alone keeps LockInv.
LEMMA MoveKeepsLockInv ==
    ASSUME TypeInv, LockInv, NEW r \in Requests, UNCHANGED <<lock, lapsed>>,
           NEW label \in Labels, Goto(r, label),
           label \in Section => pc[r] \in Section
    PROVE  LockInv'
  BY DEF LockInv, Goto, TypeInv, TypeOK

LEMMA BeginLockInv ==
    ASSUME TypeInv, LockInv, NEW r \in Requests, Begin(r)
    PROVE  LockInv'
<1> USE DEF Labels, InFlight, Section, lockVars
<1>1. CASE Validate(r)
  BY <1>1, MoveKeepsLockInv DEF Validate
<1>2. CASE Acquire(r)
  BY <1>2, TakeKeepsLockInv DEF Acquire
<1>3. CASE AcquireRefused(r)
  BY <1>3, MoveKeepsLockInv DEF AcquireRefused
<1>4. CASE AcquireReplyLost(r)
  BY <1>4, TakeKeepsLockInv DEF AcquireReplyLost
<1>5. CASE CheckSession(r)
  BY <1>5, MoveKeepsLockInv DEF CheckSession
<1>6. CASE SaveMessages(r)
  BY <1>6, MoveKeepsLockInv DEF SaveMessages
<1>7. CASE FindSession(r) \/ LoadContext(r)
  BY <1>7, MoveKeepsLockInv DEF FindSession, LoadContext
<1>8. CASE CallSucceeds(r)
  BY <1>8, MoveKeepsLockInv DEF CallSucceeds
<1>9. CASE CallFails(r)
  BY <1>9, MoveKeepsLockInv DEF CallFails
<1>10. CASE Unwind(r)
  BY <1>10, ReleaseKeepsLockInv DEF Unwind
<1>11. QED
  BY <1>1, <1>2, <1>3, <1>4, <1>5, <1>6, <1>7, <1>8, <1>9, <1>10 DEF Begin

LEMMA StreamLockInv ==
    ASSUME TypeInv, LockInv, NEW r \in Requests, Stream(r)
    PROVE  LockInv'
<1> USE DEF Labels, InFlight, Section, lockVars
<1>1. CASE ReadContent(r)
  BY <1>1, MoveKeepsLockInv DEF ReadContent
<1>2. CASE WriteEvent(r)
  BY <1>2, MoveKeepsLockInv DEF WriteEvent
<1>3. CASE ReadError(r)
  BY <1>3, MoveKeepsLockInv DEF ReadError
<1>4. CASE ReadDone(r)
  BY <1>4, MoveKeepsLockInv DEF ReadDone
<1>5. CASE ChannelClosed(r)
  BY <1>5, MoveKeepsLockInv DEF ChannelClosed
<1>6. CASE SettleCheck(r)
  BY <1>6, MoveKeepsLockInv DEF SettleCheck
<1>7. CASE SettleWrite(r)
  BY <1>7, MoveKeepsLockInv DEF SettleWrite
<1>8. CASE PublishOK(r)
  BY <1>8, MoveKeepsLockInv DEF PublishOK
<1>9. CASE PublishFails(r)
  BY <1>9, MoveKeepsLockInv DEF PublishFails
<1>10. CASE Release(r)
  BY <1>10, ReleaseKeepsLockInv DEF Release
<1>11. QED
  BY <1>1, <1>2, <1>3, <1>4, <1>5, <1>6, <1>7, <1>8, <1>9, <1>10 DEF Stream

LEMMA NextLockInv ==
    ASSUME TypeInv, LockInv, [Next]_vars
    PROVE  LockInv'
<1>1. ASSUME NEW r \in Requests, Handler(r) PROVE LockInv'
  BY <1>1, BeginLockInv, StreamLockInv DEF Handler
<1>2. ASSUME NEW r \in Requests, Disconnect(r) PROVE LockInv'
  BY <1>2 DEF Disconnect, LockInv, lockVars
<1>3. ASSUME NEW s \in Sessions, DeleteSession(s) PROVE LockInv'
  BY <1>3 DEF DeleteSession, LockInv, lockVars
<1>4. CASE Tick
  \* A key that expires marks the section that counted on it as lapsed.
  <2>1. SUFFICES ASSUME NEW r \in Requests, pc'[r] \in Section, ~lapsed'[r]
                 PROVE  lock'[SessionOf[r]] = r
    BY DEF LockInv
  <2>2. pc[r] \in Section /\ ~lapsed[r]
    BY <1>4, <2>1 DEF Tick
  <2>3. lock[SessionOf[r]] = r
    BY <2>2 DEF LockInv
  <2>4. ttl[SessionOf[r]] # 1
    BY <1>4, <2>1, <2>2, <2>3 DEF Tick
  <2>5. QED
    BY <1>4, <2>3, <2>4, RequestAssumption DEF Tick
<1>5. CASE Crash
  BY <1>5 DEF Crash, LockInv, lockVars, InFlight, Section, TypeInv, TypeOK
<1>6. CASE UNCHANGED vars
  BY <1>6 DEF vars, lockVars, LockInv
<1>7. QED
  BY <1>1, <1>2, <1>3, <1>4, <1>5, <1>6 DEF Next, Quiescent

\* Whatever fails, is lost, deleted or crashes, two requests of a session are
\* in their sections together only after the lock of one of them has expired
\* under it.
THEOREM ExclusiveUntilLapseHolds == Spec => []ExclusiveUntilLapse
<1>1. Init => LockInv
  BY DEF Init, LockInv, Section
<1>2. TypeInv /\ LockInv /\ [Next]_vars => LockInv'
  BY NextLockInv
<1>3. QED
  BY <1>1, <1>2, TypeInvHolds, LockInvExcludes, PTL DEF Spec

-----------------------------------------------------------------------------
(* The timely case: no lock lapses at all.  Before the provider call no time *)
(* passes, so the key has its whole TTL when the deadline starts; from then  *)
(* on key and deadline run down together and the key stays ahead; once the   *)
(* deadline is reached the clock waits for the request to leave.             *)

TimelyInv ==
    \A r \in Requests :
        /\ pc[r] \in Section => lock[SessionOf[r]] = r
        /\ pc[r] \in {"checking", "saving", "finding", "loading"} =>
              ttl[SessionOf[r]] = LockTTL
        /\ pc[r] \in {"calling", "writing", "streaming"} =>
              ttl[SessionOf[r]] > budget[r]

\* The key of a session names one request, so one is in its section.
LEMMA TimelyInvExcludes == TimelyInv => SingleGenerator
  BY DEF TimelyInv, SingleGenerator

\* A free lock can be taken by a request that goes on to save its messages,
\* or by one that never learns of it.
LEMMA TakeKeepsTimelyInv ==
    ASSUME TypeInv, TimelyInv, NEW r \in Requests,
           lock[SessionOf[r]] = NoRequest, Take(r), UNCHANGED budget,
           NEW label \in {"checking", "done"}, Goto(r, label)
    PROVE  TimelyInv'
<1>1. ASSUME NEW q \in Requests, q # r, pc'[q] \in Section
      PROVE  SessionOf[q] # SessionOf[r] /\ lock[SessionOf[q]] = q
  BY <1>1, RequestAssumption DEF TimelyInv, Goto, TypeInv, TypeOK
<1>2. ASSUME NEW q \in Requests, q # r
      PROVE  /\ pc'[q] \in Section => lock'[SessionOf[q]] = q
             /\ pc'[q] \in {"checking", "saving", "finding", "loading"} =>
                   ttl'[SessionOf[q]] = LockTTL
             /\ pc'[q] \in {"calling", "writing", "streaming"} =>
                   ttl'[SessionOf[q]] > budget'[q]
  BY <1>1, <1>2, RequestAssumption
     DEF TimelyInv, Take, Goto, TypeInv, TypeOK, Section
<1>3. /\ pc'[r] = label
      /\ lock'[SessionOf[r]] = r
      /\ ttl'[SessionOf[r]] = LockTTL
  BY RequestAssumption DEF Take, Goto, TypeInv, TypeOK
<1>4. QED
  BY <1>2, <1>3 DEF TimelyInv

\* A request leaves its section and takes only its own key with it.
LEMMA ReleaseKeepsTimelyInv ==
    ASSUME TypeInv, TimelyInv, NEW r \in Requests, TryRelease(r),
           budget' = [budget EXCEPT ![r] = 0], Goto(r, "done")
    PROVE  TimelyInv'
<1>1. SUFFICES ASSUME NEW q \in Requests, pc'[q] \in Section
               PROVE  /\ lock'[SessionOf[q]] = q
                      /\ ttl'[SessionOf[q]] = ttl[SessionOf[q]]
                      /\ budget'[q] = budget[q]
                      /\ pc'[q] = pc[q]
  BY DEF TimelyInv, Section
<1>2. q # r
  BY <1>1 DEF Goto, TypeInv, TypeOK, Section
<1>3. pc[q] = pc'[q] /\ lock[SessionOf[q]] = q /\ budget'[q] = budget[q]
  BY <1>1, <1>2 DEF TimelyInv, Goto, TypeInv, TypeOK
<1>4. lock'[SessionOf[q]] = q /\ ttl'[SessionOf[q]] = ttl[SessionOf[q]]
  <2>1. CASE UNCHANGED lockVars
    BY <1>3, <2>1 DEF lockVars
  <2>2. CASE lock[SessionOf[r]] = r /\ ReleaseLock(r)
    <3>1. SessionOf[q] # SessionOf[r]
      BY <1>2, <1>3, <2>2
    <3>2. /\ lock' = [lock EXCEPT ![SessionOf[r]] = NoRequest]
          /\ ttl' = [ttl EXCEPT ![SessionOf[r]] = 0]
      BY <2>2 DEF ReleaseLock
    <3>3. QED
      BY <1>3, <3>1, <3>2, RequestAssumption DEF TypeInv, TypeOK
  <2>3. QED
    BY <2>1, <2>2 DEF TryRelease, ReleaseLock
<1>5. QED
  BY <1>3, <1>4

\* The successors of a step: those that keep what TimelyInv says of it.
Forward(from, to) ==
    /\ to \in Section => from \in Section
    /\ to \in {"checking", "saving", "finding", "loading"} =>
          from \in {"checking", "saving", "finding", "loading"}
    /\ to \in {"calling", "writing", "streaming"} =>
          from \in {"calling", "writing", "streaming"}

LEMMA MoveKeepsTimelyInv ==
    ASSUME TypeInv, TimelyInv, NEW r \in Requests,
           UNCHANGED <<lock, ttl, budget>>, NEW label \in Labels,
           Goto(r, label), Forward(pc[r], label)
    PROVE  TimelyInv'
  BY DEF TimelyInv, Goto, Forward, TypeInv, TypeOK

LEMMA BeginTimelyInv ==
    ASSUME Timely, TypeInv, TimelyInv, NEW r \in Requests, Begin(r)
    PROVE  TimelyInv'
<1> USE DEF Labels, InFlight, Section, lockVars, callVars
<1>1. CASE Validate(r)
  BY <1>1, MoveKeepsTimelyInv DEF Validate, Forward
<1>2. CASE Acquire(r)
  BY <1>2, TakeKeepsTimelyInv DEF Acquire
<1>3. CASE AcquireRefused(r)
  BY <1>3, MoveKeepsTimelyInv DEF AcquireRefused, Forward
<1>4. CASE AcquireReplyLost(r)
  BY <1>4, TakeKeepsTimelyInv DEF AcquireReplyLost
<1>5. CASE CheckSession(r) \/ FindSession(r)
  BY <1>5, MoveKeepsTimelyInv DEF CheckSession, FindSession, Forward
<1>6. CASE SaveMessages(r)
  BY <1>6, MoveKeepsTimelyInv DEF SaveMessages, Forward
<1>7. CASE LoadContext(r)
  <2>1. CASE pc'[r] = "unwinding"
    BY <1>7, <2>1, MoveKeepsTimelyInv
       DEF LoadContext, Forward, Goto, TypeInv, TypeOK
  <2>2. CASE pc'[r] = "calling"
    <3>1. ttl'[SessionOf[r]] = LockTTL /\ budget'[r] = CallTimeout
      BY <1>7, <2>2 DEF LoadContext, TimelyInv, Goto, TypeInv, TypeOK
    <3>2. QED
      BY <1>7, <2>2, <3>1, BoundAssumption
         DEF LoadContext, TimelyInv, Timely, Goto, TypeInv, TypeOK
  <2>3. QED
    BY <1>7, <2>1, <2>2 DEF LoadContext, Goto, TypeInv, TypeOK
<1>8. CASE CallSucceeds(r)
  BY <1>8, MoveKeepsTimelyInv DEF CallSucceeds, Forward
<1>9. CASE CallFails(r)
  BY <1>9, MoveKeepsTimelyInv DEF CallFails, Forward
<1>10. CASE Unwind(r)
  BY <1>10, ReleaseKeepsTimelyInv DEF Unwind
<1>11. QED
  BY <1>1, <1>2, <1>3, <1>4, <1>5, <1>6, <1>7, <1>8, <1>9, <1>10 DEF Begin

LEMMA StreamTimelyInv ==
    ASSUME TypeInv, TimelyInv, NEW r \in Requests, Stream(r)
    PROVE  TimelyInv'
<1> USE DEF Labels, InFlight, Section, lockVars, callVars, Forward
<1>1. CASE ReadContent(r)
  BY <1>1, MoveKeepsTimelyInv DEF ReadContent
<1>2. CASE WriteEvent(r)
  BY <1>2, MoveKeepsTimelyInv DEF WriteEvent
<1>3. CASE ReadError(r)
  BY <1>3, MoveKeepsTimelyInv DEF ReadError
<1>4. CASE ReadDone(r)
  BY <1>4, MoveKeepsTimelyInv DEF ReadDone
<1>5. CASE ChannelClosed(r)
  BY <1>5, MoveKeepsTimelyInv DEF ChannelClosed
<1>6. CASE SettleCheck(r)
  BY <1>6, MoveKeepsTimelyInv DEF SettleCheck
<1>7. CASE SettleWrite(r)
  BY <1>7, MoveKeepsTimelyInv DEF SettleWrite
<1>8. CASE PublishOK(r)
  BY <1>8, MoveKeepsTimelyInv DEF PublishOK
<1>9. CASE PublishFails(r)
  BY <1>9, MoveKeepsTimelyInv DEF PublishFails
<1>10. CASE Release(r)
  BY <1>10, ReleaseKeepsTimelyInv DEF Release
<1>11. QED
  BY <1>1, <1>2, <1>3, <1>4, <1>5, <1>6, <1>7, <1>8, <1>9, <1>10 DEF Stream

LEMMA TickTimelyInv ==
    ASSUME Timely, TypeInv, TimelyInv, Tick
    PROVE  TimelyInv'
<1>1. SUFFICES ASSUME NEW r \in Requests, pc'[r] \in Section
               PROVE  /\ lock'[SessionOf[r]] = r
                      /\ pc'[r] \in Timed
                      /\ ttl'[SessionOf[r]] > budget'[r]
  BY DEF TimelyInv, Timed, Section
<1>2. pc'[r] = pc[r]
  BY DEF Tick
<1>3. pc[r] \in Timed /\ budget[r] # 0
  BY <1>1, <1>2 DEF Tick, MayWait, CtxDead, Timely, InFlight
<1>4. ttl[SessionOf[r]] > budget[r] /\ lock[SessionOf[r]] = r
  BY <1>1, <1>2, <1>3 DEF TimelyInv, Timed
<1>5. budget[r] \in Nat /\ ttl[SessionOf[r]] \in Nat /\ SessionOf[r] \in Sessions
  BY BoundAssumption, RequestAssumption DEF TypeInv, TypeOK
<1>6. ttl'[SessionOf[r]] = ttl[SessionOf[r]] - 1 /\ budget'[r] = budget[r] - 1
  BY <1>3, <1>4, <1>5 DEF Tick
<1>7. lock'[SessionOf[r]] = r
  BY <1>3, <1>4, <1>5 DEF Tick
<1>8. QED
  BY <1>2, <1>3, <1>4, <1>5, <1>6, <1>7

LEMMA NextTimelyInv ==
    ASSUME Timely, TypeInv, TimelyInv, [Next]_vars
    PROVE  TimelyInv'
<1>1. ASSUME NEW r \in Requests, Handler(r) PROVE TimelyInv'
  BY <1>1, BeginTimelyInv, StreamTimelyInv DEF Handler
<1>2. ASSUME NEW r \in Requests, Disconnect(r) PROVE TimelyInv'
  BY <1>2 DEF Disconnect, TimelyInv, lockVars, callVars
<1>3. ASSUME NEW s \in Sessions, DeleteSession(s) PROVE TimelyInv'
  BY <1>3 DEF DeleteSession, TimelyInv, lockVars, callVars
<1>4. CASE Tick
  BY <1>4, TickTimelyInv
<1>5. CASE Crash
  BY <1>5 DEF Crash, TimelyInv, lockVars, InFlight, Section, TypeInv, TypeOK
<1>6. CASE UNCHANGED vars
  BY <1>6 DEF vars, lockVars, callVars, TimelyInv
<1>7. QED
  BY <1>1, <1>2, <1>3, <1>4, <1>5, <1>6 DEF Next, Quiescent

\* With a deadline shorter than the TTL, and time spent in the provider call
\* only, one request per session is in its section, whatever else fails.
THEOREM TimelySingleGenerator ==
    ASSUME Timely
    PROVE  Spec => []SingleGenerator
<1>1. Init => TimelyInv
  BY DEF Init, TimelyInv, Section
<1>2. TypeInv /\ TimelyInv /\ [Next]_vars => TimelyInv'
  BY NextTimelyInv
<1>3. QED
  BY <1>1, <1>2, TypeInvHolds, TimelyInvExcludes, PTL DEF Spec

-----------------------------------------------------------------------------
(* Who may take a key away.                                                  *)

LEMMA ReleaseIsOwn ==
    ASSUME TypeInv, NEW r \in Requests, TryRelease(r), Goto(r, "done"),
           pc[r] \in {"unwinding", "releasing"},
           NEW s \in Sessions, NEW q \in Requests, lock[s] = q, lock'[s] # q
    PROVE  pc[q] \in {"unwinding", "releasing"} /\ pc'[q] = "done"
<1>1. /\ lock[SessionOf[r]] = r
      /\ lock' = [lock EXCEPT ![SessionOf[r]] = NoRequest]
  BY DEF TryRelease, ReleaseLock, lockVars
<1>2. s = SessionOf[r]
  BY <1>1 DEF TypeInv, TypeOK
<1>3. QED
  BY <1>1, <1>2 DEF Goto, TypeInv, TypeOK

LEMMA KeyStep ==
    ASSUME TypeInv, [Next]_vars,
           NEW s \in Sessions, NEW q \in Requests, lock[s] = q, lock'[s] # q
    PROVE  \/ pc[q] \in {"unwinding", "releasing"} /\ pc'[q] = "done"
           \/ ttl[s] = 1 /\ ttl'[s] = 0
<1>1. ASSUME NEW r \in Requests, lock[SessionOf[r]] = NoRequest, Take(r)
      PROVE  FALSE
  BY <1>1, RequestAssumption DEF Take, TypeInv, TypeOK
<1>2. ASSUME NEW r \in Requests, Begin(r)
      PROVE  pc[q] \in {"unwinding", "releasing"} /\ pc'[q] = "done"
  <2>1. CASE Acquire(r) \/ AcquireReplyLost(r)
    BY <1>1, <2>1 DEF Acquire, AcquireReplyLost
  <2>2. CASE Unwind(r)
    BY <2>2, ReleaseIsOwn DEF Unwind
  <2>3. CASE UNCHANGED lockVars
    BY <2>3 DEF lockVars
  <2>4. QED
    BY <1>2, <2>1, <2>2, <2>3
       DEF Begin, Validate, AcquireRefused, CheckSession, SaveMessages,
           FindSession, LoadContext, CallSucceeds, CallFails
<1>3. ASSUME NEW r \in Requests, Stream(r)
      PROVE  pc[q] \in {"unwinding", "releasing"} /\ pc'[q] = "done"
  <2>1. CASE Release(r)
    BY <2>1, ReleaseIsOwn DEF Release
  <2>2. CASE UNCHANGED lockVars
    BY <2>2 DEF lockVars
  <2>3. QED
    BY <1>3, <2>1, <2>2
       DEF Stream, ReadContent, WriteEvent, ReadError, ReadDone,
           ChannelClosed, SettleCheck, SettleWrite, PublishOK, PublishFails
<1>4. CASE Tick
  <2>1. ttl[s] = 1
    BY <1>4 DEF Tick
  <2>2. QED
    BY <1>4, <2>1 DEF Tick
<1>5. CASE UNCHANGED lockVars
  BY <1>5 DEF lockVars
<1>6. QED
  BY <1>2, <1>3, <1>4, <1>5
     DEF Next, Handler, Disconnect, DeleteSession, Crash, Quiescent, vars

\* In every step of every execution a lock key is taken away from its holder
\* only by the holder's own release or by the end of its TTL.
THEOREM OnlyHolderReleasesHolds == Spec => OnlyHolderReleases
<1>1. TypeInv /\ [Next]_vars =>
        [\A s \in Sessions : \A r \in Requests :
           lock[s] = r /\ lock'[s] # r =>
              \/ pc[r] \in {"unwinding", "releasing"} /\ pc'[r] = "done"
              \/ ttl[s] = 1 /\ ttl'[s] = 0]_vars
  BY KeyStep
<1>2. QED
  BY <1>1, TypeInvHolds, PTL DEF Spec, OnlyHolderReleases

-----------------------------------------------------------------------------
(* Locks on exit.  When Redis and the process keep working, a key names a   *)
(* request of its session that is in its section: every way out of the      *)
(* section goes through a release.                                          *)

KeyInv ==
    \A s \in Sessions : \A r \in Requests :
        lock[s] = r => s = SessionOf[r] /\ pc[r] \in Section

\* A release that reaches Redis leaves no key that names the request.
LEMMA ReleaseKeepsKeyInv ==
    ASSUME TypeInv, KeyInv, "redis" \notin Faults, NEW r \in Requests,
           TryRelease(r), Goto(r, "done")
    PROVE  KeyInv'
<1>1. SUFFICES ASSUME NEW s \in Sessions, NEW q \in Requests, lock'[s] = q
               PROVE  s = SessionOf[q] /\ pc'[q] \in Section
  BY DEF KeyInv
<1>2. ReleaseLock(r)
  BY DEF TryRelease
<1>3. lock[s] = q
  BY <1>1, <1>2, RequestAssumption DEF ReleaseLock, lockVars, TypeInv, TypeOK
<1>4. s = SessionOf[q] /\ pc[q] \in Section
  BY <1>3 DEF KeyInv
<1>5. q # r
  BY <1>1, <1>2, <1>3, <1>4, RequestAssumption
     DEF ReleaseLock, TypeInv, TypeOK
<1>6. QED
  BY <1>4, <1>5 DEF Goto, TypeInv, TypeOK

\* A step within the section, or outside it, that leaves the keys alone.
LEMMA MoveKeepsKeyInv ==
    ASSUME TypeInv, KeyInv, NEW r \in Requests, UNCHANGED lock,
           NEW label \in Labels, Goto(r, label),
           pc[r] \in Section => label \in Section
    PROVE  KeyInv'
  BY DEF KeyInv, Goto, TypeInv, TypeOK

LEMMA BeginKeyInv ==
    ASSUME TypeInv, KeyInv, "redis" \notin Faults, NEW r \in Requests, Begin(r)
    PROVE  KeyInv'
<1> USE DEF Labels, InFlight, Section, lockVars
<1>1. CASE Validate(r)
  BY <1>1, MoveKeepsKeyInv DEF Validate
<1>2. CASE Acquire(r)
  BY <1>2, RequestAssumption DEF Acquire, Take, KeyInv, Goto, TypeInv, TypeOK
<1>3. CASE AcquireRefused(r)
  BY <1>3, MoveKeepsKeyInv DEF AcquireRefused
<1>4. CASE AcquireReplyLost(r)
  BY <1>4 DEF AcquireReplyLost
<1>5. CASE CheckSession(r)
  BY <1>5, MoveKeepsKeyInv DEF CheckSession
<1>6. CASE SaveMessages(r)
  BY <1>6, MoveKeepsKeyInv DEF SaveMessages
<1>7. CASE FindSession(r) \/ LoadContext(r)
  BY <1>7, MoveKeepsKeyInv DEF FindSession, LoadContext
<1>8. CASE CallSucceeds(r)
  BY <1>8, MoveKeepsKeyInv DEF CallSucceeds
<1>9. CASE CallFails(r)
  BY <1>9, MoveKeepsKeyInv DEF CallFails
<1>10. CASE Unwind(r)
  BY <1>10, ReleaseKeepsKeyInv DEF Unwind
<1>11. QED
  BY <1>1, <1>2, <1>3, <1>4, <1>5, <1>6, <1>7, <1>8, <1>9, <1>10 DEF Begin

LEMMA StreamKeyInv ==
    ASSUME TypeInv, KeyInv, "redis" \notin Faults, NEW r \in Requests, Stream(r)
    PROVE  KeyInv'
<1> USE DEF Labels, InFlight, Section, lockVars
<1>1. CASE ReadContent(r)
  BY <1>1, MoveKeepsKeyInv DEF ReadContent
<1>2. CASE WriteEvent(r)
  BY <1>2, MoveKeepsKeyInv DEF WriteEvent
<1>3. CASE ReadError(r)
  BY <1>3, MoveKeepsKeyInv DEF ReadError
<1>4. CASE ReadDone(r)
  BY <1>4, MoveKeepsKeyInv DEF ReadDone
<1>5. CASE ChannelClosed(r)
  BY <1>5, MoveKeepsKeyInv DEF ChannelClosed
<1>6. CASE SettleCheck(r)
  BY <1>6, MoveKeepsKeyInv DEF SettleCheck
<1>7. CASE SettleWrite(r)
  BY <1>7, MoveKeepsKeyInv DEF SettleWrite
<1>8. CASE PublishOK(r)
  BY <1>8, MoveKeepsKeyInv DEF PublishOK
<1>9. CASE PublishFails(r)
  BY <1>9, MoveKeepsKeyInv DEF PublishFails
<1>10. CASE Release(r)
  BY <1>10, ReleaseKeepsKeyInv DEF Release
<1>11. QED
  BY <1>1, <1>2, <1>3, <1>4, <1>5, <1>6, <1>7, <1>8, <1>9, <1>10 DEF Stream

LEMMA NextKeyInv ==
    ASSUME TypeInv, KeyInv, Faults \cap {"redis", "crash"} = {}, [Next]_vars
    PROVE  KeyInv'
<1>1. ASSUME NEW r \in Requests, Handler(r) PROVE KeyInv'
  BY <1>1, BeginKeyInv, StreamKeyInv DEF Handler
<1>2. ASSUME UNCHANGED <<pc, lock>> PROVE KeyInv'
  BY <1>2 DEF KeyInv
<1>3. CASE Tick
  BY <1>3, RequestAssumption DEF Tick, KeyInv
<1>4. ~ Crash
  BY DEF Crash
<1>5. QED
  BY <1>1, <1>2, <1>3, <1>4
     DEF Next, Disconnect, DeleteSession, Quiescent, vars, lockVars

\* However a request ends, an error of the database, a refusal, a deletion or
\* a client that hangs up included, it leaves no lock behind as long as Redis
\* and the process work.
THEOREM LockFreedOnExitHolds == Spec => []LockFreedOnExit
<1>1. ASSUME Faults \cap {"redis", "crash"} # {}
      PROVE  LockFreedOnExit
  BY <1>1 DEF LockFreedOnExit
<1>2. ASSUME Faults \cap {"redis", "crash"} = {}
      PROVE  Spec => []KeyInv
  <2>1. Init => KeyInv
    BY RequestAssumption DEF Init, KeyInv
  <2>2. TypeInv /\ KeyInv /\ [Next]_vars => KeyInv'
    BY <1>2, NextKeyInv
  <2>3. QED
    BY <2>1, <2>2, TypeInvHolds, PTL DEF Spec
<1>3. KeyInv => LockFreedOnExit
  BY DEF KeyInv, LockFreedOnExit, Section
<1>4. CASE Faults \cap {"redis", "crash"} # {}
  BY <1>1, <1>4, PTL
<1>5. CASE Faults \cap {"redis", "crash"} = {}
  BY <1>2, <1>3, <1>5, PTL
<1>6. QED
  BY <1>4, <1>5
=============================================================================
