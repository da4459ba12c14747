------------------------ MODULE ChatStreamRefinement ------------------------
(***************************************************************************)
(* The stored message and the published event through the life of their    *)
(* request, and the theorem that ChatStream implements Generation in the   *)
(* timely case.                                                            *)
(***************************************************************************)
EXTENDS ChatStreamProofs

-----------------------------------------------------------------------------
(* Where the request is says what is stored: no message before the          *)
(* transaction, a generating one until the verdict is written, no event     *)
(* before it is published.                                                  *)

BeforeSave == {"idle", "acquiring", "checking", "saving"}
BeforeWrite == {"finding", "loading", "calling", "writing", "streaming", "settling",
                "updating"}

MessageInv ==
    \A r \in Requests :
        /\ pc[r] \in BeforeSave => msg[r] = "absent"
        /\ pc[r] \in BeforeWrite => msg[r] = "generating"
        /\ pc[r] \in BeforeSave \cup BeforeWrite \cup {"publishing"} =>
              event[r] = "none"
        /\ pc[r] = "publishing" =>
              msg[r] \in {"generating", Outcome(status[r])}
        /\ event[r] # "none" => msg[r] \in {"generating", Outcome(event[r])}

LEMMA BeginMessageInv ==
    ASSUME TypeInv, MessageInv, NEW r \in Requests, Begin(r)
    PROVE  MessageInv'
<1> USE DEF MessageInv, TypeInv, TypeOK, BeforeSave, BeforeWrite, Goto,
            callVars, outVars, Verdicts
<1>1. CASE Validate(r)
  BY <1>1 DEF Validate
<1>2. CASE Acquire(r)
  BY <1>2 DEF Acquire
<1>3. CASE AcquireRefused(r)
  BY <1>3 DEF AcquireRefused
<1>4. CASE AcquireReplyLost(r)
  BY <1>4 DEF AcquireReplyLost
<1>5. CASE CheckSession(r)
  BY <1>5 DEF CheckSession
<1>6. CASE SaveMessages(r)
  BY <1>6 DEF SaveMessages
<1>7. CASE FindSession(r) \/ LoadContext(r)
  BY <1>7 DEF FindSession, LoadContext
<1>8. CASE CallSucceeds(r)
  BY <1>8 DEF CallSucceeds
<1>9. CASE CallFails(r)
  BY <1>9 DEF CallFails
<1>10. CASE Unwind(r)
  BY <1>10 DEF Unwind
<1>11. QED
  BY <1>1, <1>2, <1>3, <1>4, <1>5, <1>6, <1>7, <1>8, <1>9, <1>10 DEF Begin

LEMMA StreamMessageInv ==
    ASSUME TypeInv, MessageInv, NEW r \in Requests, Stream(r)
    PROVE  MessageInv'
<1> USE DEF MessageInv, TypeInv, TypeOK, BeforeSave, BeforeWrite, Goto,
            callVars, outVars, Verdicts
<1>1. CASE ReadContent(r)
  BY <1>1 DEF ReadContent
<1>2. CASE WriteEvent(r)
  BY <1>2 DEF WriteEvent
<1>3. CASE ReadError(r)
  BY <1>3 DEF ReadError
<1>4. CASE ReadDone(r)
  BY <1>4 DEF ReadDone
<1>5. CASE ChannelClosed(r)
  BY <1>5 DEF ChannelClosed
<1>6. CASE SettleCheck(r)
  BY <1>6 DEF SettleCheck
<1>7. CASE SettleWrite(r)
  BY <1>7 DEF SettleWrite
<1>8. CASE PublishOK(r)
  BY <1>8 DEF PublishOK
<1>9. CASE PublishFails(r)
  BY <1>9 DEF PublishFails
<1>10. CASE Release(r)
  BY <1>10 DEF Release
<1>11. QED
  BY <1>1, <1>2, <1>3, <1>4, <1>5, <1>6, <1>7, <1>8, <1>9, <1>10 DEF Stream

LEMMA NextMessageInv ==
    ASSUME TypeInv, MessageInv, [Next]_vars
    PROVE  MessageInv'
<1>1. ASSUME NEW r \in Requests, Handler(r) PROVE MessageInv'
  BY <1>1, BeginMessageInv, StreamMessageInv DEF Handler
<1>2. ASSUME UNCHANGED <<pc, status, outVars>> PROVE MessageInv'
  BY <1>2 DEF MessageInv, outVars
<1>3. CASE Crash
  BY <1>3 DEF Crash, MessageInv, TypeInv, TypeOK, outVars, InFlight, Section,
              BeforeSave, BeforeWrite
<1>4. QED
  BY <1>1, <1>2, <1>3
     DEF Next, Disconnect, DeleteSession, Tick, Quiescent, vars, callVars

\* The published call event and the stored message never contradict each
\* other, however updates fail, sessions are deleted and the server crashes.
THEOREM EventAgreesWithMessageHolds == Spec => []EventAgreesWithMessage
<1>1. Init => MessageInv
  BY DEF Init, MessageInv, BeforeSave, BeforeWrite
<1>2. TypeInv /\ MessageInv /\ [Next]_vars => MessageInv'
  BY NextMessageInv
<1>3. MessageInv => EventAgreesWithMessage
  BY DEF MessageInv, EventAgreesWithMessage
<1>4. QED
  BY <1>1, <1>2, <1>3, TypeInvHolds, PTL DEF Spec

-----------------------------------------------------------------------------
(* Outcomes are final.  A message is written by two steps only, from which   *)
(* MessageInv excludes a settled one, and an event by the two that publish.  *)

Kept ==
    \A r \in Requests :
        /\ msg[r] \notin {"absent", "generating"} => msg'[r] = msg[r]
        /\ event[r] # "none" => event'[r] = event[r]

LEMMA BeginKeeps ==
    ASSUME TypeInv, MessageInv, NEW r \in Requests, Begin(r)
    PROVE  Kept
<1> USE DEF Kept, outVars
<1>1. CASE SaveMessages(r)
  BY <1>1 DEF SaveMessages, MessageInv, BeforeSave, TypeInv, TypeOK
<1>2. CASE Validate(r) \/ Acquire(r) \/ AcquireRefused(r) \/ AcquireReplyLost(r)
  BY <1>2 DEF Validate, Acquire, AcquireRefused, AcquireReplyLost
<1>3. CASE \/ CheckSession(r) \/ FindSession(r) \/ LoadContext(r)
           \/ CallSucceeds(r) \/ CallFails(r)
  BY <1>3 DEF CheckSession, FindSession, LoadContext, CallSucceeds, CallFails
<1>4. CASE Unwind(r)
  BY <1>4 DEF Unwind
<1>5. QED
  BY <1>1, <1>2, <1>3, <1>4 DEF Begin

LEMMA StreamKeeps ==
    ASSUME TypeInv, MessageInv, NEW r \in Requests, Stream(r)
    PROVE  Kept
<1> USE DEF Kept, outVars
<1>1. CASE SettleWrite(r)
  BY <1>1 DEF SettleWrite, MessageInv, BeforeWrite, TypeInv, TypeOK
<1>2. CASE PublishOK(r) \/ PublishFails(r)
  BY <1>2 DEF PublishOK, PublishFails, MessageInv, TypeInv, TypeOK
<1>3. CASE ReadContent(r) \/ WriteEvent(r) \/ ReadError(r) \/ ReadDone(r)
  BY <1>3 DEF ReadContent, WriteEvent, ReadError, ReadDone
<1>4. CASE ChannelClosed(r) \/ SettleCheck(r) \/ Release(r)
  BY <1>4 DEF ChannelClosed, SettleCheck, Release
<1>5. QED
  BY <1>1, <1>2, <1>3, <1>4 DEF Stream

\* A settled message and a published event stay as they are through every
\* later step, also when two requests of a session overlap after a lapse.
THEOREM OutcomeFinalHolds == Spec => OutcomeFinal
<1>1. Init => MessageInv
  BY DEF Init, MessageInv, BeforeSave, BeforeWrite
<1>2. TypeInv /\ MessageInv /\ [Next]_vars => MessageInv'
  BY NextMessageInv
<1>3. TypeInv /\ MessageInv /\ [Next]_vars => [Kept]_vars
  <2> SUFFICES ASSUME TypeInv, MessageInv, Next PROVE Kept
    OBVIOUS
  <2>1. ASSUME NEW r \in Requests, Handler(r) PROVE Kept
    BY <2>1, BeginKeeps, StreamKeeps DEF Handler
  <2>2. CASE UNCHANGED outVars
    BY <2>2 DEF Kept, outVars
  <2>3. QED
    BY <2>1, <2>2
       DEF Next, Disconnect, DeleteSession, Tick, Crash, Quiescent, vars
<1>4. QED
  BY <1>1, <1>2, <1>3, TypeInvHolds, PTL DEF Spec, OutcomeFinal, Kept

-----------------------------------------------------------------------------
(* Settled on exit.  When database and process keep working, a message that *)
(* is still generating after its verdict belongs to a deleted session; a    *)
(* request that unwinds after it stored its messages does so because the    *)
(* session is deleted or the retries of the provider call are used up.      *)

Unserved(r) == status[r] = "none" /\ attempts[r] > MaxRetries

SettledInv ==
    \A r \in Requests :
        /\ pc[r] \in BeforeCall \cup {"calling", "unwinding"} =>
              status[r] = "none"
        /\ /\ pc[r] \in {"publishing", "releasing", "unwinding", "done"}
           /\ msg[r] = "generating"
           /\ active[SessionOf[r]]
           => pc[r] \in {"unwinding", "done"} /\ Unserved(r)

LEMMA BeginSettledInv ==
    ASSUME TypeInv, MessageInv, SettledInv, "db" \notin Faults,
           NEW r \in Requests, Begin(r)
    PROVE  SettledInv'
<1> USE RequestAssumption, BoundAssumption
    DEF SettledInv, MessageInv, TypeInv, TypeOK, AttemptsBounded, BeforeCall,
        BeforeSave, BeforeWrite, Unserved, Goto, callVars, outVars, Verdicts
<1>1. CASE Validate(r)
  BY <1>1 DEF Validate
<1>2. CASE Acquire(r)
  BY <1>2 DEF Acquire
<1>3. CASE AcquireRefused(r)
  BY <1>3 DEF AcquireRefused
<1>4. CASE AcquireReplyLost(r)
  BY <1>4 DEF AcquireReplyLost
<1>5. CASE CheckSession(r)
  BY <1>5 DEF CheckSession
<1>6. CASE SaveMessages(r)
  BY <1>6 DEF SaveMessages
<1>7. CASE FindSession(r) \/ LoadContext(r)
  BY <1>7 DEF FindSession, LoadContext
<1>8. CASE CallSucceeds(r)
  BY <1>8 DEF CallSucceeds
<1>9. CASE CallFails(r)
  BY <1>9 DEF CallFails
<1>10. CASE Unwind(r)
  BY <1>10 DEF Unwind
<1>11. QED
  BY <1>1, <1>2, <1>3, <1>4, <1>5, <1>6, <1>7, <1>8, <1>9, <1>10 DEF Begin

LEMMA StreamSettledInv ==
    ASSUME TypeInv, MessageInv, SettledInv, "db" \notin Faults,
           NEW r \in Requests, Stream(r)
    PROVE  SettledInv'
<1> USE RequestAssumption, BoundAssumption
    DEF SettledInv, MessageInv, TypeInv, TypeOK, AttemptsBounded, BeforeCall,
        BeforeSave, BeforeWrite, Unserved, Goto, callVars, outVars, Verdicts
<1>1. CASE ReadContent(r)
  BY <1>1 DEF ReadContent
<1>2. CASE WriteEvent(r)
  BY <1>2 DEF WriteEvent
<1>3. CASE ReadError(r)
  BY <1>3 DEF ReadError
<1>4. CASE ReadDone(r)
  BY <1>4 DEF ReadDone
<1>5. CASE ChannelClosed(r)
  BY <1>5 DEF ChannelClosed
<1>6. CASE SettleCheck(r)
  BY <1>6 DEF SettleCheck
<1>7. CASE SettleWrite(r)
  BY <1>7 DEF SettleWrite, Outcome
<1>8. CASE PublishOK(r)
  BY <1>8 DEF PublishOK
<1>9. CASE PublishFails(r)
  BY <1>9 DEF PublishFails
<1>10. CASE Release(r)
  BY <1>10 DEF Release
<1>11. QED
  BY <1>1, <1>2, <1>3, <1>4, <1>5, <1>6, <1>7, <1>8, <1>9, <1>10 DEF Stream

LEMMA NextSettledInv ==
    ASSUME TypeInv, MessageInv, SettledInv, Faults \cap {"db", "crash"} = {},
           [Next]_vars
    PROVE  SettledInv'
<1>1. ASSUME NEW r \in Requests, Handler(r) PROVE SettledInv'
  BY <1>1, BeginSettledInv, StreamSettledInv DEF Handler
<1>2. ASSUME UNCHANGED <<pc, status, attempts, msg, active>>
      PROVE  SettledInv'
  BY <1>2 DEF SettledInv, Unserved
<1>3. ASSUME NEW s \in Sessions, DeleteSession(s) PROVE SettledInv'
  BY <1>3, RequestAssumption
     DEF DeleteSession, SettledInv, Unserved, TypeInv, TypeOK, callVars, outVars
<1>4. ~ Crash
  BY DEF Crash
<1>5. QED
  BY <1>1, <1>2, <1>3, <1>4
     DEF Next, Disconnect, Tick, Quiescent, vars, callVars, outVars

\* A message stays generating after its request only when the database or the
\* process failed, the session was deleted, or no provider call returned a
\* stream.
THEOREM SettledOnExitHolds == Spec => []SettledOnExit
<1>1. ASSUME Faults \cap {"db", "crash"} # {}
      PROVE  SettledOnExit
  BY <1>1 DEF SettledOnExit
<1>2. ASSUME Faults \cap {"db", "crash"} = {}
      PROVE  Spec => []SettledInv
  <2>1. Init => SettledInv /\ MessageInv
    BY DEF Init, SettledInv, MessageInv, BeforeSave, BeforeWrite
  <2>2. TypeInv /\ MessageInv /\ [Next]_vars => MessageInv'
    BY NextMessageInv
  <2>3. TypeInv /\ MessageInv /\ SettledInv /\ [Next]_vars => SettledInv'
    BY <1>2, NextSettledInv
  <2>4. QED
    BY <2>1, <2>2, <2>3, TypeInvHolds, PTL DEF Spec
<1>3. SettledInv => SettledOnExit
  BY DEF SettledInv, SettledOnExit, Unserved
<1>4. CASE Faults \cap {"db", "crash"} # {}
  BY <1>1, <1>4, PTL
<1>5. CASE Faults \cap {"db", "crash"} = {}
  BY <1>2, <1>3, <1>5, PTL
<1>6. QED
  BY <1>4, <1>5

-----------------------------------------------------------------------------
(* Refinement.  While one request per session is in its section, Current(s)  *)
(* is that request, before a step and after it.                              *)

Work == [s \in Sessions |-> Current(s)]

LEMMA CurrentIs ==
    ASSUME SingleGenerator, NEW r \in Requests, pc[r] \in Section
    PROVE  Current(SessionOf[r]) = r
  BY DEF SingleGenerator, Current

LEMMA CurrentNone ==
    ASSUME NEW s,
           \A r \in Requests : SessionOf[r] = s => pc[r] \notin Section
    PROVE  Current(s) = NoRequest
  BY DEF Current

LEMMA CurrentSame ==
    ASSUME SingleGenerator, SingleGenerator',
           \A r \in Requests : pc'[r] \in Section <=> pc[r] \in Section
    PROVE  Work' = Work
<1>1. SUFFICES ASSUME NEW s \in Sessions PROVE Current(s)' = Current(s)
  BY DEF Work
<1>2. CASE \E r \in Requests : SessionOf[r] = s /\ pc[r] \in Section
  <2>1. PICK r \in Requests : SessionOf[r] = s /\ pc[r] \in Section
    BY <1>2
  <2>2. Current(s) = r
    BY <2>1, CurrentIs
  <2>3. Current(s)' = r
    <3>1. pc'[r] \in Section
      BY <2>1
    <3>2. QED
      BY <2>1, <3>1 DEF SingleGenerator, Current
  <2>4. QED
    BY <2>2, <2>3
<1>3. CASE ~ \E r \in Requests : SessionOf[r] = s /\ pc[r] \in Section
  <2>1. Current(s) = NoRequest
    BY <1>3 DEF Current
  <2>2. Current(s)' = NoRequest
    BY <1>3 DEF Current
  <2>3. QED
    BY <2>1, <2>2
<1>4. QED
  BY <1>2, <1>3

\* A request that enters or leaves its section changes its own session only.
LEMMA CurrentElsewhere ==
    ASSUME TypeInv, SingleGenerator, SingleGenerator',
           NEW r \in Requests, NEW label, Goto(r, label),
           NEW s \in Sessions, s # SessionOf[r]
    PROVE  Current(s)' = Current(s)
<1>1. \A q \in Requests : SessionOf[q] = s => pc'[q] = pc[q]
  BY DEF Goto, TypeInv, TypeOK
<1>2. CASE \E q \in Requests : SessionOf[q] = s /\ pc[q] \in Section
  <2>1. PICK q \in Requests : SessionOf[q] = s /\ pc[q] \in Section
    BY <1>2
  <2>2. Current(s) = q
    BY <2>1, CurrentIs
  <2>3. Current(s)' = q
    BY <1>1, <2>1 DEF SingleGenerator, Current
  <2>4. QED
    BY <2>2, <2>3
<1>3. CASE ~ \E q \in Requests : SessionOf[q] = s /\ pc[q] \in Section
  <2>1. Current(s) = NoRequest
    BY <1>3 DEF Current
  <2>2. Current(s)' = NoRequest
    BY <1>1, <1>3 DEF Current
  <2>3. QED
    BY <2>1, <2>2
<1>4. QED
  BY <1>2, <1>3

\* Acquire is Start: the free lock means that the session is idle.
LEMMA AcquireStarts ==
    ASSUME TypeInv, TimelyInv, SingleGenerator, SingleGenerator',
           NEW r \in Requests, Acquire(r)
    PROVE  Promise!Start(r)
<1>1. SessionOf[r] \in Sessions /\ pc'[r] = "checking"
  BY RequestAssumption DEF Acquire, Goto, TypeInv, TypeOK
<1>2. Current(SessionOf[r]) = NoRequest
  BY RequestAssumption, CurrentNone DEF Acquire, TimelyInv
<1>3. Current(SessionOf[r])' = r
  BY <1>1 DEF SingleGenerator, Current, Section
<1>4. \A s \in Sessions : s # SessionOf[r] => Current(s)' = Current(s)
  BY CurrentElsewhere DEF Acquire
<1>5. Work' = [Work EXCEPT ![SessionOf[r]] = r]
  BY <1>1, <1>3, <1>4 DEF Work
<1>6. Work[SessionOf[r]] = NoRequest
  BY <1>1, <1>2 DEF Work
<1>7. UNCHANGED msg
  BY DEF Acquire, outVars
<1>8. QED
  BY <1>5, <1>6, <1>7 DEF Promise!Start, Work

\* Leaving the section is Finish.
LEMMA LeavingFinishes ==
    ASSUME TypeInv, SingleGenerator, SingleGenerator', UNCHANGED msg,
           NEW r \in Requests, pc[r] \in Section, Goto(r, "done")
    PROVE  Promise!Finish(r)
<1>1. SessionOf[r] \in Sessions /\ pc'[r] = "done"
  BY RequestAssumption DEF Goto, TypeInv, TypeOK
<1>2. Current(SessionOf[r]) = r
  BY CurrentIs
<1>3. Current(SessionOf[r])' = NoRequest
  <2>1. \A q \in Requests :
           SessionOf[q] = SessionOf[r] => pc'[q] \notin Section
    BY <1>1 DEF SingleGenerator, Goto, TypeInv, TypeOK, Section
  <2>2. QED
    BY <2>1 DEF Current
<1>4. \A s \in Sessions : s # SessionOf[r] => Current(s)' = Current(s)
  BY CurrentElsewhere
<1>5. Work' = [Work EXCEPT ![SessionOf[r]] = NoRequest]
  BY <1>1, <1>3, <1>4 DEF Work
<1>6. Work[SessionOf[r]] = r
  BY <1>1, <1>2 DEF Work
<1>7. QED
  BY <1>5, <1>6 DEF Promise!Finish, Work

\* A step that stays on its side of the section and leaves the message alone
\* is a stutter.
LEMMA MoveStutters ==
    ASSUME TypeInv, SingleGenerator, SingleGenerator', UNCHANGED msg,
           NEW r \in Requests, NEW label, Goto(r, label),
           label \in Section <=> pc[r] \in Section
    PROVE  UNCHANGED <<Work, msg>>
<1>1. \A q \in Requests : pc'[q] \in Section <=> pc[q] \in Section
  BY DEF Goto, TypeInv, TypeOK
<1>2. QED
  BY <1>1, CurrentSame

\* Writing the message of a request in its section is Place or Settle.
LEMMA SaveOrSettle ==
    ASSUME TypeInv, MessageInv, SingleGenerator, SingleGenerator',
           NEW r \in Requests, SaveMessages(r) \/ SettleWrite(r)
    PROVE  Promise!Place(r) \/ Promise!Settle(r) \/ UNCHANGED <<Work, msg>>
<1>1. pc[r] \in Section /\ pc'[r] \in Section /\ SessionOf[r] \in Sessions
  BY RequestAssumption
     DEF SaveMessages, SettleWrite, Goto, Section, TypeInv, TypeOK
<1>2. \A q \in Requests : pc'[q] \in Section <=> pc[q] \in Section
  BY <1>1 DEF SaveMessages, SettleWrite, Goto, TypeInv, TypeOK
<1>3. Work' = Work
  BY <1>2, CurrentSame
<1>4. Work[SessionOf[r]] = r
  BY <1>1, CurrentIs DEF Work
<1>5. CASE SaveMessages(r)
  <2>1. msg[r] = "absent"
    BY <1>5 DEF SaveMessages, MessageInv, BeforeSave
  <2>2. UNCHANGED msg \/ msg' = [msg EXCEPT ![r] = "generating"]
    BY <1>5 DEF SaveMessages
  <2>3. QED
    BY <1>3, <1>4, <2>1, <2>2 DEF Promise!Place, Work
<1>6. CASE SettleWrite(r)
  <2>1. msg[r] = "generating"
    BY <1>6 DEF SettleWrite, MessageInv, BeforeWrite
  <2>2. Outcome(status[r]) \in Promise!Outcomes
    BY <1>6 DEF SettleWrite, TypeInv, TypeOK, AttemptsBounded, Verdicts,
                Outcome, Promise!Outcomes
  <2>3. UNCHANGED msg \/ msg' = [msg EXCEPT ![r] = Outcome(status[r])]
    BY <1>6 DEF SettleWrite
  <2>4. QED
    BY <1>3, <1>4, <2>1, <2>2, <2>3 DEF Promise!Settle, Work
<1>7. QED
  BY <1>5, <1>6

LEMMA HandlerImplements ==
    ASSUME TypeInv, MessageInv, TimelyInv, SingleGenerator, SingleGenerator',
           NEW r \in Requests, Handler(r)
    PROVE  [Promise!GNext]_<<Work, msg>>
<1> USE DEF Section, callVars, outVars
<1>1. CASE Acquire(r)
  BY <1>1, AcquireStarts DEF Promise!GNext
<1>2. CASE Unwind(r) \/ Release(r)
  BY <1>2, LeavingFinishes DEF Unwind, Release, Promise!GNext
<1>3. CASE SaveMessages(r) \/ SettleWrite(r)
  BY <1>3, SaveOrSettle DEF Promise!GNext
<1>4. CASE \/ Validate(r) \/ AcquireRefused(r) \/ AcquireReplyLost(r)
           \/ CheckSession(r) \/ FindSession(r) \/ LoadContext(r)
           \/ CallSucceeds(r) \/ CallFails(r)
  BY <1>4, MoveStutters
     DEF Validate, AcquireRefused, AcquireReplyLost, CheckSession,
         FindSession, LoadContext, CallSucceeds, CallFails
<1>5. CASE \/ ReadContent(r) \/ WriteEvent(r) \/ ReadError(r) \/ ReadDone(r)
           \/ ChannelClosed(r) \/ SettleCheck(r) \/ PublishOK(r)
           \/ PublishFails(r)
  BY <1>5, MoveStutters
     DEF ReadContent, WriteEvent, ReadError, ReadDone, ChannelClosed,
         SettleCheck, PublishOK, PublishFails
<1>6. QED
  BY <1>1, <1>2, <1>3, <1>4, <1>5 DEF Handler, Begin, Stream

LEMMA NextImplements ==
    ASSUME TypeInv, MessageInv, TimelyInv, SingleGenerator, SingleGenerator',
           [Next]_vars
    PROVE  [Promise!GNext]_<<Work, msg>>
<1>1. ASSUME NEW r \in Requests, Handler(r)
      PROVE  [Promise!GNext]_<<Work, msg>>
  BY <1>1, HandlerImplements
<1>2. CASE UNCHANGED <<pc, msg>>
  BY <1>2, CurrentSame
<1>3. CASE Crash
  <2>1. \A s \in Sessions : Current(s)' = NoRequest
    BY <1>3 DEF Crash, Current, InFlight, Section, TypeInv, TypeOK
  <2>2. Work' = [s \in Sessions |-> NoRequest]
    BY <2>1 DEF Work
  <2>3. QED
    BY <1>3, <2>2 DEF Crash, outVars, Promise!GNext, Promise!Halt, Work
<1>4. QED
  BY <1>1, <1>2, <1>3
     DEF Next, Disconnect, DeleteSession, Tick, Quiescent, vars, outVars

\* With a deadline shorter than the TTL, and time spent in the provider call
\* only, the stream handler keeps the promise of Generation through every
\* fault: one request per session, an answer placed once and settled at most
\* once, by the request that has the session.
THEOREM TimelyKeepsPromise ==
    ASSUME Timely
    PROVE  Spec => KeepsPromise
<1>1. Init => Promise!GInit
  BY DEF Init, Promise!GInit, Current, Section
<1>2. Init => TimelyInv /\ MessageInv
  BY DEF Init, TimelyInv, MessageInv, BeforeSave, BeforeWrite, Section
<1>3. TypeInv /\ TimelyInv /\ MessageInv /\ [Next]_vars =>
        TimelyInv' /\ MessageInv'
  BY NextTimelyInv, NextMessageInv
<1>4. TimelyInv => SingleGenerator
  BY TimelyInvExcludes
<1>5. TypeInv /\ MessageInv /\ TimelyInv /\ SingleGenerator /\ SingleGenerator'
        /\ [Next]_vars => [Promise!GNext]_(Promise!gvars)
  BY NextImplements DEF Promise!gvars, Work
<1>6. QED
  BY <1>1, <1>2, <1>3, <1>4, <1>5, TypeInvHolds, PTL
     DEF Spec, KeepsPromise, Promise!GSpec
=============================================================================
