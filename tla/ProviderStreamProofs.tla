------------------------ MODULE ProviderStreamProofs ------------------------
(***************************************************************************)
(* Theorems about ProviderStream, for every capacity of the channel and    *)
(* every length of the answer.                                             *)
(***************************************************************************)
EXTENDS ProviderStream, TLAPS

-----------------------------------------------------------------------------
(* The invariant: where the content chunks are, and what a channel that is  *)
(* closed means.                                                            *)

\* Nothing has been scanned before the call was opened.
Unopened == receiver = "calling" => producer = "none" /\ scanned = 0

\* Every chunk scanned has been received, is in the channel or is about to be
\* sent, unless it was dropped by a producer that then ended for good.
Accounted ==
    /\ received + queued <= scanned
    /\ producer \in {"none", "scanning", "finishing"} =>
          received + queued = scanned
    /\ producer = "sending" => received + queued + 1 = scanned
    /\ last # "none" => producer = "ended" /\ received + queued = scanned

\* A final chunk is what the producer ends with, and the reader concludes
\* success from it only after all that came before.
FinalIsLast ==
    /\ producer = "finishing" => final # "none"
    /\ outcome = "success" => last = "done" /\ queued = 0

\* An error sent had a cause, and Cleanup is not one that the handler sees.
Caused ==
    /\ final = "err" \/ last = "err" => broken \/ gone \/ expired \/ cleaned
    /\ cleaned => receiver = "left"

IInv ==
    /\ TypeOK
    /\ Unopened
    /\ Accounted
    /\ FinalIsLast
    /\ ClosedMeansDone
    /\ Caused
    /\ FailureHasCause

LEMMA InitIInv == Init => IInv
<1> SUFFICES ASSUME Init PROVE IInv
  OBVIOUS
<1>1. TypeOK
  <2>1. scanned \in 0..MaxContents /\ queued \in 0..Capacity
          /\ received \in 0..MaxContents
    BY SizeAssumption, SMT DEF Init
  <2>2. QED
    BY <2>1, Zenon DEF Init, TypeOK
<1>2. /\ Unopened /\ Accounted /\ FinalIsLast /\ ClosedMeansDone
      /\ Caused /\ FailureHasCause
  BY DEF Init, Unopened, Accounted, FinalIsLast, ClosedMeansDone, Caused,
     FailureHasCause
<1>3. QED
  BY <1>1, <1>2 DEF IInv

LEMMA ProducerIInv ==
    ASSUME IInv, Open \/ OpenFails \/ Scan \/ Send
    PROVE  IInv'
<1> USE SizeAssumption
    DEF IInv, TypeOK, Unopened, Accounted, FinalIsLast, ClosedMeansDone,
        Caused, FailureHasCause, CtxDone, callVars, channelVars, contextVars
<1>1. CASE Open
  BY <1>1 DEF Open
<1>2. CASE OpenFails
  BY <1>2 DEF OpenFails
<1>3. CASE ScanContent
  BY <1>3 DEF ScanContent
<1>4. CASE SeeContext
  BY <1>4 DEF SeeContext
<1>5. CASE ScanEnd
  BY <1>5 DEF ScanEnd
<1>6. CASE ScanFails
  BY <1>6 DEF ScanFails, Interrupted
<1>7. CASE SendContent
  BY <1>7 DEF SendContent, Room
<1>8. CASE SendFinal
  BY <1>8 DEF SendFinal
<1>9. CASE Abandon
  BY <1>9 DEF Abandon
<1>10. QED
  BY <1>1, <1>2, <1>3, <1>4, <1>5, <1>6, <1>7, <1>8, <1>9 DEF Scan, Send

LEMMA ReceiverIInv ==
    ASSUME IInv, Receive
    PROVE  IInv'
<1> USE SizeAssumption
    DEF IInv, TypeOK, Unopened, Accounted, FinalIsLast, ClosedMeansDone,
        Caused, FailureHasCause, CtxDone, callVars, channelVars, contextVars, Conclude, Summarize
<1>1. CASE ReceiveContent
  BY <1>1 DEF ReceiveContent
<1>2. CASE WriteEvent
  BY <1>2 DEF WriteEvent
<1>3. CASE ReceiveDone
  BY <1>3 DEF ReceiveDone
<1>4. CASE ReceiveErr
  BY <1>4 DEF ReceiveErr
<1>5. CASE ReceiveClose
  BY <1>5 DEF ReceiveClose
<1>6. CASE Cleanup
  BY <1>6 DEF Cleanup
<1>7. QED
  BY <1>1, <1>2, <1>3, <1>4, <1>5, <1>6 DEF Receive

LEMMA NextIInv ==
    ASSUME IInv, [Next]_vars
    PROVE  IInv'
<1> USE DEF IInv, TypeOK, Unopened, Accounted, FinalIsLast, ClosedMeansDone,
            Caused, FailureHasCause, CtxDone, callVars, channelVars, contextVars
<1>1. CASE Disconnect
  BY <1>1 DEF Disconnect
<1>2. CASE Expire
  BY <1>2 DEF Expire
<1>3. CASE UNCHANGED vars
  BY <1>3 DEF vars
<1>4. QED
  BY <1>1, <1>2, <1>3, ProducerIInv, ReceiverIInv DEF Next, Rest

LEMMA IInvHolds == Spec => []IInv
<1>1. QED
  BY InitIInv, NextIInv, PTL DEF Spec

\* Every reachable state is well typed: the channel never holds more than its
\* capacity, and the reader never gets more chunks than were scanned.
THEOREM TypeCorrect == Spec => []TypeOK
<1>1. IInv => TypeOK
  BY DEF IInv
<1>2. QED
  BY <1>1, IInvHolds, PTL

\* The answer stored as completed lacks none of the chunks scanned, for every
\* capacity and length, every disconnect and every deadline
\* (chat_handler.go:167-185).
THEOREM WholeAnswerHolds == Spec => []WholeAnswer
<1>1. IInv => WholeAnswer
  BY SizeAssumption DEF IInv, TypeOK, Accounted, FinalIsLast, WholeAnswer
<1>2. QED
  BY <1>1, IInvHolds, PTL

\* A channel closed without a final chunk means that the context is done: the
\* assumption under which chat_handler.go:189-200 tells a cancellation from a
\* failure, and the guard of ChannelClosed in ChatStream.
THEOREM ClosedMeansDoneHolds == Spec => []ClosedMeansDone
<1>1. IInv => ClosedMeansDone
  BY DEF IInv
<1>2. QED
  BY <1>1, IInvHolds, PTL

\* A call reported as failed did fail; a channel that the provider closes at
\* will never makes the handler report a failure of its own
\* (chat_handler.go:189-200).
THEOREM FailureHasCauseHolds == Spec => []FailureHasCause
<1>1. IInv => FailureHasCause
  BY DEF IInv
<1>2. QED
  BY <1>1, IInvHolds, PTL
=============================================================================
