-------------------------- MODULE ChatWindowProofs --------------------------
(***************************************************************************)
(* The invariants of ChatWindow hold for any sessions, messages and        *)
(* windows.                                                                *)
(*                                                                         *)
(* A new window has a new number, so that nothing under way is of it; in   *)
(* one window the lock of handleSend makes the answers follow each other   *)
(* until a response goes on after the end of its answer was told.          *)
(***************************************************************************)
EXTENDS ChatWindow, TLAPS

Waits(k) == Here(k) /\ stream[k] \in {"posted", "open"}
Reads(k) == Here(k) /\ (stream[k] \in {"posted", "open"} \/ k \in refreshing)
Excused == Continued({"late", "broken"})

\* Nothing is under way for a window that is still to come.
Numbered ==
    /\ \A k \in Sends : home[k].window <= mounts
    /\ \A k \in Sends :
        stream[k] # "unsent" \/ k \in refreshing => home[k].window # 0
    /\ \A l \in loads : l.window <= mounts /\ l.window # 0

OneAnswer ==
    window # 0 /\ ~Excused =>
        /\ \A k \in Sends : Waits(k) => generating
        /\ \A j, k \in Sends : Waits(j) /\ Waits(k) => j = k
        /\ \A j, k \in streamingContent : j = k
        /\ \A k \in Sends : Waits(k) => streamingContent \subseteq {k}

OwnSession ==
    window # 0 /\ clean =>
        /\ \A l \in loads : l.window = window => l.session = active
        /\ \A k \in Sends : Reads(k) => home[k].session = active
        /\ (\E l \in loads : l.window = window) \/ messages = active

IInv == TypeOK /\ Numbered /\ OneAnswer /\ OwnSession

\* The invariant holds initially.
LEMMA InitIInv == Init => IInv
<1> SUFFICES ASSUME Init PROVE IInv
  OBVIOUS
<1> USE BoundAssumption DEF Init, Sends, Windows, Homes, Nowhere
<1>1. TypeOK
  <2>1. Nowhere \in Homes
    OBVIOUS
  <2> QED
    BY <2>1 DEF TypeOK
<1>2. Numbered
  BY DEF Numbered
<1>3. OneAnswer /\ OwnSession
  BY DEF OneAnswer, OwnSession
<1> QED
  BY <1>1, <1>2, <1>3 DEF IInv

LEMMA SelectSessionIInv ==
    ASSUME IInv, NEW s \in Sessions, SelectSession(s)
    PROVE  IInv'
<1> USE BoundAssumption, SessionAssumption DEF IInv
<1> USE DEF SelectSession, pageVars, stateVars, requestVars
<1>1. CASE ~token /\ Unchanged
  <2>1. TypeOK'
    BY <1>1 DEF Unchanged, TypeOK, Sends, Windows, Homes
  <2>2. Numbered'
    BY <1>1 DEF Unchanged, TypeOK, Sends, Windows, Homes, Numbered
  <2>3. OneAnswer'
    BY <1>1 DEF Unchanged, TypeOK, Sends, Windows, Homes, Here, Numbered, OneAnswer,
       Waits, Excused, Continued
  <2>4. OwnSession'
    BY <1>1 DEF Unchanged, TypeOK, Sends, Windows, Homes, Here, Numbered, OwnSession,
       Reads
  <2> QED
    BY <2>1, <2>2, <2>3, <2>4
<1>2. CASE token /\ window = 0 /\ Mount(s)
  <2>1. TypeOK'
    <3>1. [window |-> mounts + 1, session |-> s] \in Homes
      BY <1>2 DEF Mount, Fresh, TypeOK, Homes, Windows
    <3>2. loads' \subseteq Homes'
      BY <1>2, <3>1 DEF Mount, TypeOK, Homes, Windows
    <3>3. /\ mounts' \in Windows /\ window' = mounts' /\ window' # 0
          /\ active' \in Sessions /\ token'
      BY <1>2 DEF Mount, TypeOK, Windows
    <3> QED
      BY <1>2, <3>2, <3>3 DEF Mount, Fresh, TypeOK, Homes, Windows
  <2>2. Numbered'
    BY <1>2 DEF Mount, Fresh, TypeOK, Sends, Windows, Homes, Numbered
  <2>3. OneAnswer'
    BY <1>2 DEF Mount, Fresh, TypeOK, Sends, Windows, Homes, Here, Numbered, OneAnswer,
       Waits, Excused, Continued
  <2>4. OwnSession'
    <3> DEFINE new == [window |-> mounts + 1, session |-> s]
    <3>1. new \in loads' /\ new.window = window'
      BY <1>2 DEF Mount, Fresh, TypeOK
    <3>2. \A l \in loads' : l.window = window' => l.session = active'
      BY <1>2 DEF Mount, Fresh, TypeOK, Windows, Numbered
    <3>3. \A k \in Sends : ~Reads(k)'
      BY <1>2 DEF Mount, Fresh, TypeOK, Windows, Homes, Numbered, Reads, Here
    <3> QED
      BY <3>1, <3>2, <3>3 DEF OwnSession
  <2> QED
    BY <2>1, <2>2, <2>3, <2>4
<1>3. CASE token /\ window # 0 /\ Change(s)
  <2>1. TypeOK'
    BY <1>3 DEF Change, TypeOK, Sends, Windows, Homes
  <2>2. Numbered'
    BY <1>3 DEF Change, TypeOK, Sends, Windows, Homes, Numbered
  <2>3. OneAnswer'
    BY <1>3 DEF Change, TypeOK, Sends, Windows, Homes, Here, Numbered, OneAnswer,
       Waits, Excused, Continued
  <2>4. OwnSession'
    <3>1. CASE Foreign(s)
      BY <1>3, <3>1 DEF Change, OwnSession
    <3>2. CASE ~Foreign(s)
      <4>1. \A k \in Sends : Reads(k)' => home'[k].session = active'
        BY <1>3, <3>2 DEF Change, Foreign, Reads, Here
      <4>2. \A l \in loads' : l.window = window' => l.session = active'
        BY <1>3, <3>2 DEF Change, Foreign
      <4>3. \E l \in loads' : l.window = window'
        <5> DEFINE new == [window |-> window, session |-> s]
        <5>1. new \in loads' /\ new.window = window'
          BY <1>3 DEF Change
        <5> QED
          BY <5>1
      <4> QED
        BY <4>1, <4>2, <4>3 DEF OwnSession
    <3> QED
      BY <3>1, <3>2
  <2> QED
    BY <2>1, <2>2, <2>3, <2>4
<1> QED
  BY <1>1, <1>2, <1>3 DEF SelectSession

LEMMA DeselectIInv ==
    ASSUME IInv, Deselect
    PROVE  IInv'
<1> USE BoundAssumption, SessionAssumption DEF IInv
<1> USE DEF Deselect, Unmount, Fresh, pageVars, stateVars, requestVars
<1>1. TypeOK'
  BY DEF TypeOK, Sends, Windows, Homes, Here, Numbered
<1>2. Numbered'
  BY DEF TypeOK, Sends, Windows, Homes, Here, Numbered
<1>3. OneAnswer'
  BY DEF TypeOK, Sends, Windows, Homes, Here, Numbered, OneAnswer, Waits, Excused, Continued
<1>4. OwnSession'
  BY DEF TypeOK, Sends, Windows, Homes, Here, Numbered, OwnSession, Reads
<1> QED
  BY <1>1, <1>2, <1>3, <1>4

LEMMA LogoutIInv ==
    ASSUME IInv, Logout
    PROVE  IInv'
<1> USE BoundAssumption, SessionAssumption DEF IInv
<1> USE DEF Logout, Unmount, Fresh, pageVars, stateVars, requestVars
<1>1. TypeOK'
  BY DEF TypeOK, Sends, Windows, Homes, Here, Numbered
<1>2. Numbered'
  BY DEF TypeOK, Sends, Windows, Homes, Here, Numbered
<1>3. OneAnswer'
  BY DEF TypeOK, Sends, Windows, Homes, Here, Numbered, OneAnswer, Waits, Excused, Continued
<1>4. OwnSession'
  BY DEF TypeOK, Sends, Windows, Homes, Here, Numbered, OwnSession, Reads
<1> QED
  BY <1>1, <1>2, <1>3, <1>4

LEMMA LoginIInv ==
    ASSUME IInv, Login
    PROVE  IInv'
<1> USE BoundAssumption, SessionAssumption DEF IInv
<1> USE DEF Login, pageVars, stateVars, requestVars
<1>1. CASE active = 0 /\ Unchanged
  <2>1. TypeOK' /\ Numbered'
    BY <1>1 DEF Unchanged, TypeOK, Numbered
  <2>2. OneAnswer'
    BY <1>1 DEF Unchanged, OneAnswer, Waits, Excused, Continued, Here
  <2>3. OwnSession'
    BY <1>1 DEF Unchanged, TypeOK, OwnSession, Reads, Here
  <2> QED
    BY <2>1, <2>2, <2>3
<1>2. CASE active # 0 /\ Mount(active)
  <2>1. TypeOK'
    <3>1. [window |-> mounts + 1, session |-> active] \in Homes
      BY <1>2 DEF Mount, Fresh, TypeOK, Homes, Windows
    <3>2. loads' \subseteq Homes'
      BY <1>2, <3>1 DEF Mount, TypeOK, Homes, Windows
    <3>3. /\ mounts' \in Windows /\ window' = mounts' /\ window' # 0
          /\ active' \in Sessions /\ token'
      BY <1>2 DEF Mount, TypeOK, Windows
    <3> QED
      BY <1>2, <3>2, <3>3 DEF Mount, Fresh, TypeOK, Homes, Windows
  <2>2. Numbered'
    BY <1>2 DEF Mount, Fresh, TypeOK, Sends, Windows, Homes, Numbered
  <2>3. OneAnswer'
    BY <1>2 DEF Mount, Fresh, TypeOK, Sends, Windows, Homes, Here, Numbered,
       OneAnswer, Waits, Excused, Continued
  <2>4. OwnSession'
    <3> DEFINE new == [window |-> mounts + 1, session |-> active]
    <3>1. new \in loads' /\ new.window = window'
      BY <1>2 DEF Mount, Fresh, TypeOK
    <3>2. \A l \in loads' : l.window = window' => l.session = active'
      BY <1>2 DEF Mount, Fresh, TypeOK, Windows, Numbered
    <3>3. \A k \in Sends : ~Reads(k)'
      BY <1>2 DEF Mount, Fresh, TypeOK, Windows, Homes, Numbered, Reads, Here
    <3> QED
      BY <3>1, <3>2, <3>3 DEF OwnSession
  <2> QED
    BY <2>1, <2>2, <2>3, <2>4
<1> QED
  BY <1>1, <1>2 DEF Login

LEMMA ReloadIInv ==
    ASSUME IInv, Reload
    PROVE  IInv'
<1> USE BoundAssumption, SessionAssumption DEF IInv
<1> USE DEF Reload, Fresh, pageVars, stateVars, requestVars
<1>1. TypeOK'
  BY DEF TypeOK, Sends, Windows, Homes, Here, Numbered
<1>2. Numbered'
  BY DEF TypeOK, Sends, Windows, Homes, Here, Numbered
<1>3. OneAnswer'
  BY DEF TypeOK, Sends, Windows, Homes, Here, Numbered, OneAnswer, Waits, Excused, Continued
<1>4. OwnSession'
  BY DEF TypeOK, Sends, Windows, Homes, Here, Numbered, OwnSession, Reads
<1> QED
  BY <1>1, <1>2, <1>3, <1>4

LEMMA SendIInv ==
    ASSUME IInv, NEW k \in Sends, Send(k)
    PROVE  IInv'
<1> USE BoundAssumption, SessionAssumption DEF IInv
<1> USE DEF Send, pageVars, stateVars, requestVars
<1>1. TypeOK'
  BY DEF TypeOK, Sends, Windows, Homes, Here, Numbered
<1>2. Numbered'
  BY DEF TypeOK, Sends, Windows, Homes, Here, Numbered
<1>3. OneAnswer'
  BY DEF TypeOK, Sends, Windows, Homes, Here, Numbered, OneAnswer, Waits, Excused, Continued
<1>4. OwnSession'
  BY DEF TypeOK, Sends, Windows, Homes, Here, Numbered, OwnSession, Reads
<1> QED
  BY <1>1, <1>2, <1>3, <1>4

LEMMA AcceptIInv ==
    ASSUME IInv, NEW k \in Sends, Accept(k)
    PROVE  IInv'
<1> USE BoundAssumption, SessionAssumption DEF IInv
<1> USE DEF Accept, Becomes, pageVars, stateVars, requestVars
<1>1. TypeOK'
  BY DEF TypeOK, Sends, Windows, Homes, Here, Numbered
<1>2. Numbered'
  BY DEF TypeOK, Sends, Windows, Homes, Here, Numbered
<1>3. OneAnswer'
  BY DEF TypeOK, Sends, Windows, Homes, Here, Numbered, OneAnswer, Waits, Excused, Continued
<1>4. OwnSession'
  BY DEF TypeOK, Sends, Windows, Homes, Here, Numbered, OwnSession, Reads
<1> QED
  BY <1>1, <1>2, <1>3, <1>4

LEMMA ChunkIInv ==
    ASSUME IInv, NEW k \in Sends, Chunk(k)
    PROVE  IInv'
<1> USE BoundAssumption, SessionAssumption DEF IInv
<1> USE DEF Chunk, pageVars, stateVars, requestVars
<1>1. TypeOK'
  BY DEF TypeOK, Sends, Windows, Homes, Here, Numbered
<1>2. Numbered'
  BY DEF TypeOK, Sends, Windows, Homes, Here, Numbered
<1>3. OneAnswer'
  BY DEF TypeOK, Sends, Windows, Homes, Here, Numbered, OneAnswer, Waits, Excused, Continued
<1>4. OwnSession'
  BY DEF TypeOK, Sends, Windows, Homes, Here, Numbered, OwnSession, Reads
<1> QED
  BY <1>1, <1>2, <1>3, <1>4

LEMMA DoneIInv ==
    ASSUME IInv, NEW k \in Sends, Done(k)
    PROVE  IInv'
<1> USE BoundAssumption, SessionAssumption DEF IInv
<1> USE DEF Done, Becomes, pageVars, stateVars, requestVars
<1>1. TypeOK'
  BY DEF TypeOK, Sends, Windows, Homes, Here, Numbered
<1>2. Numbered'
  BY DEF TypeOK, Sends, Windows, Homes, Here, Numbered
<1>3. OneAnswer'
  BY DEF TypeOK, Sends, Windows, Homes, Here, Numbered, OneAnswer, Waits, Excused, Continued
<1>4. OwnSession'
  BY DEF TypeOK, Sends, Windows, Homes, Here, Numbered, OwnSession, Reads
<1> QED
  BY <1>1, <1>2, <1>3, <1>4

LEMMA ErrorIInv ==
    ASSUME IInv, NEW k \in Sends, Error(k)
    PROVE  IInv'
<1> USE BoundAssumption, SessionAssumption DEF IInv
<1> USE DEF Error, OnError, Becomes, pageVars, stateVars, requestVars
<1>1. TypeOK'
  BY DEF TypeOK, Sends, Windows, Homes, Here, Numbered
<1>2. Numbered'
  BY DEF TypeOK, Sends, Windows, Homes, Here, Numbered
<1>3. OneAnswer'
  BY DEF TypeOK, Sends, Windows, Homes, Here, Numbered, OneAnswer, Waits, Excused, Continued
<1>4. OwnSession'
  BY DEF TypeOK, Sends, Windows, Homes, Here, Numbered, OwnSession, Reads
<1> QED
  BY <1>1, <1>2, <1>3, <1>4

LEMMA BreakIInv ==
    ASSUME IInv, NEW k \in Sends, Break(k)
    PROVE  IInv'
<1> USE BoundAssumption, SessionAssumption DEF IInv
<1> USE DEF Break, OnError, Becomes, pageVars, stateVars, requestVars
<1>1. TypeOK'
  BY DEF TypeOK, Sends, Windows, Homes, Here, Numbered
<1>2. Numbered'
  BY DEF TypeOK, Sends, Windows, Homes, Here, Numbered
<1>3. OneAnswer'
  BY DEF TypeOK, Sends, Windows, Homes, Here, Numbered, OneAnswer, Waits, Excused, Continued
<1>4. OwnSession'
  BY DEF TypeOK, Sends, Windows, Homes, Here, Numbered, OwnSession, Reads
<1> QED
  BY <1>1, <1>2, <1>3, <1>4

LEMMA CloseIInv ==
    ASSUME IInv, NEW k \in Sends, Close(k)
    PROVE  IInv'
<1> USE BoundAssumption, SessionAssumption DEF IInv
<1> USE DEF Close, Becomes, pageVars, stateVars, requestVars
<1>1. TypeOK'
  BY DEF TypeOK, Sends, Windows, Homes, Here, Numbered
<1>2. Numbered'
  BY DEF TypeOK, Sends, Windows, Homes, Here, Numbered
<1>3. OneAnswer'
  BY DEF TypeOK, Sends, Windows, Homes, Here, Numbered, OneAnswer, Waits, Excused, Continued
<1>4. OwnSession'
  BY DEF TypeOK, Sends, Windows, Homes, Here, Numbered, OwnSession, Reads
<1> QED
  BY <1>1, <1>2, <1>3, <1>4

\* Nothing for another session is under way: what OwnSession says of requests.
LEMMA NotForeign ==
    ASSUME ~Foreign(active)
    PROVE  /\ \A l \in loads : l.window = window => l.session = active
           /\ \A k \in Sends : Reads(k) => home[k].session = active
  BY DEF Foreign, Reads, Here

LEMMA RefreshedIInv ==
    ASSUME IInv, NEW k \in Sends, Refreshed(k)
    PROVE  IInv'
<1> USE BoundAssumption, SessionAssumption DEF IInv
<1> USE DEF Refreshed, Show, pageVars, stateVars, requestVars
<1>1. TypeOK'
  BY DEF TypeOK, Sends, Windows, Homes, Here, Numbered
<1>2. Numbered'
  BY DEF TypeOK, Sends, Windows, Homes, Here, Numbered
<1>3. OneAnswer'
  BY DEF TypeOK, Sends, Windows, Homes, Here, Numbered, OneAnswer, Waits, Excused, Continued
<1>4. OwnSession'
  <2>1. \A q \in Sends : Reads(q)' => Reads(q)
    BY DEF Reads, Here
  <2>2. CASE UNCHANGED <<messages, streamingContent, clean>>
    BY <2>1, <2>2 DEF OwnSession
  <2>3. CASE Here(k) /\ Show(home[k].session)
    <3>1. CASE home[k].session = active
      BY <2>1, <2>3, <3>1, NotForeign DEF OwnSession
    <3>2. CASE home[k].session # active
      BY <2>3, <3>2 DEF OwnSession, Reads
    <3> QED
      BY <3>1, <3>2
  <2> QED
    BY <2>2, <2>3
<1> QED
  BY <1>1, <1>2, <1>3, <1>4

LEMMA LoadedIInv ==
    ASSUME IInv, NEW l \in loads, Loaded(l)
    PROVE  IInv'
<1> USE BoundAssumption, SessionAssumption DEF IInv
<1> USE DEF Loaded, Show, pageVars, stateVars, requestVars
<1>1. TypeOK'
  BY DEF TypeOK, Sends, Windows, Homes, Here, Numbered
<1>2. Numbered'
  BY DEF TypeOK, Sends, Windows, Homes, Here, Numbered
<1>3. OneAnswer'
  BY DEF TypeOK, Sends, Windows, Homes, Here, Numbered, OneAnswer, Waits, Excused, Continued
<1>4. OwnSession'
  <2>1. \A k \in Sends : Reads(k)' <=> Reads(k)
    BY DEF Reads, Here
  <2>2. CASE l.window = window /\ Show(l.session)
    <3>1. CASE l.session = active
      BY <2>1, <2>2, <3>1, NotForeign DEF OwnSession
    <3>2. CASE l.session # active
      BY <2>2, <3>2 DEF OwnSession
    <3> QED
      BY <3>1, <3>2
  <2>3. CASE l.window = window /\ clean' = FALSE
    BY <2>3 DEF OwnSession
  <2>4. CASE l.window # window /\ UNCHANGED <<messages, clean>>
    <3>1. (\E m \in loads : m.window = window)
            => \E m \in loads' : m.window = window'
      BY <2>4
    <3> QED
      BY <2>1, <2>4, <3>1 DEF OwnSession
  <2> QED
    BY <2>2, <2>3, <2>4
<1> QED
  BY <1>1, <1>2, <1>3, <1>4

\* The invariant is inductive.
LEMMA StepIInv == IInv /\ [Next]_vars => IInv'
<1> SUFFICES ASSUME IInv, [Next]_vars PROVE IInv'
  OBVIOUS
<1>1. ASSUME NEW s \in Sessions, SelectSession(s) PROVE IInv'
  BY <1>1, SelectSessionIInv
<1>2. CASE Deselect \/ Logout \/ Login \/ Reload
  BY <1>2, DeselectIInv, LogoutIInv, LoginIInv, ReloadIInv
<1>3. ASSUME NEW k \in Sends,
             Send(k) \/ Accept(k) \/ Chunk(k) \/ Done(k) \/ Error(k)
      PROVE  IInv'
  BY <1>3, SendIInv, AcceptIInv, ChunkIInv, DoneIInv, ErrorIInv
<1>4. ASSUME NEW k \in Sends, Break(k) \/ Close(k) \/ Refreshed(k)
      PROVE  IInv'
  BY <1>4, BreakIInv, CloseIInv, RefreshedIInv
<1>5. ASSUME NEW l \in loads, Loaded(l) PROVE IInv'
  BY <1>5, LoadedIInv
<1>6. CASE UNCHANGED vars
  BY <1>6 DEF vars, pageVars, stateVars, requestVars, IInv, TypeOK, Numbered,
     OneAnswer, OwnSession, Waits, Reads, Excused, Continued, Here
<1> QED
  BY <1>1, <1>2, <1>3, <1>4, <1>5, <1>6 DEF Next

LEMMA IInvHolds == Spec => []IInv
  BY InitIInv, StepIInv, PTL DEF Spec

\* The types of ChatWindow: an unmounted window keeps no state, and a window is
\* mounted exactly while a session is chosen and the user is logged in.
THEOREM TypeCorrect == Spec => []TypeOK
<1>1. IInv => TypeOK
  BY DEF IInv
<1> QED
  BY <1>1, IInvHolds, PTL

\* handleSend is locked while an answer of the window is under way.
THEOREM BlockedWhileAnsweringHolds == Spec => []BlockedWhileAnswering
<1>1. IInv => BlockedWhileAnswering
  BY DEF IInv, OneAnswer, BlockedWhileAnswering, Blocked, Waits, Excused
<1> QED
  BY <1>1, IInvHolds, PTL

\* The texts of two answers are never joined.
THEOREM TextOfOneHolds == Spec => []TextOfOne
<1>1. IInv => TextOfOne
  BY DEF IInv, OneAnswer, TextOfOne, Excused
<1> QED
  BY <1>1, IInvHolds, PTL

\* The messages of another session stay only after a failed load or a change of
\* session with a request for another one under way.
THEOREM ShowsOwnSessionHolds == Spec => []ShowsOwnSession
<1>1. IInv => ShowsOwnSession
  BY DEF IInv, OwnSession, ShowsOwnSession
<1> QED
  BY <1>1, IInvHolds, PTL
=============================================================================
