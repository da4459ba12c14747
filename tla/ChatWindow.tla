----------------------------- MODULE ChatWindow -----------------------------
(***************************************************************************)
(* The browser's chat window: the callbacks of the answers it streams, of  *)
(* the refresh that follows an answer, and of the load that follows a      *)
(* change of session, in any order, while the user changes sessions, logs  *)
(* out and sends.                                                          *)
(*                                                                         *)
(* One window serves all sessions: only leaving the chat or logging out    *)
(* unmounts it, and the callbacks of an unmounted window change nothing.   *)
(* The list of messages is the session it was loaded for; the text of an   *)
(* answer under way is the answers whose chunks are in it.                 *)
(***************************************************************************)
EXTENDS Integers

CONSTANTS
    Sessions,
    MaxSends,       \* bound: messages sent
    MaxMounts       \* bound: windows mounted

ASSUME BoundAssumption == MaxSends \in Nat /\ MaxMounts \in Nat
ASSUME SessionAssumption == 0 \notin Sessions

VARIABLES
    active,         \* activeSessionId, 0 for none
    token,          \* the user is logged in
    window,         \* which window is mounted: a number, 0 for none
    mounts,         \* windows mounted so far
    messages,       \* the session of the messages shown, 0 for none
    generating,
    streamingContent,
    loads,          \* getMessages calls of the effect: [window, session]
    stream,         \* stream[k]: where the response to the k-th message is;
                    \* "late" and "broken" after a second end, see Error, Break
    home,           \* home[k]: the window and session it was sent from
    refreshing,     \* the answers whose onDone awaits getMessages
    clean           \* history: see ShowsOwnSession

pageVars == <<active, token, window, mounts>>
stateVars == <<messages, generating, streamingContent>>
requestVars == <<loads, stream, home, refreshing>>
vars == <<pageVars, stateVars, requestVars, clean>>

Sends == 1..MaxSends
Windows == 0..MaxMounts
Homes == [window : Windows, session : Sessions \cup {0}]
Nowhere == [window |-> 0, session |-> 0]

TypeOK ==
    /\ active \in Sessions \cup {0}
    /\ token \in BOOLEAN
    /\ mounts \in Windows
    /\ window \in {0, mounts}
    /\ window = 0 <=> (active = 0 \/ ~token)
    /\ messages \in Sessions \cup {0}
    /\ generating \in BOOLEAN
    /\ streamingContent \subseteq Sends
    /\ window = 0 => messages = 0 /\ ~generating /\ streamingContent = {}
    /\ loads \subseteq Homes
    /\ stream \in [Sends -> {"unsent", "posted", "open", "told", "late",
                             "broken", "closed"}]
    /\ home \in [Sends -> Homes]
    /\ refreshing \subseteq Sends
    /\ clean \in BOOLEAN

Init ==
    /\ active = 0
    /\ token = TRUE
    /\ window = 0
    /\ mounts = 0
    /\ messages = 0
    /\ generating = FALSE
    /\ streamingContent = {}
    /\ loads = {}
    /\ stream = [k \in Sends |-> "unsent"]
    /\ home = [k \in Sends |-> Nowhere]
    /\ refreshing = {}
    /\ clean = TRUE

-----------------------------------------------------------------------------
(* Mounting, leaving and changing the window.                              *)

Fresh ==
    /\ messages' = 0
    /\ generating' = FALSE
    /\ streamingContent' = {}
    /\ clean' = TRUE

\* A window is mounted for session s, and its effect loads the messages.
Mount(s) ==
    /\ mounts < MaxMounts
    /\ mounts' = mounts + 1
    /\ window' = mounts + 1
    /\ loads' = loads \cup {[window |-> mounts + 1, session |-> s]}
    /\ Fresh

Hide == window' = 0 /\ UNCHANGED <<mounts, loads, stateVars, clean>>
Unmount == window' = 0 /\ Fresh /\ UNCHANGED <<mounts, loads>>

\* A request of the mounted window, made for another session than s, has not
\* been answered.
Foreign(s) ==
    \/ \E l \in loads : l.window = window /\ l.session # s
    \/ \E k \in Sends :
        /\ home[k].window = window
        /\ home[k].session # s
        /\ \/ stream[k] \in {"posted", "open"}
           \/ k \in refreshing

\* The effect runs when sessionId changes; the window keeps its state.
ChangeSilently(s) == UNCHANGED <<window, mounts, loads, stateVars, clean>>

Change(s) ==
    /\ loads' = loads \cup {[window |-> window, session |-> s]}
    /\ clean' = ~Foreign(s)
    /\ UNCHANGED <<window, mounts, stateVars>>

Unchanged == UNCHANGED <<window, mounts, loads, stateVars, clean>>

\* onSelectSession: a click, or the answer to createSession, which may come
\* after a logout.
SelectSession(s) ==
    /\ active # s
    /\ active' = s
    /\ \/ ~token /\ Unchanged
       \/ token /\ window = 0 /\ Mount(s)
       \/ token /\ window # 0 /\ Change(s)
    /\ UNCHANGED <<token, stream, home, refreshing>>

\* deleteSession has returned, and the session it was called for was active
\* at that time: onSelectSession(0).
Deselect ==
    /\ active # 0
    /\ active' = 0
    /\ Unmount
    /\ UNCHANGED <<token, stream, home, refreshing>>

\* The user logs out, or getProfile fails; the active session is kept.
Logout ==
    /\ token
    /\ token' = FALSE
    /\ Unmount
    /\ UNCHANGED <<active, stream, home, refreshing>>

Login ==
    /\ ~token
    /\ token' = TRUE
    /\ IF active = 0 THEN Unchanged ELSE Mount(active)
    /\ UNCHANGED <<active, stream, home, refreshing>>

\* A call of the API client, of this window or of any other component, is
\* answered 401: the token is removed and the page is loaded again, and with
\* it every request is given up.
Reload ==
    /\ active' = 0
    /\ token' = FALSE
    /\ window' = 0
    /\ Fresh
    /\ loads' = {}
    /\ refreshing' = {}
    /\ stream' = [k \in Sends |-> IF stream[k] = "unsent" THEN "unsent"
                                                          ELSE "closed"]
    /\ UNCHANGED <<mounts, home>>

-----------------------------------------------------------------------------
(* handleSend and the callbacks of streamChat.                             *)

SendUnguarded(k) ==
    /\ window # 0
    /\ stream[k] = "unsent"
    /\ \A j \in Sends : stream[j] = "unsent" => k <= j
    /\ generating' = TRUE
    /\ streamingContent' = {}
    /\ stream' = [stream EXCEPT ![k] = "posted"]
    /\ home' = [home EXCEPT ![k] = [window |-> window, session |-> active]]
    /\ UNCHANGED <<pageVars, messages, loads, refreshing, clean>>

Send(k) ==
    /\ window # 0
    /\ ~generating
    /\ stream[k] = "unsent"
    /\ \A j \in Sends : stream[j] = "unsent" => k <= j
    /\ generating' = TRUE
    /\ streamingContent' = {}
    /\ stream' = [stream EXCEPT ![k] = "posted"]
    /\ home' = [home EXCEPT ![k] = [window |-> window, session |-> active]]
    /\ UNCHANGED <<pageVars, messages, loads, refreshing, clean>>

\* The window that sent k is still mounted: its setters have an effect.
Here(k) == home[k].window = window

Becomes(k, s) == stream' = [stream EXCEPT ![k] = s]

\* 200: the reader is opened.
Accept(k) ==
    /\ stream[k] = "posted"
    /\ Becomes(k, "open")
    /\ UNCHANGED <<pageVars, stateVars, loads, home, refreshing, clean>>

ChunkEnds(k) ==
    /\ stream[k] = "open"
    /\ streamingContent' = streamingContent \cup (IF Here(k) THEN {k} ELSE {})
    /\ generating' = (generating /\ ~Here(k))
    /\ UNCHANGED <<pageVars, messages, requestVars, clean>>

\* A message event: onMessage.
Chunk(k) ==
    /\ stream[k] = "open"
    /\ streamingContent' = streamingContent \cup (IF Here(k) THEN {k} ELSE {})
    /\ UNCHANGED <<pageVars, messages, generating, requestVars, clean>>

\* The done event: onDone up to its await.  The response is still open.
Done(k) ==
    /\ stream[k] = "open"
    /\ Becomes(k, "told")
    /\ generating' = (generating /\ ~Here(k))
    /\ refreshing' = refreshing \cup {k}
    /\ UNCHANGED <<pageVars, messages, streamingContent, loads, home, clean>>

OnErrorForgets(k) == UNCHANGED <<messages, streamingContent, generating>>
OnError(k) ==
    /\ generating' = (generating /\ ~Here(k))
    /\ UNCHANGED <<messages, streamingContent>>

\* An error event: of the answer, or, after the end of the answer was told,
\* of the publication of the call's event.
Error(k) ==
    /\ stream[k] \in {"open", "told"}
    /\ Becomes(k, IF stream[k] = "open" THEN "told" ELSE "late")
    /\ OnError(k)
    /\ UNCHANGED <<pageVars, loads, home, refreshing, clean>>

\* fetch or read throws, or the answer is not 200.
Break(k) ==
    /\ stream[k] \in {"posted", "open", "told", "late"}
    /\ Becomes(k, IF stream[k] \in {"posted", "open"} THEN "closed" ELSE "broken")
    /\ OnError(k)
    /\ UNCHANGED <<pageVars, loads, home, refreshing, clean>>

\* read returns done.
Close(k) ==
    /\ stream[k] = "told"
    /\ Becomes(k, "closed")
    /\ UNCHANGED <<pageVars, stateVars, loads, home, refreshing, clean>>

-----------------------------------------------------------------------------
(* getMessages returns.                                                    *)

\* The answer for session s fills the list of messages.
Show(s) ==
    /\ messages' = s
    /\ clean' = IF s = active THEN ~Foreign(s) ELSE clean

\* onDone after its await; an error is not caught and ends the callback.
Refreshed(k) ==
    /\ k \in refreshing
    /\ refreshing' = refreshing \ {k}
    /\ \/ Here(k) /\ Show(home[k].session) /\ streamingContent' = {}
       \/ UNCHANGED <<messages, streamingContent, clean>>
    /\ UNCHANGED <<pageVars, generating, loads, stream, home>>

\* An error of the load is logged, and the list stays what it was.
Loaded(l) ==
    /\ l \in loads
    /\ loads' = loads \ {l}
    /\ \/ l.window = window /\ Show(l.session)
       \/ l.window = window /\ clean' = FALSE /\ UNCHANGED messages
       \/ l.window # window /\ UNCHANGED <<messages, clean>>
    /\ UNCHANGED <<pageVars, generating, streamingContent, stream, home,
                   refreshing>>

Next ==
    \/ \E s \in Sessions : SelectSession(s)
    \/ Deselect \/ Logout \/ Login \/ Reload
    \/ \E k \in Sends :
        \/ Send(k) \/ Accept(k) \/ Chunk(k) \/ Done(k) \/ Error(k)
        \/ Break(k) \/ Close(k) \/ Refreshed(k)
    \/ \E l \in loads : Loaded(l)

\* The server ends every response (ChatStream!CallEnds), with done, an error
\* or a broken connection.
Ends(k) ==
    \/ Accept(k) \/ Done(k)
    \/ stream[k] \in {"posted", "open"} /\ (Error(k) \/ Break(k))

Spec == Init /\ [][Next]_vars
FairSpec == Spec /\ \A k \in Sends : WF_vars(Ends(k))

-----------------------------------------------------------------------------
\* A response of the window went on after the end of its answer was told.
Continued(how) == \E j \in Sends : Here(j) /\ stream[j] \in how

Blocked ==
    \A k \in Sends : (Here(k) /\ stream[k] \in {"posted", "open"}) => generating

\* While a message of the window awaits the end of its answer, the window
\* accepts no other one (ChatWindow.tsx 47, 173-195), whatever session it has
\* changed to: only an earlier response that went on after its end unlocks it.
BlockedWhileAnswering == window # 0 => Blocked \/ Continued({"late", "broken"})

\* With the same exception, the text under way is the text of one answer
\* (ChatWindow.tsx 52, 68, 74).
TextOfOne ==
    window # 0 => \/ \A j, k \in streamingContent : j = k
                  \/ Continued({"late", "broken"})

\* Once the session is changed, or the list filled with its messages, while no
\* request for another session is under way, the window shows the messages of
\* its session as soon as they are loaded, whatever has gone wrong before,
\* until a load fails or the session is changed with such a request under way:
\* only these two lead to the messages of another session (ChatWindow.tsx
\* 26-40, 69-75).
ShowsOwnSession ==
    (window # 0 /\ clean /\ ~\E l \in loads : l.window = window)
        => messages = active

\* The input comes back after every message (useSSE.ts 39-69).
InputComesBack == generating ~> ~generating
=============================================================================
