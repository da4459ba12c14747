---------------------------- MODULE Conversation ----------------------------
(***************************************************************************)
(* The messages of one chat session as they are read back: the context     *)
(* that GetContextWithSummary builds for a model call, in four reads and a *)
(* summary call, and the pages a client walks with before_id, both while   *)
(* requests add messages and settle them.                                  *)
(*                                                                         *)
(* A message is its id.  One step is one call to MySQL or to the provider; *)
(* the check of the session that precedes a statement of the services is   *)
(* the action Refused.                                                     *)
(***************************************************************************)
EXTENDS Integers, FiniteSets

CONSTANTS
    Requests,       \* streaming requests at work on the session, by place
    Pagers,         \* clients that walk back through its messages
    MaxContextMessages, \* models[].max_context_messages
    Compression,    \* models[].context_compression.enabled
    MaxMessagesBeforeCompress,
    Limit,          \* the limit of a page
    MaxMessages     \* bound: the ids that requests may take

ASSUME SettingAssumption ==
    /\ MaxContextMessages \in Int
    /\ Compression \in BOOLEAN
    /\ MaxMessagesBeforeCompress \in Int
ASSUME LimitAssumption == Limit \in Nat \ {0} /\ MaxMessages \in Nat

VARIABLES
    next,           \* the next AUTO_INCREMENT value
    rows,           \* committed messages
    completed,      \* those of status completed
    active,         \* the session is not deleted
    provider,       \* the provider of the session's model
    pc,             \* pc[r]: the call request r makes next
    question,       \* question[r], answer[r]: its two messages, or 0
    answer,
    recent,         \* recent[r]: the recent messages of its context
    older,          \* older[r]: the messages its summary stands for
    half,           \* half[r]: the summary breaks off
    gone,           \* gone[r]: the client has hung up
    summary,        \* the row of chat_session_summaries
    before,         \* before[p]: the before_id of the next page
    more,           \* more[p]: has_more of the last page
    got,            \* got[p]: the messages p was sent
    served,         \* served[p]: how many it was sent
    seen,           \* history: completed messages when recent was read
    had,            \* history: rows when p was sent its first page
    overlapped      \* history: two requests were at work at once

tableVars == <<next, rows, completed, active, provider>>
contextVars == <<recent, older, half, seen, summary>>
requestVars == <<pc, question, answer, gone, overlapped>>
pageVars == <<before, more, got, served, had>>
vars == <<tableVars, contextVars, requestVars, pageVars>>

Stages == {"idle", "inserting", "placing", "committing", "recent", "counting",
           "reading", "summarising", "storing", "calling", "answering"}

TypeOK ==
    /\ next \in Nat \ {0}
    /\ rows \subseteq 1..(next - 1)
    /\ completed \subseteq rows
    /\ active \in BOOLEAN
    /\ provider \in {"mock", "openai"}
    /\ pc \in [Requests -> Stages]
    /\ question \in [Requests -> 0..(next - 1)]
    /\ answer \in [Requests -> 0..(next - 1)]
    /\ recent \in [Requests -> SUBSET rows]
    /\ older \in [Requests -> SUBSET rows]
    /\ half \in [Requests -> BOOLEAN]
    /\ gone \in [Requests -> BOOLEAN]
    /\ summary \in [last : rows \cup {0}, half : BOOLEAN]
    /\ before \in [Pagers -> rows \cup {0}]
    /\ more \in [Pagers -> BOOLEAN]
    /\ got \in [Pagers -> SUBSET rows]
    /\ served \in [Pagers -> Nat]
    /\ seen \in [Requests -> SUBSET rows]
    /\ had \in [Pagers -> SUBSET rows]
    /\ overlapped \in BOOLEAN

Init ==
    /\ next = 1
    /\ rows = {}
    /\ completed = {}
    /\ active = TRUE
    /\ provider \in {"mock", "openai"}
    /\ pc = [r \in Requests |-> "idle"]
    /\ question = [r \in Requests |-> 0]
    /\ answer = [r \in Requests |-> 0]
    /\ recent = [r \in Requests |-> {}]
    /\ older = [r \in Requests |-> {}]
    /\ half = [r \in Requests |-> FALSE]
    /\ gone = [r \in Requests |-> FALSE]
    /\ summary = [last |-> 0, half |-> FALSE]
    /\ before = [p \in Pagers |-> 0]
    /\ more = [p \in Pagers |-> TRUE]
    /\ got = [p \in Pagers |-> {}]
    /\ served = [p \in Pagers |-> 0]
    /\ seen = [r \in Requests |-> {}]
    /\ had = [p \in Pagers |-> {}]
    /\ overlapped = FALSE

-----------------------------------------------------------------------------
\* ORDER BY id DESC LIMIT n: the n newest messages of S.
Last(S, n) == {m \in S : Cardinality({x \in S : x > m}) < n}

\* The newest and the oldest message of a set.
Newest(S) == CHOOSE m \in S : \A x \in S : x <= m
Oldest(S) == CHOOSE m \in S : \A x \in S : m <= x

KeepRecent == IF MaxContextMessages <= 0 THEN 10 ELSE MaxContextMessages

\* allCompleted[:len(allCompleted)-keepRecent]
ToSummarizeOffByOne(all) == all \ Last(all, KeepRecent + 1)
ToSummarize(all) == all \ Last(all, KeepRecent)

Busy(r) == pc[r] # "idle"

Goto(r, stage) == pc' = [pc EXCEPT ![r] = stage]

\* The request is over, and what it held in its variables with it.
End(r) ==
    /\ Goto(r, "idle")
    /\ question' = [question EXCEPT ![r] = 0]
    /\ answer' = [answer EXCEPT ![r] = 0]
    /\ recent' = [recent EXCEPT ![r] = {}]
    /\ older' = [older EXCEPT ![r] = {}]
    /\ half' = [half EXCEPT ![r] = FALSE]
    /\ gone' = [gone EXCEPT ![r] = FALSE]
    /\ seen' = [seen EXCEPT ![r] = {}]
    /\ UNCHANGED <<summary, overlapped>>

-----------------------------------------------------------------------------
(* BeginStream up to the transaction.                                      *)

\* A request gets the session's lock: alone, unless the lock of another one
\* has lapsed.
Begin(r) ==
    /\ pc[r] = "idle"
    /\ active
    /\ next + 2 * Cardinality({q \in Requests : Busy(q)}) < MaxMessages
    /\ Goto(r, "inserting")
    /\ overlapped' = (overlapped \/ \E q \in Requests : Busy(q))
    /\ UNCHANGED <<tableVars, contextVars, question, answer, gone, pageVars>>

\* CreateUserAndAssistantMessagesTx: each insert takes its id at once, and
\* both rows are seen from the commit on.
InsertQuestion(r) ==
    /\ pc[r] = "inserting"
    /\ question' = [question EXCEPT ![r] = next]
    /\ next' = next + 1
    /\ Goto(r, "placing")
    /\ UNCHANGED <<rows, completed, active, provider, contextVars, answer,
                   gone, overlapped, pageVars>>

InsertPlaceholder(r) ==
    /\ pc[r] = "placing"
    /\ answer' = [answer EXCEPT ![r] = next]
    /\ next' = next + 1
    /\ Goto(r, "committing")
    /\ UNCHANGED <<rows, completed, active, provider, contextVars, question,
                   gone, overlapped, pageVars>>

CommitCompleted(r) ==
    /\ pc[r] = "committing"
    /\ rows' = rows \cup {question[r], answer[r]}
    /\ completed' = completed \cup {question[r], answer[r]}
    /\ Goto(r, "recent")
    /\ UNCHANGED <<next, active, provider, contextVars, question, answer,
                   gone, overlapped, pageVars>>

CommitApart(r) ==
    /\ pc[r] = "committing"
    /\ rows' = rows \cup {answer[r]}
    /\ completed' = completed \cup {question[r]}
    /\ Goto(r, "recent")
    /\ UNCHANGED <<next, active, provider, contextVars, question, answer,
                   gone, overlapped, pageVars>>

Commit(r) ==
    /\ pc[r] = "committing"
    /\ rows' = rows \cup {question[r], answer[r]}
    /\ completed' = completed \cup {question[r]}
    /\ Goto(r, "recent")
    /\ UNCHANGED <<next, active, provider, contextVars, question, answer,
                   gone, overlapped, pageVars>>

-----------------------------------------------------------------------------
(* GetContextWithSummary.                                                  *)

FindCompleted(r) ==
    /\ pc[r] = "recent"
    /\ recent' = [recent EXCEPT ![r] = Last(completed, KeepRecent)]
    /\ seen' = [seen EXCEPT ![r] = completed]
    /\ Goto(r, IF Compression /\ MaxMessagesBeforeCompress > 0
                 THEN "counting" ELSE "calling")
    /\ UNCHANGED <<tableVars, older, half, summary, question, answer, gone,
                   overlapped, pageVars>>

CountCompleted(r) ==
    /\ pc[r] = "counting"
    /\ Goto(r, IF Cardinality(completed) > MaxMessagesBeforeCompress
                 THEN "reading" ELSE "calling")
    /\ UNCHANGED <<tableVars, contextVars, question, answer, gone, overlapped,
                   pageVars>>

FindAllCompleted(r) ==
    /\ pc[r] = "reading"
    /\ older' = [older EXCEPT ![r] = ToSummarize(completed)]
    /\ Goto(r, IF ToSummarize(completed) = {} THEN "calling" ELSE "summarising")
    /\ UNCHANGED <<tableVars, recent, half, seen, summary, question, answer,
                   gone, overlapped, pageVars>>

\* The channel of the summary call is closed before the final chunk: only
\* openai sends contents in a summary, and it closes early only when the
\* context of the request is done (ProviderStream!ClosedMeansDone).
ClosesEarlyByDeadline(r) == provider = "openai"
ClosesEarly(r) == provider = "openai" /\ gone[r]

\* generateSummary: the whole summary, what there is of it when the channel
\* closes, or an error.  The mock's summary is empty, which is an error.
GenerateSummary(r) ==
    /\ pc[r] = "summarising"
    /\ \/ /\ provider = "openai"
          /\ Goto(r, "storing")
          /\ UNCHANGED <<older, half>>
       \/ /\ ClosesEarly(r)
          /\ half' = [half EXCEPT ![r] = TRUE]
          /\ Goto(r, "storing")
          /\ UNCHANGED older
       \/ /\ older' = [older EXCEPT ![r] = {}]
          /\ Goto(r, "calling")
          /\ UNCHANGED half
    /\ UNCHANGED <<tableVars, recent, seen, summary, question, answer, gone,
                   overlapped, pageVars>>

DeleteInsert(r) ==
    /\ pc[r] = "storing"
    /\ \/ summary' = [last |-> Newest(older[r]), half |-> half[r]]
       \/ summary' = [last |-> 0, half |-> FALSE]
    /\ Goto(r, "calling")
    /\ UNCHANGED <<tableVars, recent, older, half, seen, question, answer,
                   gone, overlapped, pageVars>>

\* summaryRepo.Upsert; its error is logged and dropped.
Upsert(r) ==
    /\ pc[r] = "storing"
    /\ \/ summary' = [last |-> Newest(older[r]), half |-> half[r]]
       \/ UNCHANGED summary
    /\ Goto(r, "calling")
    /\ UNCHANGED <<tableVars, recent, older, half, seen, question, answer,
                   gone, overlapped, pageVars>>

-----------------------------------------------------------------------------
(* The model call and its end.                                             *)

\* StreamChat begins to answer.  openai fails at once under a context that
\* is done; the mock looks at it only in its goroutine.
CallModel(r) ==
    /\ pc[r] = "calling"
    /\ provider = "mock" \/ ~gone[r]
    /\ Goto(r, "answering")
    /\ UNCHANGED <<tableVars, contextVars, question, answer, gone, overlapped,
                   pageVars>>

\* UpdateAssistantMessage with the status completed, failed or cancelled.
Settle(r) ==
    /\ pc[r] = "answering"
    /\ \/ completed' = completed \cup {answer[r]}
       \/ UNCHANGED completed
    /\ End(r)
    /\ UNCHANGED <<next, rows, active, provider, pageVars>>

\* sessionSvc.Get finds the session deleted.
Refused(r) ==
    /\ pc[r] \in {"inserting", "recent", "answering"}
    /\ ~active
    /\ End(r)
    /\ UNCHANGED <<tableVars, pageVars>>

\* A store or the provider fails, or the process ends.
Abort(r) ==
    /\ Busy(r)
    /\ End(r)
    /\ UNCHANGED <<tableVars, pageVars>>

HangUp(r) ==
    /\ Busy(r)
    /\ ~gone[r]
    /\ gone' = [gone EXCEPT ![r] = TRUE]
    /\ UNCHANGED <<tableVars, contextVars, pc, question, answer, overlapped,
                   pageVars>>

DeleteSession ==
    /\ active
    /\ active' = FALSE
    /\ UNCHANGED <<next, rows, completed, provider, contextVars, requestVars,
                   pageVars>>

-----------------------------------------------------------------------------
(* ListMessages.                                                           *)

\* WHERE id < before_id
UpTo(id) == {m \in rows : m <= id}
Below(id) == {m \in rows : m < id}

LimitOnly == Limit
QueryLimit == Limit + 1

\* The rows the query returns, and the page made of them.
Raw(p) == Last(IF before[p] > 0 THEN Below(before[p]) ELSE rows, QueryLimit)
HasMore(p) == Cardinality(Raw(p)) > Limit
Page(p) == IF HasMore(p) THEN Last(Raw(p), Limit) ELSE Raw(p)

\* The client asks for the page that follows its last one.
ListMessages(p) ==
    /\ active
    /\ more[p]
    /\ more' = [more EXCEPT ![p] = HasMore(p)]
    /\ before' = [before EXCEPT ![p] = IF Page(p) = {} THEN 0
                                       ELSE Oldest(Page(p))]
    /\ got' = [got EXCEPT ![p] = @ \cup Page(p)]
    /\ served' = [served EXCEPT ![p] = @ + Cardinality(Page(p))]
    /\ had' = [had EXCEPT ![p] = IF before[p] = 0 THEN rows ELSE @]
    /\ UNCHANGED <<tableVars, contextVars, requestVars>>

\* No request comes any more, and every walk is over.
Quiescent ==
    /\ \A r \in Requests : ~Busy(r)
    /\ ~active \/ next >= MaxMessages
    /\ ~active \/ \A p \in Pagers : ~more[p]
    /\ UNCHANGED vars

Next ==
    \/ \E r \in Requests :
        \/ Begin(r) \/ InsertQuestion(r) \/ InsertPlaceholder(r) \/ Commit(r)
        \/ FindCompleted(r) \/ CountCompleted(r) \/ FindAllCompleted(r)
        \/ GenerateSummary(r) \/ Upsert(r)
        \/ CallModel(r) \/ Settle(r)
        \/ Refused(r) \/ Abort(r) \/ HangUp(r)
    \/ DeleteSession
    \/ \E p \in Pagers : ListMessages(p)
    \/ Quiescent

Spec == Init /\ [][Next]_vars

-----------------------------------------------------------------------------
\* A context that holds a summary leaves nothing out that was completed when
\* its recent messages were read: what slides out of the recent window is in
\* the summary, whatever was completed between the reads
\* (compression_service.go 50-83).
NothingForgotten ==
    \A r \in Requests :
        (pc[r] \in {"storing", "calling", "answering"} /\ older[r] # {})
            => seen[r] \subseteq older[r] \cup recent[r]

\* As long as the lock keeps the requests of a session apart, the context
\* ends with the question that was just posted: neither the placeholder of
\* its answer nor a later message follows it (chat_service.go 121-130).
EndsWithQuestion ==
    \A r \in Requests :
        (pc[r] \in {"calling", "answering"} /\ ~overlapped)
            => /\ question[r] \in recent[r]
               /\ \A m \in recent[r] \cup older[r] : m <= question[r]

\* As long as the lock keeps the requests apart, the stored summary never
\* goes back to fewer messages (compression_service.go 101-106).
SummaryAdvances == [][~overlapped' => summary.last <= summary'.last]_vars

\* No answer is based on a summary that breaks off: generateSummary takes a
\* closed channel for the end of the summary, but the context that closed it
\* is also the parent of the context of the model call
\* (compression_service.go 153-166, chat_service.go 137).
HalfSummaryUnused == \A r \in Requests : pc[r] = "answering" => ~half[r]

\* A client that has walked back to the first page has been sent every message
\* that was there when it began, whatever was added meanwhile
\* (message_service.go 206-232).
WalkComplete == \A p \in Pagers : ~more[p] => had[p] \subseteq got[p]

\* A walk sends no message twice.
WalkOnce == \A p \in Pagers : served[p] = Cardinality(got[p])
=============================================================================
