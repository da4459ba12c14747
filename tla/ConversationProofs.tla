------------------------- MODULE ConversationProofs -------------------------
(***************************************************************************)
(* Theorems about Conversation, for any number of requests, clients and    *)
(* messages and any settings.                                              *)
(***************************************************************************)
EXTENDS Conversation, FiniteSetTheorems, TLAPS

-----------------------------------------------------------------------------
(* The newest messages of a finite set of ids.                             *)

LEMMA LeastExists ==
    ASSUME NEW S \in SUBSET Nat, S # {}
    PROVE  \E m \in S : \A x \in S : m <= x
<1> DEFINE Less == {ss \in Nat \X Nat : ss[1] < ss[2]}
<1>1. IsWellFoundedOn(Less, Nat)
  <2>1. Less = OpToRel(<, Nat)
    BY DEF OpToRel
  <2>2. QED
    BY <2>1, NatLessThanWellFounded, Zenon
<1>2. PICK m \in S : \A x \in S : ~ (<<x, m>> \in Less)
  <2> HIDE DEF Less
  <2> QED
    BY <1>1, WFMin, Zenon
<1>3. ASSUME NEW x \in S
      PROVE  m <= x
  <2>1. x \in Nat /\ m \in Nat
    OBVIOUS
  <2>2. ~ (x < m)
    BY <1>2, <2>1
  <2>3. QED
    BY <2>1, <2>2, SMT
<1>4. QED
  BY <1>3

LEMMA GreatestExists ==
    ASSUME NEW n \in Nat, NEW S \in SUBSET (1..n), S # {}
    PROVE  \E m \in S : \A x \in S : x <= m
<1> DEFINE T == {n - x : x \in S}
<1>1. T \in SUBSET Nat /\ T # {}
  <2>1. PICK x \in S : TRUE
    OBVIOUS
  <2>2. \A y \in S : n - y \in Nat
    BY SMT
  <2>3. QED
    BY <2>1, <2>2
<1>2. PICK t \in T : \A y \in T : t <= y
  BY <1>1, LeastExists, Zenon
<1>3. PICK m \in S : t = n - m
  OBVIOUS
<1>4. ASSUME NEW x \in S
      PROVE  x <= m
  <2>1. n - x \in T
    OBVIOUS
  <2>2. QED
    BY <1>2, <1>3, <2>1, SMT
<1>5. QED
  BY <1>4

LEMMA NewestIs ==
    ASSUME NEW n \in Nat, NEW S \in SUBSET (1..n), S # {}
    PROVE  Newest(S) \in S /\ \A x \in S : x <= Newest(S)
BY GreatestExists, Zenon DEF Newest

LEMMA OldestIs ==
    ASSUME NEW n \in Nat, NEW S \in SUBSET (1..n), S # {}
    PROVE  Oldest(S) \in S /\ \A x \in S : Oldest(S) <= x
<1>1. S \in SUBSET Nat
  BY SMT
<1>2. QED
  BY <1>1, LeastExists, Zenon DEF Oldest

LEMMA IdsFinite ==
    ASSUME NEW n \in Nat, NEW S \in SUBSET (1..n)
    PROVE  IsFiniteSet(S) /\ Cardinality(S) \in Nat
<1>1. IsFiniteSet(1..n)
  BY FS_Interval
<1>2. IsFiniteSet(S)
  BY <1>1, FS_Subset, Zenon
<1>3. QED
  BY <1>2, FS_CardinalityType, Zenon

LEMMA LastSubset ==
    ASSUME NEW S, NEW n
    PROVE  Last(S, n) \subseteq S
BY DEF Last

\* What a message of S that is not among the newest is followed by.
LEMMA LastIsAbove ==
    ASSUME NEW n \in Nat, NEW S \in SUBSET (1..n), NEW k \in Nat,
           NEW m \in S, m \notin Last(S, k), NEW q \in Last(S, k)
    PROVE  m < q
<1> DEFINE Above(y) == {x \in S : x > y}
<1>0. q \in S
  BY LastSubset, Zenon
<1>1. SUFFICES ASSUME q <= m PROVE FALSE
  BY <1>0, SMT
<1>2. Above(m) \subseteq Above(q)
  <2>1. \A x \in S : x \in Int
    OBVIOUS
  <2>2. \A x \in S : x > m => x > q
    BY <1>0, <1>1, <2>1
  <2>3. QED
    BY <2>2, Zenon
<1>3. IsFiniteSet(Above(q)) /\ Above(q) \in SUBSET (1..n) /\ Above(m) \in SUBSET (1..n)
  <2>1. Above(q) \in SUBSET (1..n) /\ Above(m) \in SUBSET (1..n)
    OBVIOUS
  <2>2. QED
    BY <2>1, IdsFinite
<1>4. Cardinality(Above(m)) <= Cardinality(Above(q))
  BY <1>2, <1>3, FS_Subset
<1>5. Cardinality(Above(m)) \in Nat /\ Cardinality(Above(q)) \in Nat
  BY <1>3, IdsFinite
<1>6. Cardinality(Above(q)) < k /\ ~(Cardinality(Above(m)) < k)
  BY DEF Last
<1>7. QED
  BY <1>4, <1>5, <1>6, SMT

\* A message that is not among the newest of a set is not among the newest of
\* a larger set.
LEMMA LastShrinks ==
    ASSUME NEW n \in Nat, NEW T \in SUBSET (1..n), NEW S \in SUBSET T,
           NEW k \in Nat, NEW m \in S, m \notin Last(S, k)
    PROVE  m \notin Last(T, k)
<1> DEFINE AboveS == {x \in S : x > m}
           AboveT == {x \in T : x > m}
<1>1. AboveS \subseteq AboveT /\ AboveT \in SUBSET (1..n) /\ AboveS \in SUBSET (1..n)
  OBVIOUS
<1>2. IsFiniteSet(AboveT)
  BY <1>1, IdsFinite
<1>3. Cardinality(AboveS) <= Cardinality(AboveT)
  BY <1>1, <1>2, FS_Subset
<1>4. Cardinality(AboveS) \in Nat /\ Cardinality(AboveT) \in Nat
  BY <1>1, IdsFinite
<1>5. ~(Cardinality(AboveS) < k)
  BY DEF Last
<1>6. ~(Cardinality(AboveT) < k)
  BY <1>3, <1>4, <1>5, SMT
<1>7. QED
  BY <1>6 DEF Last

\* A query with a limit that leaves something out returns as many as asked.
LEMMA LastIsFull ==
    ASSUME NEW n \in Nat, NEW S \in SUBSET (1..n), NEW k \in Nat,
           NEW m \in S, m \notin Last(S, k)
    PROVE  Cardinality(Last(S, k)) >= k
<1> DEFINE Out == S \ Last(S, k)
<1>1. PICK g \in Out : \A x \in Out : x <= g
  <2>1. Out \in SUBSET (1..n) /\ Out # {}
    OBVIOUS
  <2>2. QED
    BY <2>1, GreatestExists, Zenon
<1> DEFINE Above == {x \in S : x > g}
<1>2. Above \subseteq Last(S, k)
  <2>1. SUFFICES ASSUME NEW x \in S, x > g, x \notin Last(S, k) PROVE FALSE
    OBVIOUS
  <2>2. x <= g /\ x \in Int /\ g \in Int
    BY <1>1, <2>1
  <2>3. QED
    BY <2>1, <2>2, SMT
<1>3. IsFiniteSet(Last(S, k)) /\ Cardinality(Last(S, k)) \in Nat
  <2>1. Last(S, k) \in SUBSET (1..n)
    BY LastSubset
  <2>2. QED
    BY <2>1, IdsFinite
<1>4. Cardinality(Above) <= Cardinality(Last(S, k)) /\ Cardinality(Above) \in Nat
  <2>1. Above \in SUBSET (1..n)
    OBVIOUS
  <2>2. QED
    BY <1>2, <1>3, <2>1, FS_Subset, IdsFinite
<1>5. ~(Cardinality(Above) < k)
  <2>1. g \in S /\ g \notin Last(S, k)
    BY <1>1
  <2>2. QED
    BY <2>1 DEF Last
<1>6. QED
  BY <1>3, <1>4, <1>5, SMT

\* The newest message of a set is among its k newest.
LEMMA NewestIsLast ==
    ASSUME NEW S \in SUBSET Nat, NEW k \in Nat \ {0}, NEW m \in S,
           \A x \in S : x <= m
    PROVE  m \in Last(S, k)
<1>1. {x \in S : x > m} = {}
  <2>1. ASSUME NEW x \in S, x > m PROVE FALSE
    <3>1. x \in Nat /\ m \in Nat /\ x <= m
      OBVIOUS
    <3>2. QED
      BY <2>1, <3>1
  <2>2. QED
    BY <2>1
<1>2. Cardinality({x \in S : x > m}) < k
  <2>1. Cardinality({x \in S : x > m}) = 0
    BY <1>1, FS_EmptySet, Zenon
  <2>2. QED
    BY <2>1, SMT
<1>3. QED
  BY <1>2 DEF Last

LEMMA KeepsSome == KeepRecent \in Nat \ {0}
BY SettingAssumption DEF KeepRecent

\* What there is to summarise only grows.
LEMMA ToSummarizeGrows ==
    ASSUME NEW n \in Nat, NEW T \in SUBSET (1..n), NEW S \in SUBSET T
    PROVE  ToSummarize(S) \subseteq ToSummarize(T)
<1>1. \A m \in S : m \notin Last(S, KeepRecent) => m \notin Last(T, KeepRecent)
  BY LastShrinks, KeepsSome
<1>2. QED
  BY <1>1, Zenon DEF ToSummarize

-----------------------------------------------------------------------------
(* The invariant.                                                          *)

Placed == {"recent", "counting", "reading", "summarising", "storing",
           "calling", "answering"}

\* What a request has at each stage.
StageInv ==
    \A r \in Requests :
        /\ pc[r] \in {"placing", "committing"} => question[r] # 0
        /\ pc[r] = "committing" => answer[r] # 0
        /\ pc[r] \in Placed => question[r] \in rows /\ answer[r] \in rows
        /\ pc[r] \in {"summarising", "storing"} => older[r] # {}
        /\ pc[r] \notin {"summarising", "storing", "calling", "answering"}
             => older[r] = {}

\* What the context of a request covers.
ContextInv ==
    \A r \in Requests :
        /\ seen[r] \subseteq completed
        /\ recent[r] = Last(seen[r], KeepRecent)
        /\ older[r] \subseteq ToSummarize(completed)
        /\ older[r] # {} => seen[r] \subseteq older[r] \cup recent[r]

\* Who has half a summary has hung up, and openai has not answered him yet.
HalfInv ==
    \A r \in Requests :
        half[r] => /\ gone[r]
                   /\ provider = "openai"
                   /\ pc[r] \in {"storing", "calling"}

\* The stored summary leaves out what is recent now.
SummaryInv == summary.last = 0 \/ summary.last \in ToSummarize(completed)

\* A request that is alone has the newest messages.
AloneInv ==
    ~overlapped =>
        \A r \in Requests :
            /\ \A q \in Requests : Busy(r) /\ Busy(q) => r = q
            /\ pc[r] \in {"placing", "committing"} =>
                  \A m \in rows : m < question[r]
            /\ pc[r] = "committing" => question[r] < answer[r]
            /\ pc[r] \in Placed =>
                  /\ question[r] \in completed
                  /\ \A m \in completed : m <= question[r]
            /\ pc[r] \in Placed \ {"recent"} => question[r] \in recent[r]
            /\ pc[r] \in {"summarising", "storing"} =>
                  summary.last = 0 \/ summary.last \in older[r]

\* How far a walk has come.
WalkInv ==
    \A p \in Pagers :
        /\ served[p] = Cardinality(got[p])
        /\ before[p] = 0 /\ more[p] => got[p] = {} /\ had[p] = {}
        /\ before[p] # 0 => \A m \in got[p] : before[p] <= m
        /\ before[p] # 0 /\ more[p] =>
              \A m \in had[p] : m \in got[p] \/ m < before[p]
        /\ ~more[p] => had[p] \subseteq got[p]

IInv == /\ TypeOK /\ StageInv /\ ContextInv /\ HalfInv /\ SummaryInv
        /\ AloneInv /\ WalkInv

LEMMA InitIInv == Init => IInv
<1> SUFFICES ASSUME Init PROVE IInv
  OBVIOUS
<1>1. TypeOK
  <2>1. /\ next \in Nat \ {0} /\ 0 \in 0..(next - 1)
        /\ rows \subseteq 1..(next - 1)
    BY SMT DEF Init
  <2>2. /\ recent \in [Requests -> SUBSET rows]
        /\ older \in [Requests -> SUBSET rows]
        /\ got \in [Pagers -> SUBSET rows]
        /\ seen \in [Requests -> SUBSET rows]
        /\ had \in [Pagers -> SUBSET rows]
    BY Zenon DEF Init
  <2>3. summary \in [last : rows \cup {0}, half : BOOLEAN]
    BY DEF Init
  <2>4. served \in [Pagers -> Nat]
    BY SMT DEF Init
  <2>5. QED
    BY <2>1, <2>2, <2>3, <2>4, Zenon DEF Init, TypeOK, Stages
<1>2. Last({}, KeepRecent) = {}
  BY DEF Last
<1>3. StageInv /\ HalfInv /\ SummaryInv
  BY DEF Init, StageInv, HalfInv, SummaryInv, Placed
<1>4. ContextInv
  BY <1>2 DEF Init, ContextInv
<1>5. AloneInv
  BY DEF Init, AloneInv, Busy, Placed
<1>6. WalkInv
  BY FS_EmptySet DEF Init, WalkInv
<1>7. QED
  BY <1>1, <1>3, <1>4, <1>5, <1>6 DEF IInv

\* The ids of a state are those below next.
LEMMA IdsAre ==
    ASSUME TypeOK
    PROVE  /\ next - 1 \in Nat
           /\ rows \in SUBSET (1..(next - 1))
           /\ completed \in SUBSET (1..(next - 1))
BY DEF TypeOK

\* A page is made of rows below the page before it.
LEMMA PageIs ==
    ASSUME TypeOK, NEW p \in Pagers
    PROVE  /\ Page(p) \subseteq Raw(p)
           /\ Raw(p) \subseteq rows
           /\ before[p] # 0 => \A m \in Page(p) : m < before[p]
           /\ HasMore(p) => Page(p) # {}
           /\ Page(p) # {} => /\ Oldest(Page(p)) \in Page(p)
                             /\ \A m \in Page(p) : Oldest(Page(p)) <= m
<1> DEFINE From == IF before[p] > 0 THEN Below(before[p]) ELSE rows
<1>1. From \subseteq rows
  BY DEF Below
<1>2. Raw(p) \subseteq From
  BY LastSubset, Zenon DEF Raw
<1>3. Page(p) \subseteq Raw(p)
  BY LastSubset, Zenon DEF Page
<1>4. ASSUME before[p] # 0, NEW m \in Page(p)
      PROVE  m < before[p]
  <2>1. before[p] > 0
    <3>1. before[p] \in rows \cup {0}
      BY DEF TypeOK
    <3>2. QED
      BY <1>4, <3>1, IdsAre
  <2>2. QED
    BY <1>2, <1>3, <1>4, <2>1 DEF Below
<1>5. ASSUME HasMore(p)
      PROVE  Page(p) # {}
  <2>1. Raw(p) \in SUBSET (1..(next - 1)) /\ next - 1 \in Nat
    BY <1>1, <1>2, IdsAre
  <2>2. Raw(p) # {}
    <3>1. Cardinality({}) = 0
      BY FS_EmptySet, Zenon
    <3>2. QED
      BY <1>5, <3>1, LimitAssumption DEF HasMore
  <2>3. PICK m \in Raw(p) : \A x \in Raw(p) : x <= m
    BY <2>1, <2>2, GreatestExists, Zenon
  <2>4. Raw(p) \in SUBSET Nat
    BY <2>1
  <2>5. Limit \in Nat \ {0}
    BY LimitAssumption
  <2>6. m \in Last(Raw(p), Limit)
    BY <2>3, <2>4, <2>5, NewestIsLast
  <2>7. QED
    BY <1>5, <2>6 DEF Page
<1>6. ASSUME Page(p) # {}
      PROVE  /\ Oldest(Page(p)) \in Page(p)
             /\ \A m \in Page(p) : Oldest(Page(p)) <= m
  <2>1. Page(p) \in SUBSET (1..(next - 1)) /\ next - 1 \in Nat
    BY <1>1, <1>2, <1>3, IdsAre
  <2>2. QED
    BY <1>6, <2>1, OldestIs, Zenon
<1>7. QED
  BY <1>1, <1>2, <1>3, <1>4, <1>5, <1>6, Zenon

-----------------------------------------------------------------------------
(* Types.                                                                  *)

\* A step of request r other than its inserts leaves the ids alone.
QuietStep(r) ==
    \/ Begin(r) \/ FindCompleted(r) \/ CountCompleted(r) \/ FindAllCompleted(r)
    \/ GenerateSummary(r) \/ Upsert(r) \/ CallModel(r) \/ Settle(r)
    \/ Refused(r) \/ Abort(r) \/ HangUp(r)

LEMMA EndType ==
    ASSUME TypeOK, NEW r \in Requests, End(r), UNCHANGED <<next, rows>>
    PROVE  /\ pc' \in [Requests -> Stages]
           /\ question' \in [Requests -> 0..(next' - 1)]
           /\ answer' \in [Requests -> 0..(next' - 1)]
           /\ recent' \in [Requests -> SUBSET rows']
           /\ older' \in [Requests -> SUBSET rows']
           /\ half' \in [Requests -> BOOLEAN]
           /\ gone' \in [Requests -> BOOLEAN]
           /\ seen' \in [Requests -> SUBSET rows']
           /\ UNCHANGED <<summary, overlapped>>
<1>1. 0 \in 0..(next - 1)
  BY DEF TypeOK
<1>2. "idle" \in Stages
  BY DEF Stages
<1>3. QED
  BY <1>1, <1>2, Zenon DEF TypeOK, End, Goto

LEMMA QuietType ==
    ASSUME IInv, NEW r \in Requests, QuietStep(r)
    PROVE  TypeOK'
<1>0. TypeOK
  BY DEF IInv
<1> USE <1>0
<1>0a. \A stage \in {"inserting", "counting", "reading", "summarising",
                      "storing", "calling", "answering"} :
          Goto(r, stage) => pc' \in [Requests -> Stages]
  BY DEF TypeOK, Goto, Stages
<1>1. CASE Begin(r)
  BY <1>0a, <1>1, Zenon DEF Begin, TypeOK, tableVars, contextVars, pageVars
<1>2. CASE FindCompleted(r)
  <2>1. Last(completed, KeepRecent) \in SUBSET rows /\ completed \in SUBSET rows
    BY LastSubset, Zenon DEF TypeOK
  <2>2. /\ recent' \in [Requests -> SUBSET rows]
        /\ seen' \in [Requests -> SUBSET rows]
    BY <1>2, <2>1, Zenon DEF FindCompleted, TypeOK
  <2>3. pc' \in [Requests -> Stages]
    BY <1>0a, <1>2, Zenon DEF FindCompleted
  <2>4. QED
    BY <1>2, <2>2, <2>3, Zenon DEF FindCompleted, TypeOK, tableVars, pageVars
<1>3. CASE CountCompleted(r)
  <2>1. pc' \in [Requests -> Stages]
    BY <1>0a, <1>3, Zenon DEF CountCompleted
  <2>2. QED
    BY <1>3, <2>1, Zenon DEF CountCompleted, TypeOK, tableVars, contextVars,
                             pageVars
<1>4. CASE FindAllCompleted(r)
  <2>1. ToSummarize(completed) \in SUBSET rows
    BY Zenon DEF TypeOK, ToSummarize
  <2>2. older' \in [Requests -> SUBSET rows]
    BY <1>4, <2>1, Zenon DEF FindAllCompleted, TypeOK
  <2>3. pc' \in [Requests -> Stages]
    BY <1>0a, <1>4, Zenon DEF FindAllCompleted
  <2>4. QED
    BY <1>4, <2>2, <2>3, Zenon DEF FindAllCompleted, TypeOK, tableVars, pageVars
<1>5. CASE GenerateSummary(r)
  <2>1. pc' \in [Requests -> Stages]
    BY <1>0a, <1>5, Zenon DEF GenerateSummary
  <2>2. older' \in [Requests -> SUBSET rows] /\ half' \in [Requests -> BOOLEAN]
    BY <1>5, Zenon DEF GenerateSummary, TypeOK
  <2>3. QED
    BY <1>5, <2>1, <2>2, Zenon DEF GenerateSummary, TypeOK, tableVars, pageVars
<1>6. CASE Upsert(r)
  <2>1. older[r] # {} /\ older[r] \in SUBSET rows /\ half[r] \in BOOLEAN
    BY <1>6 DEF Upsert, IInv, StageInv, TypeOK
  <2>2. older[r] \in SUBSET (1..(next - 1)) /\ next - 1 \in Nat
    BY <2>1, IdsAre
  <2>3. Newest(older[r]) \in rows
    BY <2>1, <2>2, NewestIs, Zenon
  <2>4. [last |-> Newest(older[r]), half |-> half[r]]
          \in [last : rows \cup {0}, half : BOOLEAN]
    BY <2>1, <2>3
  <2>5. pc' \in [Requests -> Stages]
    BY <1>0a, <1>6, Zenon DEF Upsert
  <2>6. QED
    BY <1>6, <2>4, <2>5, Zenon DEF Upsert, TypeOK, tableVars, pageVars
<1>7. CASE CallModel(r)
  BY <1>0a, <1>7, Zenon DEF CallModel, TypeOK, tableVars, contextVars, pageVars
<1>8. CASE Settle(r)
  <2>1. completed' \subseteq rows
    <3>1. answer[r] \in rows
      BY <1>8 DEF Settle, IInv, StageInv, Placed
    <3>2. QED
      BY <1>8, <3>1, Zenon DEF Settle, TypeOK
  <2>2. UNCHANGED <<next, rows, active, provider, pageVars>> /\ End(r)
    BY <1>8, Zenon DEF Settle
  <2>3. QED
    BY <2>1, <2>2, EndType, Zenon DEF TypeOK, pageVars
<1>9. CASE Refused(r) \/ Abort(r)
  <2>1. UNCHANGED <<tableVars, pageVars>> /\ End(r)
    BY <1>9, Zenon DEF Refused, Abort
  <2>2. UNCHANGED <<next, rows, completed, active, provider>>
    BY <2>1, Zenon DEF tableVars
  <2>3. QED
    BY <2>1, <2>2, EndType, Zenon DEF TypeOK, pageVars
<1>10. CASE HangUp(r)
  BY <1>10, Zenon DEF HangUp, TypeOK, tableVars, contextVars, pageVars
<1>11. QED
  BY <1>1, <1>2, <1>3, <1>4, <1>5, <1>6, <1>7, <1>8, <1>9, <1>10, Zenon
     DEF QuietStep

LEMMA InsertType ==
    ASSUME TypeOK, NEW r \in Requests, InsertQuestion(r) \/ InsertPlaceholder(r)
    PROVE  TypeOK'
<1>1. /\ next \in Nat \ {0}
      /\ next' = next + 1
      /\ UNCHANGED <<rows, completed, active, provider, contextVars, gone,
                     overlapped, pageVars>>
      /\ Goto(r, "placing") \/ Goto(r, "committing")
  BY DEF InsertQuestion, InsertPlaceholder, TypeOK
<1>2. next' \in Nat \ {0} /\ next \in 0..(next' - 1)
        /\ \A i \in 0..(next - 1) : i \in 0..(next' - 1)
        /\ 1..(next - 1) \subseteq 1..(next' - 1)
  BY <1>1, SMT
<1>3. pc' \in [Requests -> Stages]
  BY <1>1 DEF TypeOK, Goto, Stages
<1>4. /\ question' \in [Requests -> 0..(next' - 1)]
      /\ answer' \in [Requests -> 0..(next' - 1)]
  <2>1. /\ \/ question' = [question EXCEPT ![r] = next]
           \/ question' = question
        /\ \/ answer' = [answer EXCEPT ![r] = next]
           \/ answer' = answer
    BY DEF InsertQuestion, InsertPlaceholder
  <2>2. question \in [Requests -> 0..(next - 1)] /\ answer \in [Requests -> 0..(next - 1)]
    BY DEF TypeOK
  <2>3. QED
    BY <1>2, <2>1, <2>2, Zenon
<1>5. rows \subseteq 1..(next' - 1)
  BY <1>2, Zenon DEF TypeOK
<1>6. QED
  BY <1>1, <1>2, <1>3, <1>4, <1>5, Zenon DEF TypeOK, contextVars, pageVars

\* More rows do no harm.
LEMMA CommitType ==
    ASSUME IInv, NEW r \in Requests, Commit(r)
    PROVE  TypeOK'
<1>1. /\ question[r] \in 1..(next - 1)
      /\ answer[r] \in 1..(next - 1)
  <2>1. question[r] # 0 /\ answer[r] # 0
    BY DEF Commit, IInv, StageInv
  <2>2. question[r] \in 0..(next - 1) /\ answer[r] \in 0..(next - 1)
          /\ next \in Nat \ {0}
    BY DEF IInv, TypeOK
  <2>3. QED
    BY <2>1, <2>2, SMT
<1>2. TypeOK
  BY DEF IInv
<1>3. rows \subseteq rows' /\ rows' \subseteq 1..(next - 1) /\ completed' \subseteq rows'
  BY <1>1, <1>2, Zenon DEF Commit, TypeOK
<1>4. pc' \in [Requests -> Stages]
  BY <1>2 DEF Commit, Goto, TypeOK, Stages
<1>5. /\ recent \in [Requests -> SUBSET rows']
      /\ older \in [Requests -> SUBSET rows']
      /\ seen \in [Requests -> SUBSET rows']
      /\ got \in [Pagers -> SUBSET rows']
      /\ had \in [Pagers -> SUBSET rows']
      /\ before \in [Pagers -> rows' \cup {0}]
  BY <1>2, <1>3, Zenon DEF TypeOK
<1>6. summary \in [last : rows' \cup {0}, half : BOOLEAN]
  BY <1>2, <1>3 DEF TypeOK
<1>7. QED
  BY <1>2, <1>3, <1>4, <1>5, <1>6, Zenon DEF Commit, TypeOK, contextVars, pageVars

LEMMA PageType ==
    ASSUME TypeOK, NEW p \in Pagers, ListMessages(p)
    PROVE  TypeOK'
<1>1. Page(p) \in SUBSET rows
  BY PageIs, Zenon
<1>2. (IF Page(p) = {} THEN 0 ELSE Oldest(Page(p))) \in rows \cup {0}
  BY <1>1, PageIs, Zenon
<1>3. /\ before' \in [Pagers -> rows \cup {0}]
      /\ got' \in [Pagers -> SUBSET rows]
      /\ had' \in [Pagers -> SUBSET rows]
  BY <1>1, <1>2, Zenon DEF TypeOK, ListMessages
<1>4. more' \in [Pagers -> BOOLEAN]
  <2>1. HasMore(p) \in BOOLEAN
    BY SMT DEF HasMore
  <2>2. QED
    BY <2>1, Zenon DEF TypeOK, ListMessages
<1>5. served' \in [Pagers -> Nat]
  <2>1. Page(p) \in SUBSET (1..(next - 1)) /\ next - 1 \in Nat
    BY <1>1, IdsAre
  <2>2. Cardinality(Page(p)) \in Nat
    BY <2>1, IdsFinite
  <2>3. served[p] + Cardinality(Page(p)) \in Nat
    BY <2>2 DEF TypeOK
  <2>4. QED
    BY <2>3, Zenon DEF TypeOK, ListMessages
<1>6. QED
  BY <1>3, <1>4, <1>5, Zenon DEF TypeOK, ListMessages, tableVars, contextVars,
                                 requestVars

LEMMA StepCases ==
    ASSUME Next
    PROVE  \/ \E r \in Requests :
                \/ QuietStep(r)
                \/ InsertQuestion(r) \/ InsertPlaceholder(r)
                \/ Commit(r)
           \/ DeleteSession
           \/ \E p \in Pagers : ListMessages(p)
           \/ UNCHANGED vars
BY Zenon DEF Next, QuietStep, Quiescent

LEMMA StepType == IInv /\ [Next]_vars => TypeOK'
<1> SUFFICES ASSUME IInv, [Next]_vars PROVE TypeOK'
  OBVIOUS
<1>0. TypeOK
  BY DEF IInv
<1>1. ASSUME NEW r \in Requests, QuietStep(r)
      PROVE  TypeOK'
  BY <1>1, QuietType
<1>2. ASSUME NEW r \in Requests, InsertQuestion(r) \/ InsertPlaceholder(r)
      PROVE  TypeOK'
  BY <1>0, <1>2, InsertType
<1>3. ASSUME NEW r \in Requests, Commit(r)
      PROVE  TypeOK'
  BY <1>3, CommitType
<1>4. CASE DeleteSession
  BY <1>0, <1>4, Zenon DEF DeleteSession, TypeOK, contextVars, requestVars, pageVars
<1>5. ASSUME NEW p \in Pagers, ListMessages(p)
      PROVE  TypeOK'
  BY <1>0, <1>5, PageType
<1>6. CASE UNCHANGED vars
  BY <1>0, <1>6, Zenon DEF TypeOK, vars, tableVars, contextVars, requestVars,
                           pageVars
<1>7. QED
  BY <1>1, <1>2, <1>3, <1>4, <1>5, <1>6, StepCases, Zenon

-----------------------------------------------------------------------------
(* Stages, contexts and the summary.                                       *)

LEMMA TablesGrow ==
    ASSUME IInv, [Next]_vars
    PROVE  rows \subseteq rows' /\ completed \subseteq completed'
<1>1. ASSUME NEW r \in Requests, QuietStep(r)
      PROVE  rows' = rows /\ completed \subseteq completed'
  BY <1>1, Zenon DEF QuietStep, Begin, FindCompleted, CountCompleted,
     FindAllCompleted, GenerateSummary, Upsert, CallModel, Settle, Refused,
     Abort, HangUp, tableVars
<1>2. ASSUME NEW r \in Requests,
             InsertQuestion(r) \/ InsertPlaceholder(r) \/ Commit(r)
      PROVE  rows \subseteq rows' /\ completed \subseteq completed'
  BY <1>2, Zenon DEF InsertQuestion, InsertPlaceholder, Commit
<1>3. CASE DeleteSession \/ (\E p \in Pagers : ListMessages(p)) \/ UNCHANGED vars
  BY <1>3, Zenon DEF DeleteSession, ListMessages, vars, tableVars
<1>4. QED
  BY <1>1, <1>2, <1>3, StepCases, Zenon

LEMMA StepStage ==
    ASSUME IInv, [Next]_vars
    PROVE  StageInv'
<1> USE DEF IInv, TypeOK, StageInv, Placed, Goto, End, Busy
<1>1. ASSUME NEW r \in Requests, QuietStep(r)
      PROVE  StageInv'
  <2> USE DEF tableVars, contextVars
  <2>1. CASE Begin(r) \/ CountCompleted(r) \/ CallModel(r) \/ HangUp(r)
    BY <2>1 DEF Begin, CountCompleted, CallModel, HangUp
  <2>2. CASE FindCompleted(r)
    BY <2>2 DEF FindCompleted
  <2>3. CASE FindAllCompleted(r)
    BY <2>3 DEF FindAllCompleted
  <2>4. CASE GenerateSummary(r)
    BY <2>4 DEF GenerateSummary
  <2>5. CASE Upsert(r)
    BY <2>5 DEF Upsert
  <2>6. CASE Settle(r) \/ Refused(r) \/ Abort(r)
    BY <2>6 DEF Settle, Refused, Abort
  <2>7. QED
    BY <1>1, <2>1, <2>2, <2>3, <2>4, <2>5, <2>6, Zenon DEF QuietStep
<1>2. ASSUME NEW r \in Requests, InsertQuestion(r)
      PROVE  StageInv'
  BY <1>2 DEF InsertQuestion, contextVars
<1>3. ASSUME NEW r \in Requests, InsertPlaceholder(r)
      PROVE  StageInv'
  BY <1>3 DEF InsertPlaceholder, contextVars
<1>4. ASSUME NEW r \in Requests, Commit(r)
      PROVE  StageInv'
  BY <1>4 DEF Commit, contextVars
<1>5. CASE DeleteSession
  BY <1>5 DEF DeleteSession, contextVars, requestVars
<1>6. ASSUME NEW p \in Pagers, ListMessages(p)
      PROVE  StageInv'
  BY <1>6 DEF ListMessages, tableVars, contextVars, requestVars
<1>7. CASE UNCHANGED vars
  BY <1>7 DEF vars, tableVars, contextVars, requestVars
<1>8. QED
  BY <1>1, <1>2, <1>3, <1>4, <1>5, <1>6, <1>7, StepCases, Zenon

LEMMA StepHalf ==
    ASSUME IInv, [Next]_vars
    PROVE  HalfInv'
<1> USE DEF IInv, TypeOK, HalfInv, Goto, End, Busy
<1>1. ASSUME NEW r \in Requests, QuietStep(r)
      PROVE  HalfInv'
  <2> USE DEF tableVars, contextVars
  <2>1. CASE Begin(r) \/ CountCompleted(r) \/ CallModel(r) \/ HangUp(r)
    BY <2>1 DEF Begin, CountCompleted, CallModel, HangUp
  <2>2. CASE FindCompleted(r) \/ FindAllCompleted(r)
    BY <2>2 DEF FindCompleted, FindAllCompleted
  <2>3. CASE GenerateSummary(r)
    BY <2>3 DEF GenerateSummary, ClosesEarly
  <2>4. CASE Upsert(r)
    BY <2>4 DEF Upsert
  <2>5. CASE Settle(r) \/ Refused(r) \/ Abort(r)
    BY <2>5 DEF Settle, Refused, Abort
  <2>6. QED
    BY <1>1, <2>1, <2>2, <2>3, <2>4, <2>5, Zenon DEF QuietStep
<1>2. ASSUME NEW r \in Requests,
             InsertQuestion(r) \/ InsertPlaceholder(r) \/ Commit(r)
      PROVE  HalfInv'
  BY <1>2 DEF InsertQuestion, InsertPlaceholder, Commit, contextVars
<1>3. CASE DeleteSession
  BY <1>3 DEF DeleteSession, contextVars, requestVars
<1>4. ASSUME NEW p \in Pagers, ListMessages(p)
      PROVE  HalfInv'
  BY <1>4 DEF ListMessages, tableVars, contextVars, requestVars
<1>5. CASE UNCHANGED vars
  BY <1>5 DEF vars, tableVars, contextVars, requestVars
<1>6. QED
  BY <1>1, <1>2, <1>3, <1>4, <1>5, StepCases, Zenon

\* What FindAllCompleted adds to what FindCompleted has read before it.
LEMMA ReadsCover ==
    ASSUME IInv, NEW r \in Requests
    PROVE  seen[r] \subseteq ToSummarize(completed) \cup recent[r]
<1>1. /\ seen[r] \subseteq completed /\ recent[r] = Last(seen[r], KeepRecent)
      /\ completed \in SUBSET (1..(next - 1)) /\ next - 1 \in Nat
  BY IdsAre, Zenon DEF IInv, ContextInv
<1>2. \A m \in seen[r] : m \notin Last(seen[r], KeepRecent)
                           => m \notin Last(completed, KeepRecent)
  BY <1>1, LastShrinks, KeepsSome
<1>3. QED
  BY <1>1, <1>2, Zenon DEF ToSummarize

LEMMA SummarizableGrows ==
    ASSUME IInv, [Next]_vars
    PROVE  ToSummarize(completed) \subseteq ToSummarize(completed')
<1> DEFINE n == next' - 1
<1>1. rows' \subseteq 1..n /\ completed' \subseteq rows'
  BY StepType, Zenon DEF TypeOK
<1>2. n \in Nat
  <2>1. next' \in Nat \ {0}
    BY StepType, Zenon DEF TypeOK
  <2>2. \A i \in Nat \ {0} : i - 1 \in Nat
    BY SMT
  <2>3. QED
    BY <2>1, <2>2, Zenon
<1>3. completed \subseteq completed'
  BY TablesGrow
<1> HIDE DEF n
<1>4. completed' \in SUBSET (1..n)
  BY <1>1
<1>5. QED
  BY <1>2, <1>3, <1>4, ToSummarizeGrows

LEMMA StepContext ==
    ASSUME IInv, [Next]_vars
    PROVE  ContextInv'
<1>0. completed \subseteq completed' /\ ToSummarize(completed) \subseteq ToSummarize(completed')
  BY TablesGrow, SummarizableGrows
<1>1. CASE UNCHANGED <<recent, older, seen>>
  BY <1>0, <1>1, Zenon DEF IInv, ContextInv
<1>2. ASSUME NEW r \in Requests, End(r)
      PROVE  ContextInv'
  <2>1. Last({}, KeepRecent) = {}
    BY DEF Last
  <2>2. recent \in [Requests -> SUBSET rows] /\ older \in [Requests -> SUBSET rows]
          /\ seen \in [Requests -> SUBSET rows]
    BY DEF IInv, TypeOK
  <2>3. QED
    BY <1>0, <1>2, <2>1, <2>2 DEF End, IInv, ContextInv
<1>3. ASSUME NEW r \in Requests, FindCompleted(r)
      PROVE  ContextInv'
  <2>1. older[r] = {} /\ older' = older
    BY <1>3, Zenon DEF FindCompleted, IInv, StageInv
  <2>2. recent \in [Requests -> SUBSET rows] /\ seen \in [Requests -> SUBSET rows]
    BY DEF IInv, TypeOK
  <2>3. QED
    BY <1>0, <1>3, <2>1, <2>2, Zenon DEF FindCompleted, IInv, ContextInv
<1>4. ASSUME NEW r \in Requests, FindAllCompleted(r)
      PROVE  ContextInv'
  <2>1. older \in [Requests -> SUBSET rows] /\ completed' = completed
    BY <1>4 DEF FindAllCompleted, IInv, TypeOK, tableVars
  <2>2. QED
    BY <1>4, <2>1, ReadsCover, Zenon DEF FindAllCompleted, IInv, ContextInv
<1>5. ASSUME NEW r \in Requests, GenerateSummary(r)
      PROVE  ContextInv'
  <2>1. older \in [Requests -> SUBSET rows]
    BY DEF IInv, TypeOK
  <2>2. UNCHANGED <<recent, seen>>
          /\ (older' = older \/ older' = [older EXCEPT ![r] = {}])
    BY <1>5, Zenon DEF GenerateSummary
  <2>3. QED
    BY <1>0, <2>1, <2>2, Zenon DEF IInv, ContextInv
<1>6. ASSUME NEW r \in Requests, QuietStep(r)
      PROVE  ContextInv'
  <2>1. CASE Begin(r) \/ CountCompleted(r) \/ Upsert(r) \/ CallModel(r) \/ HangUp(r)
    BY <1>1, <2>1, Zenon DEF Begin, CountCompleted, Upsert, CallModel, HangUp,
                             contextVars
  <2>2. CASE Settle(r) \/ Refused(r) \/ Abort(r)
    BY <1>2, <2>2, Zenon DEF Settle, Refused, Abort
  <2>3. QED
    BY <1>3, <1>4, <1>5, <1>6, <2>1, <2>2, Zenon DEF QuietStep
<1>7. ASSUME NEW r \in Requests,
             InsertQuestion(r) \/ InsertPlaceholder(r) \/ Commit(r)
      PROVE  ContextInv'
  BY <1>1, <1>7, Zenon DEF InsertQuestion, InsertPlaceholder, Commit, contextVars
<1>8. CASE DeleteSession \/ (\E p \in Pagers : ListMessages(p)) \/ UNCHANGED vars
  BY <1>1, <1>8, Zenon DEF DeleteSession, ListMessages, vars, contextVars
<1>9. QED
  BY <1>6, <1>7, <1>8, StepCases, Zenon

LEMMA StepSummary ==
    ASSUME IInv, [Next]_vars
    PROVE  SummaryInv'
<1>0. ToSummarize(completed) \subseteq ToSummarize(completed')
  BY SummarizableGrows
<1>1. CASE UNCHANGED summary
  BY <1>0, <1>1, Zenon DEF IInv, SummaryInv
<1>2. ASSUME NEW r \in Requests, Upsert(r)
      PROVE  SummaryInv'
  <2>1. older[r] # {} /\ older[r] \subseteq ToSummarize(completed)
    BY <1>2 DEF Upsert, IInv, StageInv, ContextInv
  <2>2. older[r] \in SUBSET (1..(next - 1)) /\ next - 1 \in Nat
    BY <2>1, IdsAre DEF IInv, ToSummarize
  <2>3. Newest(older[r]) \in older[r]
    BY <2>1, <2>2, NewestIs, Zenon
  <2>4. [last |-> Newest(older[r]), half |-> half[r]].last = Newest(older[r])
    OBVIOUS
  <2>5. QED
    BY <1>0, <1>2, <2>1, <2>3, <2>4, Zenon DEF Upsert, IInv, SummaryInv
<1>3. ASSUME NEW r \in Requests, QuietStep(r)
      PROVE  SummaryInv'
  <2>1. CASE ~Upsert(r)
    BY <1>1, <1>3, <2>1, Zenon DEF QuietStep, Begin, FindCompleted, CountCompleted,
       FindAllCompleted, GenerateSummary, CallModel, Settle, Refused, Abort,
       HangUp, End, contextVars
  <2>2. QED
    BY <1>2, <2>1
<1>4. ASSUME NEW r \in Requests,
             InsertQuestion(r) \/ InsertPlaceholder(r) \/ Commit(r)
      PROVE  SummaryInv'
  BY <1>1, <1>4, Zenon DEF InsertQuestion, InsertPlaceholder, Commit, contextVars
<1>5. CASE DeleteSession \/ (\E p \in Pagers : ListMessages(p)) \/ UNCHANGED vars
  BY <1>1, <1>5, Zenon DEF DeleteSession, ListMessages, vars, contextVars
<1>6. QED
  BY <1>3, <1>4, <1>5, StepCases, Zenon

-----------------------------------------------------------------------------
(* A request that is alone.                                                *)

\* What AloneInv says of one request.
Alone(r) ==
    /\ pc[r] \in {"placing", "committing"} => \A m \in rows : m < question[r]
    /\ pc[r] = "committing" => question[r] < answer[r]
    /\ pc[r] \in Placed =>
          /\ question[r] \in completed
          /\ \A m \in completed : m <= question[r]
    /\ pc[r] \in Placed \ {"recent"} => question[r] \in recent[r]
    /\ pc[r] \in {"summarising", "storing"} =>
          summary.last = 0 \/ summary.last \in older[r]

LEMMA AloneStep ==
    ASSUME IInv, NEW r \in Requests, ~overlapped,
           Busy(r) => Alone(r),
           \/ QuietStep(r) /\ ~Settle(r) /\ ~Refused(r) /\ ~Abort(r)
           \/ InsertQuestion(r) \/ InsertPlaceholder(r) \/ Commit(r)
    PROVE  Alone(r)'
<1> USE DEF Alone, IInv, TypeOK, Placed, Goto, Busy, Stages
<1>1. CASE Begin(r)
  BY <1>1 DEF Begin
<1>2. CASE InsertQuestion(r)
  BY <1>2 DEF InsertQuestion
<1>3. CASE InsertPlaceholder(r)
  BY <1>3 DEF InsertPlaceholder, StageInv
<1>4. CASE Commit(r)
  BY <1>4 DEF Commit, StageInv
<1>5. CASE FindCompleted(r)
  <2>1. question[r] \in completed /\ \A m \in completed : m <= question[r]
    BY <1>5 DEF FindCompleted
  <2>2. question[r] \in Last(completed, KeepRecent)
    <3>1. completed \in SUBSET Nat
      OBVIOUS
    <3>2. QED
      BY <2>1, <3>1, KeepsSome, NewestIsLast
  <2>3. QED
    BY <1>5, <2>1, <2>2 DEF FindCompleted, tableVars
<1>6. CASE CountCompleted(r) \/ CallModel(r) \/ HangUp(r)
  BY <1>6 DEF CountCompleted, CallModel, HangUp, tableVars, contextVars
<1>7. CASE FindAllCompleted(r)
  BY <1>7 DEF FindAllCompleted, SummaryInv, tableVars
<1>8. CASE GenerateSummary(r)
  BY <1>8 DEF GenerateSummary, tableVars
<1>9. CASE Upsert(r)
  BY <1>9 DEF Upsert, tableVars
<1>10. QED
  BY <1>1, <1>2, <1>3, <1>4, <1>5, <1>6, <1>7, <1>8, <1>9, Zenon DEF QuietStep

\* The steps of request r concern r.
OwnStep(r) ==
    QuietStep(r) \/ InsertQuestion(r) \/ InsertPlaceholder(r) \/ Commit(r)

LEMMA OwnStepOnly ==
    ASSUME IInv, NEW r \in Requests, OwnStep(r)
    PROVE  /\ overlapped => overlapped'
           /\ \A q \in Requests \ {r} : pc'[q] = pc[q]
           /\ Busy(r) \/ ~overlapped' => ~\E q \in Requests \ {r} : Busy(q) /\ ~overlapped
<1> USE DEF IInv, TypeOK, Goto, End, Busy
<1>1. CASE Begin(r)
  BY <1>1 DEF Begin, AloneInv
<1>2. CASE ~Begin(r)
  <2>1. overlapped' = overlapped
    BY <1>2, Zenon DEF OwnStep, QuietStep, FindCompleted, CountCompleted,
       FindAllCompleted, GenerateSummary, Upsert, CallModel, Settle, Refused,
       Abort, HangUp, InsertQuestion, InsertPlaceholder, Commit
  <2>2. \A q \in Requests \ {r} : pc'[q] = pc[q]
    BY <1>2, Zenon DEF OwnStep, QuietStep, FindCompleted, CountCompleted,
       FindAllCompleted, GenerateSummary, Upsert, CallModel, Settle, Refused,
       Abort, HangUp, InsertQuestion, InsertPlaceholder, Commit
  <2>3. Busy(r)
    BY <1>2 DEF OwnStep, QuietStep, FindCompleted, CountCompleted,
       FindAllCompleted, GenerateSummary, Upsert, CallModel, Settle, Refused,
       Abort, HangUp, InsertQuestion, InsertPlaceholder, Commit
  <2>4. QED
    BY <2>1, <2>2, <2>3, Zenon DEF AloneInv
<1>3. QED
  BY <1>1, <1>2

LEMMA AloneIs ==
    AloneInv <=>
        (~overlapped => /\ \A r, q \in Requests : Busy(r) /\ Busy(q) => r = q
                        /\ \A r \in Requests : Alone(r))
BY Zenon DEF AloneInv, Alone

LEMMA IdleAlone ==
    ASSUME NEW r \in Requests, ~Busy(r)
    PROVE  Alone(r)
BY DEF Alone, Busy, Placed

LEMMA StepAlone ==
    ASSUME IInv, [Next]_vars
    PROVE  AloneInv'
<1>1. ASSUME NEW r \in Requests, OwnStep(r), ~overlapped'
      PROVE  /\ \A p, q \in Requests : Busy(p)' /\ Busy(q)' => p = q
             /\ \A q \in Requests : Alone(q)'
  <2>1. ~overlapped /\ \A q \in Requests \ {r} : ~Busy(q) /\ pc'[q] = pc[q]
    BY <1>1, OwnStepOnly, Zenon
  <2>2. \A q \in Requests \ {r} : ~Busy(q)'
    BY <2>1 DEF Busy
  <2>3. \A q \in Requests \ {r} : Alone(q)'
    <3>1. \A q \in Requests \ {r} : pc'[q] = "idle"
      BY <2>2 DEF Busy
    <3>2. QED
      BY <3>1 DEF Alone, Placed
  <2>4. Alone(r)'
    <3>1. CASE Settle(r) \/ Refused(r) \/ Abort(r)
      <4>1. pc'[r] = "idle"
        BY <3>1, Zenon DEF Settle, Refused, Abort, End, Goto, IInv, TypeOK
      <4>2. QED
        BY <4>1 DEF Alone, Placed
    <3>2. CASE ~(Settle(r) \/ Refused(r) \/ Abort(r))
      <4>1. Alone(r)
        BY <2>1, AloneIs, Zenon DEF IInv
      <4>2. QED
        BY <1>1, <2>1, <3>2, <4>1, AloneStep, Zenon DEF OwnStep
    <3>3. QED
      BY <3>1, <3>2
  <2>5. QED
    BY <2>2, <2>3, <2>4, Zenon
<1>2. ASSUME NEW r \in Requests, OwnStep(r)
      PROVE  AloneInv'
  <2>1. ~overlapped' =>
           /\ \A p, q \in Requests : Busy(p)' /\ Busy(q)' => p = q
           /\ \A q \in Requests : Alone(q)'
    BY <1>1, <1>2, Zenon
  <2>2. QED
    BY <2>1, Zenon DEF AloneInv, Alone, Busy
<1>3. CASE DeleteSession \/ (\E p \in Pagers : ListMessages(p)) \/ UNCHANGED vars
  <2>1. UNCHANGED <<rows, completed, contextVars, requestVars>>
    BY <1>3, Zenon DEF DeleteSession, ListMessages, vars, tableVars
  <2>2. AloneInv
    BY DEF IInv
  <2>3. QED
    BY <2>1, <2>2 DEF AloneInv, Busy, contextVars, requestVars
<1>4. QED
  BY <1>2, <1>3, StepCases, Zenon DEF OwnStep

-----------------------------------------------------------------------------
(* The walks.                                                              *)

\* What one more page brings, for a walk that began with the messages S.
LEMMA PageFills ==
    ASSUME TypeOK, NEW p \in Pagers, NEW m \in rows,
           before[p] # 0 => m < before[p]
    PROVE  m \in Page(p) \/ (HasMore(p) /\ m < Oldest(Page(p)))
<1> DEFINE From == IF before[p] > 0 THEN Below(before[p]) ELSE rows
           n == next - 1
<1>1. before[p] \in rows \cup {0} /\ rows \in SUBSET (1..n) /\ n \in Nat
  BY IdsAre, Zenon DEF TypeOK
<1>2. m \in From /\ From \in SUBSET (1..n)
  <2>1. before[p] = 0 \/ before[p] > 0
    <3>1. \A i \in 1..n : i > 0
      BY SMT
    <3>2. QED
      BY <1>1, <3>1, Zenon
  <2>2. ~(0 > 0)
    BY SMT
  <2>3. QED
    BY <1>1, <2>1, <2>2, Zenon DEF Below
<1>3. Raw(p) = Last(From, QueryLimit)
  BY Zenon DEF Raw
<1>4. QueryLimit \in Nat /\ Limit \in Nat /\ QueryLimit > Limit
  BY LimitAssumption, SMT DEF QueryLimit
<1> HIDE DEF From, n
<1>5. Raw(p) \in SUBSET (1..n)
  BY <1>2, <1>3, LastSubset, Zenon
<1>6. CASE m \in Raw(p)
  <2>1. CASE HasMore(p)
    <3>1. Page(p) = Last(Raw(p), Limit)
      BY <2>1, Zenon DEF Page
    <3>2. Page(p) # {} /\ Oldest(Page(p)) \in Page(p)
      BY <2>1, PageIs, Zenon
    <3>3. m \notin Page(p) => m < Oldest(Page(p))
      BY <1>1, <1>4, <1>5, <1>6, <3>1, <3>2, LastIsAbove
    <3>4. QED
      BY <2>1, <3>3
  <2>2. CASE ~HasMore(p)
    BY <1>6, <2>2, Zenon DEF Page
  <2>3. QED
    BY <2>1, <2>2
<1>7. CASE m \notin Raw(p)
  <2>1. Cardinality(Raw(p)) >= QueryLimit
    BY <1>1, <1>2, <1>3, <1>4, <1>7, LastIsFull, Zenon
  <2>2. Cardinality(Raw(p)) \in Nat
    BY <1>1, <1>5, IdsFinite, Zenon
  <2>3. HasMore(p)
    BY <1>4, <2>1, <2>2, SMT DEF HasMore
  <2>4. Oldest(Page(p)) \in Raw(p)
    BY <2>3, PageIs, Zenon
  <2>5. m < Oldest(Page(p))
    BY <1>1, <1>2, <1>3, <1>4, <1>7, <2>4, LastIsAbove, Zenon
  <2>6. QED
    BY <2>3, <2>5
<1>8. QED
  BY <1>6, <1>7

\* What WalkInv says of one client.
Walks(p) ==
    /\ served[p] = Cardinality(got[p])
    /\ before[p] = 0 /\ more[p] => got[p] = {} /\ had[p] = {}
    /\ before[p] # 0 => \A m \in got[p] : before[p] <= m
    /\ before[p] # 0 /\ more[p] =>
          \A m \in had[p] : m \in got[p] \/ m < before[p]
    /\ ~more[p] => had[p] \subseteq got[p]

LEMMA WalkStep ==
    ASSUME IInv, NEW p \in Pagers, ListMessages(p)
    PROVE  Walks(p)'
<1> DEFINE n == next - 1
<1>0. TypeOK /\ Walks(p)
  BY Zenon DEF IInv, WalkInv, Walks
<1>1. /\ rows \in SUBSET (1..n) /\ n \in Nat
      /\ got[p] \in SUBSET rows /\ had[p] \in SUBSET rows
      /\ before[p] \in rows \cup {0} /\ served[p] \in Nat
  BY <1>0, IdsAre, Zenon DEF TypeOK
<1>2. /\ more'[p] = HasMore(p)
      /\ before'[p] = (IF Page(p) = {} THEN 0 ELSE Oldest(Page(p)))
      /\ got'[p] = got[p] \cup Page(p)
      /\ served'[p] = served[p] + Cardinality(Page(p))
      /\ had'[p] = (IF before[p] = 0 THEN rows ELSE had[p])
      /\ more[p]
  BY <1>0, Zenon DEF ListMessages, TypeOK
<1>3. /\ Page(p) \in SUBSET rows
      /\ HasMore(p) => Page(p) # {}
      /\ Page(p) # {} => /\ Oldest(Page(p)) \in Page(p)
                        /\ \A m \in Page(p) : Oldest(Page(p)) <= m
      /\ before[p] # 0 => \A m \in Page(p) : m < before[p]
  BY <1>0, PageIs, Zenon
<1>4. \A m \in 1..n : m # 0 /\ m \in Int
  BY SMT
<1>5. \A m \in got[p], x \in Page(p) : x < m
  <2>1. ASSUME NEW m \in got[p], NEW x \in Page(p)
        PROVE  x < m
    <3>1. before[p] # 0 /\ before[p] <= m
      BY <1>0, <1>2, Zenon DEF Walks
    <3>2. x < before[p]
      BY <1>3, <3>1, Zenon
    <3>3. x \in Int /\ m \in Int /\ before[p] \in Int
      BY <1>1, <1>3, <1>4, <3>1, Zenon
    <3>4. QED
      BY <3>1, <3>2, <3>3, SMT
  <2>2. QED
    BY <2>1, Zenon
<1>6. served'[p] = Cardinality(got'[p])
  <2>1. got[p] \in SUBSET (1..n) /\ Page(p) \in SUBSET (1..n)
    BY <1>1, <1>3, Zenon
  <2>2. IsFiniteSet(got[p]) /\ IsFiniteSet(Page(p))
    BY <1>1, <2>1, IdsFinite, Zenon
  <2>3. got[p] \cap Page(p) = {}
    <3>1. ASSUME NEW x \in got[p] \cap Page(p)
          PROVE  FALSE
      <4>1. x < x /\ x \in Int
        BY <1>1, <1>3, <1>4, <1>5, <3>1, Zenon
      <4>2. QED
        BY <4>1, SMT
    <3>2. QED
      BY <3>1, Zenon
  <2>4. Cardinality(got[p] \cup Page(p)) =
          Cardinality(got[p]) + Cardinality(Page(p)) - Cardinality(got[p] \cap Page(p))
    BY <2>2, FS_Union, Zenon
  <2>5. Cardinality(got[p] \cap Page(p)) = 0
    BY <2>3, FS_EmptySet, Zenon
  <2>6. Cardinality(got[p]) \in Nat /\ Cardinality(Page(p)) \in Nat
    BY <1>1, <2>1, IdsFinite, Zenon
  <2>7. QED
    <3>1. served[p] = Cardinality(got[p])
      BY <1>0, Zenon DEF Walks
    <3>2. QED
      BY <1>2, <2>4, <2>5, <2>6, <3>1
<1>7. before'[p] = 0 /\ more'[p] => got'[p] = {} /\ had'[p] = {}
  BY <1>1, <1>2, <1>3, <1>4, Zenon
<1>8. before'[p] # 0 => \A m \in got'[p] : before'[p] <= m
  <2>1. SUFFICES ASSUME before'[p] # 0, NEW m \in got'[p] PROVE before'[p] <= m
    BY Zenon
  <2>2. Page(p) # {} /\ before'[p] = Oldest(Page(p)) /\ Oldest(Page(p)) \in Page(p)
    BY <1>2, <1>3, <2>1, Zenon
  <2>3. CASE m \in Page(p)
    BY <1>3, <2>2, <2>3, Zenon
  <2>4. CASE m \in got[p]
    <3>1. Oldest(Page(p)) < m
      BY <1>5, <2>2, <2>4, Zenon
    <3>2. m \in Int /\ Oldest(Page(p)) \in Int
      BY <1>1, <1>3, <1>4, <2>2, <2>4, Zenon
    <3>3. QED
      BY <2>2, <3>1, <3>2
  <2>5. QED
    BY <1>2, <2>1, <2>3, <2>4, Zenon
<1>9. \A m \in had'[p] : \/ m \in got'[p]
                         \/ (HasMore(p) /\ m < Oldest(Page(p)))
  <2>1. SUFFICES ASSUME NEW m \in had'[p], m \notin got[p]
                 PROVE  m \in Page(p) \/ (HasMore(p) /\ m < Oldest(Page(p)))
    BY <1>2, Zenon
  <2>2. m \in rows
    BY <1>1, <1>2, <2>1, Zenon
  <2>3. before[p] # 0 => m < before[p]
    BY <1>0, <1>2, <2>1, Zenon DEF Walks
  <2>4. QED
    BY <1>0, <2>2, <2>3, PageFills, Zenon
<1>10. before'[p] # 0 /\ more'[p] => \A m \in had'[p] : m \in got'[p] \/ m < before'[p]
  BY <1>2, <1>9, Zenon
<1>11. ~more'[p] => had'[p] \subseteq got'[p]
  BY <1>2, <1>9, Zenon
<1>12. QED
  BY <1>6, <1>7, <1>8, <1>10, <1>11, Zenon DEF Walks

LEMMA StepWalk ==
    ASSUME IInv, [Next]_vars
    PROVE  WalkInv'
<1>1. CASE UNCHANGED pageVars
  BY <1>1, Zenon DEF IInv, WalkInv, pageVars
<1>2. ASSUME NEW p \in Pagers, ListMessages(p)
      PROVE  WalkInv'
  <2>1. \A q \in Pagers \ {p} :
           /\ served'[q] = served[q] /\ got'[q] = got[q] /\ had'[q] = had[q]
           /\ before'[q] = before[q] /\ more'[q] = more[q]
    BY <1>2, Zenon DEF ListMessages, IInv, TypeOK
  <2>2. \A q \in Pagers \ {p} : Walks(q)'
    BY <2>1, Zenon DEF IInv, WalkInv, Walks
  <2>3. Walks(p)'
    BY <1>2, WalkStep
  <2>4. QED
    BY <2>2, <2>3, Zenon DEF WalkInv, Walks
<1>3. ASSUME NEW r \in Requests, OwnStep(r)
      PROVE  UNCHANGED pageVars
  BY <1>3, Zenon DEF OwnStep, QuietStep, Begin, FindCompleted, CountCompleted,
     FindAllCompleted, GenerateSummary, Upsert, CallModel, Settle, Refused,
     Abort, HangUp, InsertQuestion, InsertPlaceholder, Commit
<1>4. CASE DeleteSession \/ UNCHANGED vars
  BY <1>1, <1>4, Zenon DEF DeleteSession, vars
<1>5. QED
  BY <1>1, <1>2, <1>3, <1>4, StepCases, Zenon DEF OwnStep

-----------------------------------------------------------------------------
(* The theorems.                                                           *)

LEMMA StepIInv == IInv /\ [Next]_vars => IInv'
<1> SUFFICES ASSUME IInv, [Next]_vars PROVE IInv'
  OBVIOUS
<1>1. QED
  BY StepType, StepStage, StepContext, StepHalf, StepSummary, StepAlone, StepWalk,
     Zenon DEF IInv

LEMMA Invariance == Spec => []IInv
<1>1. QED
  BY InitIInv, StepIInv, PTL DEF Spec

\* The types, and that the ids of all messages ever seen are ids of rows.
THEOREM TypeCorrect == Spec => []TypeOK
<1>1. IInv => TypeOK
  BY Zenon DEF IInv
<1>2. QED
  BY <1>1, Invariance, PTL

\* Nothing slides out of the recent window without being summarised: for any
\* window, threshold and interleaving (compression_service.go 50-83).
THEOREM NothingForgottenHolds == Spec => []NothingForgotten
<1>1. IInv => NothingForgotten
  BY Zenon DEF IInv, ContextInv, NothingForgotten
<1>2. QED
  BY <1>1, Invariance, PTL

\* A request that was alone puts its own question last before the model
\* (chat_service.go 121-130).
THEOREM EndsWithQuestionHolds == Spec => []EndsWithQuestion
<1>1. IInv => EndsWithQuestion
  <2>1. SUFFICES ASSUME IInv, ~overlapped, NEW r \in Requests,
                        pc[r] \in {"calling", "answering"}
                 PROVE  /\ question[r] \in recent[r]
                        /\ \A m \in recent[r] \cup older[r] : m <= question[r]
    BY Zenon DEF EndsWithQuestion
  <2>2. Alone(r)
    BY <2>1, AloneIs, Zenon DEF IInv
  <2>3. /\ question[r] \in recent[r]
        /\ \A m \in completed : m <= question[r]
    BY <2>1, <2>2 DEF Alone, Placed
  <2>4. recent[r] \cup older[r] \subseteq completed
    <3>1. ContextInv /\ TypeOK
      BY <2>1, Zenon DEF IInv
    <3>2. recent[r] = Last(seen[r], KeepRecent) /\ seen[r] \subseteq completed
      BY <2>1, <3>1 DEF ContextInv
    <3>3. recent[r] \subseteq seen[r]
      BY <3>2, LastSubset
    <3>4. older[r] \subseteq completed
      BY <2>1, <3>1 DEF ContextInv, ToSummarize
    <3>5. QED
      BY <3>2, <3>3, <3>4, Zenon
  <2>5. QED
    BY <2>3, <2>4, Zenon
<1>2. QED
  BY <1>1, Invariance, PTL

\* No model call is answered on half a summary (compression_service.go 153-166).
THEOREM HalfSummaryUnusedHolds == Spec => []HalfSummaryUnused
<1>1. IInv => HalfSummaryUnused
  BY DEF IInv, HalfInv, HalfSummaryUnused
<1>2. QED
  BY <1>1, Invariance, PTL

\* A walk to the first page sends every message that was there when it began,
\* for any limit and any number of clients (message_service.go 206-232).
THEOREM WalkCompleteHolds == Spec => []WalkComplete
<1>1. IInv => WalkComplete
  BY Zenon DEF IInv, WalkInv, WalkComplete
<1>2. QED
  BY <1>1, Invariance, PTL

\* No message is sent twice in a walk (message_service.go 228-231).
THEOREM WalkOnceHolds == Spec => []WalkOnce
<1>1. IInv => WalkOnce
  BY Zenon DEF IInv, WalkInv, WalkOnce
<1>2. QED
  BY <1>1, Invariance, PTL

\* The stored summary never shrinks while requests do not overlap
\* (compression_service.go 101-106).
THEOREM SummaryAdvancesHolds == Spec => SummaryAdvances
<1>1. ASSUME IInv, [Next]_vars, ~overlapped'
      PROVE  summary.last <= summary'.last
  <2>0. TypeOK /\ summary.last \in Int
    <3>1. summary \in [last : rows \cup {0}, half : BOOLEAN] /\ TypeOK
      BY <1>1 DEF IInv, TypeOK
    <3>2. QED
      BY <3>1, IdsAre
  <2>1. CASE UNCHANGED summary
    BY <2>0, <2>1
  <2>2. ASSUME NEW r \in Requests, Upsert(r)
        PROVE  summary.last <= summary'.last
    <3>1. ~overlapped /\ pc[r] = "storing"
      BY <1>1, <2>2, Zenon DEF Upsert
    <3>2. Alone(r)
      BY <1>1, <3>1, AloneIs, Zenon DEF IInv
    <3>3. summary.last = 0 \/ summary.last \in older[r]
      BY <3>1, <3>2 DEF Alone
    <3>4. older[r] # {} /\ older[r] \in SUBSET (1..(next - 1)) /\ next - 1 \in Nat
      BY <1>1, <2>0, <3>1, IdsAre DEF IInv, StageInv, TypeOK
    <3>5. /\ Newest(older[r]) \in 1..(next - 1)
          /\ \A x \in older[r] : x <= Newest(older[r])
      BY <3>4, NewestIs, Zenon
    <3>6. summary.last <= Newest(older[r])
      <4>1. \A i \in 1..(next - 1) : 0 <= i
        BY SMT
      <4>2. QED
        BY <3>3, <3>5, <4>1, Zenon
    <3>7. summary' = summary \/ summary'.last = Newest(older[r])
      BY <2>2 DEF Upsert
    <3>8. QED
      BY <2>0, <3>6, <3>7
  <2>3. ASSUME NEW r \in Requests, OwnStep(r), ~Upsert(r)
        PROVE  UNCHANGED summary
    BY <2>3, Zenon DEF OwnStep, QuietStep, Begin, FindCompleted, CountCompleted,
       FindAllCompleted, GenerateSummary, CallModel, Settle, Refused, Abort,
       HangUp, End, InsertQuestion, InsertPlaceholder, Commit, contextVars
  <2>4. CASE DeleteSession \/ (\E p \in Pagers : ListMessages(p)) \/ UNCHANGED vars
    BY <2>1, <2>4, Zenon DEF DeleteSession, ListMessages, vars, contextVars
  <2>5. QED
    BY <1>1, <2>1, <2>2, <2>3, <2>4, StepCases, Zenon DEF OwnStep
<1>2. IInv /\ [Next]_vars => [~overlapped' => summary.last <= summary'.last]_vars
  BY <1>1, Zenon
<1>3. QED
  BY <1>2, Invariance, PTL DEF Spec, SummaryAdvances
=============================================================================
