--------------------------- MODULE AccountsProofs ---------------------------
(***************************************************************************)
(* Theorems about Accounts: the types, and for any number of clients,      *)
(* names, providers and keys, that accounts are unique, that an            *)
(* acknowledged registration exists, that a model call runs on a key of    *)
(* its own account, and that the calls about keys implement KeyRegister.   *)
(***************************************************************************)
EXTENDS Accounts, TLAPS

KeyStages == {"finding", "inserting", "updating", "deleting", "listing", "reading"}
FormStages == {"naming", "mailing", "creating"}

\* What a request waits for is what its stage says.
Shape(c) ==
    /\ form[c] # NoForm <=> stage[c] \in FormStages
    /\ call[c] # NoCall <=> stage[c] \in KeyStages
    /\ stage[c] \in {"finding", "inserting", "updating"} => call[c].op = "save"
    /\ stage[c] = "deleting" => call[c].op = "delete"
    /\ stage[c] = "listing" => call[c].op = "list"
    /\ stage[c] = "reading" => call[c].op = "read"

\* Requests act for the account that their client has logged in to.
Acts(c) ==
    /\ token[c] # 0 => \E u \in users : u.id = token[c] /\ u.email = login[c]
    /\ call[c] # NoCall => token[c] # 0 /\ call[c].user = token[c]
    /\ stage[c] \in {"finding", "inserting", "updating"} => call[c].key.of = login[c]
    /\ stage[c] = "updating" => Mine(c) # {}
    /\ token[c] = 0 => reply[c] = NoReply

\* A row of credentials belongs to a user and holds a key of his.
Owned == \A d \in credentials :
            /\ d.suffix = d.key.suffix
            /\ \E u \in users : u.id = d.user /\ u.email = d.key.of

UniqueIds == \A u, v \in users : u.id = v.id => u = v

OneRow == \A d, e \in credentials :
            (d.user = e.user /\ d.provider = e.provider) => d = e

IInv ==
    /\ TypeOK
    /\ UniqueAccounts
    /\ UniqueIds
    /\ AcknowledgedExists
    /\ \A c \in Clients : Shape(c)
    /\ \A c \in Clients : Acts(c)
    /\ Owned
    /\ OneRow
    /\ OwnKey

Registers(c) == Register(c) \/ FindByUsername(c) \/ FindByEmail(c) \/ FailRegister(c)
Begins(c) == SaveKey(c) \/ DeleteKey(c) \/ ListKeys(c) \/ BeginStream(c)
Writes(c) == Insert(c) \/ Update(c) \/ Delete(c)
Reads(c) == ListStatus(c) \/ GetDecrypted(c) \/ Fail(c)

-----------------------------------------------------------------------------
(* Lemmas about data.                                                      *)

LEMMA CallFields ==
    ASSUME NEW x \in Calls
    PROVE  /\ x.user \in 1..MaxUsers
           /\ x.op \in {"save", "delete", "read"} => x.provider \in Providers
           /\ x.op = "save" => x.key \in Keys
BY DEF Calls

LEMMA KeyFields ==
    ASSUME NEW k \in Keys
    PROVE  k.of \in Emails /\ k.suffix \in Suffixes
BY DEF Keys

LEMMA StepCases ==
    ASSUME [Next]_vars
    PROVE  \/ UNCHANGED vars
           \/ \E c \in Clients :
                \/ Registers(c) \/ Create(c) \/ Login(c) \/ Logout(c)
                \/ Begins(c) \/ Find(c) \/ Writes(c) \/ Reads(c)
BY Zenon DEF Next, Registers, Begins, Writes, Reads

\* What every step but Create leaves alone.
LEMMA UsersStay ==
    ASSUME NEW c \in Clients,
           Registers(c) \/ Login(c) \/ Logout(c) \/ Begins(c) \/ Find(c)
             \/ Writes(c) \/ Reads(c)
    PROVE  UNCHANGED <<nextId, users, acknowledged>>
BY Zenon DEF Registers, Register, FindByUsername, FindByEmail, FailRegister, Login,
   Logout, Begins, SaveKey, DeleteKey, ListKeys, BeginStream, Begin, Find, Writes,
   Insert, Update, Delete, Reads, ListStatus, GetDecrypted, Fail, End, accountVars

\* What every step but a write leaves alone.
LEMMA CredentialsStay ==
    ASSUME NEW c \in Clients,
           Registers(c) \/ Create(c) \/ Login(c) \/ Logout(c) \/ Begins(c)
             \/ Find(c) \/ Reads(c)
    PROVE  credentials' = credentials
BY Zenon DEF Registers, Register, FindByUsername, FindByEmail, FailRegister, Login,
   Create, Logout, Begins, SaveKey, DeleteKey, ListKeys, BeginStream, Begin, Find,
   Reads, ListStatus, GetDecrypted, Fail, accountVars, keyVars

-----------------------------------------------------------------------------
(* The types.                                                              *)

LEMMA RegistersType ==
    ASSUME TypeOK, NEW c \in Clients, Registers(c)
    PROVE  TypeOK'
<1>1. form' \in [Clients -> Forms \cup {NoForm}]
  BY DEF TypeOK, Registers, Register, FindByUsername, FindByEmail, FailRegister,
     EndRegister
<1>2. stage' \in [Clients -> Stages]
  BY DEF TypeOK, Registers, Register, FindByUsername, FindByEmail, FailRegister,
     EndRegister, Goto, Stages
<1>3. UNCHANGED <<nextId, users, acknowledged, keyVars, tokenVars>>
  BY Zenon DEF Registers, Register, FindByUsername, FindByEmail, FailRegister
<1>4. QED
  BY <1>1, <1>2, <1>3, Zenon DEF TypeOK, keyVars, tokenVars

LEMMA CreateType ==
    ASSUME TypeOK, IInv, NEW c \in Clients, Create(c)
    PROVE  TypeOK'
<1>1. form[c] \in Forms
  BY DEF IInv, TypeOK, Shape, Create, FormStages
<1>2. Row(form[c]) \in UserRows /\ Row(form[c]).id = nextId
  BY <1>1, MaxUsersAssumption DEF Row, UserRows, Forms, TypeOK, Create
<1>3. nextId' = nextId + 1 /\ nextId' \in 1..(MaxUsers + 1)
  BY MaxUsersAssumption DEF Create, TypeOK
<1>4. /\ users \subseteq users'
      /\ users' \subseteq users \cup {Row(form[c])}
      /\ acknowledged' \subseteq acknowledged \cup {form[c]}
  BY DEF Create
<1>5. \A u \in users' : u \in UserRows /\ u.id < nextId'
  BY <1>2, <1>3, <1>4 DEF TypeOK, UserRows
<1>6. form' \in [Clients -> Forms \cup {NoForm}]
  BY DEF TypeOK, Create, EndRegister
<1>7. stage' \in [Clients -> Stages]
  BY DEF TypeOK, Create, EndRegister, Goto, Stages
<1>8. token' \in [Clients -> {0} \cup {u.id : u \in users'}]
  BY <1>4 DEF TypeOK, Create, tokenVars
<1>9. QED
  BY <1>1, <1>3, <1>4, <1>5, <1>6, <1>7, <1>8 DEF TypeOK, Create, keyVars, tokenVars

LEMMA TokenType ==
    ASSUME TypeOK, NEW c \in Clients, Login(c) \/ Logout(c)
    PROVE  TypeOK'
<1>1. token' \in [Clients -> {0} \cup {u.id : u \in users}]
  BY DEF TypeOK, Login, Logout
<1>2. login' \in [Clients -> Emails]
  BY DEF TypeOK, Login, Logout
<1>3. reply' \in [Clients -> Replies \cup {NoReply}]
  BY DEF TypeOK, Login, Logout, keyVars
<1>4. UNCHANGED <<accountVars, credentials, call, stage>>
  BY Zenon DEF Login, Logout, keyVars
<1>5. QED
  BY <1>1, <1>2, <1>3, <1>4, Zenon DEF TypeOK, accountVars

\* A token names an id that registrations may take.
LEMMA TokenRange ==
    ASSUME TypeOK, NEW c \in Clients, token[c] # 0
    PROVE  token[c] \in 1..MaxUsers
BY DEF TypeOK, UserRows

LEMMA BeginsType ==
    ASSUME TypeOK, NEW c \in Clients, Begins(c)
    PROVE  /\ TypeOK'
           /\ stage[c] = "idle" /\ token[c] # 0
           /\ call'[c] \in Calls /\ call'[c].user = token[c]
           /\ \/ stage'[c] = "finding" /\ call'[c].op = "save"
                   /\ call'[c].key.of = login[c]
              \/ stage'[c] = "deleting" /\ call'[c].op = "delete"
              \/ stage'[c] = "listing" /\ call'[c].op = "list"
              \/ stage'[c] = "reading" /\ call'[c].op = "read"
           /\ \E new, s : Begin(c, new, s)
<1>1. PICK new, s : /\ Begin(c, new, s)
                    /\ new \in Calls /\ new.user = token[c]
                    /\ \/ s = "finding" /\ new.op = "save" /\ new.key.of = login[c]
                       \/ s = "deleting" /\ new.op = "delete"
                       \/ s = "listing" /\ new.op = "list"
                       \/ s = "reading" /\ new.op = "read"
  <2>1. CASE SaveKey(c)
    <3>1. PICK p \in Providers, k \in Keys :
             /\ k.of = login[c]
             /\ Begin(c, [op |-> "save", user |-> token[c], provider |-> p,
                          key |-> k], "finding")
      BY <2>1 DEF SaveKey
    <3>2. [op |-> "save", user |-> token[c], provider |-> p, key |-> k] \in Calls
      BY <3>1, TokenRange DEF Calls, Begin
    <3>3. QED
      BY <3>1, <3>2
  <2>2. CASE DeleteKey(c)
    <3>1. PICK p \in Providers :
             Begin(c, [op |-> "delete", user |-> token[c], provider |-> p], "deleting")
      BY <2>2 DEF DeleteKey
    <3>2. [op |-> "delete", user |-> token[c], provider |-> p] \in Calls
      BY <3>1, TokenRange DEF Calls, Begin
    <3>3. QED
      BY <3>1, <3>2
  <2>3. CASE ListKeys(c)
    <3>1. Begin(c, [op |-> "list", user |-> token[c]], "listing")
      BY <2>3 DEF ListKeys
    <3>2. [op |-> "list", user |-> token[c]] \in Calls
      BY <3>1, TokenRange DEF Calls, Begin
    <3>3. QED
      BY <3>1, <3>2
  <2>4. CASE BeginStream(c)
    <3>1. PICK p \in Providers :
             Begin(c, [op |-> "read", user |-> token[c], provider |-> p], "reading")
      BY <2>4 DEF BeginStream
    <3>2. [op |-> "read", user |-> token[c], provider |-> p] \in Calls
      BY <3>1, TokenRange DEF Calls, Begin
    <3>3. QED
      BY <3>1, <3>2
  <2>5. QED
    BY <2>1, <2>2, <2>3, <2>4 DEF Begins
<1>2. call' = [call EXCEPT ![c] = new] /\ stage' = [stage EXCEPT ![c] = s]
  BY <1>1 DEF Begin, Goto
<1>3. call'[c] = new /\ stage'[c] = s
  BY <1>2 DEF TypeOK
<1>4. call' \in [Clients -> Calls \cup {NoCall}] /\ stage' \in [Clients -> Stages]
  BY <1>1, <1>2 DEF TypeOK, Stages
<1>5. reply' \in [Clients -> Replies \cup {NoReply}]
  BY <1>1 DEF TypeOK, Begin
<1>6. TypeOK'
  BY <1>1, <1>4, <1>5, Zenon DEF TypeOK, Begin, accountVars, tokenVars
<1>7. QED
  BY <1>1, <1>3, <1>6 DEF Begin

\* The end of a call about keys.
LEMMA EndType ==
    ASSUME TypeOK, NEW c \in Clients, NEW r \in Replies, End(c, r),
           credentials' \subseteq CredentialRows
    PROVE  TypeOK'
<1>1. call' \in [Clients -> Calls \cup {NoCall}]
  BY DEF TypeOK, End
<1>2. stage' \in [Clients -> Stages]
  BY DEF TypeOK, End, Goto, Stages
<1>3. reply' \in [Clients -> Replies \cup {NoReply}]
  BY DEF TypeOK, End
<1>4. QED
  BY <1>1, <1>2, <1>3, Zenon DEF TypeOK, End, accountVars, tokenVars

\* What the reply of a call may be.
LEMMA EndsReply ==
    ASSUME IInv, NEW c \in Clients, Writes(c) \/ Reads(c)
    PROVE  /\ call[c] \in Calls
           /\ credentials' \subseteq CredentialRows
           /\ \E r \in Replies : End(c, r)
<1>0. TypeOK /\ Shape(c)
  BY Zenon DEF IInv
<1>1. call[c] \in Calls
  BY <1>0 DEF TypeOK, Shape, KeyStages, Writes, Insert, Update, Delete, Reads,
     ListStatus, GetDecrypted, Fail
<1>2. Failed \in Replies
  BY DEF Failed, Replies
<1>3. CASE Insert(c) \/ Update(c)
  <2>1. call[c].op = "save"
    BY <1>0, <1>3 DEF Shape, Insert, Update
  <2>2. call[c].key \in Keys /\ call[c].provider \in Providers
    BY <1>1, <2>1, CallFields
  <2>3. New(c) \in CredentialRows
    BY <1>1, <2>2, CallFields, KeyFields DEF New, CredentialRows
  <2>4. Saved(c) \in Replies
    BY <2>2, KeyFields DEF Saved, Replies
  <2>5. credentials' \subseteq CredentialRows
    BY <1>0, <1>3, <2>3 DEF TypeOK, Insert, Update
  <2>6. \E r \in Replies : End(c, r)
    BY <1>2, <1>3, <2>4, Zenon DEF Insert, Update
  <2>7. QED
    BY <1>1, <2>5, <2>6
<1>4. CASE Delete(c)
  <2>1. \A d \in CredentialRows : [d EXCEPT !.active = FALSE] \in CredentialRows
    BY DEF CredentialRows
  <2>2. credentials' \subseteq CredentialRows
    BY <1>0, <1>4, <2>1 DEF TypeOK, Delete, Mine
  <2>3. [deleted |-> TRUE] \in Replies
    BY DEF Replies
  <2>4. \E r \in Replies : End(c, r)
    BY <1>2, <1>4, <2>3, Zenon DEF Delete
  <2>5. QED
    BY <1>1, <2>2, <2>4
<1>5. CASE ListStatus(c)
  <2> DEFINE Shown(p) == {d \in {e \in credentials : e.user = call[c].user /\ e.active} :
                            d.provider = p}
             list == [p \in Providers |->
                        IF Shown(p) = {} THEN NoSuffix
                        ELSE (CHOOSE d \in Shown(p) : TRUE).suffix]
  <2>1. \A p \in Providers : Shown(p) # {} =>
            (CHOOSE d \in Shown(p) : TRUE).suffix \in Suffixes
    BY <1>0 DEF TypeOK, CredentialRows
  <2>2. list \in [Providers -> Suffixes \cup {NoSuffix}]
    BY <2>1
  <2>3. [listed |-> list] \in Replies
    <3> HIDE DEF list
    <3>1. QED
      BY <2>2 DEF Replies
  <2>4. End(c, [listed |-> list]) /\ credentials' = credentials
    BY <1>5, Zenon DEF ListStatus
  <2>5. QED
    BY <1>0, <1>1, <2>3, <2>4, Zenon DEF TypeOK
<1>6. CASE GetDecrypted(c)
  <2> DEFINE k == IF Active(c) = {} THEN NoKey ELSE (CHOOSE d \in Active(c) : TRUE).key
  <2>1. k \in Keys \cup {NoKey}
    BY <1>0 DEF TypeOK, CredentialRows, Active, Mine
  <2>2. [read |-> k] \in Replies
    <3> HIDE DEF k
    <3>1. QED
      BY <2>1 DEF Replies
  <2>3. End(c, [read |-> k]) /\ credentials' = credentials
    BY <1>6, Zenon DEF GetDecrypted
  <2>4. QED
    BY <1>0, <1>1, <2>2, <2>3, Zenon DEF TypeOK
<1>7. CASE Fail(c)
  BY <1>0, <1>1, <1>2, <1>7, Zenon DEF TypeOK, Fail
<1>8. QED
  BY <1>3, <1>4, <1>5, <1>6, <1>7, Zenon DEF Writes, Reads

LEMMA StepType ==
    ASSUME IInv, [Next]_vars
    PROVE  TypeOK'
<1>0. TypeOK
  BY Zenon DEF IInv
<1>1. CASE UNCHANGED vars
  BY <1>0, <1>1, Zenon DEF TypeOK, vars, accountVars, keyVars, tokenVars
<1>2. ASSUME NEW c \in Clients, Find(c)
      PROVE  TypeOK'
  <2>1. stage' \in [Clients -> Stages]
    BY <1>0, <1>2 DEF TypeOK, Find, Goto, Stages
  <2>2. QED
    BY <1>0, <1>2, <2>1, Zenon DEF TypeOK, Find, accountVars, keyVars, tokenVars
<1>3. ASSUME NEW c \in Clients, Writes(c) \/ Reads(c)
      PROVE  TypeOK'
  BY <1>0, <1>3, EndsReply, EndType, Zenon
<1>4. QED
  BY <1>0, <1>1, <1>2, <1>3, StepCases, RegistersType, CreateType, TokenType,
     BeginsType, Zenon

-----------------------------------------------------------------------------
(* Users.                                                                  *)

LEMMA StepUsers ==
    ASSUME IInv, [Next]_vars
    PROVE  UniqueAccounts' /\ UniqueIds' /\ AcknowledgedExists'
<1>0. TypeOK /\ UniqueAccounts /\ UniqueIds /\ AcknowledgedExists
  BY Zenon DEF IInv
<1>1. CASE UNCHANGED <<users, acknowledged>>
  BY <1>0, <1>1, Zenon DEF UniqueAccounts, UniqueIds, AcknowledgedExists
<1>2. ASSUME NEW c \in Clients, Create(c)
      PROVE  UniqueAccounts' /\ UniqueIds' /\ AcknowledgedExists'
  <2>1. CASE UNCHANGED <<users, acknowledged>>
    BY <1>1, <2>1
  <2>2. CASE /\ Free(form[c])
             /\ users' = users \cup {Row(form[c])}
             /\ acknowledged' \in {acknowledged, acknowledged \cup {form[c]}}
    <3> DEFINE row == Row(form[c])
    <3>1. /\ row.id = nextId /\ row.name = form[c].name
          /\ row.email = form[c].email /\ row.password = form[c].password
      BY DEF Row
    <3>2. \A u \in users : u.id # row.id
      BY <1>0, <3>1 DEF TypeOK, UserRows
    <3>3. \A u \in users : u.name # row.name /\ u.email # row.email
      BY <2>2, <3>1, Zenon DEF Free
    <3> HIDE DEF row
    <3>4. users' = users \cup {row}
      BY <2>2 DEF row
    <3>5. UniqueAccounts' /\ UniqueIds'
      BY <1>0, <3>2, <3>3, <3>4 DEF UniqueAccounts, UniqueIds
    <3>6. AcknowledgedExists'
      BY <1>0, <2>2, <3>1, <3>4 DEF AcknowledgedExists
    <3>7. QED
      BY <3>5, <3>6
  <2>3. QED
    BY <1>2, <2>1, <2>2, Zenon DEF Create
<1>3. CASE UNCHANGED vars
  BY <1>1, <1>3, Zenon DEF vars, accountVars
<1>4. QED
  BY <1>1, <1>2, <1>3, StepCases, UsersStay, Zenon

\* Users stay, with what they are.
LEMMA UsersGrow ==
    ASSUME [Next]_vars
    PROVE  users \subseteq users'
<1>1. CASE UNCHANGED vars
  BY <1>1, Zenon DEF vars, accountVars
<1>2. ASSUME NEW c \in Clients, Create(c) PROVE users \subseteq users'
  BY <1>2, Zenon DEF Create
<1>3. QED
  BY <1>1, <1>2, StepCases, UsersStay, Zenon

-----------------------------------------------------------------------------
(* Requests.                                                               *)

\* A step of c leaves the requests of the others alone.
LEMMA OthersStay ==
    ASSUME IInv, NEW c \in Clients, NEW d \in Clients, d # c,
           \/ Registers(c) \/ Create(c) \/ Login(c) \/ Logout(c)
           \/ Begins(c) \/ Find(c) \/ Writes(c) \/ Reads(c)
    PROVE  /\ form'[d] = form[d] /\ call'[d] = call[d] /\ stage'[d] = stage[d]
           /\ token'[d] = token[d] /\ login'[d] = login[d] /\ reply'[d] = reply[d]
<1>0. TypeOK
  BY Zenon DEF IInv
<1>1. CASE Registers(c) \/ Create(c)
  BY <1>0, <1>1 DEF TypeOK, Registers, Register, FindByUsername, FindByEmail,
     FailRegister, Create, EndRegister, Goto, keyVars, tokenVars
<1>2. CASE Login(c) \/ Logout(c)
  BY <1>0, <1>2 DEF TypeOK, Login, Logout, accountVars, keyVars
<1>3. CASE Begins(c)
  BY <1>0, <1>3, BeginsType DEF TypeOK, Begin, Goto, accountVars, tokenVars
<1>4. CASE Find(c)
  BY <1>0, <1>4 DEF TypeOK, Find, Goto, accountVars, keyVars, tokenVars
<1>5. CASE Writes(c) \/ Reads(c)
  BY <1>0, <1>5, EndsReply DEF TypeOK, End, Goto, accountVars, tokenVars
<1>6. QED
  BY <1>1, <1>2, <1>3, <1>4, <1>5, Zenon

LEMMA OwnShape ==
    ASSUME IInv, NEW c \in Clients,
           \/ Registers(c) \/ Create(c) \/ Login(c) \/ Logout(c)
           \/ Begins(c) \/ Find(c) \/ Writes(c) \/ Reads(c)
    PROVE  Shape(c)'
<1>0. TypeOK /\ Shape(c)
  BY Zenon DEF IInv
<1>1. CASE Registers(c) \/ Create(c)
  BY <1>0, <1>1, NothingAssumption DEF TypeOK, Shape, Registers, Register,
     FindByUsername, FindByEmail, FailRegister, Create, EndRegister, Goto, keyVars,
     FormStages, KeyStages
<1>2. CASE Login(c) \/ Logout(c)
  BY <1>0, <1>2 DEF Shape, Login, Logout, accountVars, keyVars
<1>3. CASE Begins(c)
  <2>1. form'[c] = form[c]
    BY <1>3, BeginsType, <1>0 DEF Begin, accountVars
  <2>2. QED
    BY <1>0, <1>3, <2>1, BeginsType, NothingAssumption DEF Shape, FormStages,
       KeyStages
<1>4. CASE Find(c)
  BY <1>0, <1>4 DEF TypeOK, Shape, Find, Goto, accountVars, keyVars, FormStages,
     KeyStages
<1>5. CASE Writes(c) \/ Reads(c)
  BY <1>0, <1>5, EndsReply, NothingAssumption DEF TypeOK, Shape, End, Goto,
     accountVars, FormStages, KeyStages
<1>6. QED
  BY <1>1, <1>2, <1>3, <1>4, <1>5, Zenon

LEMMA StepShape ==
    ASSUME IInv, [Next]_vars
    PROVE  \A d \in Clients : Shape(d)'
<1>1. CASE UNCHANGED vars
  BY <1>1, Zenon DEF IInv, Shape, vars, accountVars, keyVars
<1>2. ASSUME NEW c \in Clients, NEW d \in Clients,
             \/ Registers(c) \/ Create(c) \/ Login(c) \/ Logout(c)
             \/ Begins(c) \/ Find(c) \/ Writes(c) \/ Reads(c)
      PROVE  Shape(d)'
  <2>1. CASE d = c
    BY <1>2, <2>1, OwnShape, Zenon
  <2>2. CASE d # c
    <3>1. form'[d] = form[d] /\ call'[d] = call[d] /\ stage'[d] = stage[d]
      BY <1>2, <2>2, OthersStay, Zenon
    <3>2. Shape(d)
      BY Zenon DEF IInv
    <3>3. QED
      BY <3>1, <3>2, Zenon DEF Shape
  <2>3. QED
    BY <2>1, <2>2
<1>3. QED
  BY <1>1, <1>2, StepCases, Zenon

\* A row stays, with its user and its provider.
LEMMA RowsStay ==
    ASSUME IInv, [Next]_vars, NEW d \in credentials
    PROVE  \E e \in credentials' : e.user = d.user /\ e.provider = d.provider
<1>1. CASE credentials' = credentials
  BY <1>1, Zenon
<1>2. ASSUME NEW c \in Clients, Writes(c)
      PROVE  \E e \in credentials' : e.user = d.user /\ e.provider = d.provider
  <2>1. CASE d \notin Mine(c)
    BY <1>2, <2>1 DEF Writes, Insert, Update, Delete, End
  <2>2. CASE d \in Mine(c)
    <3>1. New(c).user = d.user /\ New(c).provider = d.provider
      BY <2>2 DEF New, Mine
    <3>2. /\ [d EXCEPT !.active = FALSE].user = d.user
          /\ [d EXCEPT !.active = FALSE].provider = d.provider
      BY DEF IInv, TypeOK, CredentialRows
    <3>3. QED
      BY <1>2, <2>2, <3>1, <3>2 DEF Writes, Insert, Update, Delete
  <2>3. QED
    BY <2>1, <2>2
<1>3. CASE UNCHANGED vars
  BY <1>1, <1>3, Zenon DEF vars, keyVars
<1>4. QED
  BY <1>1, <1>2, <1>3, StepCases, CredentialsStay, Zenon

LEMMA OwnActs ==
    ASSUME IInv, NEW c \in Clients, users \subseteq users',
           \/ Registers(c) \/ Create(c) \/ Login(c) \/ Logout(c)
           \/ Begins(c) \/ Find(c) \/ Writes(c) \/ Reads(c)
    PROVE  Acts(c)'
<1>0. TypeOK /\ Shape(c) /\ Acts(c)
  BY Zenon DEF IInv
<1>1. CASE Registers(c) \/ Create(c)
  <2>1. stage'[c] \notin KeyStages /\ UNCHANGED <<call, token, login, reply>>
    BY <1>0, <1>1 DEF TypeOK, Registers, Register,
       FindByUsername, FindByEmail, FailRegister, Create, EndRegister, Goto, keyVars,
       tokenVars, KeyStages
  <2>2. QED
    BY <1>0, <2>1 DEF Acts, KeyStages
<1>2. CASE Login(c)
  <2>1. stage'[c] = "idle" /\ call'[c] = NoCall
    BY <1>0, <1>2 DEF Login, keyVars, Shape, KeyStages
  <2>2. token'[c] # 0 => \E u \in users' : u.id = token'[c] /\ u.email = login'[c]
    BY <1>0, <1>2 DEF Login, TypeOK
  <2>3. token'[c] # 0
    BY <1>0, <1>2 DEF Login, TypeOK, UserRows
  <2>4. QED
    BY <2>1, <2>2, <2>3 DEF Acts
<1>3. CASE Logout(c)
  BY <1>0, <1>3 DEF Acts, Logout, TypeOK, Shape, KeyStages
<1>4. CASE Begins(c)
  <2>1. UNCHANGED <<token, login>>
    BY <1>0, <1>4, BeginsType DEF Begin, tokenVars
  <2>2. QED
    BY <1>0, <1>4, <2>1, BeginsType DEF Acts
<1>5. CASE Find(c)
  <2>1. /\ stage[c] = "finding"
        /\ stage'[c] = IF Mine(c) = {} THEN "inserting" ELSE "updating"
    BY <1>0, <1>5 DEF TypeOK, Find, Goto
  <2>2. UNCHANGED <<token, login, call, credentials, reply>>
    BY <1>5, Zenon DEF Find, accountVars, keyVars, tokenVars
  <2>3. Mine(c)' = Mine(c)
    BY <2>2, Zenon DEF Mine
  <2>4. QED
    BY <1>0, <2>1, <2>2, <2>3 DEF Acts
<1>6. CASE Writes(c) \/ Reads(c)
  <2>1. stage'[c] = "idle" /\ call'[c] = NoCall /\ UNCHANGED <<token, login>>
    BY <1>0, <1>6, EndsReply DEF TypeOK, End, Goto, tokenVars
  <2>2. token[c] # 0
    BY <1>0, <1>6, EndsReply, NothingAssumption DEF Acts
  <2>3. QED
    BY <1>0, <2>1, <2>2 DEF Acts
<1>7. QED
  BY <1>1, <1>2, <1>3, <1>4, <1>5, <1>6, Zenon

LEMMA StepActs ==
    ASSUME IInv, [Next]_vars
    PROVE  \A d \in Clients : Acts(d)'
<1>0. users \subseteq users'
  BY UsersGrow, Zenon
<1>1. CASE UNCHANGED vars
  BY <1>1, Zenon DEF IInv, Acts, Mine, vars, accountVars, keyVars, tokenVars
<1>2. ASSUME NEW c \in Clients, NEW d \in Clients,
             \/ Registers(c) \/ Create(c) \/ Login(c) \/ Logout(c)
             \/ Begins(c) \/ Find(c) \/ Writes(c) \/ Reads(c)
      PROVE  Acts(d)'
  <2>1. CASE d = c
    BY <1>0, <1>2, <2>1, OwnActs, Zenon
  <2>2. CASE d # c
    <3>1. /\ call'[d] = call[d] /\ stage'[d] = stage[d]
          /\ token'[d] = token[d] /\ login'[d] = login[d] /\ reply'[d] = reply[d]
      BY <1>2, <2>2, OthersStay, Zenon
    <3>2. Acts(d)
      BY Zenon DEF IInv
    <3>3. Mine(d) # {} => Mine(d)' # {}
      BY <3>1, RowsStay DEF Mine
    <3>4. QED
      BY <1>0, <3>1, <3>2, <3>3, Zenon DEF Acts
  <2>3. QED
    BY <2>1, <2>2
<1>3. QED
  BY <1>1, <1>2, StepCases, Zenon

-----------------------------------------------------------------------------
(* Credentials.                                                            *)

\* What the row of a save is.
LEMMA NewRow ==
    ASSUME IInv, NEW c \in Clients, Insert(c) \/ Update(c)
    PROVE  /\ New(c).user = call[c].user /\ New(c).provider = call[c].provider
           /\ New(c).active = TRUE /\ New(c).key = call[c].key
           /\ New(c).suffix = New(c).key.suffix
           /\ \E u \in users : u.id = New(c).user /\ u.email = New(c).key.of
<1>1. Acts(c) /\ Shape(c)
  BY Zenon DEF IInv
<1>2. \E u \in users : u.id = call[c].user /\ u.email = call[c].key.of
  BY <1>1 DEF Acts, Shape, Insert, Update, KeyStages
<1>3. QED
  BY <1>2 DEF New

LEMMA WritesRows ==
    ASSUME IInv, NEW c \in Clients, Writes(c)
    PROVE  Owned' /\ OneRow'
<1>0. TypeOK /\ Owned /\ OneRow
  BY Zenon DEF IInv
<1>1. users' = users
  BY UsersStay, Zenon
<1>2. CASE credentials' = credentials
  BY <1>0, <1>1, <1>2, Zenon DEF Owned, OneRow
<1>3. CASE Insert(c) /\ credentials' # credentials
  <2>1. Mine(c) = {} /\ credentials' = credentials \cup {New(c)}
    BY <1>3, Zenon DEF Insert
  <2>2. \A d \in credentials : ~(d.user = New(c).user /\ d.provider = New(c).provider)
    BY <1>3, <2>1, NewRow DEF Mine
  <2>3. Owned'
    BY <1>0, <1>1, <1>3, <2>1, NewRow DEF Owned
  <2>4. OneRow'
    BY <1>0, <2>1, <2>2 DEF OneRow
  <2>5. QED
    BY <2>3, <2>4
<1>4. CASE Update(c)
  <2>1. credentials' = (credentials \ Mine(c)) \cup {New(c) : d \in Mine(c)}
    BY <1>4, Zenon DEF Update
  <2>2. \A d \in credentials' : d = New(c) \/ (d \in credentials /\ d \notin Mine(c))
    BY <2>1
  <2>3. \A d \in credentials : d \notin Mine(c) =>
            ~(d.user = New(c).user /\ d.provider = New(c).provider)
    BY <1>4, NewRow DEF Mine
  <2>4. Owned'
    BY <1>0, <1>1, <1>4, <2>2, NewRow DEF Owned
  <2>5. OneRow'
    BY <1>0, <2>2, <2>3 DEF OneRow
  <2>6. QED
    BY <2>4, <2>5
<1>5. CASE Delete(c)
  <2> DEFINE Off(d) == [d EXCEPT !.active = FALSE]
  <2>1. \A d \in credentials : /\ Off(d).user = d.user
                               /\ Off(d).provider = d.provider
                               /\ Off(d).key = d.key /\ Off(d).suffix = d.suffix
    BY <1>0 DEF TypeOK, CredentialRows
  <2>2. credentials' = (credentials \ Mine(c)) \cup {Off(d) : d \in Mine(c)}
    BY <1>5, Zenon DEF Delete
  <2>3. Mine(c) \subseteq credentials
    BY DEF Mine
  <2> HIDE DEF Off
  <2>4. \A d \in credentials' : \E e \in credentials :
            /\ d.user = e.user /\ d.provider = e.provider
            /\ d.key = e.key /\ d.suffix = e.suffix
            /\ d = IF e \in Mine(c) THEN Off(e) ELSE e
    BY <2>1, <2>2, <2>3
  <2>5. Owned'
    BY <1>0, <1>1, <2>4 DEF Owned
  <2>6. OneRow'
    <3>1. SUFFICES ASSUME NEW d \in credentials', NEW f \in credentials',
                          d.user = f.user, d.provider = f.provider
                   PROVE  d = f
      BY DEF OneRow
    <3>2. PICK e \in credentials : /\ d.user = e.user /\ d.provider = e.provider
                                   /\ d = IF e \in Mine(c) THEN Off(e) ELSE e
      BY <2>4
    <3>3. PICK g \in credentials : /\ f.user = g.user /\ f.provider = g.provider
                                   /\ f = IF g \in Mine(c) THEN Off(g) ELSE g
      BY <2>4
    <3>4. e = g
      BY <1>0, <3>1, <3>2, <3>3 DEF OneRow
    <3>5. QED
      BY <3>2, <3>3, <3>4
  <2>7. QED
    BY <2>5, <2>6
<1>6. QED
  BY <1>2, <1>3, <1>4, <1>5, Zenon DEF Writes

LEMMA StepRows ==
    ASSUME IInv, [Next]_vars
    PROVE  Owned' /\ OneRow'
<1>1. CASE credentials' = credentials
  BY <1>1, UsersGrow DEF IInv, Owned, OneRow
<1>2. CASE UNCHANGED vars
  BY <1>1, <1>2, Zenon DEF vars, keyVars
<1>3. QED
  BY <1>1, <1>2, StepCases, CredentialsStay, WritesRows, Zenon

LEMMA StepOwnKey ==
    ASSUME IInv, [Next]_vars
    PROVE  OwnKey'
<1>0. TypeOK /\ OwnKey /\ UniqueIds /\ Owned
  BY Zenon DEF IInv
<1>1. CASE UNCHANGED vars
  BY <1>0, <1>1, Zenon DEF OwnKey, vars, keyVars, tokenVars
<1>2. ASSUME NEW c \in Clients,
             \/ Registers(c) \/ Create(c) \/ Login(c) \/ Logout(c)
             \/ Begins(c) \/ Find(c) \/ Writes(c) \/ Reads(c),
             NEW d \in Clients, reply'[d] \in [read : Keys]
      PROVE  reply'[d].read.of = login'[d]
  <2>1. CASE d # c \/ (reply'[d] = reply[d] /\ login'[d] = login[d])
    BY <1>0, <1>2, <2>1, OthersStay, Zenon DEF OwnKey
  <2>2. CASE d = c /\ (Registers(c) \/ Create(c) \/ Find(c))
    <3>1. UNCHANGED <<reply, login>>
      BY <2>2, Zenon DEF Registers, Register, FindByUsername, FindByEmail,
         FailRegister, Create, Find, keyVars, tokenVars
    <3>2. QED
      BY <2>1, <3>1
  <2>3. NoReply \notin [read : Keys]
    BY NothingAssumption DEF Replies
  <2>4. CASE d = c /\ (Logout(c) \/ Begins(c))
    <3>1. reply'[c] = NoReply
      BY <1>0, <2>4, BeginsType DEF TypeOK, Logout, Begin
    <3>2. QED
      BY <1>2, <2>3, <2>4, <3>1
  <2>5. CASE d = c /\ (Writes(c) \/ ListStatus(c) \/ Fail(c))
    <3>1. PICK r : /\ End(c, r)
                   /\ \/ r = Failed \/ r = Saved(c) \/ r = [deleted |-> TRUE]
                      \/ \E list : r = [listed |-> list]
      BY <2>5, Zenon DEF Writes, Insert, Update, Delete, ListStatus, Fail
    <3>2. reply'[c] = r
      BY <1>0, <3>1 DEF TypeOK, End
    <3>3. r \notin [read : Keys]
      BY <3>1 DEF Failed, Saved
    <3>4. QED
      BY <1>2, <2>5, <3>2, <3>3
  <2>6. CASE d = c /\ GetDecrypted(c)
    <3> DEFINE k == IF Active(c) = {} THEN NoKey
                    ELSE (CHOOSE x \in Active(c) : TRUE).key
    <3>1. End(c, [read |-> k])
      BY <2>6, Zenon DEF GetDecrypted
    <3>2. reply'[c] = [read |-> k] /\ login'[c] = login[c]
      <4> HIDE DEF k
      <4>1. QED
        BY <1>0, <3>1 DEF TypeOK, End, tokenVars
    <3>3. k \in Keys
      <4> HIDE DEF k
      <4>1. QED
        BY <1>2, <2>6, <3>2
    <3>4. PICK x \in Active(c) : k = x.key
      BY <3>3, NothingAssumption
    <3>5. x \in credentials /\ x.user = call[c].user
      BY <3>4 DEF Active, Mine
    <3>6. Acts(c) /\ call[c] # NoCall
      BY <2>6, EndsReply DEF IInv, Reads, GetDecrypted, Shape, KeyStages
    <3>7. PICK u \in users : u.id = token[c] /\ u.email = login[c]
      BY <3>6, Zenon DEF Acts
    <3>8. PICK v \in users : v.id = x.user /\ v.email = x.key.of
      BY <1>0, <3>5 DEF Owned
    <3>9. u = v
      BY <1>0, <3>5, <3>6, <3>7, <3>8 DEF UniqueIds, Acts
    <3>10. k.of = login[c]
      <4> HIDE DEF k
      <4>1. QED
        BY <3>4, <3>7, <3>8, <3>9
    <3>11. QED
      <4> HIDE DEF k
      <4>1. QED
        BY <2>6, <3>2, <3>10
  <2>7. CASE d = c /\ Login(c)
    <3>1. reply'[c] = reply[c] /\ token[c] = 0
      BY <2>7, Zenon DEF Login, keyVars
    <3>2. Acts(c)
      BY Zenon DEF IInv
    <3>3. QED
      BY <1>2, <2>3, <2>7, <3>1, <3>2 DEF Acts
  <2>8. QED
    BY <1>2, <2>1, <2>2, <2>4, <2>5, <2>6, <2>7, Zenon DEF Reads
<1>3. QED
  BY <1>1, <1>2, StepCases, Zenon DEF OwnKey

-----------------------------------------------------------------------------
(* The theorems.                                                           *)

LEMMA InitIInv == Init => IInv
<1> SUFFICES ASSUME Init PROVE IInv
  OBVIOUS
<1>1. TypeOK
  BY MaxUsersAssumption, EmailsAssumption DEF Init, TypeOK, Stages
<1>2. UniqueAccounts /\ UniqueIds /\ AcknowledgedExists /\ Owned /\ OneRow
  BY DEF Init, UniqueAccounts, UniqueIds, AcknowledgedExists, Owned, OneRow
<1>3. \A c \in Clients : Shape(c) /\ Acts(c)
  BY DEF Init, Shape, Acts, FormStages, KeyStages
<1>4. NoReply \notin [read : Keys]
  BY NothingAssumption DEF Replies
<1>5. OwnKey
  BY <1>4 DEF Init, OwnKey
<1>6. QED
  BY <1>1, <1>2, <1>3, <1>5, Zenon DEF IInv

LEMMA StepIInv == IInv /\ [Next]_vars => IInv'
<1> SUFFICES ASSUME IInv, [Next]_vars PROVE IInv'
  OBVIOUS
<1>1. QED
  BY StepType, StepUsers, StepShape, StepActs, StepRows, StepOwnKey, Zenon DEF IInv

LEMMA Invariance == Spec => []IInv
<1>1. QED
  BY InitIInv, StepIInv, PTL DEF Spec

\* The types; that a token is the id of a user is part of them.
THEOREM TypeCorrect == Spec => []TypeOK
<1>1. IInv => TypeOK
  BY Zenon DEF IInv
<1>2. QED
  BY <1>1, Invariance, PTL

\* Names and emails stay unique, however many registrations race and however
\* many of their checks fail (user_service.go 36-43).
THEOREM UniqueAccountsHolds == Spec => []UniqueAccounts
<1>1. IInv => UniqueAccounts
  BY Zenon DEF IInv
<1>2. QED
  BY <1>1, Invariance, PTL

\* A registration that was answered 201 is there to stay
\* (user_service.go 61-65).
THEOREM AcknowledgedExistsHolds == Spec => []AcknowledgedExists
<1>1. IInv => AcknowledgedExists
  BY Zenon DEF IInv
<1>2. QED
  BY <1>1, Invariance, PTL

\* A model call runs on a key of the account its client has logged in to
\* (credential_service.go 81-91).
THEOREM OwnKeyHolds == Spec => []OwnKey
<1>1. IInv => OwnKey
  BY Zenon DEF IInv
<1>2. QED
  BY <1>1, Invariance, PTL

-----------------------------------------------------------------------------
(* Accounts implements KeyRegister.                                        *)

\* The key in force in a table S.
RowsOf(S, u, p) == {d \in S : d.user = u /\ d.provider = p /\ d.active}
Held(S, u, p) == IF RowsOf(S, u, p) = {} THEN NoKey
                 ELSE (CHOOSE d \in RowsOf(S, u, p) : TRUE).key

LEMMA HeldOne ==
    ASSUME NEW S, NEW d, NEW u, NEW p, RowsOf(S, u, p) = {d}
    PROVE  Held(S, u, p) = d.key
BY DEF Held

LEMMA HeldNone ==
    ASSUME NEW S, NEW u, NEW p, RowsOf(S, u, p) = {}
    PROVE  Held(S, u, p) = NoKey
BY DEF Held

LEMMA HeldSame ==
    ASSUME NEW S, NEW T, NEW u, NEW p, RowsOf(T, u, p) = RowsOf(S, u, p)
    PROVE  Held(T, u, p) = Held(S, u, p)
BY DEF Held

\* A step that changes only the rows of one user and provider puts a key.
LEMMA PutsKey ==
    ASSUME NEW a \in 1..MaxUsers, NEW b \in Providers, NEW k,
           NEW S, NEW T, S = credentials, T = credentials',
           \A u, p : ~(u = a /\ p = b) => RowsOf(T, u, p) = RowsOf(S, u, p),
           Held(T, a, b) = k
    PROVE  KeysInForce' = [KeysInForce EXCEPT ![a][b] = k]
<1> DEFINE f == [u \in 1..MaxUsers |-> [p \in Providers |-> Held(S, u, p)]]
           g == [u \in 1..MaxUsers |-> [p \in Providers |-> Held(T, u, p)]]
<1>1. \A u, p : ~(u = a /\ p = b) => Held(T, u, p) = Held(S, u, p)
  <2>1. SUFFICES ASSUME NEW u, NEW p, ~(u = a /\ p = b)
                 PROVE  Held(T, u, p) = Held(S, u, p)
    BY Zenon
  <2>2. RowsOf(T, u, p) = RowsOf(S, u, p)
    BY <2>1
  <2>3. QED
    BY ONLY <2>2, HeldSame
<1>2. \A u \in 1..MaxUsers : u # a => g[u] = f[u]
  BY <1>1
<1>3. g[a] = [f[a] EXCEPT ![b] = k]
  BY <1>1
<1>4. g = [f EXCEPT ![a][b] = k]
  BY <1>2, <1>3
<1>5. KeysInForce = f /\ KeysInForce' = g
  BY DEF KeysInForce, InForce, Held, RowsOf
<1> HIDE DEF f, g
<1>6. QED
  BY <1>4, <1>5

LEMMA KeysStay ==
    ASSUME credentials' = credentials
    PROVE  KeysInForce' = KeysInForce
BY DEF KeysInForce, InForce

\* How a call ends in the abstract specification.
LEMMA EndSucceeds ==
    ASSUME IInv, NEW c \in Clients, NEW r, End(c, r), call[c] # NoCall,
           KeyStore!Effect(c), r = KeyStore!Answer(c)
    PROVE  KeyStore!Succeed(c)
BY Zenon DEF End, KeyStore!Succeed, KeyStore!Reply

LEMMA EndFails ==
    ASSUME IInv, NEW c \in Clients, End(c, Failed), call[c] # NoCall,
           KeyStore!Effect(c) \/ KeysInForce' = KeysInForce
    PROVE  KeyStore!Fail(c)
BY Zenon DEF End, Failed, KeyStore!Fail, KeyStore!Reply

LEMMA SavePuts ==
    ASSUME IInv, NEW c \in Clients,
           \/ Insert(c) /\ Mine(c) = {}
           \/ Update(c)
    PROVE  KeyStore!Effect(c)
<1>1. Shape(c) /\ Acts(c) /\ TypeOK
  BY Zenon DEF IInv
<1>2. call[c] \in Calls /\ call[c].op = "save"
  BY <1>1, EndsReply DEF Writes, Shape, Insert, Update
<1>3. call[c].user \in 1..MaxUsers /\ call[c].provider \in Providers
  BY <1>2, CallFields
<1>4. PICK S : S = credentials
  BY Zenon
<1>5. PICK T : T = credentials'
  BY Zenon
<1>6. \A d : d \in T <=> \/ d = New(c)
                         \/ d \in S /\ d \notin Mine(c)
  BY <1>1, <1>4, <1>5 DEF Insert, Update, Acts
<1>7. /\ New(c).user = call[c].user /\ New(c).provider = call[c].provider
      /\ New(c).active = TRUE /\ New(c).key = call[c].key
  BY DEF New
<1>8. \A d : d \in Mine(c) <=> /\ d \in S /\ d.user = call[c].user
                               /\ d.provider = call[c].provider
  BY <1>4 DEF Mine
<1>9. RowsOf(T, call[c].user, call[c].provider) = {New(c)}
  BY <1>6, <1>7, <1>8 DEF RowsOf
<1>10. \A u, p : ~(u = call[c].user /\ p = call[c].provider) =>
           RowsOf(T, u, p) = RowsOf(S, u, p)
  BY <1>6, <1>7, <1>8 DEF RowsOf
<1>11. Held(T, call[c].user, call[c].provider) = call[c].key
  BY <1>7, <1>9, HeldOne
<1>12. PICK a \in 1..MaxUsers, b \in Providers :
           a = call[c].user /\ b = call[c].provider
  BY <1>3, Zenon
<1>13. KeysInForce' = [KeysInForce EXCEPT ![a][b] = call[c].key]
  BY <1>4, <1>5, <1>10, <1>11, <1>12, PutsKey
<1>14. QED
  BY <1>2, <1>12, <1>13 DEF KeyStore!Effect, KeyStore!Put

LEMMA DeletePuts ==
    ASSUME IInv, NEW c \in Clients, Delete(c)
    PROVE  KeyStore!Effect(c)
<1>1. Shape(c) /\ Acts(c) /\ TypeOK
  BY Zenon DEF IInv
<1>2. call[c] \in Calls /\ call[c].op = "delete"
  BY <1>1, EndsReply DEF Writes, Shape, Delete
<1>3. call[c].user \in 1..MaxUsers /\ call[c].provider \in Providers
  BY <1>2, CallFields
<1> DEFINE Off(d) == [d EXCEPT !.active = FALSE]
<1>4. PICK S : S = credentials
  BY Zenon
<1>5. PICK T : T = credentials'
  BY Zenon
<1>6. \A d \in S : /\ Off(d).user = d.user /\ Off(d).provider = d.provider
                   /\ Off(d).active = FALSE
  BY <1>1, <1>4 DEF TypeOK, CredentialRows
<1>7. T = (S \ Mine(c)) \cup {Off(d) : d \in Mine(c)}
  BY <1>4, <1>5 DEF Delete
<1>8. \A d : d \in Mine(c) <=> /\ d \in S /\ d.user = call[c].user
                               /\ d.provider = call[c].provider
  BY <1>4 DEF Mine
<1> HIDE DEF Off
<1>9. RowsOf(T, call[c].user, call[c].provider) = {}
  BY <1>6, <1>7, <1>8 DEF RowsOf
<1>10. \A u, p : ~(u = call[c].user /\ p = call[c].provider) =>
           RowsOf(T, u, p) = RowsOf(S, u, p)
  <2>1. SUFFICES ASSUME NEW u, NEW p, ~(u = call[c].user /\ p = call[c].provider),
                        NEW d
                 PROVE  d \in RowsOf(T, u, p) <=> d \in RowsOf(S, u, p)
    BY DEF RowsOf
  <2>2. QED
    BY <1>6, <1>7, <1>8, <2>1 DEF RowsOf
<1>11. Held(T, call[c].user, call[c].provider) = NoKey
  BY <1>9, HeldNone
<1>12. PICK a \in 1..MaxUsers, b \in Providers :
           a = call[c].user /\ b = call[c].provider
  BY <1>3, Zenon
<1>13. KeysInForce' = [KeysInForce EXCEPT ![a][b] = NoKey]
  BY <1>4, <1>5, <1>10, <1>11, <1>12, PutsKey
<1>14. QED
  BY <1>2, <1>12, <1>13 DEF KeyStore!Effect, KeyStore!Put

LEMMA ReadAnswers ==
    ASSUME IInv, NEW c \in Clients, GetDecrypted(c)
    PROVE  KeyStore!Succeed(c)
<1>1. Shape(c) /\ TypeOK
  BY Zenon DEF IInv
<1>2. call[c] \in Calls /\ call[c].op = "read" /\ call[c] # NoCall
  BY <1>1, EndsReply, NothingAssumption DEF Reads, Shape, GetDecrypted
<1>3. call[c].user \in 1..MaxUsers /\ call[c].provider \in Providers
  BY <1>2, CallFields
<1>4. KeysInForce[call[c].user][call[c].provider] =
          IF Active(c) = {} THEN NoKey ELSE (CHOOSE d \in Active(c) : TRUE).key
  <2>1. Active(c) = {d \in credentials : /\ d.user = call[c].user
                                         /\ d.provider = call[c].provider
                                         /\ d.active}
    BY DEF Active, Mine
  <2>2. KeysInForce[call[c].user][call[c].provider] =
            InForce(call[c].user, call[c].provider)
    BY <1>3 DEF KeysInForce
  <2>3. QED
    BY <2>1, <2>2, Zenon DEF InForce
<1>5. End(c, [read |-> KeysInForce[call[c].user][call[c].provider]])
  BY <1>4, Zenon DEF GetDecrypted
<1>6. KeyStore!Answer(c) = [read |-> KeysInForce[call[c].user][call[c].provider]]
  BY <1>2 DEF KeyStore!Answer
<1>7. KeyStore!Effect(c)
  BY <1>2, KeysStay DEF KeyStore!Effect, GetDecrypted
<1>8. QED
  BY <1>2, <1>5, <1>6, <1>7, EndSucceeds, Zenon

LEMMA ListAnswers ==
    ASSUME IInv, NEW c \in Clients, ListStatus(c)
    PROVE  KeyStore!Succeed(c)
<1>1. Shape(c) /\ TypeOK /\ Owned
  BY Zenon DEF IInv
<1>2. call[c] \in Calls /\ call[c].op = "list" /\ call[c] # NoCall
  BY <1>1, EndsReply, NothingAssumption DEF Reads, Shape, ListStatus
<1>3. call[c].user \in 1..MaxUsers
  BY <1>2, CallFields
<1> DEFINE Shown(p) == {d \in {e \in credentials : e.user = call[c].user /\ e.active} :
                          d.provider = p}
           list == [p \in Providers |->
                      IF Shown(p) = {} THEN NoSuffix
                      ELSE (CHOOSE d \in Shown(p) : TRUE).suffix]
<1>4. End(c, [listed |-> list]) /\ credentials' = credentials
  BY Zenon DEF ListStatus
<1>5. ASSUME NEW p \in Providers
      PROVE  Suffix[KeysInForce[call[c].user][p]] =
                IF Shown(p) = {} THEN NoSuffix
                ELSE (CHOOSE d \in Shown(p) : TRUE).suffix
  <2>1. Shown(p) = {d \in credentials : /\ d.user = call[c].user
                                        /\ d.provider = p /\ d.active}
    OBVIOUS
  <2>2. KeysInForce[call[c].user][p] = InForce(call[c].user, p)
    BY <1>3 DEF KeysInForce
  <2> HIDE DEF Shown
  <2>3. InForce(call[c].user, p) = IF Shown(p) = {} THEN NoKey
                                   ELSE (CHOOSE d \in Shown(p) : TRUE).key
    <3>1. Shown(p) = RowsOf(credentials, call[c].user, p)
      BY <2>1 DEF RowsOf
    <3>2. InForce(call[c].user, p) = Held(credentials, call[c].user, p)
      BY DEF InForce, Held, RowsOf
    <3>3. QED
      BY <3>1, <3>2, Zenon DEF Held
  <2>4. CASE Shown(p) = {}
    BY <2>2, <2>3, <2>4, NothingAssumption DEF Suffix
  <2>5. CASE Shown(p) # {}
    <3>1. PICK d : d = CHOOSE e \in Shown(p) : TRUE
      BY Zenon
    <3>2. d \in credentials
      BY <2>1, <2>5, <3>1
    <3>3. d.key \in Keys /\ d.suffix = d.key.suffix
      BY <1>1, <3>2 DEF TypeOK, CredentialRows, Owned
    <3>4. Suffix[d.key] = d.key.suffix
      BY <3>3, NothingAssumption DEF Suffix
    <3>5. QED
      BY <2>2, <2>3, <2>5, <3>1, <3>3, <3>4
  <2>6. QED
    BY <2>4, <2>5
<1>6. list = [p \in Providers |-> Suffix[KeysInForce[call[c].user][p]]]
  BY <1>5
<1> HIDE DEF list
<1>7. KeyStore!Answer(c) = [listed |-> list]
  BY <1>2, <1>6 DEF KeyStore!Answer
<1>8. KeyStore!Effect(c)
  BY <1>2, <1>4, KeysStay DEF KeyStore!Effect
<1>9. QED
  BY <1>2, <1>4, <1>7, <1>8, EndSucceeds, Zenon

LEMMA WriteAnswers ==
    ASSUME IInv, NEW c \in Clients, Writes(c)
    PROVE  KeyStore!Succeed(c) \/ KeyStore!Fail(c)
<1>1. Shape(c) /\ TypeOK
  BY Zenon DEF IInv
<1>2. call[c] \in Calls /\ call[c] # NoCall
  BY EndsReply, NothingAssumption
<1>3. CASE Insert(c) /\ Mine(c) # {}
  <2>1. End(c, Failed) /\ credentials' = credentials
    BY <1>3, Zenon DEF Insert
  <2>2. QED
    BY <1>2, <2>1, EndFails, KeysStay, Zenon
<1>4. CASE (Insert(c) /\ Mine(c) = {}) \/ Update(c)
  <2>1. KeyStore!Effect(c)
    BY <1>4, SavePuts, Zenon
  <2>2. call[c].op = "save" /\ call[c].key \in Keys
    BY <1>1, <1>2, <1>4, CallFields DEF Shape, Insert, Update
  <2>3. KeyStore!Answer(c) = Saved(c)
    BY <2>2, NothingAssumption DEF KeyStore!Answer, Saved, Suffix
  <2>4. End(c, Saved(c)) \/ End(c, Failed)
    BY <1>4, Zenon DEF Insert, Update
  <2>5. QED
    BY <1>2, <2>1, <2>3, <2>4, EndSucceeds, EndFails, Zenon
<1>5. CASE Delete(c)
  <2>1. KeyStore!Effect(c)
    BY <1>5, DeletePuts, Zenon
  <2>2. KeyStore!Answer(c) = [deleted |-> TRUE]
    BY <1>1, <1>5 DEF KeyStore!Answer, Shape, Delete
  <2>3. End(c, [deleted |-> TRUE]) \/ End(c, Failed)
    BY <1>5, Zenon DEF Delete
  <2>4. QED
    BY <1>2, <2>1, <2>2, <2>3, EndSucceeds, EndFails, Zenon
<1>6. QED
  BY <1>3, <1>4, <1>5, Zenon DEF Writes

LEMMA Implements ==
    ASSUME IInv, [Next]_vars
    PROVE  [KeyStore!Next]_KeyStore!vars
<1>0. TypeOK
  BY Zenon DEF IInv
<1>1. CASE UNCHANGED <<credentials, call, reply>>
  BY <1>1, KeysStay, Zenon DEF KeyStore!vars
<1>2. CASE UNCHANGED vars
  BY <1>1, <1>2, Zenon DEF vars, keyVars
<1>3. ASSUME NEW c \in Clients, Registers(c) \/ Create(c) \/ Login(c) \/ Find(c)
      PROVE  UNCHANGED <<credentials, call, reply>>
  BY <1>3, Zenon DEF Registers, Register, FindByUsername, FindByEmail, FailRegister,
     Create, Login, Find, keyVars
<1>4. ASSUME NEW c \in Clients, Logout(c)
      PROVE  KeyStore!Next
  <2>1. call[c] = NoCall
    BY <1>4 DEF IInv, Shape, Logout, KeyStages
  <2>2. KeyStore!Forget(c)
    BY <1>4, <2>1, KeysStay, Zenon DEF Logout, KeyStore!Forget
  <2>3. QED
    BY <2>2, Zenon DEF KeyStore!Next
<1>5. ASSUME NEW c \in Clients, Begins(c)
      PROVE  KeyStore!Next
  <2>1. PICK new, s : Begin(c, new, s)
    BY <1>0, <1>5, BeginsType, Zenon
  <2>2. call'[c] = new
    BY <1>0, <2>1 DEF TypeOK, Begin
  <2>3. new \in Calls /\ call[c] = NoCall
    BY <1>0, <1>5, <2>2, BeginsType DEF IInv, Shape, KeyStages
  <2>4. KeyStore!Begin(c)
    BY <2>1, <2>3, KeysStay, Zenon DEF Begin, KeyStore!Begin
  <2>5. QED
    BY <2>4, Zenon DEF KeyStore!Next
<1>6. ASSUME NEW c \in Clients, Fail(c)
      PROVE  KeyStore!Next
  BY <1>6, EndFails, KeysStay, Zenon DEF Fail, KeyStore!Next
<1>7. QED
  BY <1>1, <1>2, <1>3, <1>4, <1>5, <1>6, StepCases, WriteAnswers, ReadAnswers,
     ListAnswers, Zenon DEF Reads, KeyStore!Next

\* The calls about keys behave as one register for each user and provider: for
\* any number of clients, users and providers, although a save is two
\* statements and deleted rows stay (user_provider_credential_repo.go 22-48).
THEOREM KeepsRegisterHolds == Spec => KeepsRegister
<1>1. Init => KeyStore!Init
  BY DEF Init, KeyStore!Init, KeysInForce, InForce
<1>2. IInv /\ [Next]_vars => [KeyStore!Next]_KeyStore!vars
  BY Implements
<1>3. QED
  BY <1>1, <1>2, Invariance, PTL DEF Spec, KeepsRegister, KeyStore!Spec
=============================================================================
