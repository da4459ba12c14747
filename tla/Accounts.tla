------------------------------ MODULE Accounts ------------------------------
(***************************************************************************)
(* Users, their tokens and their API keys: registration and login, and the *)
(* calls that save, delete, list and use the key for a provider.  Requests *)
(* are handled side by side; the checks of a registration and of a save    *)
(* are statements of their own, and only the unique indexes of MySQL guard *)
(* what happens in between.                                                *)
(*                                                                         *)
(* One step is one statement.  Passwords and keys are opaque: a password   *)
(* stands for its hash and a key for its ciphertext; a key that cannot be  *)
(* decrypted is one of the errors of a call that fails.                    *)
(***************************************************************************)
EXTENDS Integers, FiniteSets

CONSTANTS
    Clients,        \* browsers, each with at most one request under way
    Names, Emails, Passwords,
    Providers,      \* the names in ai.providers, without mock
    Suffixes,       \* the last four characters of keys
    NoForm, NoKey, NoCall, NoReply,
    MaxUsers        \* bound: the ids that registrations may take

\* A key is told by the account it was saved in and by its end.
Keys == [of : Emails, suffix : Suffixes]

Forms == [name : Names, email : Emails, password : Passwords]

Calls == [op : {"save"}, user : 1..MaxUsers, provider : Providers, key : Keys]
    \cup [op : {"delete", "read"}, user : 1..MaxUsers, provider : Providers]
    \cup [op : {"list"}, user : 1..MaxUsers]

NoSuffix == "not configured"

Replies ==
    [saved : Suffixes] \cup [deleted : {TRUE}] \cup [failed : {TRUE}]
    \cup [listed : [Providers -> Suffixes \cup {NoSuffix}]]
    \cup [read : Keys \cup {NoKey}]

ASSUME MaxUsersAssumption == MaxUsers \in Nat
ASSUME EmailsAssumption == Emails # {}
ASSUME NothingAssumption ==
    /\ NoForm \notin Forms
    /\ NoKey \notin Keys
    /\ NoCall \notin Calls
    /\ NoReply \notin Replies
    /\ NoSuffix \notin Suffixes

VARIABLES
    nextId,         \* AUTO_INCREMENT of users
    users,          \* rows of users
    credentials,    \* rows of user_provider_credentials
    form,           \* form[c]: the registration c waits for, or NoForm
    token,          \* token[c]: the user id in the token of c, or 0
    call,           \* call[c]: the call about keys c waits for, or NoCall
    stage,          \* stage[c]: the next statement of the request of c
    reply,          \* reply[c]: the reply to the last call of c about keys
    login,          \* history: the email c has logged in with
    acknowledged    \* history: the registrations answered 201

accountVars == <<nextId, users, form, acknowledged>>
keyVars == <<credentials, call, reply>>
tokenVars == <<token, login>>
vars == <<accountVars, keyVars, tokenVars, stage>>

Stages == {"idle", "naming", "mailing", "creating",
           "finding", "inserting", "updating", "deleting", "listing", "reading"}

UserRows == [id : 1..MaxUsers, name : Names, email : Emails, password : Passwords]
CredentialRows ==
    [user : 1..MaxUsers, provider : Providers, key : Keys, suffix : Suffixes,
     active : BOOLEAN]

TypeOK ==
    /\ nextId \in 1..(MaxUsers + 1)
    /\ users \subseteq UserRows
    /\ \A u \in users : u.id < nextId
    /\ credentials \subseteq CredentialRows
    /\ form \in [Clients -> Forms \cup {NoForm}]
    /\ token \in [Clients -> {0} \cup {u.id : u \in users}]
    /\ call \in [Clients -> Calls \cup {NoCall}]
    /\ stage \in [Clients -> Stages]
    /\ reply \in [Clients -> Replies \cup {NoReply}]
    /\ login \in [Clients -> Emails]
    /\ acknowledged \subseteq Forms

Init ==
    /\ nextId = 1
    /\ users = {}
    /\ credentials = {}
    /\ form = [c \in Clients |-> NoForm]
    /\ token = [c \in Clients |-> 0]
    /\ call = [c \in Clients |-> NoCall]
    /\ stage = [c \in Clients |-> "idle"]
    /\ reply = [c \in Clients |-> NoReply]
    /\ login = [c \in Clients |-> CHOOSE e \in Emails : TRUE]
    /\ acknowledged = {}

Goto(c, s) == stage' = [stage EXCEPT ![c] = s]

-----------------------------------------------------------------------------
(* Register.                                                               *)

Register(c) ==
    /\ stage[c] = "idle"
    /\ token[c] = 0
    /\ \E f \in Forms : form' = [form EXCEPT ![c] = f]
    /\ Goto(c, "naming")
    /\ UNCHANGED <<nextId, users, acknowledged, keyVars, tokenVars>>

\* The registration is answered, with 201 or with an error.
EndRegister(c) ==
    /\ form' = [form EXCEPT ![c] = NoForm]
    /\ Goto(c, "idle")

\* FindByUsername: any error at all counts as a free name.
FindByUsername(c) ==
    /\ stage[c] = "naming"
    /\ \/ /\ \E u \in users : u.name = form[c].name
          /\ EndRegister(c)
       \/ Goto(c, "mailing") /\ UNCHANGED form
    /\ UNCHANGED <<nextId, users, acknowledged, keyVars, tokenVars>>

FindByEmail(c) ==
    /\ stage[c] = "mailing"
    /\ \/ /\ \E u \in users : u.email = form[c].email
          /\ EndRegister(c)
       \/ Goto(c, "creating") /\ UNCHANGED form
    /\ UNCHANGED <<nextId, users, acknowledged, keyVars, tokenVars>>

FreeName(f) == \A u \in users : u.name # f.name

\* The unique indexes of users.
Free(f) == \A u \in users : u.name # f.name /\ u.email # f.email

Row(f) == [id |-> nextId, name |-> f.name, email |-> f.email,
           password |-> f.password]

CreateIgnore(c) ==
    /\ stage[c] = "creating"
    /\ nextId <= MaxUsers
    /\ nextId' = nextId + 1
    /\ \/ /\ users' = IF Free(form[c]) THEN users \cup {Row(form[c])} ELSE users
          /\ acknowledged' = acknowledged \cup {form[c]}
       \/ /\ Free(form[c])
          /\ users' = users \cup {Row(form[c])}
          /\ UNCHANGED acknowledged
       \/ UNCHANGED <<users, acknowledged>>
    /\ EndRegister(c)
    /\ UNCHANGED <<keyVars, tokenVars>>

\* Create: the row is inserted and acknowledged, or inserted by a statement
\* whose outcome is lost, or refused by an index or a failing database.
\* An id that is not used is lost.
Create(c) ==
    /\ stage[c] = "creating"
    /\ nextId <= MaxUsers
    /\ nextId' = nextId + 1
    /\ \/ /\ Free(form[c])
          /\ users' = users \cup {Row(form[c])}
          /\ acknowledged' \in {acknowledged, acknowledged \cup {form[c]}}
       \/ UNCHANGED <<users, acknowledged>>
    /\ EndRegister(c)
    /\ UNCHANGED <<keyVars, tokenVars>>

-----------------------------------------------------------------------------
(* Login, and the token in the browser.                                    *)

LoginNewest(c) ==
    /\ stage[c] = "idle"
    /\ token[c] = 0
    /\ \E e \in Emails, w \in Passwords : \E u \in users :
        /\ u.email = e /\ u.password = w
        /\ token' = [token EXCEPT ![c] = nextId]
        /\ login' = [login EXCEPT ![c] = e]
    /\ UNCHANGED <<accountVars, keyVars, stage>>

\* A login that is refused changes nothing.
Login(c) ==
    /\ stage[c] = "idle"
    /\ token[c] = 0
    /\ \E e \in Emails, w \in Passwords : \E u \in users :
        /\ u.email = e /\ u.password = w
        /\ token' = [token EXCEPT ![c] = u.id]
        /\ login' = [login EXCEPT ![c] = e]
    /\ UNCHANGED <<accountVars, keyVars, stage>>

\* The user logs out, or the token has expired and the browser drops it.
Logout(c) ==
    /\ stage[c] = "idle"
    /\ token[c] # 0
    /\ token' = [token EXCEPT ![c] = 0]
    /\ reply' = [reply EXCEPT ![c] = NoReply]
    /\ UNCHANGED <<accountVars, credentials, call, login, stage>>

-----------------------------------------------------------------------------
(* The calls about keys.  JWTAuth takes the user from the token; a blank   *)
(* key and a provider that is mock or not configured are refused before    *)
(* anything is read.                                                       *)

Begin(c, new, s) ==
    /\ stage[c] = "idle"
    /\ token[c] # 0
    /\ call' = [call EXCEPT ![c] = new]
    /\ reply' = [reply EXCEPT ![c] = NoReply]
    /\ Goto(c, s)
    /\ UNCHANGED <<accountVars, credentials, tokenVars>>

SaveKey(c) ==
    \E p \in Providers, k \in Keys :
        /\ k.of = login[c]
        /\ Begin(c, [op |-> "save", user |-> token[c], provider |-> p, key |-> k],
                 "finding")

DeleteKey(c) ==
    \E p \in Providers :
        Begin(c, [op |-> "delete", user |-> token[c], provider |-> p], "deleting")

ListKeys(c) == Begin(c, [op |-> "list", user |-> token[c]], "listing")

BeginStream(c) ==
    \E p \in Providers :
        Begin(c, [op |-> "read", user |-> token[c], provider |-> p], "reading")

End(c, r) ==
    /\ Goto(c, "idle")
    /\ call' = [call EXCEPT ![c] = NoCall]
    /\ reply' = [reply EXCEPT ![c] = r]
    /\ UNCHANGED <<accountVars, tokenVars>>

Failed == [failed |-> TRUE]

\* The rows of the user and the provider of c's call, deleted ones included.
Mine(c) == {d \in credentials : /\ d.user = call[c].user
                                /\ d.provider = call[c].provider}

\* The first statement of the repository's Upsert.
Find(c) ==
    /\ stage[c] = "finding"
    /\ Goto(c, IF Mine(c) = {} THEN "inserting" ELSE "updating")
    /\ UNCHANGED <<accountVars, keyVars, tokenVars>>

Saved(c) == [saved |-> call[c].key.suffix]

New(c) == [user |-> call[c].user, provider |-> call[c].provider,
           key |-> call[c].key, suffix |-> call[c].key.suffix, active |-> TRUE]

\* The unique index refuses a second row.  A statement that fails may have
\* been executed.
Insert(c) ==
    /\ stage[c] = "inserting"
    /\ \/ /\ Mine(c) = {}
          /\ credentials' = credentials \cup {New(c)}
          /\ End(c, Saved(c)) \/ End(c, Failed)
       \/ /\ Mine(c) # {}
          /\ End(c, Failed)
          /\ UNCHANGED credentials

UpdateKeepsStatus(c) ==
    /\ stage[c] = "updating"
    /\ credentials' = (credentials \ Mine(c)) \cup
            {[New(c) EXCEPT !.active = d.active] : d \in Mine(c)}
    /\ End(c, Saved(c)) \/ End(c, Failed)

Update(c) ==
    /\ stage[c] = "updating"
    /\ credentials' = (credentials \ Mine(c)) \cup {New(c) : d \in Mine(c)}
    /\ End(c, Saved(c)) \/ End(c, Failed)

Delete(c) ==
    /\ stage[c] = "deleting"
    /\ credentials' = (credentials \ Mine(c)) \cup
            {[d EXCEPT !.active = FALSE] : d \in Mine(c)}
    /\ End(c, [deleted |-> TRUE]) \/ End(c, Failed)

ListStatus(c) ==
    /\ stage[c] = "listing"
    /\ LET found == {d \in credentials : d.user = call[c].user /\ d.active}
           Shown(p) == {d \in found : d.provider = p}
       IN  End(c, [listed |-> [p \in Providers |->
                     IF Shown(p) = {} THEN NoSuffix
                     ELSE (CHOOSE d \in Shown(p) : TRUE).suffix]])
    /\ UNCHANGED credentials

ActiveOfAnyone(c) == {d \in credentials : d.provider = call[c].provider /\ d.active}
Active(c) == {d \in Mine(c) : d.active}

\* BeginStream keeps the key it was given for the whole model call.
GetDecrypted(c) ==
    /\ stage[c] = "reading"
    /\ End(c, [read |-> IF Active(c) = {} THEN NoKey
                        ELSE (CHOOSE d \in Active(c) : TRUE).key])
    /\ UNCHANGED credentials

\* The database fails, or the process ends.
Fail(c) ==
    /\ call[c] # NoCall
    /\ End(c, Failed)
    /\ UNCHANGED credentials

FailRegister(c) ==
    /\ form[c] # NoForm
    /\ EndRegister(c)
    /\ UNCHANGED <<nextId, users, acknowledged, keyVars, tokenVars>>

Next ==
    \E c \in Clients :
        \/ Register(c) \/ FindByUsername(c) \/ FindByEmail(c) \/ Create(c)
        \/ FailRegister(c)
        \/ Login(c) \/ Logout(c)
        \/ SaveKey(c) \/ DeleteKey(c) \/ ListKeys(c) \/ BeginStream(c)
        \/ Find(c) \/ Insert(c) \/ Update(c) \/ Delete(c)
        \/ ListStatus(c) \/ GetDecrypted(c)
        \/ Fail(c)

Spec == Init /\ [][Next]_vars

-----------------------------------------------------------------------------
\* No two users share a name or an email, although two registrations may both
\* pass the checks before either inserts, and a failing check counts as passed
\* (user_service.go 36-43).
UniqueAccounts ==
    \A u, v \in users : (u.name = v.name \/ u.email = v.email) => u = v

\* Whoever was answered 201 can log in: the row with his email and his
\* password is there (user_service.go 61-65).
AcknowledgedExists ==
    \A f \in acknowledged : \E u \in users :
        u.name = f.name /\ u.email = f.email /\ u.password = f.password

\* A model call runs on a key that was saved in the account its client has
\* logged in to, whatever was registered, saved and deleted meanwhile
\* (credential_service.go 81-91, middleware/auth.go 36).
OwnKey ==
    \A c \in Clients :
        (reply[c] \in [read : Keys]) => reply[c].read.of = login[c]

-----------------------------------------------------------------------------
Suffix == [k \in Keys \cup {NoKey} |-> IF k = NoKey THEN NoSuffix ELSE k.suffix]

\* The key that is in force.
InForce(u, p) ==
    LET rows == {d \in credentials : d.user = u /\ d.provider = p /\ d.active}
    IN  IF rows = {} THEN NoKey ELSE (CHOOSE d \in rows : TRUE).key

KeysInForce == [u \in 1..MaxUsers |-> [p \in Providers |-> InForce(u, p)]]

KeyStore == INSTANCE KeyRegister WITH Users <- 1..MaxUsers, key <- KeysInForce

\* Saving, deleting, listing and using keys behave as one register for each
\* user and provider, although a save is two statements and a deleted row is
\* kept (user_provider_credential_repo.go 22-48).
KeepsRegister == KeyStore!Spec
=============================================================================
