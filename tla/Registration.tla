---------------------------- MODULE Registration ----------------------------
(***************************************************************************)
(* Making an account: registerSendCode and register of                     *)
(* internal/api/auth_handlers.go, RegisterWithCode of internal/auth, and   *)
(* the users table of internal/store/postgres with its unique indexes.     *)
(* Requests run at once; every command may fail, and an INSERT may be      *)
(* carried out although its answer is lost.  The store of codes is cut     *)
(* down to which code an address has: EmailCode models the rest.           *)
(***************************************************************************)

CONSTANTS
    Senders,    \* send-code requests; a sender's name stands for the code it mails
    Reqs,       \* register requests, each with a password of its own
    Emails,     \* addresses, as normalizeEmail leaves them
    Names,      \* user names in lower case
    NoCode      \* no code, or a guess

RegistrationAssumption == Senders \cap Reqs = {} /\ NoCode \notin Senders

VARIABLES
    migrated,   \* whether migrations/000001 made the table before the server opened it
    accounts,   \* rows of users
    codes,      \* codes[e]: the code the store has for an address
    mailed,     \* mailed[c]: the address that code c was mailed to
    req,        \* req[r]: what a request asks for, its next command or its answer
    faulted     \* history: requests one of whose commands failed

vars == <<migrated, accounts, codes, mailed, req, faulted>>

Spellings == {"lower", "mixed"}
Answers == {"sent", "ok", "invalid", "conflict", "error"}
Commands == {"look", "mail", "verify", "del", "byEmail", "byName", "create", "issue"}
NoOne == "nobody"

Idle == [pc |-> "idle"]

Init ==
    /\ migrated \in BOOLEAN
    /\ accounts = {} /\ faulted = {}
    /\ codes = [e \in Emails |-> NoCode]
    /\ mailed = [c \in {} |-> NoOne]
    /\ req = [r \in Senders \union Reqs |-> Idle]

Goto(r, label) == req' = [req EXCEPT ![r].pc = label]

----------------------------------------------------------------------------
(* The users table                                                         *)

\* The table of schema.sql, which Open makes where there is none, has no column
\* email; the one of migrations/000001 has, and a unique index on it.
HasEmail == migrated

GetByEmail(e) == {a \in accounts : a.email = e}

\* LOWER(username) = LOWER($1)
GetByUsername(n) == {a \in accounts : a.name = n}

\* The unique indexes: LOWER(email), and username as it is spelled.
Collides(row) ==
    \E a \in accounts :
        a.email = row.email \/ (a.name = row.name /\ a.spelling = row.spelling)

Row(r) == [email |-> req[r].email, name |-> req[r].name, spelling |-> req[r].spelling, by |-> r]

----------------------------------------------------------------------------
(* registerSendCode                                                        *)

SendBegin(r) ==
    /\ req[r] = Idle
    /\ \E e \in Emails : req' = [req EXCEPT ![r] = [pc |-> "look", email |-> e]]
    /\ UNCHANGED <<migrated, accounts, codes, mailed, faulted>>

\* GetByEmail: an address that has an account is answered as if a code were sent.
SendLook(r) ==
    /\ req[r].pc = "look" /\ HasEmail
    /\ Goto(r, IF GetByEmail(req[r].email) = {} THEN "mail" ELSE "sent")
    /\ UNCHANGED <<migrated, accounts, codes, mailed, faulted>>

\* PrecheckSend, SendVerificationCode and CommitSend.
SendMail(r) ==
    /\ req[r].pc = "mail"
    /\ mailed' = [c \in DOMAIN mailed \union {r} |-> IF c = r THEN req[r].email ELSE mailed[c]]
    /\ codes' = [codes EXCEPT ![req[r].email] = r]
    /\ Goto(r, "sent")
    /\ UNCHANGED <<migrated, accounts, faulted>>

\* A code runs out of time or of attempts.
Lapse(e) ==
    /\ codes[e] # NoCode
    /\ codes' = [codes EXCEPT ![e] = NoCode]
    /\ UNCHANGED <<migrated, accounts, mailed, req, faulted>>

----------------------------------------------------------------------------
(* RegisterWithCode                                                        *)

\* normalizeUsername: TrimSpace and ToLower.
normalizeUsername(spelling) == "lower"

\* The names and the password are in order; the client has a code or guesses.
RegisterBegin(r) ==
    /\ req[r] = Idle
    /\ \E e \in Emails, n \in Names, s \in Spellings, c \in DOMAIN mailed \union {NoCode} :
        req' = [req EXCEPT ![r] = [pc |-> "verify", email |-> e, name |-> n, code |-> c,
                                   spelling |-> normalizeUsername(s)]]
    /\ UNCHANGED <<migrated, accounts, codes, mailed, faulted>>

\* codes.Verify: the code read is the one presented.
Verify(r) ==
    /\ req[r].pc = "verify"
    /\ Goto(r, IF codes[req[r].email] = req[r].code /\ req[r].code # NoCode
               THEN "del" ELSE "invalid")
    /\ UNCHANGED <<migrated, accounts, codes, mailed, faulted>>

\* codes.Verify: the record is deleted; an error of DEL is ignored.
Delete(r) ==
    /\ req[r].pc = "del"
    /\ codes' \in {codes, [codes EXCEPT ![req[r].email] = NoCode]}
    /\ Goto(r, "byEmail")
    /\ UNCHANGED <<migrated, accounts, mailed, faulted>>

ByEmail(r) ==
    /\ req[r].pc = "byEmail" /\ HasEmail
    /\ Goto(r, IF GetByEmail(req[r].email) = {} THEN "byName" ELSE "conflict")
    /\ UNCHANGED <<migrated, accounts, codes, mailed, faulted>>

ByName(r) ==
    /\ req[r].pc = "byName" /\ HasEmail
    /\ Goto(r, IF GetByUsername(req[r].name) = {} THEN "create" ELSE "conflict")
    /\ UNCHANGED <<migrated, accounts, codes, mailed, faulted>>

\* users.Create: INSERT; wrapConstraint makes 23505 the conflict.
Create(r) ==
    /\ req[r].pc = "create" /\ HasEmail
    /\ IF Collides(Row(r))
       THEN Goto(r, "conflict") /\ UNCHANGED accounts
       ELSE Goto(r, "issue") /\ accounts' = accounts \union {Row(r)}
    /\ UNCHANGED <<migrated, codes, mailed, faulted>>

\* issuePair succeeds.
Issue(r) ==
    /\ req[r].pc = "issue"
    /\ Goto(r, "ok")
    /\ UNCHANGED <<migrated, accounts, codes, mailed, faulted>>

----------------------------------------------------------------------------
(* What goes wrong                                                         *)

\* Any command but the DEL fails, or the client hangs up.
Fails(r) ==
    /\ req[r].pc \in Commands \ {"del"}
    /\ faulted' = faulted \union {r}
    /\ Goto(r, "error")
    /\ UNCHANGED <<migrated, accounts, codes, mailed>>

\* Slip: an INSERT whose answer is lost is tried again.
CreateRetried(r) ==
    /\ req[r].pc = "create" /\ HasEmail /\ ~Collides(Row(r))
    /\ accounts' = accounts \union {Row(r)}
    /\ faulted' = faulted \union {r}
    /\ UNCHANGED <<migrated, codes, mailed, req>>
\* users.Create: the INSERT is carried out and its answer lost.
CreateUnanswered(r) ==
    /\ req[r].pc = "create" /\ HasEmail /\ ~Collides(Row(r))
    /\ accounts' = accounts \union {Row(r)}
    /\ faulted' = faulted \union {r}
    /\ Goto(r, "error")
    /\ UNCHANGED <<migrated, codes, mailed>>

\* A query that names email, on a table without that column.
Refused(r) ==
    /\ req[r].pc \in {"look", "byEmail", "byName", "create"} /\ ~HasEmail
    /\ Goto(r, "error")
    /\ UNCHANGED <<migrated, accounts, codes, mailed, faulted>>

\* Every request has its answer.
Done ==
    /\ \A r \in DOMAIN req : req[r].pc \in Answers
    /\ UNCHANGED vars

Next ==
    \/ Done
    \/ \E e \in Emails : Lapse(e)
    \/ \E r \in Senders : SendBegin(r) \/ SendLook(r) \/ SendMail(r)
    \/ \E r \in Reqs :
        \/ RegisterBegin(r) \/ Verify(r) \/ Delete(r)
        \/ ByEmail(r) \/ ByName(r) \/ Create(r) \/ Issue(r) \/ CreateUnanswered(r)
    \/ \E r \in Senders \union Reqs : Fails(r) \/ Refused(r)

Spec == Init /\ [][Next]_vars

----------------------------------------------------------------------------
(* Properties                                                              *)

\* However registrations interleave, no two accounts share an address or a user
\* name, upper and lower case being the same: GetByEmail and GetByUsername, which
\* return one row, never have two to choose from.  The lookups of RegisterWithCode
\* alone do not see to it; the indexes do, on names that normalizeUsername wrote.
OneAccount ==
    \A a, b \in accounts : a # b => a.email # b.email /\ a.name # b.name

\* An account's address is one to which the code was mailed that made it.
AddressProved ==
    \A a \in accounts : LET c == req[a.by].code IN c \in DOMAIN mailed /\ mailed[c] = a.email

\* What register answers is so.  "ok": the account is there, with the password of
\* this client.  "conflict" (email or username already in use): another client's
\* account has one of the two and none was made, though an answer was lost.
\* "error": none was made, unless a command failed at or after the INSERT; then it
\* has this client's password and login will do.
AnswersTrue ==
    \A r \in Reqs :
        LET made == \E a \in accounts : a.by = r
            taken == \E a \in accounts :
                        a.by # r /\ (a.email = req[r].email \/ a.name = req[r].name)
        IN  /\ req[r].pc = "ok" => made
            /\ req[r].pc = "conflict" => taken /\ ~made
            /\ req[r].pc = "invalid" => ~made
            /\ req[r].pc = "error" /\ made => r \in faulted

\* A request none of whose commands failed is not answered with an internal error:
\* a race for an address or a name ends in a conflict.  This is of a database the
\* migration has prepared.
ErrorHasCause ==
    migrated => \A r \in DOMAIN req : req[r].pc = "error" => r \in faulted


\* All of that: the accounts registrations leave behind, and what clients are told.
RegistrationSound == OneAccount /\ AddressProved /\ AnswersTrue /\ ErrorHasCause
=============================================================================
