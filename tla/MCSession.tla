----------------------------- MODULE MCSession -----------------------------
(***************************************************************************)
(* Accounts in one run: the sessions of one account, the registrations of  *)
(* several, and the access of users to a private room, to join it or for   *)
(* the tokens of its channel.  They share no state, and one of them runs   *)
(* at a time.                                                              *)
(***************************************************************************)
EXTENDS Session, Integers, TLC

CONSTANTS
    Senders, Emails, Names, NoCode,                          \* of Registration
    Rooms, Users, Manages, GrantTTL, TokenTTL, MaxAccessTime,  \* of RoomAccess
    Owner                                                    \* who manages the rooms

VARIABLES
    part,                                                    \* the part that runs
    migrated, accounts, codes, mailed, regReq, faulted,
    accessNow, db, access, expiry, member, token, accessReq,
    shown, grant, closed, overtaken, lateTokens

registrationVars == <<migrated, accounts, codes, mailed, regReq, faulted>>
accessVars == <<accessNow, db, access, expiry, member, token, accessReq,
                shown, grant, closed, overtaken, lateTokens>>

Accounts == INSTANCE Registration WITH req <- regReq
Access == INSTANCE RoomAccess WITH
    MaxTime <- MaxAccessTime, now <- accessNow, req <- accessReq, over <- overtaken,
    late <- lateTokens

ASSUME AccountsAssumption == Accounts!RegistrationAssumption /\ Access!AccessAssumption

\* Registration has two initial states, with the tables migrated or not; the parts
\* that do not run rest in one.
MCInit ==
    /\ part \in {"session", "registration", "joins", "tokens"}
    /\ Init /\ Access!Init /\ Accounts!Init
    /\ part # "registration" => migrated

\* The purposes that access runs for: tokens and their end run by themselves.
AccessServed ==
    \A q \in Reqs : accessReq[q].pc \in Access!Steps =>
        accessReq[q].for \in IF part = "joins" THEN {"join", "read"} ELSE {"token"}

MCNext ==
    \/ part = "session" /\ Next /\ UNCHANGED <<part, registrationVars, accessVars>>
    \/ part = "registration" /\ Accounts!Next /\ UNCHANGED <<part, vars, accessVars>>
    \/ /\ part \in {"joins", "tokens"} /\ Access!Next
       /\ UNCHANGED <<part, vars, registrationVars>>
       /\ AccessServed'

MCSpec == MCInit /\ [][MCNext]_<<part, vars, registrationVars, accessVars>>

OwnerManages == Rooms \X {Owner}

\* Requests are interchangeable, and so are the users who do not manage the rooms.
Symmetry == Permutations(Reqs) \union Permutations(Users \ {Owner})

----------------------------------------------------------------------------
(* Properties, beside those of Session                                     *)

\* However registrations interleave and fail, no two accounts share an address or a
\* name, each was proved by a code mailed to its address, and what register answers
\* is so: an account is there, is another's, or is not there unless a command failed.
RegistrationSound == Accounts!RegistrationSound

\* Whoever is in a private room, or on the way in, manages it or has shown its
\* password, and keeps the grant for its TTL whatever others do.
AccessAsEarned == Access!AccessAsEarned

\* Closing a room ends listening on its channel within the life of a token, but for
\* tokens issued by a request that was under way when the row was deleted.
TokensEnd == Access!TokensEnd
============================================================================
