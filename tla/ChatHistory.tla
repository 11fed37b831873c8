---------------------------- MODULE ChatHistory -----------------------------
(***************************************************************************)
(* A client pages back through a room's chat while messages are appended   *)
(* and trimmed: listRoomChat of internal/api/room_handlers.go, ListChat of *)
(* internal/room/chat.go and ListMessagesRev of internal/cache/redis/      *)
(* room_chat.go.  A message is its stream id, and ids are numbered as they *)
(* are issued: a stream grows at one end and is trimmed at the other, so   *)
(* that it holds the messages from the oldest stored to the last issued.   *)
(***************************************************************************)
EXTENDS Integers, Sequences, SequencesExt

CONSTANTS
    DefaultPage,    \* page size when none is asked for (50)
    MaxPage,        \* largest page (200)
    Limits,         \* values of the limit parameter that clients send
    MaxId           \* bound: messages appended in a run

ASSUME PagesAssumption ==
    /\ DefaultPage \in Nat \ {0} /\ MaxPage \in Nat /\ DefaultPage <= MaxPage
    /\ Limits \subseteq Int /\ MaxId \in Nat

VARIABLES
    first,          \* id of the oldest message stored; lastId + 1: there is none
    lastId,         \* last id issued
    limit,          \* the client's limit
    got,            \* ids the client has received, newest first
    more            \* has_more of the last page; TRUE before the first one

vars == <<first, lastId, limit, got, more>>

stream == first..lastId

Init ==
    /\ lastId \in 0..MaxId
    /\ first = 1
    /\ limit \in Limits
    /\ got = <<>>
    /\ more = TRUE

\* The clamp both ListChat and ListMessagesRev apply to the page size.
Clamp(n) == IF n <= 0 THEN DefaultPage ELSE IF n > MaxPage THEN MaxPage ELSE n

\* Slip: entries up to and including the cursor.
NewestInclusive(before) == IF before = 0 THEN lastId ELSE before
\* The newest message below the cursor; 0 is no cursor.
Newest(before) == IF before = 0 THEN lastId ELSE before - 1

\* XREVRANGE from there, newest first.
ListMessagesRev(before, n) ==
    LET older == Newest(before) - first + 1
    IN  [i \in 1..(IF Clamp(n) < older THEN Clamp(n) ELSE older) |-> Newest(before) + 1 - i]

\* One entry more than the page is asked for, to learn whether there is one.
HasMore(raw, n) == Len(raw) > n

\* The client asks for the page before the oldest message it has.
ListChat ==
    LET before == IF got = <<>> THEN 0 ELSE Last(got)
        n      == Clamp(limit)
        raw    == ListMessagesRev(before, n + 1)
        page   == IF HasMore(raw, n) THEN SubSeq(raw, 1, n) ELSE raw
    IN  /\ more
        /\ got' = got \o page
        /\ more' = HasMore(raw, n)
        /\ UNCHANGED <<first, lastId, limit>>

\* A message arrives; MAXLEN ~ may drop old ones.
Append1 ==
    /\ lastId < MaxId
    /\ lastId' = lastId + 1
    /\ first' \in first..(lastId + 1)
    /\ UNCHANGED <<limit, got, more>>

Next == ListChat \/ Append1

Spec == Init /\ [][Next]_vars

----------------------------------------------------------------------------
\* Newest first, nothing twice, and no stored message of the covered range left out.
PagesContiguous ==
    /\ \A i, j \in DOMAIN got : i < j => got[i] > got[j]
    /\ got # <<>> => \A id \in stream :
          Last(got) <= id /\ id <= Head(got) => \E i \in DOMAIN got : got[i] = id

\* has_more = false means that the client has reached the oldest message ("items",
\* "has_more" of docs/room_chat_realtime_design_zh.md, 4.2).
HasMoreIsRight ==
    ~more => \A id \in stream : got = <<>> \/ id >= Last(got)

\* The clients that ask for less than the largest page are told right.
HasMoreBelowMax == Clamp(limit) < MaxPage => HasMoreIsRight

\* The pages of ListChat fit together whatever is appended and trimmed between
\* them, and end where the client is told that they do.
PagesFit == PagesContiguous /\ HasMoreBelowMax
=============================================================================
