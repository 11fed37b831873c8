---------------------------- MODULE MCEmailCode ----------------------------
(***************************************************************************)
(* Verification codes in one run.  The store on Redis runs twice: for the  *)
(* limits on sending ("limits"), with a clock of many moments and without  *)
(* verifications, and for the codes ("codes"), at a few moments.  The      *)
(* store in memory ("memory") runs for both.  They have the clock, the     *)
(* senders and the histories in common.                                    *)
(***************************************************************************)
EXTENDS EmailCode, TLC

CONSTANTS
    Start,      \* bound: the first moment
    Moments,    \* bound: the moments of "codes"
    MaxCodes    \* bound: send-code requests of "codes" that pass the cooldown

VARIABLES
    store,      \* the instance
    entry       \* of MemoryEmailCode

redisOnly == <<cool, daily, rec, vpc, vn, vcode, begun, lapsed, lastExp, excused>>

Memory == INSTANCE MemoryEmailCode

ASSUME Memory!MemoryEmailAssumption

MCInit ==
    /\ store \in {"limits", "codes", "memory"}
    /\ now = Start
    /\ Init /\ Memory!Init

RedisNext ==
    \/ store = "limits" /\ \E t \in (now + 1)..MaxTime : Tick(t)
    \/ store = "codes" /\ \E t \in Moments \intersect ((now + 1)..MaxTime) : Tick(t)
    \/ store = "codes" /\ \E v \in Verifiers : VerifyStep(v)
    \/ \E s \in Senders : SendStep(s) /\ (store = "codes" => begun' <= MaxCodes)

MCNext ==
    \/ store # "memory" /\ RedisNext /\ UNCHANGED <<store, entry>>
    \/ store = "memory" /\ Memory!Next /\ UNCHANGED <<store, redisOnly>>

MCSpec == MCInit /\ [][MCNext]_<<store, vars, entry>>

\* Requests of a kind are interchangeable.
RequestSymmetry == Permutations(Senders) \union Permutations(Verifiers)

----------------------------------------------------------------------------
(* Properties, of either store                                             *)

\* No day sees more than dailyLimit mails, and a send that met no other one mails no
\* sooner than the cooldown after the mail before, on Redis less half a second; a day
\* whose counter met a command of another day is excused, and on Redis the last
\* second of a day admits as many mails again.
SendsLimited ==
    IF store = "memory" THEN Memory!DailyCap /\ Memory!CooldownKept ELSE DailyCap /\ CooldownKept

\* A code accepted, or guessed at too often, is gone: in memory at once, on Redis
\* when its verifications have ended, and unless two requests met it.
SpentGone == IF store = "memory" THEN Memory!SpentCodeGone ELSE SpentCodeGone

\* The code of the last mail can be verified until it expires, is accepted or is
\* guessed at too often, whatever becomes of older codes.
LatestUsable == IF store = "memory" THEN Memory!LatestCodeUsable ELSE LatestCodeUsable
============================================================================
