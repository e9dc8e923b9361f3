--------------------------- MODULE SmartHeartbeat ---------------------------
(***************************************************************************)
(* The adaptive heartbeat interval (src/heartbeat/smart-heartbeat.ts, a    *)
(* port of Mars SmartHeartbeat), as functions of two records:              *)
(*   sh  - the private fields of the SmartHeartbeat object that are read:  *)
(*         active, isWait, successHeartCount, lastHeart, curHeart;         *)
(*   net - the learned NetHeartbeatInfo that the conductor persists:       *)
(*         curHeart, isStable, lastModifyTime, failHeartCount,             *)
(*         succHeartCount.                                                 *)
(* Left out: the doze branches (dozeModeCount is never incremented, so     *)
(* isDoze() is always false), heartType and minHeartFailCount (never read  *)
(* but by them), setOuterHeart and the onLongLink* hooks (no caller in     *)
(* src/ but the tests), and the netDetail = "" returns (the conductor's    *)
(* label is never empty).                                                  *)
(***************************************************************************)
EXTENDS Integers

CONSTANTS
  MinHeart, MaxHeart,      \* MIN_HEART_INTERVAL, MAX_HEART_INTERVAL
  HeartStep, SuccessStep,  \* HEART_STEP, SUCCESS_STEP
  MaxFailCount,            \* MAX_HEART_FAIL_COUNT
  BaseSuccCount,           \* BASE_SUCC_COUNT
  StableTestCount,         \* NET_STABLE_TEST_COUNT
  OneWeek, NowSec          \* ONE_WEEK_SEC, and what nowSec() reads

\* The system clock counts from 1970, so what it reads is more than a week.
ASSUME HeartAssumption ==
  /\ MinHeart \in Nat \ {0} /\ MaxHeart \in Nat
  /\ HeartStep \in Nat /\ SuccessStep \in Nat \ {0}
  /\ MinHeart <= MaxHeart - 2 * SuccessStep
  /\ MaxFailCount \in Nat \ {0} /\ BaseSuccCount \in Nat \ {0} /\ StableTestCount \in Nat
  /\ OneWeek \in Nat /\ NowSec \in Nat /\ NowSec >= OneWeek

Ceiling == MaxHeart - SuccessStep

\* A counter the code only compares with limit need not be told apart beyond it.
CountUpTo(n, limit) == IF n < limit THEN n + 1 ELSE limit

freshNetInfo == [curHeart |-> MinHeart, isStable |-> FALSE, lastModifyTime |-> 0,
                 failHeartCount |-> 0, succHeartCount |-> 0]

freshHeartbeat == [active |-> FALSE, isWait |-> FALSE, successHeartCount |-> 0,
                   lastHeart |-> MinHeart, curHeart |-> MinHeart]

SmartState == [active : BOOLEAN, isWait : BOOLEAN, successHeartCount : 0..StableTestCount + 1,
               lastHeart : Nat, curHeart : Nat]
NetInfo == [curHeart : Nat, isStable : BOOLEAN, lastModifyTime : Nat,
            failHeartCount : 0..MaxFailCount, succHeartCount : 0..BaseSuccCount]

-----------------------------------------------------------------------------
(* getNextHeartbeatInterval                                                *)

\* Before the network has passed its stability test, or while active, beat at the minimum.
mustUseMin(sh) == sh.active \/ sh.successHeartCount < StableTestCount

outOfRange(heart) == heart >= MaxHeart \/ heart < MinHeart

getNextHeartbeatInterval(sh, net) ==
  IF mustUseMin(sh) \/ outOfRange(net.curHeart) THEN MinHeart ELSE net.curHeart

\* What the call leaves in net: a learned interval out of range is reset.
netAfterNext(sh, net) ==
  IF ~mustUseMin(sh) /\ outOfRange(net.curHeart) THEN [net EXCEPT !.curHeart = MinHeart] ELSE net

-----------------------------------------------------------------------------
(* onHeartResult                                                           *)

shAfterResult(sh, success) ==
  IF ~sh.isWait THEN sh
  ELSE [sh EXCEPT !.isWait = FALSE,
                  !.curHeart = sh.lastHeart,
                  !.successHeartCount = IF success THEN CountUpTo(@, StableTestCount + 1) ELSE @]

\* The result counts for the learned interval: the stability test is over and the
\* beat was sent at that interval.
counts(sh, net, success) ==
  /\ sh.isWait
  /\ shAfterResult(sh, success).successHeartCount > StableTestCount
  /\ sh.lastHeart = net.curHeart

\* A success counts when the beat before it used the same interval.
tally(sh, net, success, timedOut) ==
  IF success
    THEN IF sh.lastHeart = sh.curHeart
           THEN [net EXCEPT !.succHeartCount = CountUpTo(@, BaseSuccCount), !.failHeartCount = 0]
           ELSE net
    ELSE [net EXCEPT !.succHeartCount = IF timedOut THEN 0 ELSE @,
                     !.failHeartCount = CountUpTo(@, MaxFailCount)]

\* A stable interval below the ceiling is probed upwards once a week has gone by
\* since lastModifyTime - which nothing in the code sets.
reprobe(net) ==
  IF net.curHeart < Ceiling /\ NowSec - net.lastModifyTime >= OneWeek
    THEN [net EXCEPT !.curHeart = @ + SuccessStep, !.succHeartCount = 0,
                     !.isStable = FALSE, !.failHeartCount = 0]
    ELSE net

\* Mutant of climb: probes one step beyond the ceiling.
climbUncapped(net) ==
  IF net.succHeartCount < BaseSuccCount THEN net
  ELSE IF net.curHeart >= Ceiling
    THEN [net EXCEPT !.succHeartCount = 0, !.isStable = TRUE]
    ELSE [net EXCEPT !.curHeart = @ + HeartStep, !.succHeartCount = 0]

\* Enough successes at an interval still probed: take the next step, or settle at the top.
climb(net) ==
  IF net.succHeartCount < BaseSuccCount THEN net
  ELSE IF net.curHeart >= Ceiling
    THEN [net EXCEPT !.curHeart = Ceiling, !.succHeartCount = 0, !.isStable = TRUE]
    ELSE [net EXCEPT !.curHeart = IF @ + HeartStep < Ceiling THEN @ + HeartStep ELSE Ceiling,
                     !.succHeartCount = 0]

\* Too many failures: a stable interval starts over, a probed one settles lower.
retreat(sh, net) ==
  IF sh.lastHeart = MinHeart \/ net.failHeartCount < MaxFailCount THEN net
  ELSE IF net.isStable
    THEN [net EXCEPT !.curHeart = MinHeart, !.succHeartCount = 0,
                     !.isStable = FALSE, !.failHeartCount = 0]
    ELSE [net EXCEPT !.curHeart = IF @ - HeartStep - SuccessStep > MinHeart
                                    THEN @ - HeartStep - SuccessStep ELSE MinHeart,
                     !.succHeartCount = 0, !.failHeartCount = 0, !.isStable = TRUE]

netAfterResult(sh, net, success, timedOut) ==
  LET told == tally(sh, net, success, timedOut)
  IN CASE ~counts(sh, net, success) -> net
       [] counts(sh, net, success) /\ success /\ net.isStable -> reprobe(told)
       [] counts(sh, net, success) /\ success /\ ~net.isStable -> climb(told)
       [] counts(sh, net, success) /\ ~success -> retreat(sh, told)
=============================================================================
