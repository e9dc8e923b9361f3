---------------------------- MODULE OutboundPacer ----------------------------
(***************************************************************************)
(* The humanizing pacer of one account (src/core/outbound-pacer.ts),       *)
(* enabled.  send() queues a request per conversation and acknowledges it  *)
(* at once; a runner per conversation takes the requests one by one,       *)
(* sleeps for the computed delay and hands the request to the real send.   *)
(*                                                                         *)
(* A runner is a JavaScript async function: it runs without interruption   *)
(* between two awaits, so an action is one such stretch.  pc[c] says at    *)
(* which await the runner of conversation c is parked: "none" (no runner), *)
(* "sleeping" (await sleep(delay)) or "sending" (await realSend(req)).     *)
(*                                                                         *)
(* Time is a discrete clock.  Timers may fire late, never early.  What a   *)
(* request says is left out: its text length, which only scales the first  *)
(* reply delay, is chosen when that delay is computed.                     *)
(***************************************************************************)
EXTENDS Integers, Sequences, FiniteSets, Functions

CONSTANTS
  Conversations,        \* keys of the conversations map, "account:to"
  MaxQueueDepth,        \* maxQueueDepth
  FirstReplyBase, FirstReplyPerChar, FirstReplyMax, \* firstReply*Ms
  MinGap, IdleReset, HardFloor,                     \* minGapMs, idleResetMs, hardFloorMs
  CeilingPerMinute, CeilingPerHour, QuietCeilingPerMinute,
  DelayMultiplierPct,   \* quietHours.delayMultiplier, in percent
  QuietRanges,          \* quietHours.ranges, as <<start, end>> pairs of clock units
  OneMinute, OneHour, OneDay,  \* the clock units in a minute, an hour and a day
  TextLengths,          \* lengths an outbound text may have
  JitterPcts            \* jitterPct * (rand * 2 - 1), in percent

\* What the configuration refuses less than.
ConfigAccepted ==
  /\ FirstReplyMax >= FirstReplyBase
  /\ MaxQueueDepth >= 1
  /\ CeilingPerMinute >= 1 /\ CeilingPerHour >= 1

ASSUME PacerAssumption ==
  /\ MaxQueueDepth \in Nat /\ CeilingPerMinute \in Nat /\ CeilingPerHour \in Nat
  /\ QuietCeilingPerMinute \in Nat \ {0}
  /\ FirstReplyBase \in Nat /\ FirstReplyPerChar \in Nat /\ FirstReplyMax \in Nat
  /\ ConfigAccepted
  /\ MinGap \in Nat /\ IdleReset \in Nat /\ HardFloor \in Nat
  /\ DelayMultiplierPct \in Nat
  /\ OneMinute \in Nat \ {0} /\ OneHour \in Nat \ {0} /\ OneDay \in Nat \ {0}
  /\ OneMinute <= OneHour
  /\ QuietRanges \subseteq (Nat \X Nat)
  /\ TextLengths \subseteq Nat /\ JitterPcts \subseteq -100..100

\* Bounds of a model-checking run; the code has neither.
CONSTANTS MaxSends,     \* requests accepted over a behaviour
          IdleHorizon,  \* until when the clock advances with no runner at work
          SendTime      \* how long a real send takes at most

VARIABLES
  now,            \* the clock
  stopped,        \* stop() has been called
  known,          \* keys of the conversations map
  queue,          \* conversation -> request numbers waiting in c.queue
  pc,             \* conversation -> where its runner is parked
  inHand,         \* conversation -> <<request>> its runner has shifted and sleeps on
  wakeAt,         \* conversation -> when its runner's timer is due
  lastReleaseAt,  \* conversation -> c.lastReleaseAt, Never when 0 in the code
  sentTimes,      \* the account's sliding window
  accepted,       \* history: conversation -> requests acknowledged with ok:true
  delivered,      \* history: conversation -> requests handed to the real send, in order
  releases,       \* history: the account's real sends, [conv, at], in order
  instant         \* history: a real send settled within the clock unit of its release

runnerVars == <<pc, inHand, wakeAt>>
historyVars == <<delivered, releases, instant>>
vars == <<now, stopped, known, queue, runnerVars, lastReleaseAt, sentTimes,
          accepted, historyVars>>

Never == -1
Larger(a, b) == IF a >= b THEN a ELSE b
Smaller(a, b) == IF a <= b THEN a ELSE b

-----------------------------------------------------------------------------
(* The pure helpers.                                                       *)

\* Math.round(x * pct / 100) for a nonnegative x.
Scaled(x, pct) == (x * pct + 50) \div 100

\* inQuietHours: a range whose start is after its end wraps midnight.
inQuietHours(t) ==
  LET cur == t % OneDay
  IN \E r \in QuietRanges : IF r[1] <= r[2] THEN cur >= r[1] /\ cur < r[2]
                                             ELSE cur >= r[1] \/ cur < r[2]

computeFirstReplyDelay(len, jitter) ==
  Scaled(Smaller(FirstReplyBase + FirstReplyPerChar * len, FirstReplyMax), 100 + jitter)

\* How many leading entries of the sorted window s satisfy "t - entry >= age".
Older(s, t, age) == Cardinality({i \in 1..Len(s) : t - s[i] >= age})

pruneSent(s, t) == SubSeq(s, Older(s, t, OneHour + 1) + 1, Len(s))

\* Mutant of ceilingWait: waits only once the ceiling has been overrun.
ceilingWaitWhenOverrun(s, t, quiet) ==
  LET older == Older(s, t, OneMinute)
      minuteWait == IF Len(s) - older > CeilingPerMinute THEN OneMinute - (t - s[older + 1]) ELSE 0
      hourWait == IF Len(s) > CeilingPerHour THEN OneHour - (t - s[1]) ELSE 0
  IN Larger(minuteWait, Larger(hourWait, 0))

\* ceilingWaitMs over the pruned window s.
ceilingWait(s, t, quiet) ==
  LET perMinute == IF quiet THEN QuietCeilingPerMinute ELSE CeilingPerMinute
      beforeMinute == Older(s, t, OneMinute)
      inMinute == Len(s) - beforeMinute
      minuteWait == IF inMinute >= perMinute
                      THEN OneMinute - (t - s[beforeMinute + 1]) ELSE 0
      hourWait == IF Len(s) >= CeilingPerHour THEN OneHour - (t - s[1]) ELSE 0
  IN Larger(minuteWait, Larger(hourWait, 0))

\* A conversation with no release yet, or none for longer than IdleReset, is fresh.
isIdle(last, t) == last = Never \/ t - last > IdleReset

\* The delays the runner may compute at time t for a conversation last released at last.
HumanDelays(last, t) ==
  IF isIdle(last, t)
    THEN {computeFirstReplyDelay(len, j) : len \in TextLengths, j \in JitterPcts}
    ELSE {MinGap}

\* Mutant of delayFor: no hard floor.
delayForNoFloor(human, s, t) == Larger(human, ceilingWait(s, t, inQuietHours(t)))

delayFor(human, s, t) ==
  LET quiet == inQuietHours(t)
      slowed == IF quiet THEN Scaled(human, DelayMultiplierPct) ELSE human
  IN Larger(Larger(slowed, HardFloor), ceilingWait(s, t, quiet))

-----------------------------------------------------------------------------
Init ==
  /\ now = 0 /\ stopped = FALSE /\ known = {} /\ sentTimes = <<>>
  /\ queue = [c \in Conversations |-> <<>>]
  /\ pc = [c \in Conversations |-> "none"]
  /\ inHand = [c \in Conversations |-> <<>>]
  /\ wakeAt = [c \in Conversations |-> 0]
  /\ lastReleaseAt = [c \in Conversations |-> Never]
  /\ accepted = [c \in Conversations |-> 0]
  /\ delivered = [c \in Conversations |-> <<>>]
  /\ releases = <<>> /\ instant = FALSE

\* One turn of the runner's loop, up to its sleep: shift the oldest of q, compute
\* the delay from the clock and from the conversation's last release, set the timer.
BeginNext(c, q, last) ==
  LET s == pruneSent(sentTimes, now)
  IN /\ \E human \in HumanDelays(last, now) :
          wakeAt' = [wakeAt EXCEPT ![c] = now + delayFor(human, s, now)]
     /\ sentTimes' = s
     /\ inHand' = [inHand EXCEPT ![c] = <<Head(q)>>]
     /\ queue' = [queue EXCEPT ![c] = Tail(q)]
     /\ pc' = [pc EXCEPT ![c] = "sleeping"]

\* The runner's finally block: forget a drained conversation, its last release with it.
Finish(c) ==
  /\ pc' = [pc EXCEPT ![c] = "none"]
  /\ inHand' = [inHand EXCEPT ![c] = <<>>]
  /\ known' = IF queue[c] = <<>> THEN known \ {c} ELSE known
  /\ UNCHANGED <<queue, wakeAt, sentTimes>>

\* send() refuses: the pacer is stopped, or the conversation's queue is at its cap.
\* getConversation() has entered the conversation in the map by then.
SendRefused(c) ==
  /\ \/ stopped /\ UNCHANGED known
     \/ ~stopped /\ Len(queue[c]) >= MaxQueueDepth /\ known' = known \cup {c}
  /\ UNCHANGED <<now, stopped, queue, runnerVars, lastReleaseAt, sentTimes, accepted, historyVars>>

\* send() acknowledges: queue the request and, with no runner, start one, which runs
\* up to its first sleep before send() returns.
SendAccepted(c) ==
  LET q == Append(queue[c], accepted[c] + 1)
      last == IF c \in known THEN lastReleaseAt[c] ELSE Never
  IN /\ FoldFunction(+, 0, accepted) < MaxSends
     /\ ~stopped /\ Len(queue[c]) < MaxQueueDepth
     /\ accepted' = [accepted EXCEPT ![c] = @ + 1]
     /\ known' = known \cup {c}
     /\ lastReleaseAt' = [lastReleaseAt EXCEPT ![c] = last]
     /\ IF pc[c] = "none"
          THEN BeginNext(c, q, last)
          ELSE queue' = [queue EXCEPT ![c] = q] /\ UNCHANGED <<runnerVars, sentTimes>>
     /\ UNCHANGED <<now, stopped, historyVars>>

\* The request in hand goes to the real send, whose answer the runner then awaits.
ReleaseInHand(c) ==
  /\ sentTimes' = Append(sentTimes, now)
  /\ lastReleaseAt' = [lastReleaseAt EXCEPT ![c] = now]
  /\ delivered' = [delivered EXCEPT ![c] = Append(@, Head(inHand[c]))]
  /\ releases' = Append(releases, [conv |-> c, at |-> now])
  /\ pc' = [pc EXCEPT ![c] = "sending"]
  /\ inHand' = [inHand EXCEPT ![c] = <<>>]
  /\ UNCHANGED <<now, stopped, known, queue, wakeAt, accepted, instant>>

\* Mutants of WakeReleases: stop() is not re-read after the sleep; the request stays in hand.
WakeReleasesUnchecked(c) == pc[c] = "sleeping" /\ now >= wakeAt[c] /\ ReleaseInHand(c)
WakeReleasesKeeps(c) ==
  /\ pc[c] = "sleeping" /\ now >= wakeAt[c] /\ ~stopped
  /\ sentTimes' = Append(sentTimes, now)
  /\ pc' = [pc EXCEPT ![c] = "sending"]
  /\ UNCHANGED <<now, stopped, known, queue, inHand, wakeAt, lastReleaseAt, accepted, historyVars>>

\* The sleep ends: release.
WakeReleases(c) ==
  /\ pc[c] = "sleeping" /\ now >= wakeAt[c] /\ ~stopped
  /\ ReleaseInHand(c)

\* The sleep ends after stop(): the request in hand is dropped.
WakeStopped(c) ==
  /\ pc[c] = "sleeping" /\ now >= wakeAt[c] /\ stopped
  /\ Finish(c)
  /\ UNCHANGED <<now, stopped, lastReleaseAt, accepted, historyVars>>

\* Mutant of SendSettles: the runner serves one request and exits.
SendSettlesOnce(c) ==
  /\ pc[c] = "sending" /\ Finish(c)
  /\ UNCHANGED <<now, stopped, lastReleaseAt, accepted, historyVars>>

\* The real send settles, with an answer or an error (both are only logged).
SendSettles(c) ==
  /\ pc[c] = "sending"
  /\ IF queue[c] # <<>> /\ ~stopped
       THEN BeginNext(c, queue[c], lastReleaseAt[c]) /\ UNCHANGED known
       ELSE Finish(c)
  /\ instant' = (instant \/ lastReleaseAt[c] = now)
  /\ UNCHANGED <<now, stopped, lastReleaseAt, accepted, delivered, releases>>

Stop ==
  /\ ~stopped
  /\ stopped' = TRUE /\ known' = {}
  /\ UNCHANGED <<now, queue, runnerVars, lastReleaseAt, sentTimes, accepted, historyVars>>

\* Time passes.
Tick ==
  /\ \/ now < IdleHorizon
     \/ \E c \in Conversations : \/ pc[c] = "sleeping" /\ now < wakeAt[c]
                                 \/ pc[c] = "sending" /\ now < lastReleaseAt[c] + SendTime
  /\ now' = now + 1
  /\ UNCHANGED <<stopped, known, queue, runnerVars, lastReleaseAt, sentTimes,
                 accepted, historyVars>>

Runner(c) == WakeReleases(c) \/ WakeStopped(c) \/ SendSettles(c)

Next == \/ \E c \in Conversations : SendAccepted(c) \/ SendRefused(c) \/ Runner(c)
        \/ Stop
        \/ Tick

\* The clock advances, a due timer fires and the real send settles (its HTTP calls
\* carry a timeout).  Nothing obliges a caller to send or an operator to stop.
Fairness == WF_vars(Tick) /\ \A c \in Conversations : WF_vars(Runner(c))

Spec == Init /\ [][Next]_vars
FairSpec == Spec /\ Fairness

-----------------------------------------------------------------------------
(* Properties.                                                             *)

Release == [conv : Conversations, at : Nat]

\* Every variable has its type, and a runner holds a request exactly while it sleeps.
TypeOK ==
  /\ now \in Nat /\ stopped \in BOOLEAN /\ known \subseteq Conversations
  /\ queue \in [Conversations -> Seq(Nat)]
  /\ pc \in [Conversations -> {"none", "sleeping", "sending"}]
  /\ inHand \in [Conversations -> Seq(Nat)]
  /\ \A c \in Conversations : Len(inHand[c]) = IF pc[c] = "sleeping" THEN 1 ELSE 0
  /\ wakeAt \in [Conversations -> Nat]
  /\ lastReleaseAt \in [Conversations -> Nat \cup {Never}]
  /\ sentTimes \in Seq(Nat)
  /\ accepted \in [Conversations -> Nat]
  /\ delivered \in [Conversations -> Seq(Nat)]
  /\ releases \in Seq(Release) /\ instant \in BOOLEAN

\* The pacer implements the outbox: requests leave a conversation in the order they
\* were acknowledged, each at most once, none is lost before stop() and none leaves
\* after it, and at most one more than maxQueueDepth is ever pending.
Box == INSTANCE Outbox WITH
         Capacity  <- MaxQueueDepth + 1,
         pending   <- [c \in Conversations |-> inHand[c] \o queue[c]],
         delivered <- delivered,
         halted    <- stopped
ImplementsOutbox == Box!Spec

\* Any ceiling + 1 consecutive sends of the account span at least the window.
SpreadOver(ceiling, window) ==
  \A i \in 1..Len(releases) :
    i + ceiling <= Len(releases) => releases[i + ceiling].at - releases[i].at >= window

\* "Per-account sliding-window ceiling: max sends per rolling minute" and "per rolling
\* hour": the sliding-window ceilings of ceilingWaitMs hold, whatever the timers do.
CeilingsHold == /\ SpreadOver(Larger(CeilingPerMinute, QuietCeilingPerMinute), OneMinute)
                /\ SpreadOver(CeilingPerHour, OneHour)

\* The account has talked in one conversation at most.
Solo == \A c, d \in Conversations : accepted[c] > 0 /\ accepted[d] > 0 => c = d

\* The ceilings hold while the account talks in one conversation only: bursts, drained
\* and re-created conversations, late timers and quiet hours do not break them.  A real
\* send that takes no time does: the window then keeps an entry of exactly one hour next
\* to the release it made room for, and the hour's wait is computed from that entry.
SoloCeilingsHold == Solo /\ ~instant => CeilingsHold

\* Releases i and j are consecutive in their conversation.
Consecutive(i, j) ==
  /\ i < j /\ releases[i].conv = releases[j].conv
  /\ \A k \in i + 1..j - 1 : releases[k].conv # releases[j].conv

\* "No computed delay ever goes below this": two sends in one conversation are at least
\* hardFloorMs apart, although the conversation may have been forgotten in between.
FloorBetweenReleases ==
  \A i, j \in 1..Len(releases) : Consecutive(i, j) => releases[j].at - releases[i].at >= HardFloor

\* "Minimum gap between back-to-back sends in the SAME conversation": two consecutive
\* sends of a conversation are at least minGapMs apart.  The code does not keep this: a
\* drained conversation forgets its last send.
MinGapBetweenReleases ==
  \A i, j \in 1..Len(releases) : Consecutive(i, j) => releases[j].at - releases[i].at >= MinGap

\* What send() acknowledged is eventually released unless the pacer is stopped: no
\* runner exits or sleeps for ever and leaves a request in its queue.
AcceptedIsReleased ==
  \A c \in Conversations : []<>(stopped \/ Len(delivered[c]) = accepted[c])
=============================================================================
