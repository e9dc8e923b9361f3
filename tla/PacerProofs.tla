------------------------------ MODULE PacerProofs ------------------------------
(***************************************************************************)
(* The safety of the pacer, for every set of conversations, every          *)
(* configuration and all lengths and jitters that meet PacerAssumption:    *)
(* its type, the floor between the sends of a conversation, the ceilings   *)
(* of an account that talks in one conversation, and that it implements    *)
(* the abstract Outbox.  No bound on sends or on the clock is used.        *)
(***************************************************************************)
EXTENDS OutboundPacer, FiniteSetTheorems, WellFoundedInduction, TLAPS

-----------------------------------------------------------------------------
(* The sliding window.                                                     *)

\* A nonempty set of numbers has a least element.
LEMMA LeastElement ==
  ASSUME NEW T \in SUBSET Nat, T # {}
  PROVE  \E x \in T : \A y \in T : x <= y
<1>1. IsWellFoundedOn(OpToRel(<, Nat), Nat)
  BY NatLessThanWellFounded
<1>2. PICK x \in T : \A y \in T : ~ (<<y, x>> \in OpToRel(<, Nat))
  BY <1>1, WFMin, Zenon
<1>3. \A y \in T : ~(y < x)
  BY <1>2 DEF OpToRel
<1>4. QED
  BY <1>3

Sorted(s) == \A i, j \in 1..Len(s) : i <= j => s[i] <= s[j]

\* In a sorted window the old entries are the leading ones, and Older counts them.
LEMMA OlderIsPrefix ==
  ASSUME NEW s \in Seq(Nat), Sorted(s), NEW t \in Nat, NEW age \in Nat
  PROVE  /\ Older(s, t, age) \in 0..Len(s)
         /\ \A i \in 1..Len(s) : t - s[i] >= age <=> i <= Older(s, t, age)
<1> DEFINE old == {i \in 1..Len(s) : t - s[i] >= age}
           young == {i \in 1..Len(s) + 1 : i \notin old}
<1>1. Len(s) \in Nat /\ \A i \in 1..Len(s) : s[i] \in Nat
  OBVIOUS
<1>2. Len(s) + 1 \in young /\ young \subseteq Nat
  BY <1>1
<1>3. PICK m \in young : \A i \in young : m <= i
  BY <1>2, LeastElement, Zenon
<1>4. old = 1..m - 1
  <2>1. m \in 1..Len(s) + 1 /\ m \notin old
    BY <1>3
  <2>2. ASSUME NEW i \in 1..m - 1
        PROVE  i \in old
    BY <1>1, <1>3, <2>1, <2>2
  <2>3. ASSUME NEW i \in old
        PROVE  i \in 1..m - 1
    <3>1. CASE i >= m
      <4>1. m \in 1..Len(s) /\ i \in 1..Len(s) /\ t - s[i] >= age
        BY <1>1, <2>1, <3>1
      <4>2. s[m] <= s[i] /\ s[m] \in Nat /\ s[i] \in Nat
        BY <1>1, <3>1, <4>1 DEF Sorted
      <4>3. t - s[m] >= age
        BY SMTT(30), <4>1, <4>2
      <4>4. QED
        BY <2>1, <4>1, <4>3
    <3>2. CASE i < m
      BY <1>1, <3>2
    <3>3. QED
      BY <1>1, <2>1, <3>1, <3>2
  <2>4. QED
    BY <2>2, <2>3
<1>5. m \in Nat /\ m >= 1 /\ m <= Len(s) + 1
  BY <1>1, <1>3
<1>6. Cardinality(1..m - 1) = m - 1
  <2>1. Cardinality(1..m - 1) = IF 1 > m - 1 THEN 0 ELSE (m - 1) - 1 + 1
    BY <1>5, FS_Interval
  <2>2. QED
    BY <1>5, <2>1
<1>7. Older(s, t, age) = m - 1
  BY <1>4, <1>6 DEF Older
<1>8. \A i \in 1..Len(s) : t - s[i] >= age <=> i <= m - 1
  <2> HIDE DEF young
  <2> SUFFICES ASSUME NEW i \in 1..Len(s)
               PROVE  i \in old <=> i <= m - 1
    OBVIOUS
  <2>1. QED
    BY SMTT(30), <1>1, <1>4, <1>5
<1>9. QED
  BY <1>1, <1>5, <1>7, <1>8

\* Pruning drops leading entries older than an hour, and those only.
LEMMA PruneFacts ==
  ASSUME NEW s \in Seq(Nat), Sorted(s), NEW t \in Nat
  PROVE  \E k \in 0..Len(s) :
           /\ pruneSent(s, t) \in Seq(Nat) /\ Len(pruneSent(s, t)) = Len(s) - k
           /\ \A i \in 1..Len(s) - k : pruneSent(s, t)[i] = s[i + k]
           /\ \A i \in 1..Len(s) : t - s[i] > OneHour <=> i <= k
<1> DEFINE k == Older(s, t, OneHour + 1)
<1>0. OneHour \in Nat /\ OneHour + 1 \in Nat
  BY PacerAssumption
<1>1. k \in 0..Len(s) /\ \A i \in 1..Len(s) : t - s[i] >= OneHour + 1 <=> i <= k
  BY <1>0, OlderIsPrefix
<1>2. pruneSent(s, t) = SubSeq(s, k + 1, Len(s))
  BY DEF pruneSent
<1> HIDE DEF k
<1>3. /\ SubSeq(s, k + 1, Len(s)) \in Seq(Nat) /\ Len(SubSeq(s, k + 1, Len(s))) = Len(s) - k
      /\ \A i \in 1..Len(s) - k : SubSeq(s, k + 1, Len(s))[i] = s[i + k]
  BY <1>1
<1>4. \A i \in 1..Len(s) : t - s[i] > OneHour <=> i <= k
  BY <1>0, <1>1
<1>5. QED
  BY <1>1, <1>2, <1>3, <1>4

-----------------------------------------------------------------------------
(* The delays.                                                             *)

\* A scaled delay is a natural number.
LEMMA ScaledIsNat ==
  ASSUME NEW x \in Nat, NEW pct \in Nat
  PROVE  Scaled(x, pct) \in Nat
<1> DEFINE y == x * pct
<1>1. y \in Nat
  OBVIOUS
<1> HIDE DEF y
<1>2. (y + 50) \div 100 \in Nat
  BY <1>1
<1>3. QED
  BY <1>2 DEF Scaled, y

\* The delay of a humanly slow reply is a natural number.
LEMMA HumanDelayIsNat ==
  ASSUME NEW last, NEW t, NEW human \in HumanDelays(last, t)
  PROVE  human \in Nat
<1>1. ASSUME NEW len \in TextLengths, NEW j \in JitterPcts
      PROVE  computeFirstReplyDelay(len, j) \in Nat
  <2>1. FirstReplyPerChar * len \in Nat
    BY PacerAssumption
  <2>2. Smaller(FirstReplyBase + FirstReplyPerChar * len, FirstReplyMax) \in Nat
    BY <2>1, PacerAssumption DEF Smaller
  <2>3. 100 + j \in Nat
    BY PacerAssumption
  <2>4. QED
    BY <2>2, <2>3, ScaledIsNat DEF computeFirstReplyDelay
<1>2. MinGap \in Nat
  BY PacerAssumption
<1>3. QED
  BY <1>1, <1>2 DEF HumanDelays

\* The wait for the ceilings is never negative.
LEMMA CeilingWaitIsNat ==
  ASSUME NEW s \in Seq(Nat), Sorted(s), NEW t \in Nat, NEW quiet \in BOOLEAN
  PROVE  ceilingWait(s, t, quiet) \in Nat
<1> DEFINE perMinute == IF quiet THEN QuietCeilingPerMinute ELSE CeilingPerMinute
           before == Older(s, t, OneMinute)
           minuteWait == IF Len(s) - before >= perMinute THEN OneMinute - (t - s[before + 1]) ELSE 0
           hourWait == IF Len(s) >= CeilingPerHour THEN OneHour - (t - s[1]) ELSE 0
<1>0. /\ OneMinute \in Nat /\ OneHour \in Nat /\ CeilingPerHour \in Nat /\ CeilingPerHour >= 1
      /\ perMinute \in Nat /\ perMinute >= 1
  BY PacerAssumption DEF ConfigAccepted
<1>1. before \in 0..Len(s)
  BY <1>0, OlderIsPrefix
<1> HIDE DEF before, perMinute
<1>2. minuteWait \in Int
  <2>1. CASE Len(s) - before >= perMinute
    <3>1. before + 1 \in 1..Len(s)
      BY <1>0, <1>1, <2>1
    <3>2. s[before + 1] \in Nat
      BY <3>1
    <3>3. QED
      BY <1>0, <3>2
  <2>2. QED
    BY <2>1
<1>3. hourWait \in Int
  <2>1. CASE Len(s) >= CeilingPerHour
    <3>1. s[1] \in Nat
      BY <1>0, <2>1
    <3>2. QED
      BY <1>0, <3>1
  <2>2. QED
    BY <2>1
<1> HIDE DEF minuteWait, hourWait
<1>4. Larger(minuteWait, Larger(hourWait, 0)) \in Nat
  BY <1>2, <1>3 DEF Larger
<1>5. QED
  BY <1>4 DEF ceilingWait, minuteWait, hourWait, before, perMinute

\* No delay is below the hard floor, nor below the wait for the ceilings.
LEMMA DelayFacts ==
  ASSUME NEW human \in Nat, NEW s \in Seq(Nat), Sorted(s), NEW t \in Nat
  PROVE  /\ delayFor(human, s, t) \in Nat /\ delayFor(human, s, t) >= HardFloor
         /\ delayFor(human, s, t) >= ceilingWait(s, t, inQuietHours(t))
<1> DEFINE quiet == inQuietHours(t)
           slowed == IF quiet THEN Scaled(human, DelayMultiplierPct) ELSE human
           wait == ceilingWait(s, t, quiet)
<1>1. quiet \in BOOLEAN
  BY DEF inQuietHours
<1>2. slowed \in Nat
  BY PacerAssumption, ScaledIsNat
<1>3. wait \in Nat
  BY <1>1, CeilingWaitIsNat
<1>4. HardFloor \in Nat
  BY PacerAssumption
<1> HIDE DEF quiet, slowed, wait
<1>5. LET d == Larger(Larger(slowed, HardFloor), wait)
      IN  d \in Nat /\ d >= HardFloor /\ d >= wait
  BY <1>2, <1>3, <1>4 DEF Larger
<1>6. QED
  BY <1>5 DEF delayFor, quiet, slowed, wait

-----------------------------------------------------------------------------
(* Types.  The window is sorted because the clock does not go back.        *)

\* No clock value that was recorded lies ahead, and what is recorded is in order.
ClockInv ==
  /\ Sorted(sentTimes) /\ \A i \in 1..Len(sentTimes) : sentTimes[i] <= now
  /\ \A c \in Conversations : lastReleaseAt[c] <= now

BaseInv == TypeOK /\ ClockInv

\* A turn of the loop, as far as types and the due time go.
LEMMA BeginFacts ==
  ASSUME BaseInv, NEW c \in Conversations, NEW q \in Seq(Nat), q # <<>>, NEW last,
         BeginNext(c, q, last)
  PROVE  /\ Head(q) \in Nat /\ Tail(q) \in Seq(Nat)
         /\ sentTimes' = pruneSent(sentTimes, now)
         /\ inHand' = [inHand EXCEPT ![c] = <<Head(q)>>]
         /\ queue' = [queue EXCEPT ![c] = Tail(q)]
         /\ pc' = [pc EXCEPT ![c] = "sleeping"]
         /\ sentTimes' \in Seq(Nat) /\ Sorted(sentTimes')
         /\ \A i \in 1..Len(sentTimes') : sentTimes'[i] <= now
         /\ \E wake \in Nat : /\ wakeAt' = [wakeAt EXCEPT ![c] = wake]
                              /\ wake >= now + HardFloor
                              /\ wake >= now + ceilingWait(sentTimes', now, inQuietHours(now))
<1> DEFINE s == pruneSent(sentTimes, now)
<1>1. now \in Nat /\ sentTimes \in Seq(Nat) /\ Sorted(sentTimes) /\ HardFloor \in Nat
  BY PacerAssumption DEF BaseInv, TypeOK, ClockInv
<1>2. PICK k \in 0..Len(sentTimes) :
           /\ s \in Seq(Nat) /\ Len(s) = Len(sentTimes) - k
           /\ \A i \in 1..Len(sentTimes) - k : s[i] = sentTimes[i + k]
  BY <1>1, PruneFacts
<1>3. Sorted(s) /\ \A i \in 1..Len(s) : s[i] <= now
  <2> HIDE DEF s
  <2>1. ASSUME NEW i \in 1..Len(s)
        PROVE  i + k \in 1..Len(sentTimes) /\ s[i] = sentTimes[i + k]
    BY <1>2
  <2>2. ASSUME NEW i \in 1..Len(s), NEW j \in 1..Len(s), i <= j
        PROVE  s[i] <= s[j]
    <3>1. i + k <= j + k
      BY <1>2, <2>2
    <3>2. QED
      BY <1>1, <2>1, <2>2, <3>1 DEF Sorted
  <2>3. QED
    BY <2>1, <2>2 DEF Sorted, BaseInv, ClockInv
<1>4. /\ sentTimes' = s /\ inHand' = [inHand EXCEPT ![c] = <<Head(q)>>]
      /\ queue' = [queue EXCEPT ![c] = Tail(q)] /\ pc' = [pc EXCEPT ![c] = "sleeping"]
  BY DEF BeginNext
<1>5. PICK human \in HumanDelays(last, now) :
           wakeAt' = [wakeAt EXCEPT ![c] = now + delayFor(human, s, now)]
  BY DEF BeginNext
<1> HIDE DEF s
<1>6. human \in Nat
  BY <1>5, HumanDelayIsNat
<1>7. /\ delayFor(human, s, now) \in Nat /\ delayFor(human, s, now) >= HardFloor
      /\ delayFor(human, s, now) >= ceilingWait(s, now, inQuietHours(now))
  BY <1>1, <1>2, <1>3, <1>6, DelayFacts
<1>8. ceilingWait(s, now, inQuietHours(now)) \in Nat
  <2>1. inQuietHours(now) \in BOOLEAN
    BY DEF inQuietHours
  <2>2. QED
    BY <1>1, <1>2, <1>3, <2>1, CeilingWaitIsNat
<1>9. \E wake \in Nat : /\ wakeAt' = [wakeAt EXCEPT ![c] = wake]
                        /\ wake >= now + HardFloor
                        /\ wake >= now + ceilingWait(s, now, inQuietHours(now))
  <2> DEFINE wake == now + delayFor(human, s, now)
  <2>1. wake \in Nat /\ wake >= now + HardFloor
        /\ wake >= now + ceilingWait(s, now, inQuietHours(now))
    BY <1>1, <1>7, <1>8
  <2>2. wakeAt' = [wakeAt EXCEPT ![c] = wake]
    BY <1>5
  <2> HIDE DEF wake
  <2>3. QED
    BY <2>1, <2>2
<1>10. Head(q) \in Nat /\ Tail(q) \in Seq(Nat)
  OBVIOUS
<1>11. QED
  BY <1>2, <1>3, <1>4, <1>9, <1>10 DEF s

\* send() on a conversation: what it queues, and on what it starts a runner.
LEMMA AcceptedQueue ==
  ASSUME BaseInv, NEW c \in Conversations
  PROVE  /\ accepted[c] + 1 \in Nat /\ queue[c] \in Seq(Nat)
         /\ Append(queue[c], accepted[c] + 1) \in Seq(Nat)
         /\ Append(queue[c], accepted[c] + 1) # <<>>
<1>1. accepted[c] + 1 \in Nat /\ queue[c] \in Seq(Nat)
  BY DEF BaseInv, TypeOK
<1>2. QED
  BY <1>1

\* A runner changes its place and what it holds together.
LEMMA HandFollowsPlace ==
  ASSUME BaseInv, NEW c \in Conversations, NEW place \in {"none", "sleeping", "sending"},
         NEW hand \in Seq(Nat), Len(hand) = IF place = "sleeping" THEN 1 ELSE 0,
         pc' = [pc EXCEPT ![c] = place], inHand' = [inHand EXCEPT ![c] = hand]
  PROVE  /\ pc' \in [Conversations -> {"none", "sleeping", "sending"}]
         /\ inHand' \in [Conversations -> Seq(Nat)]
         /\ \A d \in Conversations : Len(inHand'[d]) = IF pc'[d] = "sleeping" THEN 1 ELSE 0
<1>1. /\ pc' \in [Conversations -> {"none", "sleeping", "sending"}]
      /\ inHand' \in [Conversations -> Seq(Nat)]
  BY DEF BaseInv, TypeOK
<1>2. ASSUME NEW d \in Conversations
      PROVE  Len(inHand'[d]) = IF pc'[d] = "sleeping" THEN 1 ELSE 0
  BY DEF BaseInv, TypeOK
<1>3. QED
  BY <1>1, <1>2

\* The types and the order of the clocks hold initially.
LEMMA InitBase == Init => BaseInv
<1> SUFFICES ASSUME Init PROVE BaseInv
  OBVIOUS
<1>1. <<>> \in Seq(Nat) /\ <<>> \in Seq(Release) /\ Len(<<>>) = 0
  OBVIOUS
<1>2. /\ queue \in [Conversations -> Seq(Nat)] /\ inHand \in [Conversations -> Seq(Nat)]
      /\ delivered \in [Conversations -> Seq(Nat)]
  BY <1>1 DEF Init
<1>3. \A c \in Conversations : Len(inHand[c]) = IF pc[c] = "sleeping" THEN 1 ELSE 0
  BY <1>1 DEF Init
<1>4. TypeOK
  BY <1>1, <1>2, <1>3 DEF Init, TypeOK
<1>5. ClockInv
  BY <1>1 DEF Init, ClockInv, Sorted, Never
<1>6. QED
  BY <1>4, <1>5 DEF BaseInv

\* Every step keeps the types and the order of the clocks.
LEMMA BaseStep == BaseInv /\ [Next]_vars => BaseInv'
<1> SUFFICES ASSUME BaseInv, [Next]_vars PROVE BaseInv'
  OBVIOUS
<1> USE DEF BaseInv, runnerVars, historyVars
<1>1. ASSUME NEW c \in Conversations, SendAccepted(c), pc[c] = "none"
      PROVE  BaseInv'
  <2> DEFINE q == Append(queue[c], accepted[c] + 1)
             last == IF c \in known THEN lastReleaseAt[c] ELSE Never
  <2>1. q \in Seq(Nat) /\ q # <<>> /\ accepted[c] + 1 \in Nat
    BY AcceptedQueue
  <2>2. /\ BeginNext(c, q, last) /\ accepted' = [accepted EXCEPT ![c] = @ + 1]
        /\ known' = known \cup {c} /\ lastReleaseAt' = [lastReleaseAt EXCEPT ![c] = last]
        /\ UNCHANGED <<now, stopped, historyVars>>
    BY <1>1 DEF SendAccepted
  <2>3. last \in Nat \cup {Never} /\ last <= now
    BY DEF TypeOK, ClockInv, Never
  <2> HIDE DEF q, last
  <2>31. PICK wake \in Nat : wakeAt' = [wakeAt EXCEPT ![c] = wake]
    BY <2>1, <2>2, BeginFacts
  <2>32. /\ Head(q) \in Nat /\ Tail(q) \in Seq(Nat) /\ sentTimes' \in Seq(Nat)
         /\ inHand' = [inHand EXCEPT ![c] = <<Head(q)>>]
         /\ queue' = [queue EXCEPT ![c] = Tail(q)] /\ pc' = [pc EXCEPT ![c] = "sleeping"]
    BY <2>1, <2>2, BeginFacts
  <2>33. <<Head(q)>> \in Seq(Nat) /\ Len(<<Head(q)>>) = 1
    BY <2>32
  <2>34. /\ pc' \in [Conversations -> {"none", "sleeping", "sending"}]
         /\ inHand' \in [Conversations -> Seq(Nat)]
         /\ \A d \in Conversations : Len(inHand'[d]) = IF pc'[d] = "sleeping" THEN 1 ELSE 0
    BY <2>32, <2>33, HandFollowsPlace
  <2>4. TypeOK'
    BY <2>1, <2>2, <2>3, <2>31, <2>32, <2>34 DEF TypeOK
  <2>5. ClockInv'
    BY <2>1, <2>2, <2>3, BeginFacts DEF TypeOK, ClockInv
  <2>6. QED
    BY <2>4, <2>5
<1>2. ASSUME NEW c \in Conversations, SendAccepted(c), pc[c] # "none"
      PROVE  BaseInv'
  <2> DEFINE q == Append(queue[c], accepted[c] + 1)
             last == IF c \in known THEN lastReleaseAt[c] ELSE Never
  <2>1. q \in Seq(Nat) /\ accepted[c] + 1 \in Nat
    BY AcceptedQueue
  <2>2. /\ queue' = [queue EXCEPT ![c] = q] /\ accepted' = [accepted EXCEPT ![c] = @ + 1]
        /\ known' = known \cup {c} /\ lastReleaseAt' = [lastReleaseAt EXCEPT ![c] = last]
        /\ UNCHANGED <<now, stopped, runnerVars, sentTimes, historyVars>>
    BY <1>2 DEF SendAccepted
  <2>3. last \in Nat \cup {Never} /\ last <= now
    BY DEF TypeOK, ClockInv, Never
  <2> HIDE DEF q, last
  <2>4. QED
    BY <2>1, <2>2, <2>3 DEF TypeOK, ClockInv
<1>3. ASSUME NEW c \in Conversations, SendRefused(c)
      PROVE  BaseInv'
  BY <1>3 DEF SendRefused, TypeOK, ClockInv
<1>4. ASSUME NEW c \in Conversations, WakeReleases(c)
      PROVE  BaseInv'
  <2>1. inHand[c] \in Seq(Nat) /\ Len(inHand[c]) = 1 /\ now \in Nat
    BY <1>4 DEF TypeOK, WakeReleases
  <2>2. Head(inHand[c]) \in Nat
    BY <2>1
  <2>3. [conv |-> c, at |-> now] \in Release
    BY <2>1 DEF Release
  <2>31. /\ pc' \in [Conversations -> {"none", "sleeping", "sending"}]
         /\ inHand' \in [Conversations -> Seq(Nat)]
         /\ \A d \in Conversations : Len(inHand'[d]) = IF pc'[d] = "sleeping" THEN 1 ELSE 0
    <3>1. <<>> \in Seq(Nat) /\ Len(<<>>) = IF "sending" = "sleeping" THEN 1 ELSE 0
      OBVIOUS
    <3>2. pc' = [pc EXCEPT ![c] = "sending"] /\ inHand' = [inHand EXCEPT ![c] = <<>>]
      BY <1>4 DEF WakeReleases, ReleaseInHand
    <3>3. QED
      BY <3>1, <3>2, HandFollowsPlace
  <2>32. /\ delivered' \in [Conversations -> Seq(Nat)] /\ releases' \in Seq(Release)
         /\ sentTimes' \in Seq(Nat) /\ lastReleaseAt' \in [Conversations -> Nat \cup {Never}]
    BY <1>4, <2>1, <2>2, <2>3 DEF TypeOK, WakeReleases, ReleaseInHand
  <2>4. TypeOK'
    BY <1>4, <2>31, <2>32 DEF TypeOK, WakeReleases, ReleaseInHand
  <2>5. ClockInv'
    <3>1. /\ sentTimes' = Append(sentTimes, now) /\ now' = now
          /\ lastReleaseAt' = [lastReleaseAt EXCEPT ![c] = now]
      BY <1>4 DEF WakeReleases, ReleaseInHand
    <3>2. QED
      BY SMTT(30), <2>1, <3>1 DEF TypeOK, ClockInv, Sorted
  <2>6. QED
    BY <2>4, <2>5
<1>5. ASSUME NEW c \in Conversations, Finish(c),
             UNCHANGED <<now, stopped, lastReleaseAt, accepted, delivered, releases>>,
             instant' \in BOOLEAN
      PROVE  BaseInv'
  <2>1. /\ pc' \in [Conversations -> {"none", "sleeping", "sending"}]
        /\ inHand' \in [Conversations -> Seq(Nat)]
        /\ \A d \in Conversations : Len(inHand'[d]) = IF pc'[d] = "sleeping" THEN 1 ELSE 0
    <3>1. <<>> \in Seq(Nat) /\ Len(<<>>) = IF "none" = "sleeping" THEN 1 ELSE 0
      OBVIOUS
    <3>2. pc' = [pc EXCEPT ![c] = "none"] /\ inHand' = [inHand EXCEPT ![c] = <<>>]
      BY <1>5 DEF Finish
    <3>3. QED
      BY <3>1, <3>2, HandFollowsPlace
  <2>2. known' \subseteq Conversations
    BY <1>5 DEF Finish, TypeOK
  <2>3. QED
    BY <1>5, <2>1, <2>2 DEF Finish, TypeOK, ClockInv
<1>6. ASSUME NEW c \in Conversations, WakeStopped(c)
      PROVE  BaseInv'
  BY <1>5, <1>6 DEF WakeStopped, TypeOK
<1>7. ASSUME NEW c \in Conversations, SendSettles(c)
      PROVE  BaseInv'
  <2>1. instant' \in BOOLEAN
    BY <1>7 DEF SendSettles, TypeOK
  <2>2. CASE queue[c] # <<>> /\ ~stopped
    <3>1. /\ BeginNext(c, queue[c], lastReleaseAt[c])
          /\ UNCHANGED <<now, stopped, known, lastReleaseAt, accepted, delivered, releases>>
      BY <1>7, <2>2 DEF SendSettles
    <3>2. queue[c] \in Seq(Nat)
      BY DEF TypeOK
    <3>21. PICK wake \in Nat : wakeAt' = [wakeAt EXCEPT ![c] = wake]
      BY <2>2, <3>1, <3>2, BeginFacts
    <3>22. /\ Head(queue[c]) \in Nat /\ Tail(queue[c]) \in Seq(Nat) /\ sentTimes' \in Seq(Nat)
           /\ inHand' = [inHand EXCEPT ![c] = <<Head(queue[c])>>]
           /\ queue' = [queue EXCEPT ![c] = Tail(queue[c])] /\ pc' = [pc EXCEPT ![c] = "sleeping"]
      BY <2>2, <3>1, <3>2, BeginFacts
    <3>23. <<Head(queue[c])>> \in Seq(Nat) /\ Len(<<Head(queue[c])>>) = 1
      BY <3>22
    <3>24. /\ pc' \in [Conversations -> {"none", "sleeping", "sending"}]
           /\ inHand' \in [Conversations -> Seq(Nat)]
           /\ \A d \in Conversations : Len(inHand'[d]) = IF pc'[d] = "sleeping" THEN 1 ELSE 0
      BY <3>22, <3>23, HandFollowsPlace
    <3>3. TypeOK'
      BY <2>1, <3>1, <3>21, <3>22, <3>24 DEF TypeOK
    <3>4. ClockInv'
      BY <2>2, <3>1, <3>2, BeginFacts DEF TypeOK, ClockInv
    <3>5. QED
      BY <3>3, <3>4
  <2>3. CASE ~(queue[c] # <<>> /\ ~stopped)
    BY <1>5, <1>7, <2>1, <2>3 DEF SendSettles
  <2>4. QED
    BY <2>2, <2>3
<1>8. CASE Stop
  BY <1>8 DEF Stop, TypeOK, ClockInv
<1>9. CASE Tick
  <2>1. now' = now + 1 /\ now \in Nat
    BY <1>9 DEF Tick, TypeOK
  <2>2. TypeOK'
    BY <1>9, <2>1 DEF Tick, TypeOK
  <2>3. ClockInv'
    <3>1. ASSUME NEW i \in 1..Len(sentTimes)
          PROVE  sentTimes[i] <= now + 1
      <4>1. sentTimes[i] <= now /\ sentTimes[i] \in Nat
        BY DEF TypeOK, ClockInv
      <4>2. QED
        BY <2>1, <4>1
    <3>2. ASSUME NEW c \in Conversations
          PROVE  lastReleaseAt[c] <= now + 1
      <4>1. lastReleaseAt[c] <= now /\ lastReleaseAt[c] \in Int
        BY DEF TypeOK, ClockInv, Never
      <4>2. QED
        BY <2>1, <4>1
    <3>3. QED
      BY <1>9, <2>1, <3>1, <3>2 DEF Tick, ClockInv
  <2>4. QED
    BY <2>2, <2>3
<1>10. CASE UNCHANGED vars
  BY <1>10 DEF vars, TypeOK, ClockInv
<1>11. QED
  BY <1>1, <1>2, <1>3, <1>4, <1>6, <1>7, <1>8, <1>9, <1>10 DEF Next, Runner

-----------------------------------------------------------------------------
(* What is recorded of the releases.                                       *)

\* The releases are recorded in the order of the clock.
InOrder ==
  /\ \A i \in 1..Len(releases) : releases[i].at <= now
  /\ \A i, j \in 1..Len(releases) : i <= j => releases[i].at <= releases[j].at

\* The window is the tail of the releases, and what it has dropped is too old to count.
WindowInv ==
  LET dropped == Len(releases) - Len(sentTimes)
  IN  /\ dropped \in Nat
      /\ \A i \in 1..Len(sentTimes) : sentTimes[i] = releases[i + dropped].at
      /\ \A i \in 1..dropped : now - releases[i].at > OneHour

\* A runner sleeps until the floor has passed since every release of its conversation;
\* while it sends, its conversation remembers the last one.
Spaced(c) ==
  \A i \in 1..Len(releases) : releases[i].conv = c =>
    /\ accepted[c] > 0
    /\ pc[c] = "sleeping" => releases[i].at + HardFloor <= wakeAt[c]
    /\ pc[c] = "sending" => releases[i].at <= lastReleaseAt[c]
    /\ (pc[c] # "sending" /\ ~instant) => releases[i].at < now

\* A runner works for a conversation that has accepted something, and until stop()
\* the map knows it.
RunnerKnown(c) == pc[c] # "none" => accepted[c] > 0 /\ (~stopped => c \in known)

\* Any two releases of a conversation are spaced by the floor.
Floored ==
  \A i, j \in 1..Len(releases) :
    i < j /\ releases[i].conv = releases[j].conv => releases[j].at - releases[i].at >= HardFloor

ReleaseInv ==
  /\ InOrder /\ WindowInv /\ Floored
  /\ \A c \in Conversations : Spaced(c) /\ RunnerKnown(c)

\* The types of the releases and of what they are compared with.
LEMMA ReleaseTypes ==
  ASSUME BaseInv
  PROVE  /\ now \in Nat /\ HardFloor \in Nat /\ OneHour \in Nat /\ Len(releases) \in Nat
         /\ sentTimes \in Seq(Nat)
         /\ \A i \in 1..Len(releases) : releases[i].conv \in Conversations /\ releases[i].at \in Nat
<1>1. releases \in Seq(Release) /\ now \in Nat /\ sentTimes \in Seq(Nat)
  BY DEF BaseInv, TypeOK
<1>2. HardFloor \in Nat /\ OneHour \in Nat
  BY PacerAssumption
<1>3. ASSUME NEW i \in 1..Len(releases)
      PROVE  releases[i].conv \in Conversations /\ releases[i].at \in Nat
  <2>1. releases[i] \in Release
    BY <1>1
  <2>2. QED
    BY <2>1 DEF Release
<1>4. QED
  BY <1>1, <1>2, <1>3

\* A step that releases nothing and lets no time pass keeps the order, the spacing, and
\* the window if that is what pruning makes of it.
LEMMA NoRelease ==
  ASSUME BaseInv, ReleaseInv, releases' = releases, now' = now,
         sentTimes' = sentTimes \/ sentTimes' = pruneSent(sentTimes, now)
  PROVE  InOrder' /\ Floored' /\ WindowInv'
<1> USE DEF ReleaseInv
<1>1. InOrder' /\ Floored'
  BY DEF InOrder, Floored
<1>2. CASE sentTimes' = sentTimes
  BY <1>1, <1>2 DEF WindowInv
<1>3. CASE sentTimes' = pruneSent(sentTimes, now)
  <2> DEFINE dropped == Len(releases) - Len(sentTimes)
  <2>1. PICK k \in 0..Len(sentTimes) :
           /\ sentTimes' \in Seq(Nat) /\ Len(sentTimes') = Len(sentTimes) - k
           /\ \A i \in 1..Len(sentTimes) - k : sentTimes'[i] = sentTimes[i + k]
           /\ \A i \in 1..Len(sentTimes) : now - sentTimes[i] > OneHour <=> i <= k
    BY <1>3, ReleaseTypes, PruneFacts DEF BaseInv, ClockInv
  <2>2. dropped \in Nat /\ Len(sentTimes) \in Nat /\ k \in Nat
    BY ReleaseTypes DEF WindowInv
  <2>3. (Len(releases) - Len(sentTimes))' = dropped + k
    BY <2>1, <2>2, ReleaseTypes
  <2>4. ASSUME NEW i \in 1..Len(sentTimes')
        PROVE  sentTimes'[i] = releases[i + (dropped + k)].at
    <3>1. i + k \in 1..Len(sentTimes) /\ sentTimes'[i] = sentTimes[i + k]
      BY <2>1, <2>2
    <3>2. sentTimes[i + k] = releases[(i + k) + dropped].at
      BY <3>1 DEF WindowInv
    <3>3. (i + k) + dropped = i + (dropped + k)
      BY <2>2, <3>1
    <3>4. QED
      BY <3>1, <3>2, <3>3
  <2>5. ASSUME NEW i \in 1..dropped + k
        PROVE  now - releases[i].at > OneHour
    <3>1. CASE i <= dropped
      BY <2>2, <3>1 DEF WindowInv
    <3>2. CASE i > dropped
      <4>1. i - dropped \in 1..Len(sentTimes) /\ i - dropped <= k /\ (i - dropped) + dropped = i
        BY <2>1, <2>2, <3>2
      <4>2. now - sentTimes[i - dropped] > OneHour
        BY <2>1, <4>1
      <4>3. sentTimes[i - dropped] = releases[(i - dropped) + dropped].at
        BY <4>1 DEF WindowInv
      <4>4. QED
        BY <4>1, <4>2, <4>3
    <3>3. QED
      BY <2>2, <3>1, <3>2
  <2> DEFINE more == dropped + k
  <2>6. (Len(releases) - Len(sentTimes))' = more /\ more \in Nat
    BY <2>2, <2>3
  <2> HIDE DEF more
  <2>7. WindowInv'
    <3>1. \A i \in 1..Len(sentTimes') : sentTimes'[i] = releases[i + more].at
      BY <2>4 DEF more
    <3>2. \A i \in 1..more : now - releases[i].at > OneHour
      BY <2>5 DEF more
    <3>3. QED
      BY <2>6, <3>1, <3>2 DEF WindowInv
  <2>8. QED
    BY <1>1, <2>7
<1>4. QED
  BY <1>1, <1>2, <1>3

\* What a runner is owed is not touched by the steps of the other runners.
LEMMA OthersSpaced ==
  ASSUME ReleaseInv, NEW d \in Conversations, releases' = releases, now' = now,
         pc'[d] = pc[d], wakeAt'[d] = wakeAt[d], lastReleaseAt'[d] = lastReleaseAt[d],
         accepted'[d] = accepted[d], instant => instant', stopped => stopped',
         ~stopped' /\ d \in known => d \in known'
  PROVE  Spaced(d)' /\ RunnerKnown(d)'
  BY DEF ReleaseInv, Spaced, RunnerKnown

\* A release: later than all before it, and the floor after those of its conversation.
LEMMA ReleaseStep ==
  ASSUME BaseInv, ReleaseInv, NEW c \in Conversations, WakeReleases(c)
  PROVE  ReleaseInv'
<1> USE DEF ReleaseInv, runnerVars, historyVars
<1> DEFINE n == Len(releases)
<1>1. /\ releases' = Append(releases, [conv |-> c, at |-> now]) /\ now' = now
      /\ sentTimes' = Append(sentTimes, now)
      /\ pc' = [pc EXCEPT ![c] = "sending"] /\ lastReleaseAt' = [lastReleaseAt EXCEPT ![c] = now]
      /\ pc[c] = "sleeping" /\ now >= wakeAt[c]
      /\ UNCHANGED <<stopped, known, wakeAt, accepted, instant>>
  BY DEF WakeReleases, ReleaseInHand
<1>2. /\ n \in Nat /\ Len(releases') = n + 1 /\ now \in Nat /\ HardFloor \in Nat
      /\ releases'[n + 1].conv = c /\ releases'[n + 1].at = now
      /\ \A i \in 1..n : releases'[i] = releases[i]
  BY SMTT(30), <1>1, ReleaseTypes DEF BaseInv, TypeOK
<1>3. \A i \in 1..n : releases[i].conv \in Conversations /\ releases[i].at \in Nat
  BY ReleaseTypes
<1>4. \A i \in 1..Len(releases') : i \in 1..n \/ i = n + 1
  BY <1>2
<1> HIDE DEF n
<1>5. InOrder'
  <2>1. ASSUME NEW i \in 1..Len(releases')
        PROVE  releases'[i].at <= now
    BY <1>2, <1>3, <1>4 DEF InOrder, n
  <2>2. ASSUME NEW i \in 1..Len(releases'), NEW j \in 1..Len(releases'), i <= j
        PROVE  releases'[i].at <= releases'[j].at
    <3>1. CASE j = n + 1
      BY <1>2, <2>1, <3>1
    <3>2. CASE j # n + 1
      <4>1. i \in 1..n /\ j \in 1..n
        BY <1>2, <1>4, <2>2, <3>2
      <4>2. QED
        BY <1>2, <2>2, <4>1 DEF InOrder, n
    <3>3. QED
      BY <3>1, <3>2
  <2>3. QED
    BY <1>1, <2>1, <2>2 DEF InOrder
<1>6. Floored'
  <2> SUFFICES ASSUME NEW i \in 1..Len(releases'), NEW j \in 1..Len(releases'), i < j,
                      releases'[i].conv = releases'[j].conv
               PROVE  releases'[j].at - releases'[i].at >= HardFloor
    BY DEF Floored
  <2>1. CASE j = n + 1
    <3>1. i \in 1..n /\ releases[i].conv = c
      BY <1>2, <1>4, <2>1
    <3>2. releases[i].at + HardFloor <= wakeAt[c]
      BY <1>1, <3>1 DEF Spaced, n
    <3>3. releases[i].at \in Nat /\ wakeAt[c] \in Nat
      BY <1>3, <3>1 DEF BaseInv, TypeOK
    <3>4. QED
      BY <1>1, <1>2, <2>1, <3>1, <3>2, <3>3
  <2>2. CASE j # n + 1
    <3>1. i \in 1..n /\ j \in 1..n
      BY <1>2, <1>4, <2>2
    <3>2. QED
      BY <1>2, <3>1 DEF Floored, n
  <2>3. QED
    BY <2>1, <2>2
<1>7. WindowInv'
  <2> DEFINE dropped == n - Len(sentTimes)
  <2>1. dropped \in Nat /\ Len(sentTimes) \in Nat
    BY ReleaseTypes DEF WindowInv, n
  <2>2. Len(sentTimes') = Len(sentTimes) + 1 /\ (Len(releases) - Len(sentTimes))' = dropped
    BY <1>1, <1>2, <2>1, ReleaseTypes DEF n
  <2>3. ASSUME NEW i \in 1..Len(sentTimes')
        PROVE  sentTimes'[i] = releases'[i + dropped].at
    <3>1. CASE i = Len(sentTimes) + 1
      <4>1. i + dropped = n + 1
        BY <1>2, <2>1, <3>1
      <4>2. sentTimes'[i] = now
        BY <1>1, <3>1, ReleaseTypes
      <4>3. QED
        BY <1>2, <4>1, <4>2
    <3>2. CASE i # Len(sentTimes) + 1
      <4>1. i \in 1..Len(sentTimes) /\ i + dropped \in 1..n
        BY <1>2, <2>1, <2>2, <3>2
      <4>2. sentTimes'[i] = sentTimes[i]
        BY <1>1, <4>1, ReleaseTypes
      <4>3. QED
        BY <1>2, <4>1, <4>2 DEF WindowInv, n
    <3>3. QED
      BY <3>1, <3>2
  <2>4. ASSUME NEW i \in 1..dropped
        PROVE  now - releases'[i].at > OneHour
    <3>1. i \in 1..n
      BY <1>2, <2>1
    <3>2. QED
      BY <1>2, <3>1 DEF WindowInv, n
  <2> HIDE DEF dropped
  <2>5. QED
    BY <1>1, <2>1, <2>2, <2>3, <2>4 DEF WindowInv
<1>8. ASSUME NEW d \in Conversations
      PROVE  Spaced(d)' /\ RunnerKnown(d)'
  <2>1. accepted[c] > 0 /\ (~stopped => c \in known)
    BY <1>1 DEF RunnerKnown
  <2>2. RunnerKnown(d)'
    BY <1>1, <2>1 DEF RunnerKnown, BaseInv, TypeOK
  <2>3. ASSUME NEW i \in 1..Len(releases'), releases'[i].conv = d
        PROVE  /\ accepted[d] > 0
               /\ pc'[d] = "sleeping" => releases'[i].at + HardFloor <= wakeAt[d]
               /\ pc'[d] = "sending" => releases'[i].at <= lastReleaseAt'[d]
               /\ (pc'[d] # "sending" /\ ~instant) => releases'[i].at < now
    <3>1. CASE d = c
      <4>1. pc'[d] = "sending" /\ lastReleaseAt'[d] = now
        BY <1>1, <3>1 DEF BaseInv, TypeOK
      <4>2. releases'[i].at <= now
        BY <1>1, <1>5 DEF InOrder
      <4>3. QED
        BY <2>1, <3>1, <4>1, <4>2
    <3>2. CASE d # c
      <4>1. i \in 1..n /\ releases'[i] = releases[i]
        BY <1>2, <1>4, <2>3, <3>2
      <4>2. pc'[d] = pc[d] /\ lastReleaseAt'[d] = lastReleaseAt[d]
        BY <1>1, <3>2 DEF BaseInv, TypeOK
      <4>3. QED
        BY <2>3, <4>1, <4>2 DEF Spaced, n
    <3>3. QED
      BY <3>1, <3>2
  <2>4. QED
    BY <1>1, <2>2, <2>3 DEF Spaced
<1>9. QED
  BY <1>5, <1>6, <1>7, <1>8

\* A runner that goes to sleep is spaced, if nothing of its conversation is as late as now.
LEMMA BeginSpaced ==
  ASSUME BaseInv, ReleaseInv, NEW c \in Conversations, NEW q \in Seq(Nat), q # <<>>, NEW last,
         BeginNext(c, q, last), releases' = releases, now' = now, accepted'[c] > 0,
         \A i \in 1..Len(releases) : releases[i].conv = c /\ ~instant' => releases[i].at < now
  PROVE  Spaced(c)'
<1>1. PICK wake \in Nat : wakeAt' = [wakeAt EXCEPT ![c] = wake] /\ wake >= now + HardFloor
  BY BeginFacts
<1>2. pc' = [pc EXCEPT ![c] = "sleeping"]
  BY BeginFacts
<1>3. pc'[c] = "sleeping" /\ wakeAt'[c] = wake
  BY <1>1, <1>2 DEF BaseInv, TypeOK
<1>4. ASSUME NEW i \in 1..Len(releases)
      PROVE  releases[i].at + HardFloor <= wake
  <2>1. releases[i].at \in Nat /\ releases[i].at <= now /\ now \in Nat /\ HardFloor \in Nat
    BY ReleaseTypes DEF ReleaseInv, InOrder
  <2>2. QED
    BY <1>1, <2>1
<1>5. QED
  BY <1>3, <1>4 DEF Spaced

\* The invariant of the releases holds initially.
LEMMA InitRelease == Init => ReleaseInv
  BY PacerAssumption DEF Init, ReleaseInv, InOrder, WindowInv, Floored, Spaced, RunnerKnown

\* Every step keeps the invariant of the releases.
LEMMA ReleaseInvStep == BaseInv /\ ReleaseInv /\ [Next]_vars => ReleaseInv'
<1> SUFFICES ASSUME BaseInv, ReleaseInv, [Next]_vars PROVE ReleaseInv'
  OBVIOUS
<1> USE DEF runnerVars, historyVars
<1>1. ASSUME NEW c \in Conversations, SendAccepted(c), pc[c] = "none"
      PROVE  ReleaseInv'
  <2> DEFINE q == Append(queue[c], accepted[c] + 1)
             last == IF c \in known THEN lastReleaseAt[c] ELSE Never
  <2>1. q \in Seq(Nat) /\ q # <<>>
    BY AcceptedQueue
  <2>2. /\ BeginNext(c, q, last) /\ accepted' = [accepted EXCEPT ![c] = @ + 1]
        /\ known' = known \cup {c} /\ lastReleaseAt' = [lastReleaseAt EXCEPT ![c] = last]
        /\ UNCHANGED <<now, stopped, historyVars>>
    BY <1>1 DEF SendAccepted
  <2> HIDE DEF q, last
  <2>3. InOrder' /\ Floored' /\ WindowInv'
    BY <2>1, <2>2, BeginFacts, NoRelease
  <2>4. accepted'[c] = accepted[c] + 1 /\ accepted[c] \in Nat /\ pc'[c] = "sleeping"
    BY <2>1, <2>2, BeginFacts DEF BaseInv, TypeOK
  <2>5. Spaced(c)'
    <3>1. \A i \in 1..Len(releases) : releases[i].conv = c /\ ~instant' => releases[i].at < now
      BY <1>1, <2>2 DEF ReleaseInv, Spaced
    <3>2. accepted'[c] > 0
      BY <2>4
    <3>3. QED
      BY <2>1, <2>2, <3>1, <3>2, BeginSpaced
  <2>6. RunnerKnown(c)'
    BY <2>2, <2>4 DEF RunnerKnown
  <2>7. ASSUME NEW d \in Conversations, d # c
        PROVE  Spaced(d)' /\ RunnerKnown(d)'
    <3>1. /\ pc'[d] = pc[d] /\ wakeAt'[d] = wakeAt[d] /\ lastReleaseAt'[d] = lastReleaseAt[d]
          /\ accepted'[d] = accepted[d]
      BY SMTT(30), <2>1, <2>2, <2>7, BeginFacts DEF BaseInv, TypeOK
    <3>2. QED
      BY <2>2, <3>1, OthersSpaced
  <2>8. QED
    BY <2>3, <2>5, <2>6, <2>7 DEF ReleaseInv
<1>2. ASSUME NEW c \in Conversations, SendAccepted(c), pc[c] # "none"
      PROVE  ReleaseInv'
  <2>1. /\ accepted' = [accepted EXCEPT ![c] = @ + 1] /\ known' = known \cup {c}
        /\ lastReleaseAt' = [lastReleaseAt EXCEPT ![c] = IF c \in known THEN @ ELSE Never]
        /\ ~stopped /\ UNCHANGED <<now, stopped, runnerVars, sentTimes, historyVars>>
    BY <1>2 DEF SendAccepted
  <2>2. c \in known
    BY <1>2, <2>1 DEF ReleaseInv, RunnerKnown
  <2>3. lastReleaseAt' = lastReleaseAt /\ known' = known
    BY <2>1, <2>2 DEF BaseInv, TypeOK
  <2>4. \A d \in Conversations : accepted[d] > 0 => accepted'[d] > 0
    BY <2>1 DEF BaseInv, TypeOK
  <2>5. InOrder' /\ Floored' /\ WindowInv'
    BY <2>1, NoRelease
  <2>6. QED
    BY <2>1, <2>3, <2>4, <2>5 DEF ReleaseInv, Spaced, RunnerKnown
<1>3. ASSUME NEW c \in Conversations, SendRefused(c)
      PROVE  ReleaseInv'
  <2>1. /\ known \subseteq known' /\ UNCHANGED <<now, stopped, runnerVars, lastReleaseAt>>
        /\ UNCHANGED <<sentTimes, accepted, historyVars>>
    BY <1>3 DEF SendRefused
  <2>2. InOrder' /\ Floored' /\ WindowInv'
    BY <2>1, NoRelease
  <2>3. QED
    BY <2>1, <2>2, OthersSpaced DEF ReleaseInv
<1>4. ASSUME NEW c \in Conversations, WakeReleases(c)
      PROVE  ReleaseInv'
  BY <1>4, ReleaseStep
<1>5. ASSUME NEW c \in Conversations, Finish(c), instant => instant',
             UNCHANGED <<now, stopped, lastReleaseAt, accepted, releases>>,
             \A i \in 1..Len(releases) : releases[i].conv = c /\ ~instant' => releases[i].at < now
      PROVE  ReleaseInv'
  <2>1. /\ pc' = [pc EXCEPT ![c] = "none"] /\ UNCHANGED <<wakeAt, sentTimes>>
        /\ \A d \in Conversations \ {c} : d \in known => d \in known'
    BY <1>5 DEF Finish
  <2>2. InOrder' /\ Floored' /\ WindowInv'
    BY <1>5, <2>1, NoRelease
  <2>3. pc'[c] = "none"
    BY <2>1 DEF BaseInv, TypeOK
  <2>4. Spaced(c)' /\ RunnerKnown(c)'
    BY <1>5, <2>3 DEF Spaced, RunnerKnown, ReleaseInv
  <2>5. ASSUME NEW d \in Conversations, d # c
        PROVE  Spaced(d)' /\ RunnerKnown(d)'
    <3>1. pc'[d] = pc[d]
      BY <2>1, <2>5 DEF BaseInv, TypeOK
    <3>2. QED
      BY <1>5, <2>1, <2>5, <3>1, OthersSpaced
  <2>6. QED
    BY <2>2, <2>4, <2>5 DEF ReleaseInv
<1>6. ASSUME NEW c \in Conversations, WakeStopped(c)
      PROVE  ReleaseInv'
  <2>1. /\ Finish(c) /\ UNCHANGED <<now, stopped, lastReleaseAt, accepted, releases, instant>>
        /\ pc[c] = "sleeping"
    BY <1>6 DEF WakeStopped
  <2>2. \A i \in 1..Len(releases) : releases[i].conv = c /\ ~instant' => releases[i].at < now
    BY <2>1 DEF ReleaseInv, Spaced
  <2>3. QED
    BY <1>5, <2>1, <2>2
<1>7. ASSUME NEW c \in Conversations, SendSettles(c)
      PROVE  ReleaseInv'
  <2>1. /\ instant' = (instant \/ lastReleaseAt[c] = now) /\ pc[c] = "sending"
        /\ UNCHANGED <<now, stopped, lastReleaseAt, accepted, releases>>
    BY <1>7 DEF SendSettles
  <2>2. ASSUME NEW i \in 1..Len(releases), releases[i].conv = c, ~instant'
        PROVE  releases[i].at < now
    <3>1. lastReleaseAt[c] # now /\ lastReleaseAt[c] <= now /\ releases[i].at <= lastReleaseAt[c]
      BY <2>1, <2>2 DEF ReleaseInv, Spaced, BaseInv, ClockInv
    <3>2. releases[i].at \in Nat /\ now \in Nat
      BY ReleaseTypes
    <3>3. lastReleaseAt[c] \in Int
      BY DEF BaseInv, TypeOK, Never
    <3>4. QED
      BY <3>1, <3>2, <3>3
  <2>3. accepted[c] > 0 /\ (~stopped => c \in known)
    BY <2>1 DEF ReleaseInv, RunnerKnown
  <2>4. CASE queue[c] # <<>> /\ ~stopped
    <3>1. BeginNext(c, queue[c], lastReleaseAt[c]) /\ known' = known
      BY <1>7, <2>4 DEF SendSettles
    <3>2. queue[c] \in Seq(Nat)
      BY DEF BaseInv, TypeOK
    <3>3. InOrder' /\ Floored' /\ WindowInv'
      BY <2>1, <2>4, <3>1, <3>2, BeginFacts, NoRelease
    <3>4. Spaced(c)'
      BY <2>1, <2>2, <2>3, <2>4, <3>1, <3>2, BeginSpaced
    <3>5. RunnerKnown(c)'
      BY <2>1, <2>3, <3>1 DEF RunnerKnown
    <3>6. ASSUME NEW d \in Conversations, d # c
          PROVE  Spaced(d)' /\ RunnerKnown(d)'
      <4>1. PICK wake \in Nat : wakeAt' = [wakeAt EXCEPT ![c] = wake]
        BY <2>4, <3>1, <3>2, BeginFacts
      <4>2. pc' = [pc EXCEPT ![c] = "sleeping"]
        BY <2>4, <3>1, <3>2, BeginFacts
      <4>3. pc'[d] = pc[d] /\ wakeAt'[d] = wakeAt[d]
        BY <3>6, <4>1, <4>2 DEF BaseInv, TypeOK
      <4>4. QED
        BY <2>1, <3>1, <4>3, OthersSpaced
    <3>7. QED
      BY <3>3, <3>4, <3>5, <3>6 DEF ReleaseInv
  <2>5. CASE ~(queue[c] # <<>> /\ ~stopped)
    <3>1. Finish(c)
      BY <1>7, <2>5 DEF SendSettles
    <3>2. QED
      BY <1>5, <2>1, <2>2, <3>1
  <2>6. QED
    BY <2>4, <2>5
<1>8. CASE Stop
  <2>1. stopped' /\ UNCHANGED <<now, runnerVars, lastReleaseAt, sentTimes, accepted, historyVars>>
    BY <1>8 DEF Stop
  <2>2. InOrder' /\ Floored' /\ WindowInv'
    BY <2>1, NoRelease
  <2>3. QED
    BY <2>1, <2>2, OthersSpaced DEF ReleaseInv
<1>9. CASE Tick
  <2>1. /\ now' = now + 1
        /\ UNCHANGED <<stopped, known, runnerVars, lastReleaseAt, sentTimes, accepted, historyVars>>
    BY <1>9 DEF Tick
  <2>2. ASSUME NEW i \in 1..Len(releases)
        PROVE  /\ releases[i].at <= now + 1 /\ releases[i].at < now + 1
               /\ now - releases[i].at > OneHour => (now + 1) - releases[i].at > OneHour
    <3>1. PICK x : x = releases[i].at
      OBVIOUS
    <3>2. x \in Nat /\ x <= now
      BY <3>1, ReleaseTypes DEF ReleaseInv, InOrder
    <3>3. now \in Nat /\ OneHour \in Nat
      BY ReleaseTypes
    <3>4. x <= now + 1 /\ x < now + 1 /\ (now - x > OneHour => (now + 1) - x > OneHour)
      BY <3>2, <3>3
    <3>5. QED
      BY <3>1, <3>4
  <2>3. InOrder' /\ Floored'
    BY <2>1, <2>2 DEF ReleaseInv, InOrder, Floored
  <2>4. WindowInv'
    <3> DEFINE dropped == Len(releases) - Len(sentTimes)
    <3>1. dropped \in Nat /\ \A i \in 1..dropped : i \in 1..Len(releases)
      BY ReleaseTypes DEF ReleaseInv, WindowInv
    <3>2. \A i \in 1..dropped : (now + 1) - releases[i].at > OneHour
      BY <2>2, <3>1 DEF ReleaseInv, WindowInv
    <3>3. QED
      BY <2>1, <3>2 DEF ReleaseInv, WindowInv
  <2>5. ASSUME NEW d \in Conversations
        PROVE  Spaced(d)' /\ RunnerKnown(d)'
    BY <2>1, <2>2 DEF ReleaseInv, Spaced, RunnerKnown
  <2>6. QED
    BY <2>3, <2>4, <2>5 DEF ReleaseInv
<1>10. CASE UNCHANGED vars
  BY <1>10 DEF vars, ReleaseInv, InOrder, WindowInv, Floored, Spaced, RunnerKnown
<1>11. QED
  BY <1>1, <1>2, <1>3, <1>4, <1>6, <1>7, <1>8, <1>9, <1>10 DEF Next, Runner

-----------------------------------------------------------------------------
(* The ceilings of an account that talks in one conversation.              *)

MinuteCeiling == Larger(CeilingPerMinute, QuietCeilingPerMinute)

\* What the ceiling asks of a release at time t: the one that many releases back is out
\* of the window by then.
RoomAt(ceiling, window, t) ==
  Len(releases) >= ceiling => t - releases[Len(releases) + 1 - ceiling].at >= window

\* A runner sleeps until both windows have room, if its conversation is the only one.
SoloInv ==
  Solo /\ ~instant =>
    /\ CeilingsHold
    /\ \A c \in Conversations : pc[c] = "sleeping" =>
          RoomAt(MinuteCeiling, OneMinute, wakeAt[c]) /\ RoomAt(CeilingPerHour, OneHour, wakeAt[c])

\* The window pruned for a delay: the youngest releases, all within the hour.
LEMMA PrunedWindow ==
  ASSUME BaseInv, ReleaseInv,
         NEW s, s = pruneSent(sentTimes, now)
  PROVE  \E dropped \in Nat :
           /\ s \in Seq(Nat) /\ Sorted(s) /\ Len(s) + dropped = Len(releases)
           /\ \A i \in 1..Len(s) : s[i] = releases[i + dropped].at /\ now - s[i] <= OneHour
           /\ \A i \in 1..dropped : now - releases[i].at > OneHour
<1>1. PICK k \in 0..Len(sentTimes) :
         /\ s \in Seq(Nat) /\ Len(s) = Len(sentTimes) - k
         /\ \A i \in 1..Len(sentTimes) - k : s[i] = sentTimes[i + k]
         /\ \A i \in 1..Len(sentTimes) : now - sentTimes[i] > OneHour <=> i <= k
  BY ReleaseTypes, PruneFacts DEF BaseInv, ClockInv
<1> DEFINE first == Len(releases) - Len(sentTimes)
           dropped == first + k
<1>2. /\ first \in Nat /\ Len(sentTimes) \in Nat /\ k \in Nat /\ Len(releases) \in Nat
      /\ \A i \in 1..Len(sentTimes) : sentTimes[i] = releases[i + first].at
      /\ \A i \in 1..first : now - releases[i].at > OneHour
  BY ReleaseTypes DEF ReleaseInv, WindowInv
<1>3. dropped \in Nat /\ Len(s) + dropped = Len(releases)
  BY <1>1, <1>2
<1> HIDE DEF first
<1>4. ASSUME NEW i \in 1..Len(s)
      PROVE  s[i] = releases[i + dropped].at /\ now - s[i] <= OneHour
  <2>1. i + k \in 1..Len(sentTimes) /\ s[i] = sentTimes[i + k] /\ ~(i + k <= k)
    BY <1>1, <1>2
  <2>2. sentTimes[i + k] = releases[(i + k) + first].at /\ (i + k) + first = i + dropped
    BY <1>2, <2>1
  <2>3. ~(now - sentTimes[i + k] > OneHour)
    BY <1>1, <2>1
  <2>4. sentTimes[i + k] \in Nat /\ now \in Nat /\ OneHour \in Nat
    <3>1. sentTimes \in Seq(Nat) /\ now \in Nat /\ OneHour \in Nat
      BY ReleaseTypes
    <3>2. QED
      BY <2>1, <3>1
  <2>5. now - s[i] <= OneHour
    BY <2>1, <2>3, <2>4
  <2>6. QED
    BY <2>1, <2>2, <2>5
<1>5. ASSUME NEW i \in 1..dropped
      PROVE  now - releases[i].at > OneHour
  <2>1. CASE i <= first
    BY <1>2, <2>1
  <2>2. CASE i > first
    <3>1. i - first \in 1..Len(sentTimes) /\ i - first <= k /\ (i - first) + first = i
      BY <1>1, <1>2, <2>2
    <3>2. QED
      BY <1>1, <1>2, <3>1
  <2>3. QED
    BY <1>2, <2>1, <2>2
<1>6. Sorted(s)
  <2> SUFFICES ASSUME NEW i \in 1..Len(s), NEW j \in 1..Len(s), i <= j
               PROVE  s[i] <= s[j]
    BY DEF Sorted
  <2>1. i + k \in 1..Len(sentTimes) /\ j + k \in 1..Len(sentTimes) /\ i + k <= j + k
    BY SMTT(30), <1>1, <1>2
  <2>2. QED
    BY <1>1, <2>1 DEF BaseInv, ClockInv, Sorted
<1>7. QED
  BY <1>1, <1>3, <1>4, <1>5, <1>6

CountsPositive ==
  /\ CeilingPerHour \in Nat \ {0} /\ MinuteCeiling \in Nat \ {0}
  /\ CeilingPerMinute \in Nat \ {0} /\ QuietCeilingPerMinute \in Nat \ {0}
  /\ CeilingPerMinute <= MinuteCeiling /\ QuietCeilingPerMinute <= MinuteCeiling
  /\ OneMinute \in Nat \ {0} /\ OneHour \in Nat \ {0} /\ OneMinute <= OneHour

\* The ceilings and the windows are positive, a minute is no longer than an hour.
LEMMA CountsArePositive == CountsPositive
  BY PacerAssumption DEF CountsPositive, ConfigAccepted, MinuteCeiling, Larger

\* Waiting for the minute's ceiling makes room in the minute's window.
LEMMA MinuteRoom ==
  ASSUME BaseInv, ReleaseInv, SpreadOver(MinuteCeiling, OneMinute), NEW quiet \in BOOLEAN,
         NEW wake \in Nat, wake >= now + ceilingWait(pruneSent(sentTimes, now), now, quiet)
  PROVE  RoomAt(MinuteCeiling, OneMinute, wake)
<1> DEFINE s == pruneSent(sentTimes, now)
           n == Len(releases)
           from == n + 1 - MinuteCeiling
           perMinute == IF quiet THEN QuietCeilingPerMinute ELSE CeilingPerMinute
           before == Older(s, now, OneMinute)
           minuteWait == IF Len(s) - before >= perMinute THEN OneMinute - (now - s[before + 1]) ELSE 0
           hourWait == IF Len(s) >= CeilingPerHour THEN OneHour - (now - s[1]) ELSE 0
<1>1. PICK dropped \in Nat :
        /\ s \in Seq(Nat) /\ Sorted(s) /\ Len(s) + dropped = n
        /\ \A i \in 1..Len(s) : s[i] = releases[i + dropped].at /\ now - s[i] <= OneHour
        /\ \A i \in 1..dropped : now - releases[i].at > OneHour
  BY PrunedWindow
<1>2. ceilingWait(s, now, quiet) = Larger(minuteWait, Larger(hourWait, 0))
  BY DEF ceilingWait
<1>3. ceilingWait(s, now, quiet) \in Nat /\ now \in Nat /\ n \in Nat
  BY <1>1, ReleaseTypes, CeilingWaitIsNat
<1>4. before \in 0..Len(s) /\ \A i \in 1..Len(s) : now - s[i] >= OneMinute <=> i <= before
  <2>1. OneMinute \in Nat
    BY CountsArePositive DEF CountsPositive
  <2>2. QED
    BY <1>1, <1>3, <2>1, OlderIsPrefix
<1>5. perMinute \in Nat /\ perMinute >= 1 /\ perMinute <= MinuteCeiling
  BY CountsArePositive DEF CountsPositive
<1>6. MinuteCeiling \in Nat /\ MinuteCeiling >= 1 /\ OneMinute \in Nat /\ OneMinute <= OneHour /\ OneHour \in Nat
  BY CountsArePositive DEF CountsPositive
<1> HIDE DEF s, before, perMinute
<1> SUFFICES ASSUME n >= MinuteCeiling
             PROVE  wake - releases[from].at >= OneMinute
  BY DEF RoomAt
<1>7. from \in 1..n /\ releases[from].at \in Nat
  BY <1>3, <1>6, ReleaseTypes
<1>8. CASE now - releases[from].at >= OneMinute
  BY <1>3, <1>6, <1>7, <1>8 DEF s
<1>9. CASE now - releases[from].at < OneMinute
  <2> DEFINE j == from - dropped
  <2>1. from > dropped
    <3>1. ~(now - releases[from].at > OneHour)
      BY <1>3, <1>6, <1>7, <1>9
    <3>2. ~(from \in 1..dropped)
      BY <1>1, <3>1
    <3> HIDE DEF n, from
    <3>3. QED
      BY <1>3, <1>7, <3>2
  <2>2. j \in 1..Len(s) /\ j + dropped = from /\ Len(s) - j + 1 = MinuteCeiling
    <3> DEFINE m == MinuteCeiling
               len == Len(s)
    <3>1. /\ len \in Nat /\ len + dropped = n /\ from = n + 1 - m
          /\ n \in Nat /\ m \in Nat /\ m >= 1 /\ from > dropped
      BY <1>1, <1>3, <1>6, <2>1
    <3> HIDE DEF n, from, m, len
    <3>2. from \in Nat
      BY <1>7
    <3>3. j \in Nat /\ j >= 1 /\ j <= len
      BY <3>1, <3>2
    <3>4. j + dropped = from /\ len - j + 1 = m
      BY <3>1, <3>2
    <3>5. QED
      BY <3>1, <3>3, <3>4 DEF m, len
  <2>3. s[j] = releases[from].at /\ j > before
    <3>1. s[j] = releases[from].at
      BY <1>1, <2>2
    <3>2. ~(now - s[j] >= OneMinute)
      BY <1>3, <1>6, <1>7, <1>9, <3>1
    <3>3. ~(j <= before)
      BY <1>4, <2>2, <3>2
    <3>4. QED
      BY <1>4, <2>2, <3>1, <3>3
  <2> HIDE DEF j
  <2>4. Len(s) - before >= perMinute
    BY <1>4, <1>5, <1>6, <2>2, <2>3
  <2>5. before + 1 \in 1..Len(s) /\ before + 1 <= j
    BY <1>4, <2>2, <2>3
  <2>6. s[before + 1] \in Nat
    BY <1>1, <2>5
  <2>7. minuteWait = OneMinute - (now - s[before + 1])
    BY <2>4
  <2>8. hourWait \in Int
    <3>1. CASE Len(s) >= CeilingPerHour
      <4>1. s[1] \in Nat
        BY <1>1, <3>1, CountsArePositive DEF CountsPositive
      <4>2. QED
        BY <1>3, <1>6, <4>1
    <3>2. QED
      BY <3>1
  <2>9. ceilingWait(s, now, quiet) >= minuteWait
    <3>1. minuteWait \in Int
      BY <1>3, <1>6, <2>6, <2>7
    <3> HIDE DEF minuteWait, hourWait
    <3>2. QED
      BY <1>2, <2>8, <3>1 DEF Larger
  <2>10. CASE before + 1 = j
    <3> DEFINE wait == ceilingWait(s, now, quiet)
               x == s[before + 1]
               y == releases[from].at
    <3>1. wait \in Nat /\ wake \in Nat /\ wake >= now + wait /\ wait >= OneMinute - (now - x)
      BY <1>3, <2>7, <2>9 DEF s
    <3>2. x = y /\ x \in Nat /\ now \in Nat /\ OneMinute \in Nat
      BY <1>3, <1>6, <2>3, <2>6, <2>10
    <3> HIDE DEF wait, x, y
    <3>3. wake - y >= OneMinute
      BY <3>1, <3>2
    <3>4. QED
      BY <3>3 DEF y
  <2>11. CASE before + 1 < j
    <3> DEFINE p == (before + 1) + dropped
    <3>1. p \in 1..n /\ p + MinuteCeiling \in 1..n
      <4> DEFINE m == MinuteCeiling
                 len == Len(s)
                 b == before + 1
      <4>1. /\ len \in Nat /\ b \in Nat /\ b >= 1 /\ j \in Nat /\ b < j /\ j <= len
            /\ len + dropped = n /\ len - j + 1 = m /\ m \in Nat
        BY <1>1, <1>3, <1>4, <1>6, <2>2, <2>11
      <4> HIDE DEF n, m, len, b
      <4>2. b + dropped >= 1 /\ (b + dropped) + m <= n /\ b + dropped <= n /\ b + dropped \in Nat /\ n \in Nat
        BY <4>1
      <4>3. QED
        BY <4>1, <4>2 DEF b, m
    <3>2. s[before + 1] = releases[p].at
      BY <1>1, <2>5
    <3>3. ~(now - s[before + 1] >= OneMinute)
      BY <1>4, <2>5
    <3> HIDE DEF p
    <3>4. releases[p + MinuteCeiling].at - releases[p].at >= OneMinute
      BY <1>3, <3>1 DEF SpreadOver
    <3>5. releases[p + MinuteCeiling].at <= now /\ releases[p + MinuteCeiling].at \in Nat
      BY <3>1, ReleaseTypes DEF ReleaseInv, InOrder
    <3>6. QED
      BY SMTT(30), <1>3, <1>6, <2>6, <3>2, <3>3, <3>4, <3>5
  <2>12. QED
    BY <1>4, <2>2, <2>5, <2>10, <2>11
<1>10. QED
  BY <1>3, <1>6, <1>7, <1>8, <1>9

\* Waiting for the hour's ceiling makes room in the hour's window, if no release of the
\* account is as late as now.
LEMMA HourRoom ==
  ASSUME BaseInv, ReleaseInv, SpreadOver(CeilingPerHour, OneHour), NEW quiet \in BOOLEAN,
         \A i \in 1..Len(releases) : releases[i].at < now,
         NEW wake \in Nat, wake >= now + ceilingWait(pruneSent(sentTimes, now), now, quiet)
  PROVE  RoomAt(CeilingPerHour, OneHour, wake)
<1> DEFINE s == pruneSent(sentTimes, now)
           n == Len(releases)
           from == n + 1 - CeilingPerHour
           perMinute == IF quiet THEN QuietCeilingPerMinute ELSE CeilingPerMinute
           before == Older(s, now, OneMinute)
           minuteWait == IF Len(s) - before >= perMinute THEN OneMinute - (now - s[before + 1]) ELSE 0
           hourWait == IF Len(s) >= CeilingPerHour THEN OneHour - (now - s[1]) ELSE 0
<1>1. PICK dropped \in Nat :
        /\ s \in Seq(Nat) /\ Sorted(s) /\ Len(s) + dropped = n
        /\ \A i \in 1..Len(s) : s[i] = releases[i + dropped].at /\ now - s[i] <= OneHour
        /\ \A i \in 1..dropped : now - releases[i].at > OneHour
  BY PrunedWindow
<1>2. ceilingWait(s, now, quiet) = Larger(minuteWait, Larger(hourWait, 0))
  BY DEF ceilingWait
<1>3. ceilingWait(s, now, quiet) \in Nat /\ now \in Nat /\ n \in Nat /\ Len(s) \in Nat
  BY SMTT(30), <1>1, ReleaseTypes, CeilingWaitIsNat
<1>4. CeilingPerHour \in Nat /\ CeilingPerHour >= 1 /\ OneHour \in Nat
  BY CountsArePositive DEF CountsPositive
<1>5. minuteWait \in Int
  <2>1. OneMinute \in Nat /\ perMinute \in Nat /\ perMinute >= 1
    BY CountsArePositive DEF CountsPositive
  <2>2. before \in 0..Len(s)
    BY <1>1, <1>3, <2>1, OlderIsPrefix
  <2> HIDE DEF s, before, perMinute
  <2>3. CASE Len(s) - before >= perMinute
    <3>1. before + 1 \in 1..Len(s)
      BY <1>3, <2>1, <2>2, <2>3
    <3>2. s[before + 1] \in Nat
      BY <1>1, <3>1
    <3>3. QED
      BY <1>3, <2>1, <3>2
  <2>4. QED
    BY <2>3
<1> HIDE DEF s, minuteWait
<1> SUFFICES ASSUME n >= CeilingPerHour
             PROVE  wake - releases[from].at >= OneHour
  BY DEF RoomAt
<1>6. from \in 1..n /\ releases[from].at \in Nat
  BY <1>3, <1>4, ReleaseTypes
<1>7. CASE now - releases[from].at >= OneHour
  BY <1>3, <1>4, <1>6, <1>7 DEF s
<1>8. CASE now - releases[from].at < OneHour
  <2>1. ~(from \in 1..dropped)
    <3>1. ~(now - releases[from].at > OneHour)
      BY <1>3, <1>4, <1>6, <1>8
    <3>2. QED
      BY <1>1, <3>1
  <2>2. Len(s) >= CeilingPerHour /\ 1 \in 1..Len(s)
    <3> DEFINE len == Len(s)
               h == CeilingPerHour
    <3>1. /\ len \in Nat /\ len + dropped = n /\ from = n + 1 - h /\ n \in Nat /\ h \in Nat /\ h >= 1
          /\ ~(from \in 1..dropped) /\ from \in 1..n
      BY <1>1, <1>3, <1>4, <1>6, <2>1
    <3> HIDE DEF n, from, len, h
    <3>2. from > dropped
      BY <3>1
    <3>3. len >= h /\ len >= 1
      BY <3>1, <3>2
    <3>4. QED
      BY <3>1, <3>3 DEF len, h
  <2>3. s[1] = releases[1 + dropped].at /\ s[1] \in Nat /\ now - s[1] <= OneHour
    BY <1>1, <2>2
  <2>4. hourWait = OneHour - (now - s[1])
    BY <2>2
  <2>5. ceilingWait(s, now, quiet) >= hourWait
    <3>1. hourWait \in Int
      BY <1>3, <1>4, <2>3, <2>4
    <3> HIDE DEF hourWait
    <3>2. QED
      BY <1>2, <1>5, <3>1 DEF Larger
  <2>6. CASE from = 1 + dropped
    BY SMTT(30), <1>3, <1>4, <1>6, <2>3, <2>4, <2>5, <2>6 DEF s
  <2>7. CASE from # 1 + dropped
    <3> DEFINE p == 1 + dropped
    <3>1. p \in 1..n /\ p + CeilingPerHour \in 1..n
      <4>1. Len(s) + dropped = n /\ from = n + 1 - CeilingPerHour
        BY <1>1
      <4> HIDE DEF n, from
      <4>2. QED
        BY <1>3, <1>4, <1>6, <2>1, <2>7, <4>1
    <3>11. releases[p].at = s[1]
      BY <2>3
    <3> HIDE DEF p
    <3>2. releases[p + CeilingPerHour].at - releases[p].at >= OneHour
      BY <1>3, <3>1 DEF SpreadOver
    <3>3. releases[p + CeilingPerHour].at < now /\ releases[p + CeilingPerHour].at \in Nat
      BY <3>1, ReleaseTypes
    <3>4. QED
      <4> DEFINE last == releases[p + CeilingPerHour].at
      <4>1. last - s[1] >= OneHour /\ last < now /\ last \in Nat
        BY <3>11, <3>2, <3>3
      <4> HIDE DEF last
      <4>2. FALSE
        BY <1>3, <1>4, <2>3, <4>1
      <4>3. QED
        BY <4>2
  <2>8. QED
    BY <2>6, <2>7
<1>9. QED
  BY <1>3, <1>4, <1>6, <1>7, <1>8

\* A release for which there is room keeps the ceiling.
LEMMA SpreadStep ==
  ASSUME BaseInv, NEW ceiling \in Nat \ {0}, NEW window \in Nat, SpreadOver(ceiling, window),
         RoomAt(ceiling, window, now), NEW r, r.at = now, releases' = Append(releases, r)
  PROVE  SpreadOver(ceiling, window)'
<1> DEFINE n == Len(releases)
<1>1. /\ n \in Nat /\ Len(releases') = n + 1 /\ releases'[n + 1] = r
      /\ \A i \in 1..n : releases'[i] = releases[i]
  BY DEF BaseInv, TypeOK
<1> SUFFICES ASSUME NEW i \in 1..Len(releases'), i + ceiling <= Len(releases')
             PROVE  releases'[i + ceiling].at - releases'[i].at >= window
  BY DEF SpreadOver
<1> HIDE DEF n
<1>2. CASE i + ceiling = n + 1
  <2>1. i = n + 1 - ceiling /\ i \in 1..n /\ n >= ceiling
    BY <1>1, <1>2
  <2>2. now - releases[i].at >= window
    BY <2>1 DEF RoomAt, n
  <2>3. QED
    BY <1>1, <1>2, <2>1, <2>2
<1>3. CASE i + ceiling # n + 1
  <2>1. i \in 1..n /\ i + ceiling \in 1..n
    BY <1>1, <1>3
  <2>2. releases[i + ceiling].at - releases[i].at >= window
    BY <1>1, <2>1 DEF SpreadOver, n
  <2>3. QED
    BY <1>1, <2>1, <2>2
<1>4. QED
  BY <1>2, <1>3

\* Room now is room later.
LEMMA RoomLater ==
  ASSUME BaseInv, NEW ceiling \in Nat \ {0}, NEW window \in Nat, NEW t \in Nat, NEW u \in Nat,
         t <= u, RoomAt(ceiling, window, t)
  PROVE  RoomAt(ceiling, window, u)
<1> SUFFICES ASSUME Len(releases) >= ceiling
             PROVE  u - releases[Len(releases) + 1 - ceiling].at >= window
  BY DEF RoomAt
<1>1. Len(releases) + 1 - ceiling \in 1..Len(releases)
  BY ReleaseTypes
<1>2. releases[Len(releases) + 1 - ceiling].at \in Nat
  BY <1>1, ReleaseTypes
<1>3. t - releases[Len(releases) + 1 - ceiling].at >= window
  BY DEF RoomAt
<1>4. QED
  BY <1>2, <1>3

\* A runner that goes to sleep alone has room when it wakes.
LEMMA BeginRoom ==
  ASSUME BaseInv, ReleaseInv, CeilingsHold, NEW c \in Conversations, NEW q \in Seq(Nat), q # <<>>,
         NEW last, BeginNext(c, q, last), releases' = releases,
         \A i \in 1..Len(releases) : releases[i].at < now
  PROVE  /\ RoomAt(MinuteCeiling, OneMinute, wakeAt'[c])
         /\ RoomAt(CeilingPerHour, OneHour, wakeAt'[c])
<1>1. PICK wake \in Nat : /\ wakeAt' = [wakeAt EXCEPT ![c] = wake]
                         /\ wake >= now + ceilingWait(sentTimes', now, inQuietHours(now))
  BY BeginFacts
<1>2. sentTimes' = pruneSent(sentTimes, now)
  BY BeginFacts
<1>3. wakeAt'[c] = wake
  BY <1>1 DEF BaseInv, TypeOK
<1>4. inQuietHours(now) \in BOOLEAN
  BY DEF inQuietHours
<1>5. SpreadOver(MinuteCeiling, OneMinute) /\ SpreadOver(CeilingPerHour, OneHour)
  BY DEF CeilingsHold, MinuteCeiling
<1>6. RoomAt(MinuteCeiling, OneMinute, wake)
  BY <1>1, <1>2, <1>4, <1>5, MinuteRoom
<1>7. RoomAt(CeilingPerHour, OneHour, wake)
  BY <1>1, <1>2, <1>4, <1>5, HourRoom
<1>8. QED
  BY <1>3, <1>6, <1>7

\* An account that has talked in c at most has released and sleeps there only.
LEMMA SoloFacts ==
  ASSUME BaseInv, ReleaseInv, NEW c \in Conversations,
         \A d \in Conversations : accepted[d] > 0 => d = c
  PROVE  /\ \A i \in 1..Len(releases) : releases[i].conv = c
         /\ \A d \in Conversations : pc[d] # "none" => d = c
  BY ReleaseTypes DEF ReleaseInv, Spaced, RunnerKnown

\* The invariant of the only conversation holds initially.
LEMMA InitSolo == Init => SoloInv
  BY CountsArePositive DEF Init, SoloInv, CeilingsHold, SpreadOver, CountsPositive, MinuteCeiling

\* Every step keeps the invariant of the only conversation.
LEMMA SoloStep == BaseInv /\ ReleaseInv /\ SoloInv /\ [Next]_vars => SoloInv'
<1> SUFFICES ASSUME BaseInv, ReleaseInv, SoloInv, [Next]_vars, Solo', ~instant'
             PROVE  (/\ CeilingsHold
                     /\ \A c \in Conversations : pc[c] = "sleeping" =>
                           /\ RoomAt(MinuteCeiling, OneMinute, wakeAt[c])
                           /\ RoomAt(CeilingPerHour, OneHour, wakeAt[c]))'
  BY DEF SoloInv
<1> DEFINE Good == /\ CeilingsHold
                   /\ \A c \in Conversations : pc[c] = "sleeping" =>
                         /\ RoomAt(MinuteCeiling, OneMinute, wakeAt[c])
                         /\ RoomAt(CeilingPerHour, OneHour, wakeAt[c])
<1> USE DEF runnerVars, historyVars
<1>a. ASSUME \A c \in Conversations : accepted[c] > 0 => accepted'[c] > 0, instant => instant'
      PROVE  Good
  BY <1>a DEF SoloInv, Solo
<1>b. ASSUME Good, releases' = releases, NEW c \in Conversations,
             \A d \in Conversations \ {c} : pc'[d] = pc[d] /\ wakeAt'[d] = wakeAt[d],
             pc'[c] = "sleeping" => /\ RoomAt(MinuteCeiling, OneMinute, wakeAt'[c])
                                    /\ RoomAt(CeilingPerHour, OneHour, wakeAt'[c])
      PROVE  Good'
  BY <1>b DEF CeilingsHold, SpreadOver, RoomAt
<1>c. ASSUME Good, UNCHANGED <<releases, pc, wakeAt>>
      PROVE  Good'
  BY <1>c DEF CeilingsHold, SpreadOver, RoomAt
<1>1. ASSUME NEW c \in Conversations, SendAccepted(c), pc[c] = "none"
      PROVE  Good'
  <2> DEFINE q == Append(queue[c], accepted[c] + 1)
             last == IF c \in known THEN lastReleaseAt[c] ELSE Never
  <2>1. q \in Seq(Nat) /\ q # <<>>
    BY AcceptedQueue
  <2>2. /\ BeginNext(c, q, last) /\ accepted' = [accepted EXCEPT ![c] = @ + 1]
        /\ UNCHANGED <<now, stopped, historyVars>>
    BY <1>1 DEF SendAccepted
  <2> HIDE DEF q, last, Good
  <2>3. \A d \in Conversations : accepted'[d] = IF d = c THEN accepted[d] + 1 ELSE accepted[d]
    BY <2>2 DEF BaseInv, TypeOK
  <2>4. \A d \in Conversations : accepted[d] \in Nat
    BY DEF BaseInv, TypeOK
  <2>5. \A d \in Conversations : accepted[d] > 0 => accepted'[d] > 0 /\ d = c
    BY <2>3, <2>4 DEF Solo
  <2>6. Good
    BY <1>a, <2>2, <2>5
  <2>7. \A i \in 1..Len(releases) : releases[i].conv = c
    BY <2>5, SoloFacts
  <2>8. \A i \in 1..Len(releases) : releases[i].at < now
    BY <1>1, <2>2, <2>7 DEF ReleaseInv, Spaced
  <2>9. CeilingsHold
    BY <2>6 DEF Good
  <2>10. /\ RoomAt(MinuteCeiling, OneMinute, wakeAt'[c])
         /\ RoomAt(CeilingPerHour, OneHour, wakeAt'[c])
    BY <2>1, <2>2, <2>8, <2>9, BeginRoom
  <2>11. \A d \in Conversations \ {c} : pc'[d] = pc[d] /\ wakeAt'[d] = wakeAt[d]
    <3>1. PICK wake \in Nat : wakeAt' = [wakeAt EXCEPT ![c] = wake]
      BY <2>1, <2>2, BeginFacts
    <3>2. pc' = [pc EXCEPT ![c] = "sleeping"]
      BY <2>1, <2>2, BeginFacts
    <3>3. QED
      BY <3>1, <3>2 DEF BaseInv, TypeOK
  <2>12. QED
    BY <1>b, <2>2, <2>6, <2>10, <2>11
<1>2. ASSUME NEW c \in Conversations, SendAccepted(c), pc[c] # "none"
      PROVE  Good'
  <2>1. accepted' = [accepted EXCEPT ![c] = @ + 1] /\ UNCHANGED <<runnerVars, historyVars>>
    BY <1>2 DEF SendAccepted
  <2>2. \A d \in Conversations : accepted[d] > 0 => accepted'[d] > 0
    BY <2>1 DEF BaseInv, TypeOK
  <2> HIDE DEF Good
  <2>3. QED
    BY <1>a, <1>c, <2>1, <2>2
<1>3. ASSUME UNCHANGED <<releases, accepted, instant, pc, wakeAt>>
      PROVE  Good'
  <2> HIDE DEF Good
  <2>1. QED
    BY <1>3, <1>a, <1>c
<1>4. ASSUME NEW c \in Conversations, WakeReleases(c)
      PROVE  Good'
  <2> HIDE DEF Good
  <2>1. /\ releases' = Append(releases, [conv |-> c, at |-> now]) /\ pc[c] = "sleeping"
        /\ pc' = [pc EXCEPT ![c] = "sending"] /\ now >= wakeAt[c]
        /\ UNCHANGED <<accepted, instant, wakeAt>>
    BY <1>4 DEF WakeReleases, ReleaseInHand
  <2>2. Good
    BY <1>a, <2>1
  <2>3. /\ CeilingsHold
        /\ RoomAt(MinuteCeiling, OneMinute, wakeAt[c]) /\ RoomAt(CeilingPerHour, OneHour, wakeAt[c])
    BY <2>1, <2>2 DEF Good
  <2>4. /\ now \in Nat /\ wakeAt[c] \in Nat /\ wakeAt[c] <= now
        /\ MinuteCeiling \in Nat \ {0} /\ CeilingPerHour \in Nat \ {0}
        /\ OneMinute \in Nat /\ OneHour \in Nat
    BY <2>1, CountsArePositive DEF CountsPositive, BaseInv, TypeOK
  <2>5. RoomAt(MinuteCeiling, OneMinute, now) /\ RoomAt(CeilingPerHour, OneHour, now)
    BY <2>3, <2>4, RoomLater
  <2>6. SpreadOver(MinuteCeiling, OneMinute) /\ SpreadOver(CeilingPerHour, OneHour)
    BY <2>3 DEF CeilingsHold, MinuteCeiling
  <2>7. SpreadOver(MinuteCeiling, OneMinute)' /\ SpreadOver(CeilingPerHour, OneHour)'
    <3> DEFINE r == [conv |-> c, at |-> now]
    <3>1. r.at = now /\ releases' = Append(releases, r)
      BY <2>1
    <3> HIDE DEF r
    <3>2. QED
      BY <2>4, <2>5, <2>6, <3>1, SpreadStep
  <2>8. CeilingsHold'
    BY <2>7 DEF CeilingsHold, MinuteCeiling
  <2>9. \A d \in Conversations : pc'[d] # "sleeping"
    <3>1. accepted[c] > 0
      BY <2>1 DEF ReleaseInv, RunnerKnown
    <3>2. \A d \in Conversations : accepted[d] > 0 => d = c
      BY <2>1, <3>1 DEF Solo
    <3>3. \A d \in Conversations : pc[d] # "none" => d = c
      BY <3>2, SoloFacts
    <3>4. QED
      BY <2>1, <3>3 DEF BaseInv, TypeOK
  <2>10. QED
    BY <2>8, <2>9 DEF Good
<1>5. ASSUME NEW c \in Conversations, Finish(c), UNCHANGED <<releases, accepted>>, instant => instant'
      PROVE  Good'
  <2> HIDE DEF Good
  <2>1. pc' = [pc EXCEPT ![c] = "none"] /\ wakeAt' = wakeAt
    BY <1>5 DEF Finish
  <2>2. pc'[c] = "none" /\ \A d \in Conversations \ {c} : pc'[d] = pc[d] /\ wakeAt'[d] = wakeAt[d]
    BY <2>1 DEF BaseInv, TypeOK
  <2>3. QED
    BY <1>5, <1>a, <1>b, <2>2
<1>6. ASSUME NEW c \in Conversations, WakeStopped(c)
      PROVE  Good'
  <2> HIDE DEF Good
  <2>1. QED
    BY <1>5, <1>6 DEF WakeStopped
<1>7. ASSUME NEW c \in Conversations, SendSettles(c)
      PROVE  Good'
  <2> HIDE DEF Good
  <2>1. /\ instant' = (instant \/ lastReleaseAt[c] = now) /\ pc[c] = "sending"
        /\ UNCHANGED <<now, lastReleaseAt, accepted, releases>>
    BY <1>7 DEF SendSettles
  <2>2. CASE queue[c] # <<>> /\ ~stopped
    <3>1. BeginNext(c, queue[c], lastReleaseAt[c]) /\ queue[c] \in Seq(Nat)
      BY <1>7, <2>2 DEF SendSettles, BaseInv, TypeOK
    <3>2. Good
      BY <1>a, <2>1
    <3>3. \A d \in Conversations : accepted[d] > 0 => d = c
      <4>1. accepted[c] > 0
        BY <2>1 DEF ReleaseInv, RunnerKnown
      <4>2. QED
        BY <2>1, <4>1 DEF Solo
    <3>4. ASSUME NEW i \in 1..Len(releases)
          PROVE  releases[i].at < now
      <4>1. releases[i].conv = c
        BY <3>3, SoloFacts
      <4>2. lastReleaseAt[c] # now /\ lastReleaseAt[c] <= now /\ releases[i].at <= lastReleaseAt[c]
        BY <2>1, <4>1 DEF ReleaseInv, Spaced, BaseInv, ClockInv
      <4>3. releases[i].at \in Nat /\ now \in Nat
        BY ReleaseTypes
      <4>4. lastReleaseAt[c] \in Int
        BY DEF BaseInv, TypeOK, Never
      <4>5. QED
        BY <4>2, <4>3, <4>4
    <3>5. CeilingsHold
      BY <3>2 DEF Good
    <3>6. /\ RoomAt(MinuteCeiling, OneMinute, wakeAt'[c])
          /\ RoomAt(CeilingPerHour, OneHour, wakeAt'[c])
      BY <2>1, <2>2, <3>1, <3>4, <3>5, BeginRoom
    <3>7. \A d \in Conversations \ {c} : pc'[d] = pc[d] /\ wakeAt'[d] = wakeAt[d]
      <4>1. PICK wake \in Nat : wakeAt' = [wakeAt EXCEPT ![c] = wake]
        BY <2>2, <3>1, BeginFacts
      <4>2. pc' = [pc EXCEPT ![c] = "sleeping"]
        BY <2>2, <3>1, BeginFacts
      <4>3. QED
        BY <4>1, <4>2 DEF BaseInv, TypeOK
    <3>8. QED
      BY <1>b, <2>1, <3>2, <3>6, <3>7
  <2>3. CASE ~(queue[c] # <<>> /\ ~stopped)
    BY <1>5, <1>7, <2>1, <2>3 DEF SendSettles
  <2>4. QED
    BY <2>2, <2>3
<1> HIDE DEF Good
<1>8. Good'
  BY <1>1, <1>2, <1>3, <1>4, <1>6, <1>7 DEF Next, Runner, SendRefused, Stop, Tick, vars
<1>9. QED
  BY <1>8 DEF Good

-----------------------------------------------------------------------------
(* The invariant, and what follows from it.                                *)

\* The whole invariant holds in every reachable state.
LEMMA InvAlways == Spec => [](BaseInv /\ ReleaseInv /\ SoloInv)
  BY InitBase, InitRelease, InitSolo, BaseStep, ReleaseInvStep, SoloStep, PTL DEF Spec

\* Type correctness.
THEOREM TypeCorrect == Spec => []TypeOK
<1>1. BaseInv => TypeOK
  BY DEF BaseInv
<1>2. QED
  BY <1>1, InvAlways, PTL

\* "No computed delay ever goes below this" (outbound-pacer.ts:76): two sends in one
\* conversation are at least hardFloorMs apart, although a drained conversation is
\* forgotten (outbound-pacer.ts:316) and any number of others send in between.
THEOREM FloorAlways == Spec => []FloorBetweenReleases
<1>1. ReleaseInv => FloorBetweenReleases
  BY DEF ReleaseInv, Floored, FloorBetweenReleases, Consecutive
<1>2. QED
  BY <1>1, InvAlways, PTL

\* The sliding-window ceilings (outbound-pacer.ts:245-265) hold for an account with one
\* conversation whose sends take time, in quiet hours and out of them.
THEOREM SoloCeilingsAlways == Spec => []SoloCeilingsHold
<1>1. SoloInv => SoloCeilingsHold
  BY DEF SoloInv, SoloCeilingsHold
<1>2. QED
  BY <1>1, InvAlways, PTL

=============================================================================
