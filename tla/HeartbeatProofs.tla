--------------------------- MODULE HeartbeatProofs ---------------------------
(***************************************************************************)
(* The safety of the heartbeat loop, for all values of the constants that  *)
(* meet HeartAssumption and ConductorAssumption: its type, the range of    *)
(* the learned interval, what Redis holds, the bound on the beats of an    *)
(* hour, and that stop() silences it.                                      *)
(***************************************************************************)
EXTENDS HeartbeatConductor, TLAPS

\* The arithmetic of the constants that the range of the interval rests on.
LEMMA CeilingFacts ==
  /\ MinHeart \in Nat /\ MinHeart > 0 /\ Ceiling \in Nat /\ MaxHeart \in Nat
  /\ HeartStep \in Nat /\ SuccessStep \in Nat /\ SuccessStep > 0
  /\ MinHeart <= Ceiling - SuccessStep /\ Ceiling < MaxHeart
  BY HeartAssumption DEF HeartAssumption, Ceiling

\* A saturating counter stays within its limit.
LEMMA CountUpToBound ==
  ASSUME NEW limit \in Nat, NEW n \in 0..limit
  PROVE  CountUpTo(n, limit) \in 0..limit
  BY DEF CountUpTo

\* The caps of an hour: never less than two, and one more for every start.
LEMMA CapsFacts ==
  ASSUME NEW n \in Nat
  PROVE  /\ CapsOf(n) \in Nat /\ CapsOf(n) >= 2 * MaxPerHour
         /\ CapsOf(n + 1) = CapsOf(n) + MaxPerHour
<1>1. MaxPerHour \in Nat
  BY ConductorAssumption DEF ConductorAssumption
<1>2. n * MaxPerHour \in Nat
  BY <1>1
<1>3. CapsOf(n) = 2 * MaxPerHour + n * MaxPerHour
  BY <1>1 DEF CapsOf
<1>4. CapsOf(n + 1) = 3 * MaxPerHour + n * MaxPerHour
  BY <1>1 DEF CapsOf
<1>5. QED
  BY <1>1, <1>2, <1>3, <1>4

-----------------------------------------------------------------------------
(* The pure functions keep the types and the range.                        *)

\* Every interval getNextHeartbeatInterval proposes is in range.
LEMMA NextInRange ==
  ASSUME NEW s \in SmartState, NEW n \in NetInfo, RoomToProbe(n)
  PROVE  /\ getNextHeartbeatInterval(s, n) \in Nat
         /\ MinHeart <= getNextHeartbeatInterval(s, n)
         /\ getNextHeartbeatInterval(s, n) <= Ceiling
  BY CeilingFacts
  DEF getNextHeartbeatInterval, outOfRange, RoomToProbe, InRange, NetInfo

\* A learned interval in range is not reset when the next one is asked for.
LEMMA NextKeepsNet ==
  ASSUME NEW s \in SmartState, NEW n \in NetInfo, RoomToProbe(n)
  PROVE  netAfterNext(s, n) = n
<1>1. ~outOfRange(n.curHeart)
  BY CeilingFacts DEF outOfRange, RoomToProbe, InRange, NetInfo
<1>2. QED
  BY <1>1 DEF netAfterNext

\* A result changes lastHeart in no case.
LEMMA ResultKeepsSmart ==
  ASSUME NEW s \in SmartState, NEW ok \in BOOLEAN
  PROVE  /\ shAfterResult(s, ok) \in SmartState
         /\ shAfterResult(s, ok).lastHeart = s.lastHeart
<1>1. CountUpTo(s.successHeartCount, StableTestCount + 1) \in 0..StableTestCount + 1
  BY HeartAssumption, CountUpToBound DEF HeartAssumption, SmartState
<1>2. QED
  BY <1>1 DEF shAfterResult, SmartState

\* tally changes the counters only.
LEMMA TallyKeepsInterval ==
  ASSUME NEW s \in SmartState, NEW n \in NetInfo, NEW ok \in BOOLEAN, NEW late \in BOOLEAN
  PROVE  /\ tally(s, n, ok, late) \in NetInfo
         /\ tally(s, n, ok, late).curHeart = n.curHeart
         /\ tally(s, n, ok, late).isStable = n.isStable
<1>1. /\ CountUpTo(n.succHeartCount, BaseSuccCount) \in 0..BaseSuccCount
      /\ CountUpTo(n.failHeartCount, MaxFailCount) \in 0..MaxFailCount
      /\ 0 \in 0..BaseSuccCount /\ 0 \in 0..MaxFailCount
  BY HeartAssumption, CountUpToBound DEF HeartAssumption, NetInfo
<1>2. QED
  BY <1>1 DEF tally, NetInfo

\* Zero is a value of either counter.
LEMMA ZeroCounts == 0 \in 0..MaxFailCount /\ 0 \in 0..BaseSuccCount
  BY HeartAssumption DEF HeartAssumption

\* A stable interval below the ceiling has room for the step of the re-probe.
LEMMA ReprobeInRange ==
  ASSUME NEW n \in NetInfo, RoomToProbe(n), n.isStable
  PROVE  reprobe(n) \in NetInfo /\ RoomToProbe(reprobe(n))
<1>1. CASE n.curHeart < Ceiling /\ NowSec - n.lastModifyTime >= OneWeek
  <2> DEFINE up == n.curHeart + SuccessStep
             r == [n EXCEPT !.curHeart = up, !.succHeartCount = 0,
                            !.isStable = FALSE, !.failHeartCount = 0]
  <2>1. reprobe(n) = r
    BY <1>1 DEF reprobe
  <2>2. n.curHeart \in Nat /\ n.curHeart >= MinHeart /\ n.curHeart <= Ceiling - SuccessStep
    BY <1>1, CeilingFacts DEF RoomToProbe, InRange, NetInfo
  <2>3. r.curHeart = n.curHeart + SuccessStep /\ r.isStable = FALSE
    BY DEF NetInfo
  <2>4. r \in NetInfo
    <3>1. up \in Nat
      BY <2>2, CeilingFacts
    <3> HIDE DEF up
    <3>2. QED
      BY <3>1, ZeroCounts DEF NetInfo
  <2>5. RoomToProbe(r)
    BY <2>2, <2>3, CeilingFacts DEF RoomToProbe, InRange
  <2>6. QED
    BY <2>1, <2>4, <2>5
<1>2. CASE ~(n.curHeart < Ceiling /\ NowSec - n.lastModifyTime >= OneWeek)
  BY <1>2 DEF reprobe
<1>3. QED
  BY <1>1, <1>2

\* A step of the probe stops at the ceiling.
LEMMA ClimbInRange ==
  ASSUME NEW n \in NetInfo, RoomToProbe(n), ~n.isStable
  PROVE  climb(n) \in NetInfo /\ RoomToProbe(climb(n))
<1> DEFINE next == IF n.curHeart + HeartStep < Ceiling THEN n.curHeart + HeartStep ELSE Ceiling
           top == [n EXCEPT !.curHeart = Ceiling, !.succHeartCount = 0, !.isStable = TRUE]
           step == [n EXCEPT !.curHeart = next, !.succHeartCount = 0]
<1>1. n.curHeart \in Nat /\ MinHeart <= n.curHeart
  BY DEF RoomToProbe, InRange, NetInfo
<1>2. next \in Nat /\ MinHeart <= next /\ next <= Ceiling
  BY <1>1, CeilingFacts
<1>3. top.curHeart = Ceiling /\ step.curHeart = next /\ step.isStable = n.isStable
  BY DEF NetInfo
<1>4. top \in NetInfo /\ step \in NetInfo
  <2> HIDE DEF next
  <2>1. QED
    BY <1>2, CeilingFacts, ZeroCounts DEF NetInfo
<1>5. RoomToProbe(top) /\ RoomToProbe(step)
  BY <1>2, <1>3, CeilingFacts DEF RoomToProbe, InRange
<1>6. climb(n) \in {n, top, step}
  BY DEF climb
<1>7. QED
  BY <1>4, <1>5, <1>6

\* The step back stops at the minimum, and leaves room for the re-probe.
LEMMA RetreatInRange ==
  ASSUME NEW s \in SmartState, NEW n \in NetInfo, RoomToProbe(n)
  PROVE  retreat(s, n) \in NetInfo /\ RoomToProbe(retreat(s, n))
<1> DEFINE lower == IF n.curHeart - HeartStep - SuccessStep > MinHeart
                      THEN n.curHeart - HeartStep - SuccessStep ELSE MinHeart
           over == [n EXCEPT !.curHeart = MinHeart, !.succHeartCount = 0,
                             !.isStable = FALSE, !.failHeartCount = 0]
           back == [n EXCEPT !.curHeart = lower, !.succHeartCount = 0,
                             !.failHeartCount = 0, !.isStable = TRUE]
<1>1. n.curHeart \in Nat /\ n.curHeart <= Ceiling
  BY DEF RoomToProbe, InRange, NetInfo
<1>2. lower \in Nat /\ MinHeart <= lower /\ lower <= Ceiling - SuccessStep
  BY <1>1, CeilingFacts
<1>3. over.curHeart = MinHeart /\ back.curHeart = lower /\ over.isStable = FALSE
  BY DEF NetInfo
<1>4. over \in NetInfo /\ back \in NetInfo
  <2> HIDE DEF lower
  <2>1. QED
    BY <1>2, CeilingFacts, ZeroCounts DEF NetInfo
<1>5. RoomToProbe(over) /\ RoomToProbe(back)
  BY <1>2, <1>3, CeilingFacts DEF RoomToProbe, InRange
<1>6. retreat(s, n) \in {n, over, back}
  BY DEF retreat
<1>7. QED
  BY <1>4, <1>5, <1>6

\* What is learned from any result stays in range.
LEMMA ResultInRange ==
  ASSUME NEW s \in SmartState, NEW n \in NetInfo, RoomToProbe(n),
         NEW ok \in BOOLEAN, NEW late \in BOOLEAN
  PROVE  netAfterResult(s, n, ok, late) \in NetInfo /\ RoomToProbe(netAfterResult(s, n, ok, late))
<1> DEFINE told == tally(s, n, ok, late)
<1>1. told \in NetInfo /\ told.curHeart = n.curHeart /\ told.isStable = n.isStable
  BY TallyKeepsInterval
<1>2. RoomToProbe(told)
  BY <1>1 DEF RoomToProbe, InRange
<1>3. CASE ~counts(s, n, ok)
  BY <1>3 DEF netAfterResult
<1>4. CASE counts(s, n, ok) /\ ok /\ n.isStable
  <2>1. netAfterResult(s, n, ok, late) = reprobe(told)
    BY <1>4 DEF netAfterResult
  <2>2. QED
    BY <2>1, <1>1, <1>2, <1>4, ReprobeInRange
<1>5. CASE counts(s, n, ok) /\ ok /\ ~n.isStable
  <2>1. netAfterResult(s, n, ok, late) = climb(told)
    BY <1>5 DEF netAfterResult
  <2>2. QED
    BY <2>1, <1>1, <1>2, <1>5, ClimbInRange
<1>6. CASE counts(s, n, ok) /\ ~ok
  <2>1. netAfterResult(s, n, ok, late) = retreat(s, told)
    BY <1>6 DEF netAfterResult
  <2>2. QED
    BY <2>1, <1>1, <1>2, RetreatInRange
<1>7. QED
  BY <1>3, <1>4, <1>5, <1>6

-----------------------------------------------------------------------------
(* The pieces the actions are made of.                                     *)

\* A sleep lasts a whole number of units.
LEMMA SleepIsNat ==
  ASSUME NEW i \in Nat, NEW j \in JitterPcts
  PROVE  computeSleep(i, j) \in Nat
<1>1. HardFloor \in Nat /\ j \in Int
  BY ConductorAssumption DEF ConductorAssumption
<1>2. i * (100 + j) \in Int
  BY <1>1
<1>3. ((i * (100 + j)) + 50) \div 100 \in Int
  BY <1>2
<1>4. QED
  BY <1>1, <1>3 DEF computeSleep, Larger

\* The top of the loop, from well-typed values: the learned interval is kept, the
\* window goes on or rolls, and the loop sleeps on a beat only below the cap.
LEMMA IterateSafe ==
  ASSUME NEW age \in 0..OneHour, NEW beats \in 0..MaxPerHour,
         NEW s \in SmartState, NEW n \in NetInfo,
         RoomToProbe(n), MinHeart <= s.lastHeart, s.lastHeart <= Ceiling,
         Iterate(age, beats, s, n)
  PROVE  /\ pc' \in {"capped", "sleeping"}
         /\ sh' \in SmartState /\ MinHeart <= sh'.lastHeart /\ sh'.lastHeart <= Ceiling
         /\ net' = n /\ sleepFor' \in Nat
         /\ windowAge' \in 0..OneHour /\ beatsInWindow' \in 0..MaxPerHour
         /\ pc' = "sleeping" => beatsInWindow' < MaxPerHour
         /\ \/ windowAge' = age /\ beatsInWindow' = beats
            \/ age >= OneHour /\ windowAge' = 0 /\ beatsInWindow' = 0
<1> DEFINE start == IF age >= OneHour THEN 0 ELSE age
           count == IF age >= OneHour THEN 0 ELSE beats
<1>1. OneHour \in Nat /\ MaxPerHour \in Nat
  BY ConductorAssumption DEF ConductorAssumption
<1>2. start \in 0..OneHour /\ count \in 0..MaxPerHour
  BY <1>1
<1>3. windowAge' = start /\ beatsInWindow' = count
  BY DEF Iterate
<1>4. CASE count >= MaxPerHour /\ AwaitRoll(start, s, n)
  <2>1. pc' = "capped" /\ sleepFor' = OneHour - start /\ sh' = s /\ net' = n
    BY <1>4 DEF AwaitRoll
  <2>2. QED
    BY <2>1, <1>1, <1>2, <1>3
<1>5. CASE count < MaxPerHour /\ AwaitBeat(s, n)
  <2>1. pc' = "sleeping"
    BY <1>5 DEF AwaitBeat
  <2>2. PICK active \in ActiveReadings, jitter \in JitterPcts :
          LET asked == [s EXCEPT !.active = active]
              interval == getNextHeartbeatInterval(asked, n)
          IN /\ sh' = [asked EXCEPT !.lastHeart = interval]
             /\ net' = netAfterNext(asked, n)
             /\ sleepFor' = computeSleep(interval, jitter)
    BY <1>5 DEF AwaitBeat
  <2> DEFINE asked == [s EXCEPT !.active = active]
             interval == getNextHeartbeatInterval(asked, n)
  <2>3. active \in BOOLEAN
    BY ConductorAssumption DEF ConductorAssumption
  <2>4. asked \in SmartState
    BY <2>3 DEF SmartState
  <2>5. interval \in Nat /\ MinHeart <= interval /\ interval <= Ceiling
    BY <2>4, NextInRange
  <2>6. net' = n
    BY <2>2, <2>4, NextKeepsNet
  <2>7. sleepFor' \in Nat
    BY <2>2, <2>5, SleepIsNat
  <2>8. sh' \in SmartState /\ sh'.lastHeart = interval
    <3>1. sh' = [asked EXCEPT !.lastHeart = interval]
      BY <2>2
    <3> HIDE DEF asked, interval
    <3>2. QED
      BY <3>1, <2>4, <2>5 DEF SmartState
  <2>9. QED
    BY <2>1, <2>5, <2>6, <2>7, <2>8, <1>1, <1>2, <1>3, <1>5
<1>6. QED
  BY <1>4, <1>5 DEF Iterate

\* Ages stay within an hour, and the observed hour ends before it is one hour old.
LEMMA AgedBound ==
  ASSUME NEW age \in 0..OneHour, NEW d \in Nat
  PROVE  Aged(age, d) \in 0..OneHour
  BY ConductorAssumption DEF ConductorAssumption, Aged

\* A watched hour that is d older is younger than an hour, with the same beats, or over.
LEMMA WatchedBound ==
  ASSUME TypeOK, NEW d \in Nat
  PROVE  /\ Watched(d) \in [age : 0..OneHour, beats : Nat, starts : Nat]
         /\ Watched(d) # NotWatching =>
              /\ watch # NotWatching /\ Watched(d).beats = watch.beats
              /\ Watched(d).starts = watch.starts
              /\ Watched(d).age = watch.age + d /\ Watched(d).age < OneHour
<1>1. OneHour \in Nat /\ watch \in [age : 0..OneHour, beats : Nat, starts : Nat]
  BY ConductorAssumption DEF ConductorAssumption, TypeOK
<1>2. NotWatching \in [age : 0..OneHour, beats : Nat, starts : Nat]
  BY <1>1 DEF NotWatching
<1>3. CASE watch # NotWatching /\ watch.age + d < OneHour
  <2> DEFINE older == watch.age + d
  <2>1. older \in 0..OneHour
    BY <1>1, <1>3
  <2>2. Watched(d) = [watch EXCEPT !.age = older]
    BY <1>3 DEF Watched
  <2>3. older < OneHour
    BY <1>3
  <2> HIDE DEF older
  <2>4. /\ Watched(d).age = older /\ Watched(d).beats = watch.beats
        /\ Watched(d).starts = watch.starts
    BY <2>2, <1>1
  <2>5. QED
    BY <2>1, <2>2, <2>3, <2>4, <1>1, <1>3 DEF older
<1>4. CASE ~(watch # NotWatching /\ watch.age + d < OneHour)
  BY <1>2, <1>4 DEF Watched
<1>5. QED
  BY <1>3, <1>4

\* The age of a stable interval is a natural number.
LEMMA SettledIsNat ==
  ASSUME TypeOK, NEW d \in Nat
  PROVE  Settled(d) \in Nat
  BY HeartAssumption DEF HeartAssumption, Settled, TypeOK

-----------------------------------------------------------------------------
(* The inductive invariant.                                                *)

Inv == TypeOK /\ LoopInv

\* The invariant holds initially.
LEMMA InitInv == Init => Inv
<1> SUFFICES ASSUME Init PROVE Inv
  OBVIOUS
<1>1. freshHeartbeat \in SmartState /\ freshNetInfo \in NetInfo /\ NoEntry \in NetInfo
  BY CeilingFacts, HeartAssumption, ZeroCounts
  DEF HeartAssumption, freshHeartbeat, freshNetInfo, NoEntry, SmartState, NetInfo
<1>2. TypeOK
  <2>1. NotWatching \in [age : 0..OneHour, beats : Nat, starts : Nat] /\ 0 \in 0..OneHour /\ 0 \in 0..MaxPerHour
    BY ConductorAssumption DEF ConductorAssumption, NotWatching
  <2>2. QED
    BY <1>1, <2>1 DEF Init, TypeOK
<1>3. IntervalInv
  BY CeilingFacts
  DEF Init, IntervalInv, RoomToProbe, InRange, freshHeartbeat, freshNetInfo, NoEntry
<1>4. WindowInv
  <2>1. NotWatching.beats = 0 /\ NotWatching.starts = 0
    BY DEF NotWatching
  <2>2. MaxPerHour \in Nat /\ CapsOf(0) \in Nat
    BY ConductorAssumption, CapsFacts DEF ConductorAssumption
  <2>3. QED
    BY <2>1, <2>2 DEF Init, WindowInv, HourWithinCaps
<1>5. StoreHoldsLearned
  BY DEF Init, StoreHoldsLearned
<1>6. QED
  BY <1>2, <1>3, <1>4, <1>5 DEF Inv, LoopInv

\* The fresh values, and what a load finds, are well typed and in range.
LEMMA FreshFacts ==
  /\ freshHeartbeat \in SmartState /\ freshNetInfo \in NetInfo
  /\ RoomToProbe(freshNetInfo) /\ freshNetInfo # NoEntry
  /\ MinHeart <= freshHeartbeat.lastHeart /\ freshHeartbeat.lastHeart <= Ceiling
<1>1. freshHeartbeat \in SmartState /\ freshNetInfo \in NetInfo
  BY CeilingFacts, HeartAssumption, ZeroCounts
  DEF HeartAssumption, freshHeartbeat, freshNetInfo, SmartState, NetInfo
<1>2. freshNetInfo.curHeart # NoEntry.curHeart
  BY CeilingFacts DEF freshNetInfo, NoEntry
<1>3. QED
  BY <1>1, <1>2, CeilingFacts DEF RoomToProbe, InRange, freshHeartbeat, freshNetInfo

\* The conjuncts of WindowInv that hold when the loop continues from a window of the
\* given age and beats, whether it rolls the window or not.
LEMMA WindowContinues ==
  ASSUME NEW age \in 0..OneHour, NEW beats \in 0..MaxPerHour,
         NEW w \in [age : 0..OneHour, beats : Nat, starts : Nat],
         w # NotWatching => w.age < OneHour,
         w # NotWatching =>
           \/ w.beats <= beats
           \/ w.beats + MaxPerHour <= CapsOf(w.starts) + beats /\ age <= w.age,
         watch' = w,
         pc' \in {"capped", "sleeping"},
         windowAge' \in 0..OneHour, beatsInWindow' \in 0..MaxPerHour,
         pc' = "sleeping" => beatsInWindow' < MaxPerHour,
         \/ windowAge' = age /\ beatsInWindow' = beats
         \/ age >= OneHour /\ windowAge' = 0 /\ beatsInWindow' = 0
  PROVE  WindowInv'
<1>1. OneHour \in Nat /\ MaxPerHour \in Nat /\ w.age \in 0..OneHour /\ w.beats \in Nat
  BY ConductorAssumption DEF ConductorAssumption
<1>2. BeatsSoFar' = beatsInWindow'
  BY DEF BeatsSoFar
<1> DEFINE caps == CapsOf(w.starts)
<1>3. caps \in Nat /\ caps >= 2 * MaxPerHour /\ CapsOf(watch'.starts) = caps
  BY CapsFacts
<1> HIDE DEF caps
<1>4. CASE w = NotWatching
  <2>1. watch' = NotWatching /\ watch'.beats = 0
    BY <1>4 DEF NotWatching
  <2>2. QED
    BY <1>1, <1>2, <1>3, <2>1 DEF WindowInv, HourWithinCaps
<1>5. CASE w # NotWatching
  <2>1. \/ w.beats <= beats
        \/ w.beats + MaxPerHour <= caps + beats /\ age <= w.age
    BY <1>5 DEF caps
  <2>2. \/ w.beats <= beatsInWindow'
        \/ w.beats + MaxPerHour <= caps + beatsInWindow' /\ windowAge' <= w.age
    BY <1>1, <1>3, <1>5, <2>1
  <2>3. w.beats <= caps
    BY <1>1, <1>3, <2>1
  <2>4. QED
    BY <1>1, <1>2, <1>3, <1>5, <2>2, <2>3 DEF WindowInv, HourWithinCaps
<1>6. QED
  BY <1>4, <1>5

\* Reading the store keeps the invariant.
LEMMA LoadInv == Inv /\ Load => Inv'
<1> SUFFICES ASSUME Inv, Load PROVE Inv'
  OBVIOUS
<1> DEFINE loaded == IF store = NoEntry THEN freshNetInfo ELSE store
<1>1. /\ pc = "loading" /\ windowAge = 0 /\ beatsInWindow = 0 /\ TypeOK /\ IntervalInv
      /\ watch' = watch /\ store' = store /\ aborted' = aborted /\ inTime' = inTime
      /\ lastOk' = lastOk /\ stableFor' = stableFor /\ fails' = 0
  BY DEF Inv, LoopInv, WindowInv, Load
<1>2. loaded \in NetInfo /\ RoomToProbe(loaded)
  BY <1>1, FreshFacts DEF TypeOK, IntervalInv
<1>3. 0 \in 0..OneHour /\ 0 \in 0..MaxPerHour
  BY ConductorAssumption DEF ConductorAssumption
<1>4. CASE aborted
  <2>1. /\ pc' = "ended" /\ net' = loaded /\ sh' = sh /\ sleepFor' = sleepFor
        /\ windowAge' = windowAge /\ beatsInWindow' = beatsInWindow
    BY <1>4 DEF Load
  <2>2. TypeOK'
    BY <1>1, <1>2, <2>1 DEF TypeOK
  <2>3. IntervalInv'
    BY <1>1, <1>2, <2>1 DEF IntervalInv
  <2>4. WindowInv'
    BY <1>1, <2>1 DEF Inv, LoopInv, WindowInv, HourWithinCaps
  <2>5. StoreHoldsLearned'
    BY <2>1 DEF StoreHoldsLearned
  <2>6. QED
    BY <2>2, <2>3, <2>4, <2>5 DEF Inv, LoopInv
<1>5. CASE ~aborted
  <2>1. Iterate(0, 0, freshHeartbeat, loaded)
    BY <1>5 DEF Load
  <2> HIDE DEF loaded
  <2>2. /\ pc' \in {"capped", "sleeping"}
        /\ sh' \in SmartState /\ MinHeart <= sh'.lastHeart /\ sh'.lastHeart <= Ceiling
        /\ net' = loaded /\ sleepFor' \in Nat
        /\ windowAge' \in 0..OneHour /\ beatsInWindow' \in 0..MaxPerHour
        /\ pc' = "sleeping" => beatsInWindow' < MaxPerHour
        /\ \/ windowAge' = 0 /\ beatsInWindow' = 0
           \/ 0 >= OneHour /\ windowAge' = 0 /\ beatsInWindow' = 0
    BY <2>1, <1>2, <1>3, FreshFacts, IterateSafe
  <2>3. TypeOK'
    BY <1>1, <1>2, <2>2 DEF TypeOK
  <2>4. IntervalInv'
    BY <1>1, <1>2, <2>2 DEF IntervalInv
  <2>5. WindowInv'
    <3>1. watch \in [age : 0..OneHour, beats : Nat, starts : Nat]
      BY <1>1 DEF TypeOK
    <3>2. /\ watch # NotWatching => watch.age < OneHour
          /\ watch # NotWatching =>
               \/ watch.beats <= 0
               \/ watch.beats + MaxPerHour <= CapsOf(watch.starts) + 0 /\ 0 <= watch.age
      BY <1>1 DEF Inv, LoopInv, WindowInv, BeatsSoFar
    <3>3. QED
      BY <1>1, <1>3, <2>2, <3>1, <3>2, WindowContinues
  <2>6. StoreHoldsLearned'
    BY <1>1, <2>2 DEF StoreHoldsLearned, loaded
  <2>7. QED
    BY <2>3, <2>4, <2>5, <2>6 DEF Inv, LoopInv
<1>6. QED
  BY <1>4, <1>5

\* An action that ends the loop and touches neither state nor watch.
LEMMA EndsInv ==
  ASSUME Inv, Ends, net' = net, store' = store \/ store' = net,
         UNCHANGED <<aborted, inTime, lastOk, watch, stableFor>>, fails' \in Nat
  PROVE  Inv'
<1>1. /\ pc' = "ended" /\ sh' = sh /\ sleepFor' = sleepFor
      /\ windowAge' = windowAge /\ beatsInWindow' = beatsInWindow
  BY DEF Ends
<1>2. TypeOK'
  BY <1>1 DEF Inv, TypeOK
<1>3. IntervalInv'
  BY <1>1 DEF Inv, LoopInv, IntervalInv
<1>4. WindowInv'
  BY <1>1 DEF Inv, LoopInv, WindowInv, HourWithinCaps
<1>5. StoreHoldsLearned'
  BY <1>1 DEF StoreHoldsLearned
<1>6. QED
  BY <1>2, <1>3, <1>4, <1>5 DEF Inv, LoopInv

\* The start of a beat keeps the invariant.
LEMMA BeatStartsInv == Inv /\ BeatStarts => Inv'
<1> SUFFICES ASSUME Inv, BeatStarts PROVE Inv'
  OBVIOUS
<1>1. /\ pc = "sleeping" /\ pc' = "beating" /\ sh' = [sh EXCEPT !.isWait = TRUE]
      /\ aborted' = aborted /\ inTime' = inTime /\ net' = net /\ store' = store
      /\ sleepFor' = sleepFor /\ beatsInWindow' = beatsInWindow
      /\ fails' = fails /\ lastOk' = lastOk /\ TypeOK /\ LoopInv
  BY DEF BeatStarts, Inv
<1>2. PICK over \in Overruns :
        /\ windowAge' = Aged(windowAge, sleepFor + over)
        /\ stableFor' = Settled(sleepFor + over)
        /\ watch' \in {FirstBeat, BeatCounted(Watched(sleepFor + over))}
  BY DEF BeatStarts
<1> DEFINE d == sleepFor + over
           w == Watched(d)
<1>3. d \in Nat
  BY <1>1, ConductorAssumption DEF ConductorAssumption, TypeOK
<1> HIDE DEF d
<1>4. /\ w \in [age : 0..OneHour, beats : Nat, starts : Nat]
      /\ w # NotWatching => /\ watch # NotWatching /\ w.beats = watch.beats
                            /\ w.age = watch.age + d /\ w.age < OneHour
                            /\ w.starts = watch.starts
  BY <1>1, <1>3, WatchedBound
<1>5. windowAge' \in 0..OneHour /\ stableFor' \in Nat
  BY <1>1, <1>2, <1>3, AgedBound, SettledIsNat DEF TypeOK, d
<1>6. OneHour \in Nat \ {0} /\ MaxPerHour \in Nat
  BY ConductorAssumption DEF ConductorAssumption
<1>7. watch' \in {FirstBeat, BeatCounted(w)}
  BY <1>2 DEF d
<1> HIDE DEF w
<1>8. sh' \in SmartState /\ sh'.lastHeart = sh.lastHeart
  BY <1>1 DEF TypeOK, SmartState
<1>9. \/ watch' = FirstBeat
      \/ w = NotWatching /\ watch' = w
      \/ w # NotWatching /\ watch' = [w EXCEPT !.beats = @ + 1]
  BY <1>7 DEF BeatCounted
<1>10. watch' \in [age : 0..OneHour, beats : Nat, starts : Nat]
  BY <1>4, <1>6, <1>9 DEF FirstBeat
<1>11. TypeOK'
  BY <1>1, <1>5, <1>8, <1>10 DEF TypeOK
<1>12. IntervalInv'
  BY <1>1, <1>8 DEF LoopInv, IntervalInv
<1>13. WindowInv'
  <2>1. BeatsSoFar' = beatsInWindow + 1 /\ BeatsSoFar = beatsInWindow
    BY <1>1 DEF BeatsSoFar
  <2>2. beatsInWindow < MaxPerHour /\ beatsInWindow \in Nat
    BY <1>1 DEF LoopInv, WindowInv, TypeOK
  <2> DEFINE caps == CapsOf(watch'.starts)
  <2>7. watch'.starts \in Nat
    BY <1>10
  <2>8. caps \in Nat /\ caps >= 2 * MaxPerHour
    BY <2>7, CapsFacts
  <2> HIDE DEF caps
  <2>9. (watch.beats <= CapsOf(watch.starts))' <=> watch'.beats <= caps
    BY DEF caps
  <2>3. CASE watch' = FirstBeat
    <3>1. watch'.age = 0 /\ watch'.beats = 1
      BY <2>3 DEF FirstBeat
    <3>2. QED
      BY <3>1, <2>1, <2>2, <2>8, <2>9, <1>1, <1>6 DEF WindowInv, HourWithinCaps
  <2>4. CASE w = NotWatching /\ watch' = w
    <3>1. watch'.beats = 0
      BY <2>4 DEF NotWatching
    <3>2. QED
      BY <3>1, <2>1, <2>2, <2>4, <2>8, <2>9, <1>1, <1>6 DEF WindowInv, HourWithinCaps
  <2>5. CASE w # NotWatching /\ watch' = [w EXCEPT !.beats = @ + 1]
    <3>1. /\ watch'.age = watch.age + d /\ watch'.age < OneHour
          /\ watch'.beats = watch.beats + 1 /\ watch'.starts = watch.starts
      BY <2>5, <1>4
    <3>2. \/ watch.beats <= beatsInWindow
          \/ watch.beats + MaxPerHour <= caps + beatsInWindow /\ windowAge <= watch.age
      BY <2>1, <2>5, <3>1, <1>1, <1>4 DEF LoopInv, WindowInv, caps
    <3>3. watch.beats \in Nat /\ watch.age \in 0..OneHour /\ windowAge \in 0..OneHour
      BY <1>1 DEF TypeOK
    <3>4. windowAge <= watch.age => windowAge' <= watch'.age
      BY <3>1, <3>3, <1>2, <1>3, <1>6 DEF Aged, d
    <3>5. \/ watch'.beats <= beatsInWindow + 1
          \/ watch'.beats + MaxPerHour <= caps + (beatsInWindow + 1) /\ windowAge' <= watch'.age
      BY <3>1, <3>2, <3>3, <3>4, <2>2, <2>8, <1>6
    <3>6. watch'.beats <= caps
      BY <3>1, <3>2, <3>3, <2>2, <2>8, <1>6
    <3>7. QED
      BY <3>1, <3>5, <3>6, <2>1, <2>2, <2>9, <1>1, <1>6 DEF WindowInv, HourWithinCaps, caps
  <2>6. QED
    BY <1>9, <2>3, <2>4, <2>5
<1>14. StoreHoldsLearned'
  BY <1>1 DEF LoopInv, StoreHoldsLearned
<1>15. QED
  BY <1>11, <1>12, <1>13, <1>14 DEF Inv, LoopInv

\* Waiting for the next window keeps the invariant.
LEMMA CapWaitsInv == Inv /\ CapWaits => Inv'
<1> SUFFICES ASSUME Inv, CapWaits PROVE Inv'
  OBVIOUS
<1>1. /\ pc = "capped" /\ aborted' = aborted /\ inTime' = inTime
      /\ store' = store /\ fails' = fails /\ lastOk' = lastOk /\ TypeOK /\ LoopInv
  BY DEF CapWaits, Inv
<1>2. PICK over \in Overruns :
        /\ Iterate(Aged(windowAge, sleepFor + over), beatsInWindow, sh, net)
        /\ stableFor' = Settled(sleepFor + over) /\ watch' = Watched(sleepFor + over)
  BY DEF CapWaits
<1> DEFINE d == sleepFor + over
           age == Aged(windowAge, d)
           w == Watched(d)
<1>3. d \in Nat
  BY <1>1, ConductorAssumption DEF ConductorAssumption, TypeOK
<1>4. OneHour \in Nat /\ windowAge \in 0..OneHour /\ beatsInWindow \in 0..MaxPerHour
  BY <1>1, ConductorAssumption DEF ConductorAssumption, TypeOK
<1>5. /\ Iterate(age, beatsInWindow, sh, net) /\ watch' = w /\ stableFor' = Settled(d)
  BY <1>2
<1> HIDE DEF d
<1>6. /\ w \in [age : 0..OneHour, beats : Nat, starts : Nat]
      /\ w # NotWatching => /\ watch # NotWatching /\ w.beats = watch.beats
                            /\ w.age = watch.age + d /\ w.age < OneHour
                            /\ w.starts = watch.starts
  BY <1>1, <1>3, WatchedBound
<1>7. age \in 0..OneHour /\ stableFor' \in Nat
  BY <1>1, <1>3, <1>4, <1>5, AgedBound, SettledIsNat
<1>8. windowAge + d < OneHour => age = windowAge + d
  BY DEF Aged
<1> HIDE DEF age, w
<1>9. /\ pc' \in {"capped", "sleeping"}
      /\ sh' \in SmartState /\ MinHeart <= sh'.lastHeart /\ sh'.lastHeart <= Ceiling
      /\ net' = net /\ sleepFor' \in Nat
      /\ windowAge' \in 0..OneHour /\ beatsInWindow' \in 0..MaxPerHour
      /\ pc' = "sleeping" => beatsInWindow' < MaxPerHour
      /\ \/ windowAge' = age /\ beatsInWindow' = beatsInWindow
         \/ age >= OneHour /\ windowAge' = 0 /\ beatsInWindow' = 0
  BY <1>1, <1>4, <1>5, <1>7, IterateSafe DEF TypeOK, LoopInv, IntervalInv
<1>10. w # NotWatching =>
         \/ w.beats <= beatsInWindow
         \/ w.beats + MaxPerHour <= CapsOf(w.starts) + beatsInWindow /\ age <= w.age
  <2>1. SUFFICES ASSUME w # NotWatching
                 PROVE  \/ w.beats <= beatsInWindow
                        \/ /\ w.beats + MaxPerHour <= CapsOf(w.starts) + beatsInWindow
                           /\ age <= w.age
    OBVIOUS
  <2>2. \/ watch.beats <= beatsInWindow
        \/ /\ watch.beats + MaxPerHour <= CapsOf(watch.starts) + beatsInWindow
           /\ windowAge <= watch.age
    BY <2>1, <1>1, <1>6 DEF LoopInv, WindowInv, BeatsSoFar
  <2>3. watch.age \in 0..OneHour
    BY <1>1 DEF TypeOK
  <2>4. windowAge <= watch.age => age <= w.age
    BY <2>1, <2>3, <1>3, <1>4, <1>6, <1>8
  <2>5. QED
    BY <2>1, <2>2, <2>4, <1>6
<1>11. TypeOK'
  BY <1>1, <1>5, <1>6, <1>7, <1>9 DEF TypeOK
<1>12. IntervalInv'
  BY <1>1, <1>9 DEF LoopInv, IntervalInv
<1>13. WindowInv'
  BY <1>4, <1>5, <1>6, <1>7, <1>9, <1>10, WindowContinues
<1>14. StoreHoldsLearned'
  BY <1>1, <1>9 DEF LoopInv, StoreHoldsLearned
<1>15. QED
  BY <1>11, <1>12, <1>13, <1>14 DEF Inv, LoopInv

\* The result of a beat keeps the invariant.
LEMMA BeatSettlesInv == Inv /\ BeatSettles => Inv'
<1> SUFFICES ASSUME Inv, BeatSettles PROVE Inv'
  OBVIOUS
<1>1. /\ pc = "beating" /\ pc' = "saving" /\ aborted' = aborted /\ inTime' = ~aborted
      /\ store' = store /\ sleepFor' = sleepFor /\ beatsInWindow' = beatsInWindow
      /\ fails' = fails /\ TypeOK /\ LoopInv
  BY DEF BeatSettles, Inv
<1>2. PICK success \in BOOLEAN, timedOut \in BOOLEAN, over \in Overruns :
        /\ sh' = shAfterResult(sh, success)
        /\ net' = netAfterResult(sh, net, success, timedOut)
        /\ lastOk' = success
        /\ windowAge' = Aged(windowAge, over)
        /\ stableFor' = Settled(over) /\ watch' = Watched(over)
  BY DEF BeatSettles
<1> DEFINE w == Watched(over)
<1>3. OneHour \in Nat /\ MaxPerHour \in Nat /\ over \in Nat /\ windowAge \in 0..OneHour
  BY <1>1, ConductorAssumption DEF ConductorAssumption, TypeOK
<1>4. /\ w \in [age : 0..OneHour, beats : Nat, starts : Nat]
      /\ w # NotWatching => /\ watch # NotWatching /\ w.beats = watch.beats
                            /\ w.age = watch.age + over /\ w.age < OneHour
                            /\ w.starts = watch.starts
  BY <1>1, <1>3, WatchedBound
<1>5. windowAge' \in 0..OneHour /\ stableFor' \in Nat /\ lastOk' \in BOOLEAN
  BY <1>1, <1>2, <1>3, AgedBound, SettledIsNat
<1>6. sh' \in SmartState /\ sh'.lastHeart = sh.lastHeart
  BY <1>1, <1>2, ResultKeepsSmart DEF TypeOK
<1>7. net' \in NetInfo /\ RoomToProbe(net')
  BY <1>1, <1>2, ResultInRange DEF TypeOK, LoopInv, IntervalInv
<1>8. TypeOK'
  BY <1>1, <1>2, <1>4, <1>5, <1>6, <1>7 DEF TypeOK
<1>9. IntervalInv'
  BY <1>1, <1>6, <1>7 DEF LoopInv, IntervalInv
<1>10. WindowInv'
  <2>1. BeatsSoFar' = beatsInWindow + 1 /\ BeatsSoFar = beatsInWindow + 1
    BY <1>1 DEF BeatsSoFar
  <2>2. beatsInWindow < MaxPerHour /\ beatsInWindow \in Nat
    BY <1>1 DEF LoopInv, WindowInv, TypeOK
  <2>3. watch' = w
    BY <1>2
  <2> HIDE DEF w
  <2>4. CASE w = NotWatching
    <3>1. watch' = NotWatching /\ watch'.beats = 0 /\ watch'.starts = 0
      BY <2>3, <2>4 DEF NotWatching
    <3>2. CapsOf(watch'.starts) \in Nat
      BY <3>1, CapsFacts
    <3>3. QED
      BY <3>1, <3>2, <2>1, <2>2, <1>1, <1>3 DEF WindowInv, HourWithinCaps
  <2>5. CASE w # NotWatching
    <3>1. /\ \/ watch.beats <= beatsInWindow + 1
             \/ /\ watch.beats + MaxPerHour <= CapsOf(watch.starts) + (beatsInWindow + 1)
                /\ windowAge <= watch.age
          /\ watch.beats <= CapsOf(watch.starts)
      BY <2>1, <2>5, <1>1, <1>4 DEF LoopInv, WindowInv, HourWithinCaps
    <3>2. watch.beats \in Nat /\ watch.age \in 0..OneHour
      BY <1>1 DEF TypeOK
    <3>3. windowAge <= watch.age => windowAge' <= watch'.age
      BY <2>3, <2>5, <3>2, <1>2, <1>3, <1>4 DEF Aged
    <3>4. /\ watch'.beats = watch.beats /\ watch'.starts = watch.starts
          /\ watch'.age < OneHour
      BY <2>3, <2>5, <1>4
    <3>5. QED
      BY <3>1, <3>2, <3>3, <3>4, <2>1, <2>2, <1>1, <1>3 DEF WindowInv, HourWithinCaps
  <2>6. QED
    BY <2>4, <2>5
<1>11. StoreHoldsLearned'
  BY <1>1 DEF StoreHoldsLearned
<1>12. QED
  BY <1>8, <1>9, <1>10, <1>11 DEF Inv, LoopInv

\* Writing the store keeps the invariant.
LEMMA SaveSucceedsInv == Inv /\ SaveSucceeds => Inv'
<1> SUFFICES ASSUME Inv, SaveSucceeds PROVE Inv'
  OBVIOUS
<1>1. /\ pc = "saving" /\ store' = net /\ fails' = (IF lastOk THEN 0 ELSE fails + 1)
      /\ UNCHANGED <<aborted, inTime, lastOk, watch, stableFor>> /\ TypeOK /\ LoopInv
  BY DEF SaveSucceeds, Inv
<1>2. fails' \in Nat
  BY <1>1 DEF TypeOK
<1>3. CASE Ends
  <2>1. net' = net
    BY <1>3 DEF Ends
  <2>2. QED
    BY <1>1, <1>2, <1>3, <2>1, EndsInv
<1>4. CASE Iterate(windowAge, beatsInWindow + 1, sh, net)
  <2>1. OneHour \in Nat /\ MaxPerHour \in Nat
    BY ConductorAssumption DEF ConductorAssumption
  <2>2. beatsInWindow + 1 \in 0..MaxPerHour /\ BeatsSoFar = beatsInWindow + 1
    BY <1>1, <2>1 DEF LoopInv, WindowInv, TypeOK, BeatsSoFar
  <2>3. /\ pc' \in {"capped", "sleeping"}
        /\ sh' \in SmartState /\ MinHeart <= sh'.lastHeart /\ sh'.lastHeart <= Ceiling
        /\ net' = net /\ sleepFor' \in Nat
        /\ windowAge' \in 0..OneHour /\ beatsInWindow' \in 0..MaxPerHour
        /\ pc' = "sleeping" => beatsInWindow' < MaxPerHour
        /\ \/ windowAge' = windowAge /\ beatsInWindow' = beatsInWindow + 1
           \/ windowAge >= OneHour /\ windowAge' = 0 /\ beatsInWindow' = 0
    BY <1>1, <1>4, <2>2, IterateSafe DEF TypeOK, LoopInv, IntervalInv
  <2>4. TypeOK'
    BY <1>1, <1>2, <2>3 DEF TypeOK
  <2>5. IntervalInv'
    BY <1>1, <2>3 DEF LoopInv, IntervalInv
  <2>6. WindowInv'
    <3>1. /\ watch' = watch /\ watch \in [age : 0..OneHour, beats : Nat, starts : Nat]
          /\ windowAge \in 0..OneHour
      BY <1>1 DEF TypeOK
    <3>2. watch # NotWatching => watch.age < OneHour
      BY <1>1 DEF LoopInv, WindowInv
    <3>3. watch # NotWatching =>
            \/ watch.beats <= beatsInWindow + 1
            \/ /\ watch.beats + MaxPerHour <= CapsOf(watch.starts) + (beatsInWindow + 1)
               /\ windowAge <= watch.age
      BY <1>1, <2>2 DEF LoopInv, WindowInv
    <3>4. QED
      BY <2>2, <2>3, <3>1, <3>2, <3>3, WindowContinues
  <2>7. StoreHoldsLearned'
    <3>1. net # NoEntry
      <4>1. net.curHeart > 0
        BY <1>1, CeilingFacts DEF LoopInv, IntervalInv, RoomToProbe, InRange, TypeOK, NetInfo
      <4>2. QED
        BY <4>1 DEF NoEntry
    <3>2. QED
      BY <1>1, <2>3, <3>1 DEF StoreHoldsLearned
  <2>8. QED
    BY <2>4, <2>5, <2>6, <2>7 DEF Inv, LoopInv
<1>5. QED
  BY <1>3, <1>4 DEF SaveSucceeds, LoopOrEnd

\* stop() keeps the invariant.
LEMMA StopInv == Inv /\ Stop => Inv'
<1> SUFFICES ASSUME Inv, Stop PROVE Inv'
  OBVIOUS
<1>1. /\ aborted' = TRUE
      /\ UNCHANGED <<pc, inTime, sh, net, store, sleepFor, beatsInWindow, fails, lastOk, clockVars>>
  BY DEF Stop
<1>2. TypeOK'
  BY <1>1 DEF Inv, TypeOK, clockVars
<1>3. LoopInv'
  BY <1>1 DEF Inv, LoopInv, IntervalInv, WindowInv, HourWithinCaps, BeatsSoFar,
         StoreHoldsLearned, clockVars
<1>4. QED
  BY <1>2, <1>3 DEF Inv

\* A new process keeps the invariant.
LEMMA RestartInv == Inv /\ Restart => Inv'
<1> SUFFICES ASSUME Inv, Restart PROVE Inv'
  OBVIOUS
<1>1. /\ pc' = "loading" /\ aborted' = FALSE /\ inTime' = TRUE
      /\ sh' = freshHeartbeat /\ net' = freshNetInfo
      /\ sleepFor' = 0 /\ windowAge' = 0 /\ beatsInWindow' = 0 /\ fails' = 0
      /\ lastOk' = TRUE /\ store' = store /\ stableFor' = stableFor /\ TypeOK /\ LoopInv
  BY DEF Restart, Inv
<1>2. /\ NotWatching \in [age : 0..OneHour, beats : Nat, starts : Nat] /\ NotWatching.beats = 0
      /\ 0 \in 0..OneHour /\ 0 \in 0..MaxPerHour /\ MaxPerHour \in Nat
  BY ConductorAssumption DEF ConductorAssumption, NotWatching
<1>8. PICK down \in Overruns : watch' = StartCounted(Watched(down))
  BY DEF Restart
<1> DEFINE w == Watched(down)
<1>9. /\ w \in [age : 0..OneHour, beats : Nat, starts : Nat]
      /\ w # NotWatching => /\ watch # NotWatching /\ w.beats = watch.beats
                            /\ w.starts = watch.starts /\ w.age < OneHour
  BY <1>1, WatchedBound, ConductorAssumption DEF ConductorAssumption
<1>10. watch' = StartCounted(w)
  BY <1>8
<1> HIDE DEF w
<1>11. \/ watch' = NotWatching
       \/ /\ w # NotWatching /\ watch' \in [age : 0..OneHour, beats : Nat, starts : Nat]
          /\ watch'.age = w.age /\ watch'.beats = w.beats /\ watch'.starts = w.starts + 1
  BY <1>9, <1>10 DEF StartCounted
<1>3. TypeOK'
  BY <1>1, <1>2, <1>11, FreshFacts DEF TypeOK
<1>4. IntervalInv'
  BY <1>1, FreshFacts DEF Inv, LoopInv, IntervalInv
<1>5. WindowInv'
  <2>1. BeatsSoFar' = 0
    BY <1>1 DEF BeatsSoFar
  <2>2. CASE watch' = NotWatching
    <3>1. watch'.beats = 0 /\ watch'.starts = 0
      BY <2>2 DEF NotWatching
    <3>2. CapsOf(watch'.starts) \in Nat
      BY <3>1, CapsFacts
    <3>3. QED
      BY <1>1, <1>2, <2>2, <3>1, <3>2 DEF WindowInv, HourWithinCaps
  <2>3. CASE watch' # NotWatching
    <3>1. /\ watch'.age = w.age /\ watch'.beats = watch.beats
          /\ watch'.starts = watch.starts + 1 /\ w.age < OneHour
          /\ watch.starts \in Nat /\ watch.beats \in Nat /\ w.age \in 0..OneHour
      BY <1>1, <1>9, <1>11, <2>3 DEF TypeOK
    <3>2. watch.beats <= CapsOf(watch.starts) /\ CapsOf(watch.starts) \in Nat
      BY <1>1, <3>1, CapsFacts DEF LoopInv, WindowInv, HourWithinCaps
    <3>3. CapsOf(watch'.starts) = CapsOf(watch.starts) + MaxPerHour
      BY <3>1, CapsFacts
    <3>4. QED
      BY <1>1, <1>2, <2>1, <2>3, <3>1, <3>2, <3>3 DEF WindowInv, HourWithinCaps
  <2>4. QED
    BY <2>2, <2>3
<1>6. StoreHoldsLearned'
  BY <1>1 DEF StoreHoldsLearned
<1>7. QED
  BY <1>3, <1>4, <1>5, <1>6 DEF Inv, LoopInv

\* Every step keeps the invariant.
LEMMA NextInv == Inv /\ [Next]_vars => Inv'
<1> SUFFICES ASSUME Inv, [Next]_vars PROVE Inv'
  OBVIOUS
<1>1. CASE Load
  BY <1>1, LoadInv
<1>2. CASE StoreFails
  <2>1. Ends /\ net' = net /\ store' = store /\ fails' = fails
    BY <1>2 DEF StoreFails, Ends
  <2>2. UNCHANGED <<aborted, inTime, lastOk, watch, stableFor>>
    BY <1>2 DEF StoreFails
  <2>3. QED
    BY <2>1, <2>2, EndsInv DEF Inv, TypeOK
<1>3. CASE SleepAborted
  <2>1. Ends /\ net' = net /\ store' = store /\ fails' = fails
    BY <1>3 DEF SleepAborted, Ends
  <2>2. UNCHANGED <<aborted, inTime, lastOk, watch, stableFor>>
    BY <1>3 DEF SleepAborted
  <2>3. QED
    BY <2>1, <2>2, EndsInv DEF Inv, TypeOK
<1>4. CASE BeatStarts
  BY <1>4, BeatStartsInv
<1>5. CASE CapWaits
  BY <1>5, CapWaitsInv
<1>6. CASE BeatSettles
  BY <1>6, BeatSettlesInv
<1>7. CASE SaveSucceeds
  BY <1>7, SaveSucceedsInv
<1>8. CASE Stop
  BY <1>8, StopInv
<1>9. CASE Restart
  BY <1>9, RestartInv
<1>10. CASE UNCHANGED vars
  <2>1. TypeOK'
    BY <1>10 DEF Inv, TypeOK, vars, clockVars
  <2>2. LoopInv'
    BY <1>10 DEF Inv, LoopInv, IntervalInv, WindowInv, HourWithinCaps, BeatsSoFar,
         StoreHoldsLearned, vars, clockVars
  <2>3. QED
    BY <2>1, <2>2 DEF Inv
<1>11. QED
  BY <1>1, <1>2, <1>3, <1>4, <1>5, <1>6, <1>7, <1>8, <1>9, <1>10 DEF Next, LoopStep

\* The invariant holds in every reachable state.
LEMMA InvAlways == Spec => []Inv
  BY InitInv, NextInv, PTL DEF Spec

-----------------------------------------------------------------------------
(* The theorems.                                                           *)

\* Every variable of the loop keeps its type.
THEOREM TypeCorrect == Spec => []TypeOK
<1>1. Inv => TypeOK
  BY DEF Inv
<1>2. QED
  BY <1>1, InvAlways, PTL

\* The inductive invariant the run checks.
THEOREM LoopInvariant == Spec => []LoopInv
<1>1. Inv => LoopInv
  BY DEF Inv
<1>2. QED
  BY <1>1, InvAlways, PTL

\* The interval of onHeartResult and getNextHeartbeatInterval stays within the minimum
\* and the ceiling, whatever the results, saves, failures and restarts.
THEOREM IntervalStaysInRange == Spec => []IntervalInRange
<1>1. Inv => IntervalInRange
  BY DEF Inv, LoopInv, IntervalInv, RoomToProbe, IntervalInRange
<1>2. QED
  BY <1>1, InvAlways, PTL

\* Whenever the loop waits for its next beat, Redis holds what it has learned.
THEOREM StoreIsUpToDate == Spec => []StoreHoldsLearned
<1>1. Inv => StoreHoldsLearned
  BY DEF Inv, LoopInv
<1>2. QED
  BY <1>1, InvAlways, PTL

\* From any beat on, and over any restarts, one hour holds at most twice maxPerHour beats
\* and maxPerHour more for every process that starts in it (conductor.ts:77-79).
THEOREM HourIsBounded == Spec => []HourWithinCaps
<1>1. Inv => HourWithinCaps
  BY DEF Inv, LoopInv, WindowInv
<1>2. QED
  BY <1>1, InvAlways, PTL

\* stop() silences the loop at whichever await of start() it arrives: no further beat is
\* sent until a new process starts.
THEOREM StoppedIsSilent == Spec => NoBeatAfterStop
<1>1. ASSUME Inv, [Next]_vars
      PROVE  [aborted /\ aborted' /\ pc # "beating" => pc' # "beating"]_vars
  <2> SUFFICES ASSUME Next, aborted, pc # "beating" PROVE pc' # "beating" \/ ~aborted'
    BY <1>1
  <2>1. CASE Load
    BY <2>1 DEF Load
  <2>2. CASE StoreFails \/ SleepAborted
    BY <2>2 DEF StoreFails, SleepAborted, Ends
  <2>3. CASE BeatStarts \/ CapWaits \/ BeatSettles
    BY <2>3 DEF BeatStarts, CapWaits, BeatSettles
  <2>4. CASE SaveSucceeds
    BY <2>4 DEF SaveSucceeds, LoopOrEnd, Ends
  <2>5. CASE Stop
    BY <2>5 DEF Stop
  <2>6. CASE Restart
    BY <2>6 DEF Restart
  <2>7. QED
    BY <2>1, <2>2, <2>3, <2>4, <2>5, <2>6 DEF Next, LoopStep
<1>2. QED
  BY <1>1, InvAlways, PTL DEF Spec, NoBeatAfterStop
=============================================================================
