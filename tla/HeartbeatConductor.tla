------------------------- MODULE HeartbeatConductor -------------------------
(***************************************************************************)
(* The heartbeat loop of one account (src/heartbeat/conductor.ts, wired by *)
(* runtime.ts): load the learned state from Redis, then sleep for the      *)
(* jittered adaptive interval, send one heartbeat, learn from its result   *)
(* and save, under an hourly cap and a limit of consecutive failures.      *)
(*                                                                         *)
(* start() is one async function, so an action is the stretch between two  *)
(* awaits; pc names the await: "loading" (store.load), "sleeping",         *)
(* "capped" (the sleep of the hourly cap), "beating" (the HTTP request),   *)
(* "saving" (store.save), or "ended" (start() has returned or thrown).     *)
(* stop() and the death of the process may come at any await.              *)
(*                                                                         *)
(* Nothing but the loop itself moves the clock forward, so the model has   *)
(* no clock: an action adds the time its await took to the ages it keeps.  *)
(***************************************************************************)
EXTENDS SmartHeartbeat, Naturals

CONSTANTS
  HardFloor, MaxPerHour, MaxConsecutiveFailures,  \* hardFloorMs, ...
  JitterPcts,       \* the percentages (rng() * 2 - 1) * jitterPct may come to
  ActiveReadings,   \* what isActive() may return
  Overruns,         \* by how much a sleep, or a request with its save, may outlast its due time
  OneHour,
  StartsWatched     \* bound of the model: how many restarts an observed hour is followed over

ASSUME ConductorAssumption ==
  /\ HardFloor \in Nat /\ MaxPerHour \in Nat /\ MaxConsecutiveFailures \in Nat
  /\ JitterPcts \subseteq -100..100
  /\ ActiveReadings \subseteq BOOLEAN
  /\ Overruns \subseteq Nat
  /\ OneHour \in Nat \ {0}
  /\ StartsWatched \in Nat

VARIABLES
  pc,             \* the await start() is parked at
  aborted,        \* signal.aborted
  inTime,         \* the Redis command awaited was issued before stop() quit the connection
  sh, net,        \* the SmartHeartbeat object and its net info
  store,          \* the Redis entry of this account and egress
  sleepFor,       \* the duration passed to clock.sleep
  windowAge,      \* now - windowStart
  beatsInWindow, fails,
  lastOk,         \* res.success of the beat being saved
  watch,          \* history: an hour observed from one beat on, its age, its beats and
                  \* the new processes that have started in it
  stableFor       \* history: how long net.isStable has held, counted up to OneWeek

clockVars == <<windowAge, watch, stableFor>>
vars == <<pc, aborted, inTime, sh, net, store, sleepFor, beatsInWindow, fails, lastOk, clockVars>>

\* No entry under the key.
NoEntry == [curHeart |-> 0, isStable |-> FALSE, lastModifyTime |-> 0,
            failHeartCount |-> 0, succHeartCount |-> 0]

\* No hour is being observed.
NotWatching == [age |-> 0, beats |-> 0, starts |-> 0]

\* The hour that begins with the beat being sent.
FirstBeat == [age |-> 0, beats |-> 1, starts |-> 0]

Larger(a, b) == IF a >= b THEN a ELSE b

\* computeSleep: jitter first, then the floor.
computeSleep(interval, jitter) ==
  Larger(HardFloor, (interval * (100 + jitter) + 50) \div 100)

-----------------------------------------------------------------------------
Init ==
  /\ pc = "loading" /\ aborted = FALSE /\ inTime = TRUE
  /\ sh = freshHeartbeat /\ net = freshNetInfo /\ store = NoEntry
  /\ sleepFor = 0 /\ windowAge = 0 /\ beatsInWindow = 0 /\ fails = 0
  /\ lastOk = TRUE /\ watch = NotWatching /\ stableFor = 0

\* The time d has passed when the await returns.  The age of the window does not
\* matter beyond an hour, nor that of the observed hour.
Watched(d) == IF watch # NotWatching /\ watch.age + d < OneHour
                THEN [watch EXCEPT !.age = @ + d] ELSE NotWatching
Aged(age, d) == IF age + d < OneHour THEN age + d ELSE OneHour
BeatCounted(w) == IF w = NotWatching THEN w ELSE [w EXCEPT !.beats = @ + 1]
StartCounted(w) == IF w # NotWatching /\ w.starts < StartsWatched
                     THEN [w EXCEPT !.starts = @ + 1] ELSE NotWatching
Settled(d) == IF net.isStable /\ stableFor + d < OneWeek THEN stableFor + d
              ELSE IF net.isStable THEN OneWeek ELSE 0

\* The hourly cap is exhausted: sleep until the window rolls.
AwaitRoll(age, s, n) ==
  /\ pc' = "capped"
  /\ sleepFor' = OneHour - age
  /\ sh' = s /\ net' = n

\* Ask for the next interval and sleep on it.
AwaitBeat(s, n) ==
  /\ pc' = "sleeping"
  /\ \E active \in ActiveReadings, jitter \in JitterPcts :
       LET asked == [s EXCEPT !.active = active]
           interval == getNextHeartbeatInterval(asked, n)
       IN /\ sh' = [asked EXCEPT !.lastHeart = interval]
          /\ net' = netAfterNext(asked, n)
          /\ sleepFor' = computeSleep(interval, jitter)

\* Mutants of Iterate: the cap is off by one; the window never rolls.
IterateOffByOne(age, beats, s, n) ==
  LET start == IF age >= OneHour THEN 0 ELSE age
      count == IF age >= OneHour THEN 0 ELSE beats
  IN /\ windowAge' = start /\ beatsInWindow' = count
     /\ IF count > MaxPerHour THEN AwaitRoll(start, s, n) ELSE AwaitBeat(s, n)
IterateNeverRolls(age, beats, s, n) ==
  /\ windowAge' = age /\ beatsInWindow' = beats
  /\ IF beats >= MaxPerHour THEN AwaitRoll(age, s, n) ELSE AwaitBeat(s, n)

\* The top of the loop, up to its sleep: roll the window, respect the cap, else ask
\* for the next interval.  age and beats are those of the window, s and n the state
\* of the adaptive interval.
Iterate(age, beats, s, n) ==
  LET start == IF age >= OneHour THEN 0 ELSE age
      count == IF age >= OneHour THEN 0 ELSE beats
  IN /\ windowAge' = start /\ beatsInWindow' = count
     /\ \/ count >= MaxPerHour /\ AwaitRoll(start, s, n)
        \/ count < MaxPerHour /\ AwaitBeat(s, n)

Ends == pc' = "ended" /\ UNCHANGED <<sh, net, sleepFor, windowAge, beatsInWindow>>

\* The loop's while (!signal.aborted).
LoopOrEnd(age, beats) == IF aborted THEN Ends ELSE Iterate(age, beats, sh, net)

\* store.load answers; an absent entry is replaced by a fresh one.
Load ==
  /\ pc = "loading" /\ inTime
  /\ LET loaded == IF store = NoEntry THEN freshNetInfo ELSE store
     IN IF aborted THEN pc' = "ended" /\ net' = loaded
                        /\ UNCHANGED <<sh, sleepFor, windowAge, beatsInWindow>>
                   ELSE Iterate(0, 0, freshHeartbeat, loaded)
  /\ fails' = 0
  /\ UNCHANGED <<aborted, inTime, store, lastOk, watch, stableFor>>

\* store.load or store.save rejects (Redis unreachable, or the command issued after
\* stop() quit the connection): start() throws and the loop is over.
StoreFails ==
  /\ pc \in {"loading", "saving"}
  /\ Ends
  /\ UNCHANGED <<aborted, inTime, store, fails, lastOk, watch, stableFor>>

\* abort() rejects the sleep.
SleepAborted ==
  /\ pc \in {"sleeping", "capped"} /\ aborted
  /\ Ends
  /\ UNCHANGED <<aborted, inTime, store, fails, lastOk, watch, stableFor>>

\* Mutant of BeatStarts: signal.aborted is not read after the sleep.
BeatStartsUnchecked ==
  /\ pc = "sleeping"
  /\ pc' = "beating"
  /\ sh' = [sh EXCEPT !.isWait = TRUE]
  /\ UNCHANGED <<aborted, inTime, net, store, sleepFor, beatsInWindow, fails, lastOk, clockVars>>

\* The sleep is over: announce the beat and send it.
BeatStarts ==
  /\ pc = "sleeping" /\ ~aborted
  /\ pc' = "beating"
  /\ sh' = [sh EXCEPT !.isWait = TRUE]
  /\ \E over \in Overruns :
       /\ windowAge' = Aged(windowAge, sleepFor + over)
       /\ stableFor' = Settled(sleepFor + over)
       /\ watch' \in {FirstBeat, BeatCounted(Watched(sleepFor + over))}
  /\ UNCHANGED <<aborted, inTime, net, store, sleepFor, beatsInWindow, fails, lastOk>>

\* The cap's sleep is over: back to the top of the loop, which rolls the window.
CapWaits ==
  /\ pc = "capped" /\ ~aborted
  /\ \E over \in Overruns :
       /\ Iterate(Aged(windowAge, sleepFor + over), beatsInWindow, sh, net)
       /\ stableFor' = Settled(sleepFor + over) /\ watch' = Watched(sleepFor + over)
  /\ UNCHANGED <<aborted, inTime, store, fails, lastOk>>

\* The heartbeat request settles: learn from the result and start saving.  A request
\* that times out reports failOfTimeout; a success never does.
BeatSettles ==
  /\ pc = "beating"
  /\ pc' = "saving" /\ inTime' = ~aborted
  /\ \E success, timedOut \in BOOLEAN, over \in Overruns :
       /\ ~(success /\ timedOut)
       /\ sh' = shAfterResult(sh, success)
       /\ net' = netAfterResult(sh, net, success, timedOut)
       /\ lastOk' = success
       /\ windowAge' = Aged(windowAge, over)
       /\ stableFor' = Settled(over) /\ watch' = Watched(over)
  /\ UNCHANGED <<aborted, store, sleepFor, beatsInWindow, fails>>

\* Mutant of SaveSucceeds: the state from before the last result is not overwritten.
SaveDropped ==
  /\ pc = "saving" /\ inTime
  /\ LoopOrEnd(windowAge, beatsInWindow + 1)
  /\ UNCHANGED <<aborted, inTime, store, fails, lastOk, watch, stableFor>>

\* store.save answers: count the beat, and give up after too many failures in a row.
SaveSucceeds ==
  /\ pc = "saving" /\ inTime
  /\ store' = net
  /\ fails' = IF lastOk THEN 0 ELSE fails + 1
  /\ IF ~lastOk /\ fails + 1 >= MaxConsecutiveFailures
       THEN Ends
       ELSE LoopOrEnd(windowAge, beatsInWindow + 1)
  /\ UNCHANGED <<aborted, inTime, lastOk, watch, stableFor>>

\* stop(): abort, then quit the Redis connection, which answers what was issued before.
Stop ==
  /\ ~aborted
  /\ aborted' = TRUE
  /\ UNCHANGED <<pc, inTime, sh, net, store, sleepFor, beatsInWindow, fails, lastOk, clockVars>>

\* The process dies and a new one starts a new conductor.  Only Redis survives: the new
\* one knows nothing of the beats of the hour so far.  The time lost is that of an
\* overrun; were it longer, fewer beats would fit into the observed hour.
Restart ==
  /\ pc' = "loading" /\ aborted' = FALSE /\ inTime' = TRUE
  /\ sh' = freshHeartbeat /\ net' = freshNetInfo
  /\ sleepFor' = 0 /\ windowAge' = 0 /\ beatsInWindow' = 0 /\ fails' = 0
  /\ lastOk' = TRUE
  /\ \E down \in Overruns : watch' = StartCounted(Watched(down))
  /\ UNCHANGED <<store, stableFor>>

LoopStep == Load \/ StoreFails \/ SleepAborted \/ BeatStarts \/ CapWaits \/ BeatSettles \/ SaveSucceeds

Next == LoopStep \/ Stop \/ Restart

\* Timers fire, and the HTTP request and the Redis commands settle, one way or the other.
Spec == Init /\ [][Next]_vars
FairSpec == Spec /\ WF_vars(LoopStep)

-----------------------------------------------------------------------------
(* Properties.                                                             *)

TypeOK ==
  /\ pc \in {"loading", "sleeping", "capped", "beating", "saving", "ended"}
  /\ aborted \in BOOLEAN /\ inTime \in BOOLEAN /\ lastOk \in BOOLEAN
  /\ sh \in SmartState /\ net \in NetInfo /\ store \in NetInfo
  /\ sleepFor \in Nat /\ windowAge \in 0..OneHour
  /\ beatsInWindow \in 0..MaxPerHour /\ fails \in Nat
  /\ watch \in [age : 0..OneHour, beats : Nat, starts : Nat] /\ stableFor \in Nat

\* A learned interval lies between the minimum and the ceiling.
InRange(n) == MinHeart <= n.curHeart /\ n.curHeart <= Ceiling

\* "interval is always within [MIN, MAX - SuccessStep]": the interval the loop sleeps
\* on and the learned one, in memory and in Redis, never leave the range, whatever the
\* results, failures, saves and restarts.
IntervalInRange ==
  /\ InRange(net)
  /\ store # NoEntry => InRange(store)
  /\ MinHeart <= sh.lastHeart /\ sh.lastHeart <= Ceiling

\* Why the range holds: a stable interval is the ceiling or a whole step below it, so
\* the step up of reprobe stays in range.
RoomToProbe(n) == InRange(n) /\ (n.isStable => n.curHeart = Ceiling \/ n.curHeart <= Ceiling - SuccessStep)

IntervalInv ==
  /\ RoomToProbe(net)
  /\ store # NoEntry => RoomToProbe(store)
  /\ MinHeart <= sh.lastHeart /\ sh.lastHeart <= Ceiling

\* While the loop waits for its next beat, Redis holds all that has been learned, so a
\* crash at that point loses nothing.
StoreHoldsLearned ==
  pc \in {"sleeping", "capped", "beating"} => net = IF store = NoEntry THEN freshNetInfo ELSE store

\* The windows an hour may meet: one it begins in, the one that follows, and one for
\* every process that starts in it with an empty window.
CapsOf(starts) == (2 + starts) * MaxPerHour

\* What "Rolling-hour rate cap" comes to: the window tumbles and dies with its process,
\* so from any beat on one hour holds at most twice the cap, and the cap once more for
\* every restart in it.
HourWithinCaps == watch.beats <= CapsOf(watch.starts)

\* The beats of the window, the one under way included.
BeatsSoFar == IF pc \in {"beating", "saving"} THEN beatsInWindow + 1 ELSE beatsInWindow

\* Why no more: an observed hour lies in the current window, or began before it and then
\* is at least as old as the current window, which leaves the whole cap to that one.
WindowInv ==
  /\ beatsInWindow <= MaxPerHour
  /\ pc \in {"sleeping", "beating", "saving"} => beatsInWindow < MaxPerHour
  /\ pc = "loading" => beatsInWindow = 0 /\ windowAge = 0
  /\ watch # NotWatching => watch.age < OneHour
  /\ watch # NotWatching /\ pc # "ended" =>
       \/ watch.beats <= BeatsSoFar
       \/ watch.beats + MaxPerHour <= CapsOf(watch.starts) + BeatsSoFar /\ windowAge <= watch.age
  /\ HourWithinCaps

\* The inductive form of IntervalInRange, StoreHoldsLearned and HourWithinCaps.
LoopInv == IntervalInv /\ WindowInv /\ StoreHoldsLearned

\* After stop() no further heartbeat is sent, whichever await it interrupts.
NoBeatAfterStop == [][aborted /\ aborted' /\ pc # "beating" => pc' # "beating"]_vars

\* A conductor that sleeps, on an interval or on the hourly cap, beats again unless it
\* ends or the process dies: the cap never holds it for ever.
SleepEnds == (pc \in {"sleeping", "capped"}) ~> (pc \in {"beating", "ended", "loading"})

\* "Weekly re-probe": a stable interval is probed upwards only after a week of stability.
\* The code does not keep this: the time it is measured from is never set.
WeeklyReprobe ==
  [][net.isStable /\ ~net'.isStable /\ net'.curHeart > net.curHeart => stableFor >= OneWeek]_vars
=============================================================================
