---------------------------- MODULE AdapterProofs ----------------------------
(***************************************************************************)
(* The safety of the adapter, for any number of messages and of senders,   *)
(* any number of starts, breaks and restarts, a configured or a learned    *)
(* wxid, with or without a debouncer: its type, one standing subscription, *)
(* and the gate that keeps the bot's own messages from the agent.          *)
(***************************************************************************)
EXTENDS AdapterRuntime, FiniteSetTheorems, SequenceTheorems, TLAPS

-----------------------------------------------------------------------------
(* What travels to a runtime.                                              *)

ReadyFrames == [type : {"ready"}, told : BOOLEAN]
MessageFrames == [type : {"message"}, frame : Frames, told : BOOLEAN]
Wire == ReadyFrames \cup MessageFrames

IsReady(x) == x.type = "ready"
Told(x) == x.told = TRUE

\* A runtime whose connection is in s: a ready frame in s says what the connection was
\* told, and the wxid is known by the time a message comes that was sent behind it.
EchoOk(s, live, sawWxid, knows) ==
  /\ \A i \in 1..Len(s) : IsReady(s[i]) => live /\ (Told(s[i]) <=> sawWxid)
  /\ \A i \in 1..Len(s) : ~IsReady(s[i]) /\ Told(s[i]) =>
        sawWxid /\ (knows \/ \E j \in 1..Len(s) : j < i /\ IsReady(s[j]))
  /\ sawWxid => knows \/ \E j \in 1..Len(s) : IsReady(s[j])

\* A message frame is a frame; whether the wxid was told before it is its history.
LEMMA MessageIsWire ==
  ASSUME NEW f \in Frames, NEW t \in BOOLEAN
  PROVE  Message(f, t) \in Wire /\ ~IsReady(Message(f, t)) /\ (Told(Message(f, t)) <=> t)
<1>1. Message(f, t).type = "message" /\ Message(f, t).told = t
  BY DEF Message
<1>2. Message(f, t) \in MessageFrames
  BY DEF Message, MessageFrames
<1>3. QED
  BY <1>1, <1>2 DEF Wire, IsReady, Told

\* A ready frame is a frame; it tells the wxid when the server knows it.
LEMMA ReadyIsWire ==
  ASSUME known \in BOOLEAN
  PROVE  Ready \in Wire /\ IsReady(Ready) /\ (Told(Ready) <=> known)
<1>1. Ready.type = "ready" /\ Ready.told = known
  BY DEF Ready
<1>2. Ready \in ReadyFrames
  BY DEF Ready, ReadyFrames
<1>3. QED
  BY <1>1, <1>2 DEF Wire, IsReady, Told

\* The replay of a greeting: messages, behind the ready frame.
LEMMA ReplayFacts ==
  ASSUME known \in BOOLEAN
  PROVE  /\ Replay \in Seq(Wire)
         /\ \A i \in 1..Len(Replay) : ~IsReady(Replay[i]) /\ (Told(Replay[i]) <=> known)
<1> DEFINE T == {x \in Frames : row[x] = "undelivered"}
           S == {Message(f, known) : f \in T}
           n == Cardinality(S)
           g == [f \in T |-> Message(f, known)]
<1>1. IsFiniteSet(T)
  <2>1. IsFiniteSet(Frames)
    BY AdapterAssumption, FS_Interval DEF Frames
  <2>2. T \in SUBSET Frames
    OBVIOUS
  <2>3. QED
    BY <2>1, <2>2, FS_Subset
<1>2. g \in Surjection(T, S)
  BY DEF Surjection
<1>3. IsFiniteSet(S)
  <2> HIDE DEF T, S, g
  <2>1. QED
    BY <1>1, <1>2, FS_Surjection
<1>4. n \in Nat /\ ExistsBijection(1..n, S)
  <2> HIDE DEF S
  <2>1. QED
    BY <1>3, FS_CardinalityType
<1>5. \E f \in [1..n -> S] : IsInjective(f)
  BY <1>4 DEF ExistsBijection, Bijection, Injection
<1>6. Replay = SetToSeq(S)
  BY DEF Replay
<1>7. \A x \in S : x \in Wire /\ ~IsReady(x) /\ (Told(x) <=> known)
  BY MessageIsWire
<1> HIDE DEF S, n
<1>8. Replay \in [1..n -> S]
  BY <1>5, <1>6 DEF SetToSeq, n
<1>9. Replay \in Seq(S) /\ Len(Replay) = n
  BY <1>4, <1>8
<1>10. \A i \in 1..Len(Replay) : Replay[i] \in S
  BY <1>8, <1>9
<1>11. S \subseteq Wire
  BY <1>7
<1>12. Replay \in Seq(Wire)
  BY <1>9, <1>11, SeqMonotonic
<1>13. QED
  BY <1>7, <1>10, <1>12

\* With nothing on its way the condition on the frames of a connection holds.
LEMMA EchoEmpty ==
  ASSUME NEW live \in BOOLEAN, NEW knows \in BOOLEAN
  PROVE  EchoOk(<<>>, live, FALSE, knows)
<1>1. Len(<<>>) = 0
  OBVIOUS
<1>2. QED
  BY <1>1 DEF EchoOk

\* What is left of the frames when the first is taken.
LEMMA TailFacts ==
  ASSUME NEW s \in Seq(Wire), s # <<>>
  PROVE  /\ Head(s) \in Wire /\ Head(s) = s[1] /\ 1 \in 1..Len(s)
         /\ Tail(s) \in Seq(Wire) /\ Len(Tail(s)) = Len(s) - 1 /\ Len(s) \in Nat
         /\ \A i \in 1..Len(s) - 1 : Tail(s)[i] = s[i + 1]
<1>1. Len(s) \in Nat \ {0}
  BY EmptySeq
<1>2. QED
  BY <1>1, HeadTailProperties

\* The runtime reads the ready frame.
LEMMA EchoReady ==
  ASSUME NEW s \in Seq(Wire), s # <<>>, NEW live \in BOOLEAN, NEW sawWxid \in BOOLEAN,
         NEW knows \in BOOLEAN, EchoOk(s, live, sawWxid, knows), IsReady(Head(s))
  PROVE  EchoOk(Tail(s), live, sawWxid, Told(Head(s)))
<1> DEFINE t == Tail(s)
           n == Len(s)
<1>1. n \in Nat /\ 1 \in 1..n /\ Len(t) = n - 1 /\ \A i \in 1..n - 1 : t[i] = s[i + 1]
  BY TailFacts
<1>2. Told(Head(s)) <=> sawWxid
  BY <1>1, TailFacts DEF EchoOk
<1> HIDE DEF t, n
<1>3. \A i \in 1..n - 1 : i + 1 \in 1..n
  BY <1>1
<1>4. \A i \in 1..Len(t) : IsReady(t[i]) => live /\ (Told(t[i]) <=> sawWxid)
  BY <1>1, <1>3 DEF EchoOk, n
<1>5. \A i \in 1..Len(t) : ~IsReady(t[i]) /\ Told(t[i]) => sawWxid
  BY <1>1, <1>3 DEF EchoOk, n
<1>6. EchoOk(t, live, sawWxid, Told(Head(s)))
  BY <1>2, <1>4, <1>5 DEF EchoOk
<1>7. QED
  BY <1>6 DEF t

\* The runtime reads a message.
LEMMA EchoMessage ==
  ASSUME NEW s \in Seq(Wire), s # <<>>, NEW live \in BOOLEAN, NEW sawWxid \in BOOLEAN,
         NEW knows \in BOOLEAN, EchoOk(s, live, sawWxid, knows), ~IsReady(Head(s))
  PROVE  EchoOk(Tail(s), live, sawWxid, knows) /\ (Told(Head(s)) => knows)
<1> DEFINE t == Tail(s)
           n == Len(s)
<1>1. /\ n \in Nat /\ 1 \in 1..n /\ Len(t) = n - 1 /\ Head(s) = s[1]
      /\ \A i \in 1..n - 1 : t[i] = s[i + 1]
  BY TailFacts
<1>2. Told(Head(s)) => knows
  BY <1>1 DEF EchoOk
<1> HIDE DEF t, n
<1>3. \A i \in 1..n - 1 : i + 1 \in 1..n
  BY <1>1
<1>4. ASSUME NEW j \in 1..n, IsReady(s[j])
      PROVE  j - 1 \in 1..n - 1 /\ IsReady(t[j - 1])
  <2>1. j # 1
    BY <1>1, <1>4
  <2>2. j - 1 \in 1..n - 1 /\ (j - 1) + 1 = j
    BY <1>1, <2>1
  <2>3. QED
    BY <1>1, <1>4, <2>2
<1>5. \A i \in 1..Len(t) : IsReady(t[i]) => live /\ (Told(t[i]) <=> sawWxid)
  BY <1>1, <1>3 DEF EchoOk, n
<1>6. ASSUME NEW i \in 1..Len(t), ~IsReady(t[i]), Told(t[i]), ~knows
      PROVE  sawWxid /\ \E j \in 1..Len(t) : j < i /\ IsReady(t[j])
  <2>1. i + 1 \in 1..n /\ t[i] = s[i + 1]
    BY <1>1, <1>3
  <2>2. sawWxid /\ \E j \in 1..n : j < i + 1 /\ IsReady(s[j])
    BY <1>6, <2>1 DEF EchoOk, n
  <2>3. PICK j \in 1..n : j < i + 1 /\ IsReady(s[j])
    BY <2>2
  <2>4. j - 1 \in 1..Len(t) /\ j - 1 < i /\ IsReady(t[j - 1])
    BY <1>1, <1>4, <2>3
  <2>5. QED
    BY <2>2, <2>4
<1>7. ASSUME sawWxid, ~knows
      PROVE  \E j \in 1..Len(t) : IsReady(t[j])
  <2>1. PICK j \in 1..n : IsReady(s[j])
    BY <1>7 DEF EchoOk, n
  <2>2. QED
    BY <1>1, <1>4, <2>1
<1>8. \A i \in 1..Len(t) : ~IsReady(t[i]) /\ Told(t[i]) =>
        sawWxid /\ (knows \/ \E j \in 1..Len(t) : j < i /\ IsReady(t[j]))
  <2>1. \A i \in 1..Len(t) : ~IsReady(t[i]) /\ Told(t[i]) => sawWxid
    BY <1>1, <1>3 DEF EchoOk, n
  <2>2. QED
    BY <1>6, <2>1
<1>9. EchoOk(t, live, sawWxid, knows)
  BY <1>5, <1>7, <1>8 DEF EchoOk
<1>10. QED
  BY <1>2, <1>9 DEF t

\* A message is broadcast to the connection.
LEMMA EchoAppend ==
  ASSUME NEW s \in Seq(Wire), NEW live \in BOOLEAN, NEW sawWxid \in BOOLEAN,
         NEW knows \in BOOLEAN, EchoOk(s, live, sawWxid, knows), NEW m \in Wire,
         ~IsReady(m), Told(m) <=> sawWxid
  PROVE  EchoOk(Append(s, m), live, sawWxid, knows)
<1> DEFINE t == Append(s, m)
           n == Len(s)
<1>1. n \in Nat /\ Len(t) = n + 1 /\ t[n + 1] = m /\ \A i \in 1..n : t[i] = s[i]
  BY AppendProperties, LenProperties
<1> HIDE DEF t
<1>2. \A i \in 1..n : IsReady(t[i]) => live /\ (Told(t[i]) <=> sawWxid)
  BY <1>1 DEF EchoOk
<1>3. \A i \in 1..n : ~IsReady(t[i]) /\ Told(t[i]) =>
        sawWxid /\ (knows \/ \E j \in 1..n : j < i /\ IsReady(t[j]))
  BY <1>1 DEF EchoOk
<1>4. sawWxid => knows \/ \E j \in 1..n : IsReady(t[j])
  BY <1>1 DEF EchoOk
<1> HIDE DEF n
<1>5. \A i \in 1..Len(t) : i \in 1..n \/ i = n + 1
  BY <1>1
<1>6. \A j \in 1..n : j \in 1..Len(t) /\ j < n + 1
  BY <1>1
<1>7. \A i \in 1..Len(t) : ~IsReady(t[i]) /\ Told(t[i]) =>
        sawWxid /\ (knows \/ \E j \in 1..Len(t) : j < i /\ IsReady(t[j]))
  BY <1>1, <1>3, <1>4, <1>5, <1>6
<1>8. \A i \in 1..Len(t) : IsReady(t[i]) => live /\ (Told(t[i]) <=> sawWxid)
  BY <1>1, <1>2, <1>5
<1>9. EchoOk(t, live, sawWxid, knows)
  BY <1>4, <1>6, <1>7, <1>8 DEF EchoOk
<1>10. QED
  BY <1>9 DEF t

\* The greeting is sent behind what was broadcast before it.
LEMMA EchoGreet ==
  ASSUME NEW s \in Seq(Wire), NEW knows \in BOOLEAN, EchoOk(s, FALSE, FALSE, knows),
         known \in BOOLEAN
  PROVE  s \o Greeting \in Seq(Wire) /\ EchoOk(s \o Greeting, TRUE, known, knows)
<1> DEFINE r == Replay
           g == <<Ready>> \o r
           t == s \o g
           n == Len(s)
<1>1. /\ r \in Seq(Wire) /\ Len(r) \in Nat
      /\ \A i \in 1..Len(r) : ~IsReady(r[i]) /\ (Told(r[i]) <=> known)
  BY ReplayFacts, LenProperties
<1>2. /\ <<Ready>> \in Seq(Wire) /\ Len(<<Ready>>) = 1 /\ <<Ready>>[1] = Ready
      /\ IsReady(Ready) /\ (Told(Ready) <=> known)
  BY ReadyIsWire
<1> HIDE DEF r
<1>3. /\ g \in Seq(Wire) /\ Len(g) = 1 + Len(r)
      /\ \A i \in 1..Len(<<Ready>>) + Len(r) :
           g[i] = IF i <= Len(<<Ready>>) THEN <<Ready>>[i] ELSE r[i - Len(<<Ready>>)]
  BY <1>1, <1>2, ConcatProperties
<1> HIDE DEF g
<1>4. /\ t \in Seq(Wire) /\ Len(t) = n + Len(g) /\ n \in Nat
      /\ \A i \in 1..n + Len(g) : t[i] = IF i <= n THEN s[i] ELSE g[i - n]
  <2>1. n \in Nat
    BY LenProperties
  <2>2. t \in Seq(Wire) /\ Len(t) = n + Len(g)
    BY <1>3, ConcatProperties
  <2>3. \A i \in 1..n + Len(g) : t[i] = IF i <= n THEN s[i] ELSE g[i - n]
    BY <1>3, ConcatProperties
  <2>4. QED
    BY <2>1, <2>2, <2>3
<1> HIDE DEF t
<1>5. \A i \in 1..n : t[i] = s[i] /\ ~IsReady(t[i]) /\ ~Told(t[i])
  <2>1. \A i \in 1..n : i \in 1..n + Len(g) /\ i <= n
    BY <1>1, <1>3, <1>4
  <2>2. QED
    BY <1>4, <2>1 DEF EchoOk
<1> HIDE DEF n
<1>6. t[n + 1] = Ready /\ n + 1 \in 1..Len(t)
  <2>1. n + 1 \in 1..n + Len(g) /\ ~(n + 1 <= n) /\ (n + 1) - n = 1
    BY <1>1, <1>3, <1>4
  <2>2. t[n + 1] = g[1]
    BY <1>4, <2>1
  <2>3. g[1] = Ready
    BY <1>1, <1>2, <1>3
  <2>4. QED
    BY <1>4, <2>1, <2>2, <2>3
<1>7. ASSUME NEW i \in 1..Len(t), i > n + 1
      PROVE  ~IsReady(t[i]) /\ (Told(t[i]) <=> known)
  <2>1. i - n \in 1..1 + Len(r) /\ ~(i <= n) /\ ~(i - n <= 1) /\ i - n - 1 \in 1..Len(r)
    BY <1>1, <1>3, <1>4, <1>7
  <2>2. t[i] = g[i - n]
    BY <1>4, <2>1
  <2>3. g[i - n] = r[i - n - 1]
    BY <1>2, <1>3, <2>1
  <2>4. QED
    BY <1>1, <2>1, <2>2, <2>3
<1>8. \A i \in 1..Len(t) : i \in 1..n \/ i = n + 1 \/ i > n + 1
  BY <1>4
<1>9. \A i \in 1..Len(t) : IsReady(t[i]) => i = n + 1 /\ (Told(t[i]) <=> known)
  BY <1>2, <1>5, <1>6, <1>7, <1>8
<1>10. \A i \in 1..Len(t) : ~IsReady(t[i]) /\ Told(t[i]) => known /\ n + 1 < i
  BY <1>2, <1>4, <1>5, <1>6, <1>7, <1>8
<1>11. EchoOk(t, TRUE, known, knows)
  BY <1>2, <1>6, <1>9, <1>10 DEF EchoOk
<1>12. QED
  BY <1>4, <1>11 DEF t, g, r, Greeting

-----------------------------------------------------------------------------
(* The invariant.                                                          *)

\* The types of the connections, the wire's and the acks' included, which TypeOK leaves out.
LinkTypes ==
  /\ conn \in [Runtimes -> Wanting \cup {"none", "closing"}]
  /\ sub \in [Runtimes -> {"none", "fresh", "live"}]
  /\ down \in [Runtimes -> Seq(Wire)]
  /\ up \in [Runtimes -> SUBSET Frames]
  /\ told \in [Runtimes -> BOOLEAN] /\ selfWxid \in [Runtimes -> BOOLEAN]

\* A runtime without a connection has nothing of one, and the server has a subscriber
\* exactly while the socket is connected.
Idle(g) == sub[g] = "none" /\ down[g] = <<>> /\ up[g] = {} /\ ~told[g]

LinkInv ==
  \A g \in Runtimes : /\ conn[g] \notin Connected => Idle(g)
                      /\ conn[g] \in Connected => sub[g] # "none"
                      /\ sub[g] # "live" => ~told[g]

HostTypes ==
  /\ host \in {"idle", "running"} /\ started \in 0..MaxStarts /\ current \in 0..started
  /\ breaks \in 0..MaxBreaks

FateTypes ==
  /\ known \in BOOLEAN /\ row \in [Frames -> {"absent", "undelivered", "delivered"}]
  /\ from \in [Frames -> Senders]
  /\ held \in [Runtimes -> SUBSET Frames] /\ latest \in [Runtimes -> SUBSET Frames]
  /\ \A g \in Runtimes : latest[g] \subseteq held[g]
  /\ handled \subseteq Frames /\ joined \subseteq Frames

EchoInv == \A g \in Runtimes : EchoOk(down[g], sub[g] = "live", told[g], selfWxid[g])

\* A runtime that was not started yet has no socket.
FutureInv == \A g \in Runtimes : g > started => conn[g] = "none"

BaseInv == LinkTypes /\ LinkInv /\ HostTypes /\ FutureInv /\ FateTypes

\* The steps that touch nothing of the connections.
Linkless == UNCHANGED <<conn, sub, down, up, told, selfWxid>>

\* Such a step keeps the invariants of the connections.
LEMMA LinklessKeeps ==
  ASSUME Linkless, LinkTypes, LinkInv, EchoInv
  PROVE  LinkTypes' /\ LinkInv' /\ EchoInv'
  BY DEF Linkless, LinkTypes, LinkInv, Idle, EchoInv, EchoOk

\* A step that changes the connection of g only.
Only(g) ==
  \A e \in Runtimes \ {g} :
    /\ conn'[e] = conn[e] /\ sub'[e] = sub[e] /\ down'[e] = down[e] /\ up'[e] = up[e]
    /\ (told'[e] <=> told[e]) /\ (selfWxid'[e] <=> selfWxid[e])

\* Such a step keeps them when it leaves the connection of g sound.
LEMMA OnlyKeeps ==
  ASSUME LinkTypes', LinkInv, EchoInv, NEW g \in Runtimes, Only(g),
         conn'[g] \notin Connected => Idle(g)', conn'[g] \in Connected => sub'[g] # "none",
         sub'[g] # "live" => ~told'[g],
         EchoOk(down'[g], sub'[g] = "live", told'[g], selfWxid'[g])
  PROVE  LinkInv' /\ EchoInv'
<1>1. LinkInv'
  BY DEF LinkInv, Only, Idle
<1>2. ASSUME NEW e \in Runtimes
      PROVE  EchoOk(down'[e], sub'[e] = "live", told'[e], selfWxid'[e])
  <2>1. CASE e = g
    BY <2>1
  <2>2. CASE e # g
    <3>1. EchoOk(down[e], sub[e] = "live", told[e], selfWxid[e])
      BY DEF EchoInv
    <3>2. /\ sub'[e] = sub[e] /\ down'[e] = down[e]
          /\ (told'[e] <=> told[e]) /\ (selfWxid'[e] <=> selfWxid[e])
      BY <2>2 DEF Only
    <3>3. QED
      BY <3>1, <3>2 DEF EchoOk
  <2>3. QED
    BY <2>1, <2>2
<1>3. QED
  BY <1>1, <1>2 DEF EchoInv

\* The connections of G are gone.
LEMMA DisconnectKeeps ==
  ASSUME LinkTypes, LinkInv, EchoInv, NEW G \in SUBSET Runtimes, Disconnect(G), UNCHANGED selfWxid
  PROVE  LinkTypes' /\ LinkInv' /\ EchoInv'
<1>1. <<>> \in Seq(Wire)
  OBVIOUS
<1>2. LinkTypes'
  <2>1. conn' \in [Runtimes -> Wanting \cup {"none", "closing"}]
    BY DEF LinkTypes, Disconnect, AfterClose, Wanting
  <2>2. /\ sub' \in [Runtimes -> {"none", "fresh", "live"}] /\ down' \in [Runtimes -> Seq(Wire)]
        /\ up' \in [Runtimes -> SUBSET Frames]
    BY <1>1 DEF LinkTypes, Disconnect, Unsubscribe
  <2>3. told' \in [Runtimes -> BOOLEAN] /\ selfWxid' \in [Runtimes -> BOOLEAN]
    <3>1. \A g \in Runtimes : (g \notin G /\ told[g]) \in BOOLEAN
      OBVIOUS
    <3>2. told' = [g \in Runtimes |-> g \notin G /\ told[g]] /\ selfWxid' = selfWxid
      BY DEF Disconnect
    <3>3. QED
      BY <3>1, <3>2 DEF LinkTypes
  <2>4. QED
    BY <2>1, <2>2, <2>3 DEF LinkTypes
<1>3. ASSUME NEW g \in Runtimes
      PROVE  /\ conn'[g] = IF g \in G THEN AfterClose(conn[g]) ELSE conn[g]
             /\ sub'[g] = IF g \in G THEN "none" ELSE sub[g]
             /\ down'[g] = IF g \in G THEN <<>> ELSE down[g]
             /\ up'[g] = IF g \in G THEN {} ELSE up[g]
             /\ (told'[g] <=> g \notin G /\ told[g])
  BY DEF Disconnect, Unsubscribe
<1>4. LinkInv'
  BY <1>3 DEF LinkInv, Idle, AfterClose, Connected
<1>5. ASSUME NEW g \in Runtimes, g \in G
      PROVE  EchoOk(down'[g], sub'[g] = "live", told'[g], selfWxid'[g])
  <2>1. down'[g] = <<>> /\ ~told'[g]
    BY <1>3, <1>5
  <2>2. Len(<<>>) = 0
    OBVIOUS
  <2>3. QED
    BY <2>1, <2>2 DEF EchoOk
<1>6. ASSUME NEW g \in Runtimes, g \notin G
      PROVE  EchoOk(down'[g], sub'[g] = "live", told'[g], selfWxid'[g])
  BY <1>3, <1>6 DEF EchoInv, EchoOk
<1>7. QED
  BY <1>2, <1>4, <1>5, <1>6 DEF EchoInv

\* The invariants of the connections hold before the first start.
LEMMA InitLink == Init => LinkTypes /\ LinkInv /\ EchoInv
<1> SUFFICES ASSUME Init PROVE LinkTypes /\ LinkInv /\ EchoInv
  OBVIOUS
<1>1. <<>> \in Seq(Wire) /\ Len(<<>>) = 0
  OBVIOUS
<1>2. LinkTypes
  BY <1>1 DEF Init, LinkTypes, Wanting
<1>3. LinkInv
  BY DEF Init, LinkInv, Idle, Connected
<1>4. EchoInv
  BY <1>1 DEF Init, EchoInv, EchoOk
<1>5. QED
  BY <1>2, <1>3, <1>4

\* Every step keeps the invariants of the connections.
LEMMA LinkStep ==
  ASSUME LinkTypes, LinkInv, EchoInv, HostTypes, FutureInv, FateTypes, [Next]_vars
  PROVE  LinkTypes' /\ LinkInv' /\ EchoInv'
<1> DEFINE Good == LinkTypes' /\ LinkInv' /\ EchoInv'
<1> SUFFICES Good
  OBVIOUS
<1> USE DEF Wanting, Connected
<1>0. \A g \in Runtimes : /\ down[g] \in Seq(Wire) /\ up[g] \in SUBSET Frames
                          /\ told[g] \in BOOLEAN /\ selfWxid[g] \in BOOLEAN
                          /\ EchoOk(down[g], sub[g] = "live", told[g], selfWxid[g])
                          /\ (sub[g] = "live") \in BOOLEAN
  BY DEF LinkTypes, EchoInv
<1>1. CASE StartAccount
  <2> DEFINE g == started + 1
  <2>1. g \in Runtimes
    BY <1>1, AdapterAssumption DEF StartAccount, HostTypes, Runtimes
  <2> HIDE DEF g
  <2>2. conn' = [conn EXCEPT ![g] = "opening"] /\ UNCHANGED <<sub, down, up, told, selfWxid>>
    BY <1>1 DEF StartAccount, g
  <2>3. LinkTypes'
    BY <2>2 DEF LinkTypes
  <2>4. LinkInv'
    <3>1. g > started
      BY DEF g, HostTypes
    <3>2. conn[g] = "none" /\ Idle(g)
      BY <2>1, <3>1 DEF FutureInv, LinkInv
    <3>3. QED
      BY <2>1, <2>2, <3>2 DEF LinkInv, Idle, LinkTypes
  <2>5. EchoInv'
    BY <2>2 DEF EchoInv, EchoOk
  <2>6. QED
    BY <2>3, <2>4, <2>5
<1>2. CASE StopWcppRuntime
  <2>1. /\ conn' = [g \in Runtimes |-> IF g = current THEN Closed(conn[g]) ELSE conn[g]]
        /\ UNCHANGED <<sub, down, up, told, selfWxid>>
    BY <1>2 DEF StopWcppRuntime
  <2>2. LinkTypes'
    BY <2>1 DEF LinkTypes, Closed
  <2>3. LinkInv'
    BY <2>1 DEF LinkInv, Idle, LinkTypes, Closed
  <2>4. EchoInv'
    BY <2>1 DEF EchoInv, EchoOk
  <2>5. QED
    BY <2>2, <2>3, <2>4
<1>3. CASE AdapterDies
  <2>1. /\ conn' = [g \in Runtimes |-> "none"] /\ sub' = [g \in Runtimes |-> "none"]
        /\ down' = [g \in Runtimes |-> <<>>] /\ up' = [g \in Runtimes |-> {}]
        /\ told' = [g \in Runtimes |-> FALSE] /\ selfWxid' = [g \in Runtimes |-> FALSE]
    BY <1>3 DEF AdapterDies
  <2>2. <<>> \in Seq(Wire) /\ Len(<<>>) = 0
    OBVIOUS
  <2>3. LinkTypes'
    BY <2>1, <2>2 DEF LinkTypes
  <2>4. LinkInv'
    BY <2>1 DEF LinkInv, Idle
  <2>5. EchoInv'
    BY <2>1, <2>2 DEF EchoInv, EchoOk
  <2>6. QED
    BY <2>3, <2>4, <2>5
<1>4. CASE MiddlewareRestarts
  <2>1. Disconnect(Runtimes) /\ UNCHANGED selfWxid
    BY <1>4 DEF MiddlewareRestarts
  <2>2. QED
    BY <2>1, DisconnectKeeps
<1>5. ASSUME NEW g \in Runtimes, Break(g) \/ CloseEnds(g)
      PROVE  Good
  <2>1. Disconnect({g}) /\ UNCHANGED selfWxid /\ {g} \in SUBSET Runtimes
    BY <1>5 DEF Break, CloseEnds
  <2>2. QED
    BY <2>1, DisconnectKeeps
<1>6. ASSUME NEW g \in Runtimes, Subscribe(g)
      PROVE  Good
  <2>1. /\ conn[g] = "opening" /\ conn' = [conn EXCEPT ![g] = "open"]
        /\ sub' = [sub EXCEPT ![g] = "fresh"] /\ UNCHANGED <<down, up, told, selfWxid>>
    BY <1>6 DEF Subscribe
  <2>2. LinkTypes'
    BY <2>1 DEF LinkTypes
  <2>3. Only(g) /\ conn'[g] = "open" /\ sub'[g] = "fresh"
    BY <2>1 DEF LinkTypes, Only
  <2>4. Idle(g)
    BY <2>1 DEF LinkInv
  <2>5. EchoOk(down'[g], sub'[g] = "live", told'[g], selfWxid'[g])
    <3>1. down'[g] = <<>> /\ ~told'[g] /\ Len(<<>>) = 0
      BY <2>1, <2>4 DEF Idle
    <3>2. QED
      BY <3>1 DEF EchoOk
  <2>6. ~told'[g]
    BY <2>1, <2>4 DEF Idle
  <2>7. QED
    BY <2>2, <2>3, <2>5, <2>6, OnlyKeeps
<1>7. ASSUME NEW g \in Runtimes, Reconnect(g)
      PROVE  Good
  <2>1. /\ conn[g] = "backoff" /\ conn' = [conn EXCEPT ![g] = "opening"]
        /\ UNCHANGED <<sub, down, up, told, selfWxid>>
    BY <1>7 DEF Reconnect
  <2>2. LinkTypes'
    BY <2>1 DEF LinkTypes
  <2>3. LinkInv'
    BY <2>1 DEF LinkInv, Idle, LinkTypes
  <2>4. EchoInv'
    BY <2>1 DEF EchoInv, EchoOk
  <2>5. QED
    BY <2>2, <2>3, <2>4
<1>8. ASSUME NEW g \in Runtimes, Greet(g)
      PROVE  Good
  <2> DEFINE d == down[g] \o Greeting
  <2>1. /\ sub[g] = "fresh" /\ sub' = [sub EXCEPT ![g] = "live"]
        /\ down' = [down EXCEPT ![g] = d] /\ told' = [told EXCEPT ![g] = known]
        /\ UNCHANGED <<conn, up, selfWxid>>
    BY <1>8 DEF Greet
  <2>2. ~told[g] /\ conn[g] \in Connected
    BY <2>1 DEF LinkInv, Idle
  <2>3. EchoOk(down[g], FALSE, FALSE, selfWxid[g])
    BY <1>0, <2>1, <2>2 DEF EchoOk
  <2>4. known \in BOOLEAN
    BY DEF FateTypes
  <2>5. d \in Seq(Wire) /\ EchoOk(d, TRUE, known, selfWxid[g])
    BY <1>0, <2>3, <2>4, EchoGreet
  <2> HIDE DEF d
  <2>6. LinkTypes'
    BY <2>1, <2>4, <2>5 DEF LinkTypes
  <2>7. /\ Only(g) /\ conn'[g] \in Connected /\ sub'[g] = "live" /\ down'[g] = d
        /\ (told'[g] <=> known) /\ (selfWxid'[g] <=> selfWxid[g])
    BY <2>1, <2>2 DEF LinkTypes, Only
  <2>8. EchoOk(down'[g], sub'[g] = "live", told'[g], selfWxid'[g])
    BY <2>5, <2>7 DEF EchoOk
  <2>9. QED
    BY <2>6, <2>7, <2>8, OnlyKeeps
<1>9. ASSUME NEW g \in Runtimes, OnReady(g)
      PROVE  Good
  <2> DEFINE h == Head(down[g])
  <2>1. /\ conn[g] \in Connected /\ down[g] # <<>> /\ IsReady(h)
        /\ down' = [down EXCEPT ![g] = Tail(down[g])]
        /\ selfWxid' = [selfWxid EXCEPT ![g] = h.told]
        /\ UNCHANGED <<conn, sub, up, told>>
    BY <1>9 DEF OnReady, IsReady
  <2>2. h \in Wire /\ Tail(down[g]) \in Seq(Wire)
    BY <1>0, <2>1, TailFacts
  <2>3. h.told \in BOOLEAN
    BY <2>2 DEF Wire, ReadyFrames, MessageFrames
  <2>4. EchoOk(Tail(down[g]), sub[g] = "live", told[g], Told(h))
    BY <1>0, <2>1, EchoReady
  <2> HIDE DEF h
  <2>5. LinkTypes'
    BY <2>1, <2>2, <2>3 DEF LinkTypes
  <2>6. /\ Only(g) /\ conn'[g] = conn[g] /\ sub'[g] = sub[g] /\ down'[g] = Tail(down[g])
        /\ (told'[g] <=> told[g]) /\ (selfWxid'[g] <=> Told(h))
    BY <2>1, <2>3 DEF LinkTypes, Only, Told
  <2>7. EchoOk(down'[g], sub'[g] = "live", told'[g], selfWxid'[g])
    BY <2>4, <2>6 DEF EchoOk
  <2>8. sub'[g] # "none" /\ (sub'[g] # "live" => ~told'[g])
    BY <2>1, <2>6 DEF LinkInv
  <2>9. QED
    BY <2>1, <2>5, <2>6, <2>7, <2>8, OnlyKeeps
<1>10. ASSUME NEW g \in Runtimes, OnMessage(g)
       PROVE  Good
  <2> DEFINE h == Head(down[g])
             f == h.frame
  <2>1. /\ conn[g] \in Connected /\ down[g] # <<>> /\ h.type = "message"
        /\ down' = [down EXCEPT ![g] = Tail(down[g])]
        /\ up' = IF conn[g] = "open" /\ row[f] # "delivered" THEN [up EXCEPT ![g] = @ \cup {f}] ELSE up
        /\ UNCHANGED <<conn, sub, told, selfWxid>>
    BY <1>10 DEF OnMessage
  <2>2. h \in Wire /\ Tail(down[g]) \in Seq(Wire)
    BY <1>0, <2>1, TailFacts
  <2>3. f \in Frames /\ ~IsReady(h)
    BY <2>1, <2>2 DEF Wire, ReadyFrames, MessageFrames, IsReady
  <2>4. EchoOk(Tail(down[g]), sub[g] = "live", told[g], selfWxid[g])
    BY <1>0, <2>1, <2>3, EchoMessage
  <2> HIDE DEF h, f
  <2>5. LinkTypes'
    BY <2>1, <2>2, <2>3 DEF LinkTypes
  <2>6. /\ Only(g) /\ conn'[g] = conn[g] /\ sub'[g] = sub[g] /\ down'[g] = Tail(down[g])
        /\ (told'[g] <=> told[g]) /\ (selfWxid'[g] <=> selfWxid[g])
    BY <2>1 DEF LinkTypes, Only
  <2>7. EchoOk(down'[g], sub'[g] = "live", told'[g], selfWxid'[g])
    BY <2>4, <2>6 DEF EchoOk
  <2>8. sub'[g] # "none" /\ (sub'[g] # "live" => ~told'[g])
    BY <2>1, <2>6 DEF LinkInv
  <2>9. QED
    BY <2>1, <2>5, <2>6, <2>7, <2>8, OnlyKeeps
<1>11. ASSUME NEW g \in Runtimes, NEW f \in Frames, AckArrives(g, f)
       PROVE  Good
  <2>1. up' = [e \in Runtimes |-> up[e] \ {f}] /\ UNCHANGED <<conn, sub, down, told, selfWxid>>
    BY <1>11 DEF AckArrives
  <2>2. LinkTypes'
    BY <2>1 DEF LinkTypes
  <2>3. LinkInv'
    BY <2>1 DEF LinkInv, Idle, LinkTypes
  <2>4. EchoInv'
    BY <2>1 DEF EchoInv, EchoOk
  <2>5. QED
    BY <2>2, <2>3, <2>4
<1>12. ASSUME NEW f \in Frames, Record(f)
       PROVE  Good
  <2> DEFINE m(g) == Message(f, told[g])
  <2>1. /\ down' = [g \in Runtimes |-> IF sub[g] = "none" THEN down[g] ELSE Append(down[g], m(g))]
        /\ UNCHANGED <<conn, sub, up, told, selfWxid>>
    BY <1>12 DEF Record
  <2>2. \A g \in Runtimes : m(g) \in Wire /\ ~IsReady(m(g)) /\ (Told(m(g)) <=> told[g])
    BY <1>0, MessageIsWire
  <2> HIDE DEF m
  <2>3. ASSUME NEW g \in Runtimes
        PROVE  /\ Append(down[g], m(g)) \in Seq(Wire)
               /\ EchoOk(Append(down[g], m(g)), sub[g] = "live", told[g], selfWxid[g])
    <3>1. /\ down[g] \in Seq(Wire) /\ m(g) \in Wire /\ ~IsReady(m(g)) /\ (Told(m(g)) <=> told[g])
          /\ told[g] \in BOOLEAN /\ selfWxid[g] \in BOOLEAN /\ (sub[g] = "live") \in BOOLEAN
      BY <1>0, <2>2
    <3>2. EchoOk(down[g], sub[g] = "live", told[g], selfWxid[g])
      BY <1>0
    <3>3. Append(down[g], m(g)) \in Seq(Wire)
      BY <3>1, AppendProperties
    <3>4. EchoOk(Append(down[g], m(g)), sub[g] = "live", told[g], selfWxid[g])
      BY <3>1, <3>2, EchoAppend
    <3>5. QED
      BY <3>3, <3>4
  <2>4. LinkTypes'
    <3>1. down' \in [Runtimes -> Seq(Wire)]
      BY <1>0, <2>1, <2>3
    <3>2. QED
      BY <2>1, <3>1 DEF LinkTypes
  <2>5. LinkInv'
    BY <2>1 DEF LinkInv, Idle
  <2>6. EchoInv'
    BY <1>0, <2>1, <2>3 DEF EchoInv
  <2>7. QED
    BY <2>4, <2>5, <2>6
<1>13. CASE LearnWxid \/ (\E g \in Runtimes, k \in Senders : Flush(g, k)) \/ UNCHANGED vars
  <2>1. Linkless
    BY <1>13 DEF LearnWxid, Flush, vars, linkVars, Linkless
  <2>2. QED
    BY <2>1, LinklessKeeps
<1> HIDE DEF Good
<1>14. CASE \E g \in Runtimes : Progress(g) \/ Break(g) \/ CloseEnds(g)
  BY <1>5, <1>6, <1>7, <1>8, <1>9, <1>10, <1>11, <1>14 DEF Progress, Receive
<1>15. QED
  BY <1>1, <1>2, <1>3, <1>4, <1>12, <1>13, <1>14 DEF Next

-----------------------------------------------------------------------------
(* The gateway: one standing subscription.                                 *)

\* Only the runtime in the bridges map connects, or will connect again.
OneConnects == \A g \in Runtimes : conn[g] \in Wanting => g = current /\ host = "running"

\* No socket comes up but by a start.
Quiet ==
  /\ UNCHANGED hostVars
  /\ \A g \in Runtimes : /\ conn'[g] \in Wanting => conn[g] \in Wanting
                         /\ conn[g] = "none" => conn'[g] = "none"

\* Without a start no second runtime connects.
LEMMA QuietKeeps ==
  ASSUME Quiet, FutureInv, OneConnects
  PROVE  FutureInv' /\ OneConnects'
  BY DEF Quiet, hostVars, FutureInv, OneConnects

\* Disconnecting brings no socket up.
LEMMA DisconnectQuiet ==
  ASSUME NEW G \in SUBSET Runtimes, Disconnect(G), UNCHANGED hostVars
  PROVE  Quiet
  BY DEF Disconnect, AfterClose, Quiet, Wanting

\* Every step keeps the gateway consistent, and one runtime connecting.
LEMMA HostStep ==
  ASSUME LinkTypes, HostTypes, FutureInv, OneConnects, [Next]_vars
  PROVE  HostTypes' /\ FutureInv' /\ OneConnects'
<1> DEFINE Good == FutureInv' /\ OneConnects'
<1>1. HostTypes'
  <2>1. CASE StartAccount
    BY <2>1, AdapterAssumption DEF StartAccount, HostTypes
  <2>2. CASE StopWcppRuntime \/ AdapterDies
    BY <2>2 DEF StopWcppRuntime, AdapterDies, HostTypes
  <2>3. CASE MiddlewareRestarts \/ \E g \in Runtimes : Break(g)
    <3>1. UNCHANGED hostVars /\ breaks < MaxBreaks /\ breaks' = breaks + 1
      BY <2>3 DEF MiddlewareRestarts, Break
    <3>2. QED
      BY <3>1, AdapterAssumption DEF HostTypes, hostVars
  <2>4. CASE \/ LearnWxid \/ UNCHANGED vars \/ \E f \in Frames : Record(f)
             \/ \E g \in Runtimes, k \in Senders : Flush(g, k)
             \/ \E g \in Runtimes : Progress(g) \/ CloseEnds(g)
    <3>1. UNCHANGED <<hostVars, breaks>>
      BY <2>4 DEF LearnWxid, vars, Record, Flush, Progress, CloseEnds, Subscribe, Reconnect, Greet,
                  Receive, OnReady, OnMessage, AckArrives
    <3>2. QED
      BY <3>1 DEF HostTypes, hostVars
  <2>5. QED
    BY <2>1, <2>2, <2>3, <2>4 DEF Next
<1>2. Good
  <2>1. CASE StartAccount
    <3>1. /\ host = "idle" /\ host' = "running" /\ started' = started + 1 /\ current' = started + 1
          /\ conn' = [conn EXCEPT ![started + 1] = "opening"]
      BY <2>1 DEF StartAccount
    <3>2. \A g \in Runtimes : conn[g] \notin Wanting
      BY <3>1 DEF OneConnects
    <3>3. ASSUME NEW g \in Runtimes
          PROVE  conn'[g] = IF g = started + 1 THEN "opening" ELSE conn[g]
      BY <3>1 DEF LinkTypes
    <3>4. FutureInv'
      BY <3>1, <3>3 DEF FutureInv, HostTypes, Runtimes
    <3>5. OneConnects'
      BY <3>1, <3>2, <3>3 DEF OneConnects
    <3>6. QED
      BY <3>4, <3>5
  <2>2. CASE StopWcppRuntime
    <3>1. /\ conn' = [g \in Runtimes |-> IF g = current THEN Closed(conn[g]) ELSE conn[g]]
          /\ started' = started
      BY <2>2 DEF StopWcppRuntime
    <3>2. \A g \in Runtimes : conn'[g] \notin Wanting
      BY <3>1 DEF OneConnects, Closed, Wanting
    <3>3. FutureInv'
      BY <3>1 DEF FutureInv, Closed
    <3>4. QED
      BY <3>2, <3>3 DEF OneConnects
  <2>3. CASE AdapterDies
    BY <2>3 DEF AdapterDies, FutureInv, OneConnects, Wanting
  <2>4. CASE MiddlewareRestarts
    <3>1. Disconnect(Runtimes) /\ UNCHANGED hostVars
      BY <2>4 DEF MiddlewareRestarts
    <3>2. QED
      BY <3>1, DisconnectQuiet, QuietKeeps
  <2>5. ASSUME NEW g \in Runtimes, Break(g) \/ CloseEnds(g)
        PROVE  Good
    <3>1. Disconnect({g}) /\ UNCHANGED hostVars /\ {g} \in SUBSET Runtimes
      BY <2>5 DEF Break, CloseEnds
    <3>2. QED
      BY <3>1, DisconnectQuiet, QuietKeeps
  <2>6. ASSUME NEW g \in Runtimes, Subscribe(g) \/ Reconnect(g)
        PROVE  Good
    <3>1. /\ conn[g] \in {"opening", "backoff"} /\ UNCHANGED hostVars
          /\ conn' = [conn EXCEPT ![g] = "open"] \/ conn' = [conn EXCEPT ![g] = "opening"]
      BY <2>6 DEF Subscribe, Reconnect
    <3>2. Quiet
      BY <3>1 DEF Quiet, LinkTypes, Wanting
    <3>3. QED
      BY <3>2, QuietKeeps
  <2>7. CASE \/ LearnWxid \/ UNCHANGED vars \/ \E f \in Frames : Record(f)
             \/ \E g \in Runtimes, k \in Senders : Flush(g, k)
             \/ \E g \in Runtimes : Greet(g) \/ Receive(g) \/ \E f \in Frames : AckArrives(g, f)
    <3>1. UNCHANGED hostVars /\ conn' = conn
      BY <2>7 DEF LearnWxid, vars, linkVars, Record, Flush, Greet, Receive, OnReady, OnMessage, AckArrives
    <3>2. Quiet
      BY <3>1 DEF Quiet
    <3>3. QED
      BY <3>2, QuietKeeps
  <2> HIDE DEF Good
  <2>8. CASE \E g \in Runtimes : Progress(g) \/ Break(g) \/ CloseEnds(g)
    BY <2>5, <2>6, <2>7, <2>8 DEF Progress
  <2>9. QED
    BY <2>1, <2>2, <2>3, <2>4, <2>7, <2>8 DEF Next
<1>3. QED
  BY <1>1, <1>2

-----------------------------------------------------------------------------
(* What becomes of the messages: the gate.                                 *)

\* Every step keeps the types of what became of the frames, and lets no echo through.
LEMMA FateStep ==
  ASSUME LinkTypes, EchoInv, FateTypes, leaked = {}, [Next]_vars
  PROVE  FateTypes' /\ leaked' = {}
<1> DEFINE Good == FateTypes' /\ leaked' = {}
<1> SUFFICES Good
  OBVIOUS
<1>1. CASE StartAccount \/ StopWcppRuntime \/ UNCHANGED vars
           \/ \E g \in Runtimes : Subscribe(g) \/ Reconnect(g) \/ Greet(g) \/ OnReady(g)
                                \/ Break(g) \/ CloseEnds(g)
  <2>1. UNCHANGED <<known, row, fateVars>>
    BY <1>1 DEF StartAccount, StopWcppRuntime, vars, Subscribe, Reconnect, Greet, OnReady, Break, CloseEnds
  <2>2. QED
    BY <2>1 DEF FateTypes, fateVars
<1>2. CASE AdapterDies
  BY <1>2 DEF AdapterDies, HandOver, FateTypes
<1>3. CASE MiddlewareRestarts \/ LearnWxid
  BY <1>3, AdapterAssumption DEF MiddlewareRestarts, LearnWxid, FateTypes, fateVars
<1>4. ASSUME NEW g \in Runtimes, NEW k \in Senders, Flush(g, k)
       PROVE  Good
  <2> DEFINE burst == {f \in held[g] : from[f] = k}
  <2>1. /\ held' = [held EXCEPT ![g] = held[g] \ burst] /\ latest' = [latest EXCEPT ![g] = latest[g] \ burst]
        /\ HandOver(burst \cap latest[g], burst) /\ UNCHANGED <<known, row, from, leaked>>
    BY <1>4 DEF Flush
  <2>2. burst \subseteq Frames
    BY DEF FateTypes
  <2> HIDE DEF burst
  <2>3. QED
    BY <2>1, <2>2 DEF FateTypes, HandOver
<1>5. ASSUME NEW f \in Frames, Record(f) \/ \E g \in Runtimes : AckArrives(g, f)
      PROVE  Good
  <2>1. /\ row' = [row EXCEPT ![f] = "undelivered"] \/ row' = [row EXCEPT ![f] = "delivered"]
        /\ UNCHANGED <<known, fateVars>>
    BY <1>5 DEF Record, AckArrives
  <2>2. QED
    BY <2>1 DEF FateTypes, fateVars
<1>6. ASSUME NEW g \in Runtimes, OnMessage(g)
      PROVE  Good
  <2> DEFINE h == Head(down[g])
             f == h.frame
  <2>1. /\ down[g] # <<>> /\ h.type = "message"
        /\ IF SelfEcho(g, f) \/ ~Debounced
           THEN HandOver({f}, {}) /\ UNCHANGED <<held, latest>>
           ELSE Enqueue(g, f) /\ UNCHANGED <<handled, joined>>
        /\ leaked' = IF h.told /\ from[f] = Bot /\ ~SelfEcho(g, f) THEN leaked \cup {f} ELSE leaked
        /\ UNCHANGED <<known, row, from>>
    BY <1>6 DEF OnMessage
  <2>2. /\ down[g] \in Seq(Wire) /\ told[g] \in BOOLEAN /\ selfWxid[g] \in BOOLEAN
        /\ EchoOk(down[g], sub[g] = "live", told[g], selfWxid[g])
    BY DEF LinkTypes, EchoInv
  <2>3. h \in Wire
    BY <2>1, <2>2, TailFacts
  <2>4. f \in Frames /\ ~IsReady(h)
    BY <2>1, <2>3 DEF Wire, ReadyFrames, MessageFrames, IsReady
  <2>5. Told(h) => selfWxid[g]
    BY <2>1, <2>2, <2>4, EchoMessage
  <2>6. ~(h.told /\ from[f] = Bot /\ ~SelfEcho(g, f))
    <3>1. h.told \in BOOLEAN
      BY <2>3 DEF Wire, ReadyFrames, MessageFrames
    <3>2. QED
      BY <2>5, <3>1 DEF Told, SelfEcho
  <2> HIDE DEF f, h
  <2>7. leaked' = {}
    BY <2>1, <2>6
  <2>8. FateTypes'
    <3>1. CASE HandOver({f}, {}) /\ UNCHANGED <<held, latest>>
      BY <2>1, <2>4, <3>1 DEF FateTypes, HandOver
    <3>2. CASE Enqueue(g, f) /\ UNCHANGED <<handled, joined>>
      BY <2>1, <2>4, <3>2 DEF FateTypes, Enqueue
    <3>3. QED
      BY <2>1, <3>1, <3>2
  <2>9. QED
    BY <2>7, <2>8
<1> HIDE DEF Good
<1>7. QED
  BY <1>1, <1>2, <1>3, <1>4, <1>5, <1>6 DEF Next, Progress, Receive

-----------------------------------------------------------------------------
(* The theorems.                                                           *)

Inv == BaseInv /\ EchoInv /\ OneConnects /\ leaked = {}

\* The whole invariant holds initially.
LEMMA InitInv == Init => Inv
<1> SUFFICES ASSUME Init PROVE Inv
  OBVIOUS
<1>1. LinkTypes /\ LinkInv /\ EchoInv
  BY InitLink
<1>2. HostTypes /\ FutureInv /\ OneConnects
  BY AdapterAssumption DEF Init, HostTypes, FutureInv, OneConnects, Wanting
<1>3. FateTypes /\ leaked = {}
  BY AdapterAssumption DEF Init, FateTypes
<1>4. QED
  BY <1>1, <1>2, <1>3 DEF Inv, BaseInv

\* Every step keeps the whole invariant.
LEMMA InvStep == Inv /\ [Next]_vars => Inv'
<1> SUFFICES ASSUME Inv, [Next]_vars PROVE Inv'
  OBVIOUS
<1>1. LinkTypes /\ LinkInv /\ HostTypes /\ FutureInv /\ FateTypes /\ EchoInv /\ OneConnects /\ leaked = {}
  BY DEF Inv, BaseInv
<1>2. LinkTypes' /\ LinkInv' /\ EchoInv'
  BY <1>1, LinkStep
<1>3. HostTypes' /\ FutureInv' /\ OneConnects'
  BY <1>1, HostStep
<1>4. FateTypes' /\ leaked' = {}
  BY <1>1, FateStep
<1>5. QED
  BY <1>2, <1>3, <1>4 DEF Inv, BaseInv

\* The whole invariant holds in every reachable state.
LEMMA InvAlways == Spec => []Inv
  BY InitInv, InvStep, PTL DEF Spec

\* The sockets, the queues and the subscriber map keep their shape.
THEOREM TypeCorrect == Spec => []TypeOK
<1>1. Inv => TypeOK
  BY DEF Inv, BaseInv, LinkTypes, LinkInv, Idle, HostTypes, FateTypes, TypeOK
<1>2. QED
  BY <1>1, InvAlways, PTL

\* However starts, aborts, stops, breaks and reconnect timers interleave, only the
\* runtime in the bridges map connects or will connect again, and any other that still
\* has a subscription is in its closing handshake.
THEOREM OneStandingSubscriptionAlways == Spec => []OneStandingSubscription
<1>1. Inv => OneStandingSubscription
  BY DEF Inv, BaseInv, LinkTypes, LinkInv, Idle, OneConnects, OneStandingSubscription,
         Wanting, Connected
<1>2. QED
  BY <1>1, InvAlways, PTL

\* A message of the bot's own that was sent behind a ready frame with the wxid is
\* dropped by the gate: the ready frame is read before it, on the same connection.
THEOREM EchoGatedAlways == Spec => []EchoGated
<1>1. Inv => EchoGated
  BY DEF Inv, EchoGated
<1>2. QED
  BY <1>1, InvAlways, PTL

=========================================================================
