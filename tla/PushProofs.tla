------------------------------ MODULE PushProofs ------------------------------
(***************************************************************************)
(* The safety of the push transport, for every set of instances and every  *)
(* backoff that meets PushAssumption: its type, the socket and its timer,  *)
(* the keepalive, the backoff, and what becomes of the webhook.            *)
(***************************************************************************)
EXTENDS PushTransport, FiniteSetTheorems, TLAPS

-----------------------------------------------------------------------------
(* The operators the steps are made of.                                    *)

\* A power of two counts the subsets of a set, so it is a positive number.
LEMMA PowerOfTwo ==
  ASSUME NEW n \in Nat
  PROVE  2 ^ n \in Nat \ {0}
<1>1. IsFiniteSet(1..n) /\ Cardinality(1..n) = n
  BY FS_Interval
<1>2. IsFiniteSet(SUBSET (1..n)) /\ Cardinality(SUBSET (1..n)) = 2 ^ n
  BY <1>1, FS_SUBSET
<1>3. Cardinality(SUBSET (1..n)) \in Nat /\ Cardinality(SUBSET (1..n)) # 0
  BY <1>2, FS_CardinalityType, FS_EmptySet
<1>4. QED
  BY <1>2, <1>3

\* A reconnect is never immediate and never later than the cap.
LEMMA BackoffInRange ==
  ASSUME NEW n \in Nat
  PROVE  Backoff(n) \in 1 .. MaxDelay
<1> DEFINE p == 2 ^ n
<1>1. p \in Nat /\ p > 0
  BY PowerOfTwo
<1>2. BaseDelay \in Nat /\ BaseDelay > 0 /\ MaxDelay \in Nat /\ MaxDelay >= BaseDelay
  BY PushAssumption
<1>3. Backoff(n) = Least(BaseDelay * p, MaxDelay)
  BY DEF Backoff
<1> HIDE DEF p
<1>4. BaseDelay * p \in Nat /\ BaseDelay * p >= 1
  BY <1>1, <1>2
<1>5. QED
  BY <1>2, <1>3, <1>4 DEF Least

\* What becomes of a request whose caller is gone.
LEMMA LateFacts ==
  /\ Requests = {"clean", "bye", "set", "lateRemove", "lateSet"}
  /\ Late["clean"] = "lateRemove" /\ Late["bye"] = "lateRemove" /\ Late["set"] = "lateSet"
  /\ Late["lateRemove"] = "lateRemove" /\ Late["lateSet"] = "lateSet"
  BY DEF Late, Requests

\* A request whose caller gave up is a late request.
LEMMA LateIsRequest == \A r \in Requests : Late[r] \in Requests \cap {"lateRemove", "lateSet"}
  BY LateFacts

-----------------------------------------------------------------------------
(* The inductive invariant.                                                *)

\* The failures that set the next delay are the closes since the last open, as
\* far as they are counted.
FailuresCounted == \A i \in Instances : attempt[i] = Least(drops[i], MaxAttempt)

\* Instances are released by the shutdown only, in the order of the config.
ShutdownInOrder ==
  /\ \A i \in Instances : released[i] => proc \in {"stopping", "closing"}
  /\ stopped > 0 => proc \in {"stopping", "closing"}
  /\ proc = "closing" => stopped = Len(Order)
  /\ \A k \in 1 .. stopped : released[Order[k]]

\* What the sockets of a process depend on.
SocketInv ==
  /\ TypeOK /\ SocketOrTimer /\ KeepaliveMatchesSocket
  /\ FailuresCounted /\ BackoffFollowsFailures /\ ShutdownInOrder

\* The invariant of the socket holds initially.
LEMMA InitSocket == Init => SocketInv
<1> SUFFICES ASSUME Init PROVE SocketInv
  OBVIOUS
<1>1. Len(Order) \in Nat /\ MaxDelay \in Nat /\ MaxAttempt \in Nat /\ MaxLives \in Nat \ {0}
      /\ MaxPosts \in Nat
  BY PushAssumption
<1>2. TypeOK
  BY <1>1 DEF Init, TypeOK, Up, Live, Unarmed
<1>3. SocketOrTimer /\ KeepaliveMatchesSocket
  BY DEF Init, SocketOrTimer, KeepaliveMatchesSocket, Live, Unarmed
<1>4. FailuresCounted /\ BackoffFollowsFailures /\ ShutdownInOrder
  BY <1>1 DEF Init, FailuresCounted, BackoffFollowsFailures, ShutdownInOrder, Least, Unarmed
<1>5. QED
  BY <1>2, <1>3, <1>4 DEF SocketInv

\* A process that ends leaves nothing of its sockets behind.
LEMMA FreshSocket ==
  ASSUME SocketInv, Fresh, proc' \in {"exited", "crashed"}, lives' = lives,
         webhook' = webhook, lost' = lost, unsettled' = unsettled
  PROVE  SocketInv'
<1>1. Len(Order) \in Nat /\ MaxDelay \in Nat /\ MaxAttempt \in Nat /\ MaxPosts \in Nat
  BY PushAssumption
<1>2. wire' \in [Instances -> SUBSET Requests]
  <2>1. ASSUME NEW i \in Instances
        PROVE  {Late[r] : r \in wire[i]} \subseteq Requests
    <3>1. wire[i] \subseteq Requests
      BY DEF SocketInv, TypeOK
    <3>2. QED
      BY <3>1, LateIsRequest
  <2>2. QED
    BY <2>1 DEF Fresh
<1>3. TypeOK'
  BY <1>1, <1>2 DEF SocketInv, TypeOK, Fresh, Up, Live, Unarmed
<1>4. SocketOrTimer' /\ KeepaliveMatchesSocket'
  BY DEF SocketOrTimer, KeepaliveMatchesSocket, Live, Unarmed, Up, Fresh
<1>5. FailuresCounted' /\ BackoffFollowsFailures' /\ ShutdownInOrder'
  BY <1>1 DEF FailuresCounted, BackoffFollowsFailures, ShutdownInOrder, Least, Unarmed, Fresh
<1>6. QED
  BY <1>3, <1>4, <1>5 DEF SocketInv

\* Every step keeps the sockets as they should be.
LEMMA SocketStep == SocketInv /\ [Next]_vars => SocketInv'
<1> SUFFICES ASSUME SocketInv, [Next]_vars PROVE SocketInv'
  OBVIOUS
<1> USE DEF SocketInv
<1>0. /\ Len(Order) \in Nat /\ MaxDelay \in Nat /\ MaxAttempt \in Nat /\ MaxLives \in Nat \ {0}
      /\ MaxPosts \in Nat /\ WsEnabled \subseteq Instances
  BY PushAssumption
<1> USE DEF socketVars, processVars, webhookVars
<1>1. ASSUME NEW i \in Instances, SocketOpens(i)
      PROVE  SocketInv'
  <2>1. TypeOK'
    BY <1>0, <1>1 DEF TypeOK, SocketOpens, Live
  <2>2. SocketOrTimer' /\ KeepaliveMatchesSocket'
    BY <1>1 DEF TypeOK, SocketOpens, Live, SocketOrTimer, KeepaliveMatchesSocket
  <2>3. FailuresCounted' /\ BackoffFollowsFailures' /\ ShutdownInOrder'
    BY <1>0, <1>1 DEF TypeOK, SocketOpens, FailuresCounted, BackoffFollowsFailures, ShutdownInOrder,
                 SocketOrTimer, Least, Live
  <2>4. QED
    BY <2>1, <2>2, <2>3
<1>2. ASSUME NEW i \in Instances, SocketCloses(i)
      PROVE  SocketInv'
  <2>1. timer[i] = Unarmed /\ i \in WsEnabled /\ proc # "booting" /\ ~released[i]
    BY <1>2 DEF SocketCloses, SocketOrTimer, Live
  <2>2. /\ timer' = [timer EXCEPT ![i] = Backoff(attempt[i])]
        /\ attempt' = [attempt EXCEPT ![i] = Least(@ + 1, MaxAttempt)]
    BY <1>2, <2>1 DEF SocketCloses
  <2>3. attempt[i] \in 0 .. MaxAttempt /\ attempt[i] \in Nat /\ drops[i] \in 0 .. MaxAttempt + 1
    BY <1>0 DEF TypeOK
  <2>4. Backoff(attempt[i]) \in 1 .. MaxDelay
    BY <2>3, BackoffInRange
  <2>5. TypeOK'
    BY SMTT(30), <1>0, <1>2, <2>2, <2>3, <2>4
       DEF TypeOK, SocketCloses, StopPinging, KeepaliveMatchesSocket, Live, Least
  <2>6. SocketOrTimer' /\ KeepaliveMatchesSocket'
    BY SMTT(30), <1>0, <1>2, <2>1, <2>2, <2>4
       DEF TypeOK, SocketCloses, StopPinging, SocketOrTimer, KeepaliveMatchesSocket, Live, Unarmed
  <2>7. FailuresCounted'
    BY <1>0, <1>2, <2>2, <2>3 DEF TypeOK, SocketCloses, FailuresCounted, Least
  <2>8. BackoffFollowsFailures'
    <3>1. drops'[i] - 1 = attempt[i]
      BY <1>0, <1>2, <2>3 DEF TypeOK, SocketCloses, FailuresCounted, Least
    <3>2. QED
      BY <1>2, <2>2, <3>1 DEF TypeOK, SocketCloses, BackoffFollowsFailures
  <2>9. ShutdownInOrder'
    BY <1>2 DEF SocketCloses, ShutdownInOrder
  <2>10. QED
    BY <2>5, <2>6, <2>7, <2>8, <2>9
<1>3. ASSUME NEW i \in Instances, ReconnectTimerFires(i)
      PROVE  SocketInv'
  <2>1. sock[i] \notin Live /\ ~pingTimer[i] /\ interval[i] = 0
    BY <1>3 DEF ReconnectTimerFires, SocketOrTimer, KeepaliveMatchesSocket
  <2>2. TypeOK'
    BY <1>0, <1>3, <2>1
       DEF TypeOK, ReconnectTimerFires, ConnectMaxWebSocket, KeepaliveMatchesSocket, Live, Least, Unarmed
  <2>3. ASSUME NEW j \in Instances
        PROVE  /\ ~orphaned'[j] /\ timer'[j] = (IF j = i THEN Unarmed ELSE timer[j])
               /\ sock'[j] = (IF j = i THEN "connecting" ELSE sock[j])
               /\ interval'[j] = (IF j = i THEN 1 ELSE interval[j])
               /\ pingTimer'[j] <=> (j = i \/ pingTimer[j])
               /\ (tickedEarly'[j] /\ j # i) <=> (tickedEarly[j] /\ j # i)
    <3>1. CASE j = i
      <4>1. timer'[j] = Unarmed /\ sock'[j] = "connecting" /\ interval'[j] = 1
        BY <1>3, <2>1, <3>1 DEF TypeOK, ReconnectTimerFires, ConnectMaxWebSocket, Least
      <4>2. /\ orphaned'[j] = (orphaned[j] \/ FALSE)
            /\ pingTimer'[j] = (pingTimer[j] \/ TRUE)
        BY <1>3, <2>1, <3>1 DEF ReconnectTimerFires, ConnectMaxWebSocket
      <4>3. QED
        BY <3>1, <4>1, <4>2 DEF SocketOrTimer
    <3>2. CASE j # i
      <4>1. timer'[j] = timer[j] /\ sock'[j] = sock[j] /\ interval'[j] = interval[j]
        BY <1>3, <3>2 DEF TypeOK, ReconnectTimerFires, ConnectMaxWebSocket
      <4>2. /\ orphaned'[j] = (orphaned[j] \/ FALSE)
            /\ pingTimer'[j] = (pingTimer[j] \/ FALSE)
            /\ tickedEarly'[j] = (tickedEarly[j] /\ TRUE)
        BY <1>3, <3>2 DEF ReconnectTimerFires, ConnectMaxWebSocket
      <4>3. QED
        BY <3>2, <4>1, <4>2 DEF SocketOrTimer
    <3>3. QED
      BY <3>1, <3>2
  <2>31. SocketOrTimer' /\ KeepaliveMatchesSocket'
    BY <1>3, <2>1, <2>3
       DEF ReconnectTimerFires, SocketOrTimer, KeepaliveMatchesSocket, Live, Unarmed
  <2>4. FailuresCounted' /\ BackoffFollowsFailures' /\ ShutdownInOrder'
    BY <1>3 DEF TypeOK, ReconnectTimerFires, FailuresCounted, BackoffFollowsFailures, ShutdownInOrder, Unarmed
  <2>5. QED
    BY <2>2, <2>31, <2>4
<1>4. ASSUME NEW i \in Instances, KeepaliveFires(i)
      PROVE  SocketInv'
  <2>1. TypeOK'
    BY <1>0, <1>4 DEF TypeOK, KeepaliveFires, StopPinging, KeepaliveMatchesSocket
  <2>2. SocketOrTimer' /\ KeepaliveMatchesSocket'
    BY <1>0, <1>4 DEF TypeOK, KeepaliveFires, StopPinging, SocketOrTimer, KeepaliveMatchesSocket
  <2>3. FailuresCounted' /\ BackoffFollowsFailures' /\ ShutdownInOrder'
    BY <1>4 DEF KeepaliveFires, FailuresCounted, BackoffFollowsFailures, ShutdownInOrder
  <2>4. QED
    BY <2>1, <2>2, <2>3
<1>5. ASSUME NEW i \in Instances, RegisterWebhook(i)
      PROVE  SocketInv'
  <2>1. TypeOK'
    BY <1>5, LateFacts DEF TypeOK, RegisterWebhook
  <2>2. QED
    BY <1>5, <2>1 DEF RegisterWebhook, SocketOrTimer, KeepaliveMatchesSocket, FailuresCounted,
                      BackoffFollowsFailures, ShutdownInOrder
<1>6. ASSUME NEW i \in Instances, Disconnect(i)
      PROVE  SocketInv'
  <2>1. TypeOK'
    BY <1>0, <1>6, LateFacts DEF TypeOK, Disconnect, StopPinging, KeepaliveMatchesSocket, Live, Unarmed
  <2>2. SocketOrTimer' /\ KeepaliveMatchesSocket'
    BY <1>0, <1>6
       DEF TypeOK, Disconnect, StopPinging, SocketOrTimer, KeepaliveMatchesSocket, Live, Unarmed
  <2>3. FailuresCounted' /\ BackoffFollowsFailures'
    BY <1>6 DEF TypeOK, Disconnect, FailuresCounted, BackoffFollowsFailures
  <2>4. ShutdownInOrder'
    BY <1>6 DEF TypeOK, Disconnect, OnTurn, ShutdownInOrder
  <2>5. QED
    BY <2>1, <2>2, <2>3, <2>4
<1>7. ASSUME NEW i \in Instances, DisconnectThrows(i)
      PROVE  SocketInv'
  BY <1>7, FreshSocket DEF DisconnectThrows
<1>8. ASSUME NEW i \in Instances, NEW r \in wire[i],
             UpstreamExecutes(i, r) \/ RequestFails(i, r) \/ CallerGivesUp(i, r)
      PROVE  SocketInv'
  <2>1. r \in Requests /\ Late[r] \in Requests
    BY LateIsRequest DEF TypeOK
  <2>2. TypeOK'
    <3>1. CASE UpstreamExecutes(i, r)
      <4>1. /\ wire' \in [Instances -> SUBSET Requests]
            /\ chain' \in [Instances -> {"idle", "removing", "setting", "set", "failed"}]
        BY <2>1, <3>1 DEF TypeOK, UpstreamExecutes
      <4>2. webhook' \in [Instances -> BOOLEAN]
        <5>1. (r \notin Removes) \in BOOLEAN
          OBVIOUS
        <5>2. QED
          BY <3>1, <5>1 DEF TypeOK, UpstreamExecutes
      <4>3. disturbed' \in [Instances -> BOOLEAN]
        <5>1. ("lateRemove" \in wire[i]) \in BOOLEAN
          OBVIOUS
        <5>2. QED
          BY <3>1, <5>1 DEF TypeOK, UpstreamExecutes
      <4>4. QED
        BY <3>1, <4>1, <4>2, <4>3 DEF TypeOK, UpstreamExecutes
    <3>2. CASE RequestFails(i, r)
      BY <2>1, <3>2 DEF TypeOK, RequestFails
    <3>3. CASE CallerGivesUp(i, r)
      BY <2>1, <3>3 DEF TypeOK, CallerGivesUp
    <3>4. QED
      BY <1>8, <3>1, <3>2, <3>3
  <2>3. UNCHANGED <<processVars, socketVars>>
    BY <1>8 DEF UpstreamExecutes, RequestFails, CallerGivesUp
  <2>4. QED
    BY <2>2, <2>3 DEF SocketOrTimer, KeepaliveMatchesSocket, FailuresCounted,
                      BackoffFollowsFailures, ShutdownInOrder
<1>9. ASSUME ConnectAll
      PROVE  SocketInv'
  <2>1. \A i \in Instances : /\ sock[i] = "none" /\ timer[i] = Unarmed /\ ~released[i]
                             /\ ~pingTimer[i] /\ interval[i] = 0
    BY <1>9 DEF ConnectAll, SocketOrTimer, KeepaliveMatchesSocket, ShutdownInOrder, Live
  <2>2. TypeOK'
    BY <1>0, <1>9, <2>1, LateFacts DEF TypeOK, ConnectAll, ConnectMaxWebSocket, Up, Live, Least
  <2>3. ASSUME NEW j \in Instances
        PROVE  /\ ~orphaned'[j] /\ timer'[j] = Unarmed /\ ~released'[j]
               /\ sock'[j] = (IF j \in WsEnabled THEN "connecting" ELSE "none")
               /\ interval'[j] = (IF j \in WsEnabled THEN 1 ELSE 0)
               /\ pingTimer'[j] = (j \in WsEnabled)
    BY <1>9, <2>1 DEF TypeOK, ConnectAll, ConnectMaxWebSocket, SocketOrTimer, Least, Live
  <2>31. SocketOrTimer' /\ KeepaliveMatchesSocket'
    BY <1>9, <2>3 DEF ConnectAll, SocketOrTimer, KeepaliveMatchesSocket, Live, Unarmed, Up
  <2>4. FailuresCounted' /\ BackoffFollowsFailures' /\ ShutdownInOrder'
    BY <1>9, <2>1 DEF TypeOK, ConnectAll, FailuresCounted, BackoffFollowsFailures, ShutdownInOrder
  <2>5. QED
    BY <2>2, <2>31, <2>4
<1>10. CASE Serve \/ Signal
  BY <1>10 DEF Serve, Signal, TypeOK, SocketOrTimer, KeepaliveMatchesSocket, FailuresCounted,
               BackoffFollowsFailures, ShutdownInOrder, Up
<1>11. CASE HeartbeatStopped
  <2>5. stopped' \in 0 .. Len(Order)
    BY <1>0, <1>11 DEF HeartbeatStopped, TypeOK
  <2>1. TypeOK'
    BY <1>11, <2>5 DEF HeartbeatStopped, TypeOK
  <2>2. SocketOrTimer' /\ KeepaliveMatchesSocket' /\ FailuresCounted' /\ BackoffFollowsFailures'
    BY <1>11 DEF HeartbeatStopped, SocketOrTimer, KeepaliveMatchesSocket, FailuresCounted,
                 BackoffFollowsFailures
  <2>3. ShutdownInOrder'
    BY <1>0, <1>11 DEF HeartbeatStopped, TypeOK, ShutdownInOrder
  <2>4. QED
    BY <2>1, <2>2, <2>3
<1>16. CASE PostArrives \/ PostSettles \/ CloseListener
  <2>1. /\ UNCHANGED <<socketVars, webhookVars, stopped, released, lives>>
        /\ proc' = proc \/ (proc = "stopping" /\ proc' = "closing" /\ stopped = Len(Order))
    BY <1>16 DEF PostArrives, PostSettles, CloseListener
  <2>2. posts' \in 0 .. MaxPosts
    BY <1>0, <1>16 DEF PostArrives, PostSettles, CloseListener, TypeOK
  <2>3. TypeOK'
    BY <2>1, <2>2 DEF TypeOK, Up
  <2>4. SocketOrTimer' /\ KeepaliveMatchesSocket'
    BY <2>1 DEF SocketOrTimer, KeepaliveMatchesSocket, Up
  <2>5. FailuresCounted' /\ BackoffFollowsFailures' /\ ShutdownInOrder'
    BY <2>1 DEF FailuresCounted, BackoffFollowsFailures, ShutdownInOrder
  <2>6. QED
    BY <2>3, <2>4, <2>5
<1>12. CASE Exit \/ Die
  BY <1>12, FreshSocket DEF Exit, Die
<1>13. CASE Start
  <2>1. TypeOK'
    BY <1>0, <1>13 DEF Start, TypeOK, Up
  <2>2. QED
    BY <1>13, <2>1 DEF Start, SocketOrTimer, KeepaliveMatchesSocket, FailuresCounted,
                       BackoffFollowsFailures, ShutdownInOrder, Up
<1>14. CASE UNCHANGED vars
  BY <1>14 DEF vars, TypeOK, SocketOrTimer, KeepaliveMatchesSocket, FailuresCounted,
               BackoffFollowsFailures, ShutdownInOrder
<1>15. QED
  BY <1>1, <1>2, <1>3, <1>4, <1>5, <1>6, <1>7, <1>8, <1>9, <1>10, <1>11, <1>12, <1>13, <1>14, <1>16
     DEF Next, InstanceStep

-----------------------------------------------------------------------------
(* The webhook.                                                            *)

\* What may be on the wire tells how far the chain of this life has got, and an
\* instance without a webhook of its own sends nothing.
WireFollowsChain(i) ==
  /\ "set" \in wire[i] => chain[i] = "setting"
  /\ "clean" \in wire[i] => chain[i] = "removing"
  /\ "bye" \in wire[i] => released[i]
  /\ chain[i] # "idle" => proc \in Up \ {"booting"}
  /\ i \notin Registers => wire[i] = {} /\ ~webhook[i] /\ chain[i] = "idle"

\* A Set that took effect is undone by nothing but a Remove of an earlier time.
SetHolds(i) ==
  chain[i] = "set" => /\ "lateRemove" \in wire[i] => disturbed[i]
                      /\ webhook[i] \/ disturbed[i] \/ released[i]

\* Once disconnect() came after the chain had ended, no Set is to come, and a
\* webhook that is still there has its Remove on the wire or lost it.
RemoveIsDue(i) ==
  ((released[i] \/ proc = "exited") /\ ~unsettled[i]) =>
    /\ "set" \notin wire[i] /\ "lateSet" \notin wire[i]
    /\ chain[i] \notin {"removing", "setting"}
    /\ webhook[i] => lost[i] \/ wire[i] \cap Removes # {}

WebhookInv == \A i \in Instances : WireFollowsChain(i) /\ SetHolds(i) /\ RemoveIsDue(i)

\* The three parts are about this instance's requests, and the process.
LEMMA WebhookUntouched ==
  ASSUME NEW i \in Instances, WireFollowsChain(i) /\ SetHolds(i) /\ RemoveIsDue(i),
         wire'[i] = wire[i], chain'[i] = chain[i], webhook'[i] = webhook[i],
         disturbed'[i] = disturbed[i], released'[i] = released[i],
         lost'[i] = lost[i], unsettled'[i] = unsettled[i],
         proc \in Up \ {"booting"} => proc' \in Up \ {"booting"}, (proc' = "exited") => (proc = "exited")
  PROVE  (WireFollowsChain(i) /\ SetHolds(i) /\ RemoveIsDue(i))'
  BY DEF WireFollowsChain, SetHolds, RemoveIsDue, Up

\* When the process ends, its requests are late ones: nothing that is due is
\* forgotten, nothing new is to come.
LEMMA FreshWebhook ==
  ASSUME SocketInv, WebhookInv, Fresh, webhook' = webhook, lost' = lost, unsettled' = unsettled,
         proc' = "crashed" \/ (proc' = "exited" /\ \A i \in Instances : released[i])
  PROVE  WebhookInv'
<1> SUFFICES ASSUME NEW i \in Instances
             PROVE  (WireFollowsChain(i) /\ SetHolds(i) /\ RemoveIsDue(i))'
  BY DEF WebhookInv
<1>1. /\ wire'[i] = {Late[r] : r \in wire[i]} /\ chain'[i] = "idle" /\ ~released'[i]
      /\ webhook'[i] = webhook[i] /\ lost'[i] = lost[i] /\ unsettled'[i] = unsettled[i]
  BY DEF Fresh
<1>2. wire[i] \subseteq Requests
  BY DEF SocketInv, TypeOK
<1>3. "set" \notin wire'[i] /\ "clean" \notin wire'[i] /\ "bye" \notin wire'[i]
  BY <1>1, <1>2, LateFacts
<1>4. WireFollowsChain(i)'
  BY <1>1, <1>3 DEF WireFollowsChain, WebhookInv
<1>5. SetHolds(i)'
  BY <1>1 DEF SetHolds
<1>6. RemoveIsDue(i)'
  <2> SUFFICES ASSUME proc' = "exited", ~unsettled[i]
               PROVE  /\ "lateSet" \notin wire'[i]
                      /\ webhook[i] => lost[i] \/ wire'[i] \cap Removes # {}
    BY <1>1, <1>3 DEF RemoveIsDue
  <2>1. /\ "set" \notin wire[i] /\ "lateSet" \notin wire[i]
        /\ webhook[i] => lost[i] \/ wire[i] \cap Removes # {}
    BY DEF WebhookInv, RemoveIsDue
  <2>2. \A r \in Requests \ {"set", "lateSet"} : r \in Removes /\ Late[r] = "lateRemove"
    BY LateFacts DEF Removes
  <2>3. "lateSet" \notin wire'[i]
    BY <1>1, <1>2, <2>1, <2>2
  <2>4. ASSUME NEW r \in wire[i] \cap Removes
        PROVE  "lateRemove" \in wire'[i] \cap Removes
    BY <1>1, <1>2, <2>1, <2>2 DEF Removes
  <2>5. QED
    BY <2>1, <2>3, <2>4
<1>7. QED
  BY <1>4, <1>5, <1>6

\* Every step keeps the webhook as it should be.
LEMMA WebhookStep == SocketInv /\ WebhookInv /\ [Next]_vars => WebhookInv'
<1> SUFFICES ASSUME SocketInv, WebhookInv, [Next]_vars PROVE WebhookInv'
  OBVIOUS
<1> USE DEF webhookVars, processVars
<1>1. CASE /\ UNCHANGED <<webhookVars, released>>
           /\ proc' = "exited" => proc = "exited"
           /\ proc \in Up \ {"booting"} => proc' \in Up \ {"booting"}
  BY <1>1, WebhookUntouched DEF WebhookInv
<1>2. ASSUME NEW i \in Instances,
             SocketOpens(i) \/ SocketCloses(i) \/ ReconnectTimerFires(i) \/ KeepaliveFires(i)
      PROVE  WebhookInv'
  BY <1>1, <1>2 DEF SocketOpens, SocketCloses, ReconnectTimerFires, KeepaliveFires
<1>3. CASE \/ Serve \/ Signal \/ HeartbeatStopped \/ UNCHANGED vars
           \/ PostArrives \/ PostSettles \/ CloseListener
  BY <1>1, <1>3
     DEF Serve, Signal, HeartbeatStopped, PostArrives, PostSettles, CloseListener, vars, Up
<1>4. ASSUME NEW i \in Instances, RegisterWebhook(i)
      PROVE  WebhookInv'
  <2>1. /\ wire' = [wire EXCEPT ![i] = @ \cup {"set"}] /\ chain' = [chain EXCEPT ![i] = "setting"]
        /\ chain[i] = "removing" /\ "clean" \notin wire[i] /\ proc \in Up
        /\ UNCHANGED <<processVars, webhook, disturbed, lost, unsettled>>
    BY <1>4 DEF RegisterWebhook
  <2>2. ASSUME NEW j \in Instances, j # i
        PROVE  (WireFollowsChain(j) /\ SetHolds(j) /\ RemoveIsDue(j))'
    BY <2>1, <2>2, WebhookUntouched DEF SocketInv, TypeOK, WebhookInv
  <2>3. wire'[i] = wire[i] \cup {"set"} /\ chain'[i] = "setting"
    BY <2>1 DEF SocketInv, TypeOK
  <2>4. (WireFollowsChain(i) /\ SetHolds(i) /\ RemoveIsDue(i))'
    BY <2>1, <2>3 DEF WebhookInv, WireFollowsChain, SetHolds, RemoveIsDue
  <2>5. QED
    BY <2>2, <2>4 DEF WebhookInv
<1>5. ASSUME NEW i \in Instances, NEW r \in wire[i], UpstreamExecutes(i, r)
      PROVE  WebhookInv'
  <2>1. ASSUME NEW j \in Instances, j # i
        PROVE  (WireFollowsChain(j) /\ SetHolds(j) /\ RemoveIsDue(j))'
    BY <1>5, <2>1, WebhookUntouched DEF SocketInv, TypeOK, WebhookInv, UpstreamExecutes
  <2>2. /\ wire'[i] = wire[i] \ {r} /\ chain'[i] = (IF r = "set" THEN "set" ELSE chain[i])
        /\ webhook'[i] <=> r \notin Removes
        /\ disturbed'[i] <=> (IF r = "set" THEN "lateRemove" \in wire[i] ELSE disturbed[i])
        /\ UNCHANGED <<processVars, lost, unsettled>>
    BY <1>5 DEF SocketInv, TypeOK, UpstreamExecutes
  <2>3. WireFollowsChain(i) /\ SetHolds(i) /\ RemoveIsDue(i)
    BY DEF WebhookInv
  <2>4. r \in Requests
    BY DEF SocketInv, TypeOK
  <2>5. (WireFollowsChain(i) /\ SetHolds(i) /\ RemoveIsDue(i))'
    BY <2>2, <2>3, <2>4, LateFacts DEF WireFollowsChain, SetHolds, RemoveIsDue, Removes
  <2>6. QED
    BY <2>1, <2>5 DEF WebhookInv
<1>6. ASSUME NEW i \in Instances, NEW r \in wire[i], RequestFails(i, r)
      PROVE  WebhookInv'
  <2>1. ASSUME NEW j \in Instances, j # i
        PROVE  (WireFollowsChain(j) /\ SetHolds(j) /\ RemoveIsDue(j))'
    BY <1>6, <2>1, WebhookUntouched DEF SocketInv, TypeOK, WebhookInv, RequestFails
  <2>2. /\ wire'[i] = wire[i] \ {r} /\ chain'[i] = (IF r = "set" THEN "failed" ELSE chain[i])
        /\ lost'[i]
        /\ UNCHANGED <<processVars, webhook, disturbed, unsettled>>
    BY <1>6 DEF SocketInv, TypeOK, RequestFails
  <2>3. WireFollowsChain(i) /\ SetHolds(i) /\ RemoveIsDue(i)
    BY DEF WebhookInv
  <2>4. (WireFollowsChain(i) /\ SetHolds(i) /\ RemoveIsDue(i))'
    BY <2>2, <2>3 DEF WireFollowsChain, SetHolds, RemoveIsDue
  <2>5. QED
    BY <2>1, <2>4 DEF WebhookInv
<1>7. ASSUME NEW i \in Instances, NEW r \in wire[i], CallerGivesUp(i, r)
      PROVE  WebhookInv'
  <2>1. ASSUME NEW j \in Instances, j # i
        PROVE  (WireFollowsChain(j) /\ SetHolds(j) /\ RemoveIsDue(j))'
    BY <1>7, <2>1, WebhookUntouched DEF SocketInv, TypeOK, WebhookInv, CallerGivesUp
  <2>2. /\ wire'[i] = (wire[i] \ {r}) \cup {Late[r]} /\ r \in {"clean", "set"}
        /\ chain'[i] = (IF r = "set" THEN "failed" ELSE chain[i])
        /\ UNCHANGED <<processVars, webhook, disturbed, lost, unsettled>>
    BY <1>7 DEF SocketInv, TypeOK, CallerGivesUp
  <2>3. WireFollowsChain(i) /\ SetHolds(i) /\ RemoveIsDue(i)
    BY DEF WebhookInv
  <2>4. (WireFollowsChain(i) /\ SetHolds(i) /\ RemoveIsDue(i))'
    BY <2>2, <2>3, LateFacts DEF WireFollowsChain, SetHolds, RemoveIsDue
  <2>5. QED
    BY <2>1, <2>4 DEF WebhookInv
<1>8. ASSUME NEW i \in Instances, Disconnect(i)
      PROVE  WebhookInv'
  <2>1. ASSUME NEW j \in Instances, j # i
        PROVE  (WireFollowsChain(j) /\ SetHolds(j) /\ RemoveIsDue(j))'
    BY <1>8, <2>1, WebhookUntouched DEF SocketInv, TypeOK, WebhookInv, Disconnect, OnTurn, Up
  <2>2. /\ wire'[i] = wire[i] \cup (IF i \in Registers THEN {"bye"} ELSE {})
        /\ unsettled'[i] <=> (chain[i] \in {"removing", "setting"} \/ "lateSet" \in wire[i])
        /\ released'[i] /\ UNCHANGED <<proc, chain, webhook, disturbed, lost>>
    BY <1>8 DEF SocketInv, TypeOK, Disconnect
  <2>3. WireFollowsChain(i) /\ SetHolds(i)
    BY DEF WebhookInv
  <2>4. (WireFollowsChain(i) /\ SetHolds(i) /\ RemoveIsDue(i))'
    BY <2>2, <2>3 DEF WireFollowsChain, SetHolds, RemoveIsDue, Removes
  <2>5. QED
    BY <2>1, <2>4 DEF WebhookInv
<1>9. CASE Die \/ \E i \in Instances : DisconnectThrows(i)
  <2>1. Fresh /\ proc' = "crashed" /\ UNCHANGED <<webhook, lost, unsettled>>
    BY <1>9 DEF Die, DisconnectThrows
  <2>2. QED
    BY <2>1, FreshWebhook
<1>10. CASE Exit
  <2>1. ASSUME NEW i \in Instances
        PROVE  released[i]
    <3>1. PICK k \in 1 .. Len(Order) : Order[k] = i
      BY PushAssumption DEF Instances, Range
    <3>2. QED
      BY <1>10, <3>1 DEF Exit, SocketInv, ShutdownInOrder
  <2>2. QED
    BY <1>10, <2>1, FreshWebhook DEF Exit
<1>11. CASE ConnectAll
  <2> SUFFICES ASSUME NEW i \in Instances
               PROVE  (WireFollowsChain(i) /\ SetHolds(i) /\ RemoveIsDue(i))'
    BY DEF WebhookInv
  <2>1. /\ wire'[i] = wire[i] \cup (IF i \in Registers THEN {"clean"} ELSE {})
        /\ chain'[i] = IF i \in Registers THEN "removing" ELSE "idle"
        /\ UNCHANGED <<released, webhook, disturbed, lost, unsettled>>
        /\ proc' = "connected" /\ proc = "booting"
    BY <1>11 DEF ConnectAll
  <2>2. WireFollowsChain(i) /\ ~released[i]
    BY <2>1 DEF WebhookInv, SocketInv, ShutdownInOrder
  <2>3. QED
    BY <2>1, <2>2 DEF WireFollowsChain, SetHolds, RemoveIsDue, Up
<1>12. CASE Start
  <2> SUFFICES ASSUME NEW i \in Instances
               PROVE  (WireFollowsChain(i) /\ SetHolds(i) /\ RemoveIsDue(i))'
    BY DEF WebhookInv
  <2>1. WireFollowsChain(i) /\ SetHolds(i) /\ ~released[i]
    BY <1>12 DEF Start, WebhookInv, SocketInv, ShutdownInOrder
  <2>2. QED
    BY <1>12, <2>1 DEF Start, WireFollowsChain, SetHolds, RemoveIsDue, Up
<1>13. QED
  BY <1>2, <1>3, <1>4, <1>5, <1>6, <1>7, <1>8, <1>9, <1>10, <1>11, <1>12
     DEF Next, InstanceStep

\* The whole invariant holds in every reachable state.
LEMMA InvAlways == Spec => [](SocketInv /\ WebhookInv)
<1>1. Init => WebhookInv
  BY DEF Init, WebhookInv, WireFollowsChain, SetHolds, RemoveIsDue
<1>2. QED
  BY <1>1, InitSocket, SocketStep, WebhookStep, PTL DEF Spec

-----------------------------------------------------------------------------
(* The theorems.                                                           *)

\* Type correctness.
THEOREM TypeCorrect == Spec => []TypeOK
<1>1. SocketInv => TypeOK
  BY DEF SocketInv
<1>2. QED
  BY <1>1, InvAlways, PTL

\* An instance whose push is wanted has exactly one of a live socket and an armed
\* timer, and no live socket is ever overwritten (client.ts 1464-1494).
THEOREM SocketOrTimerAlways == Spec => []SocketOrTimer
<1>1. SocketInv => SocketOrTimer
  BY DEF SocketInv
<1>2. QED
  BY <1>1, InvAlways, PTL

\* One keepalive interval per live socket, none without one (client.ts 1399).
THEOREM KeepaliveAlways == Spec => []KeepaliveMatchesSocket
<1>1. SocketInv => KeepaliveMatchesSocket
  BY DEF SocketInv
<1>2. QED
  BY <1>1, InvAlways, PTL

\* The reconnect delay is the one due after that many failures, whatever the
\* delays are (client.ts 1384, 1464-1474).
THEOREM BackoffAlways == Spec => []BackoffFollowsFailures
<1>1. SocketInv => BackoffFollowsFailures
  BY DEF SocketInv
<1>2. QED
  BY <1>1, InvAlways, PTL

\* A registration taken for done holds until disconnect(), and what is left
\* behind at the exit is removed (client.ts 1830-1834, config.ts 48-51).
THEOREM WebhookAlways == Spec => []WebhookFollowsProcess
<1>1. SocketInv /\ WebhookInv => WebhookFollowsProcess
  BY DEF WebhookInv, SetHolds, RemoveIsDue, WebhookFollowsProcess
<1>2. QED
  BY <1>1, InvAlways, PTL

=============================================================================
