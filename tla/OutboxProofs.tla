------------------------------ MODULE OutboxProofs ------------------------------
(***************************************************************************)
(* The pacer implements the abstract Outbox, step by step: what a runner   *)
(* holds in hand followed by what waits in the queue is the conversation's *)
(* outbox.  For every set of conversations and every configuration.        *)
(***************************************************************************)
EXTENDS PacerProofs, SequenceTheorems

-----------------------------------------------------------------------------
(* Sequences.                                                              *)

\* Taking the head of a queue and putting it in front of the rest changes nothing.
LEMMA TakeHead ==
  ASSUME NEW q \in Seq(Nat), q # <<>>
  PROVE  /\ <<Head(q)>> \in Seq(Nat) /\ Tail(q) \in Seq(Nat) /\ <<Head(q)>> \o Tail(q) = q
         /\ Len(Tail(q)) = Len(q) - 1 /\ Len(<<Head(q)>>) = 1
<1>1. Head(q) \in Nat /\ Tail(q) \in Seq(Nat) /\ Len(Tail(q)) = Len(q) - 1
  OBVIOUS
<1>2. <<Head(q)>> \in Seq(Nat) /\ Len(<<Head(q)>>) = 1
  BY <1>1
<1>3. <<Head(q)>> \o Tail(q) = q
  BY <1>1, <1>2
<1>4. QED
  BY <1>1, <1>2, <1>3

\* The head of a queue behind one request is that request.
LEMMA OneBefore ==
  ASSUME NEW h \in Seq(Nat), Len(h) = 1, NEW q \in Seq(Nat)
  PROVE  h \o q # <<>> /\ Head(h \o q) = Head(h) /\ Tail(h \o q) = q /\ Head(h) \in Nat
<1> DEFINE s == h \o q
           n == Len(q)
           t == Tail(s)
<1>1. n \in Nat
  BY LenProperties
<1>2. s \in Seq(Nat) /\ Len(s) = Len(h) + n
  BY ConcatProperties
<1>3. \A i \in 1..Len(h) + n : s[i] = IF i <= Len(h) THEN h[i] ELSE q[i - Len(h)]
  BY ConcatProperties
<1> HIDE DEF s, n
<1>4. h # <<>>
  <2>1. Len(<<>>) = 0
    OBVIOUS
  <2>2. QED
    BY <2>1
<1>5. s # <<>>
  <2>1. Len(s) # 0
    BY <1>1, <1>2
  <2>2. QED
    BY <2>1, EmptySeq
<1>6. Head(s) = s[1] /\ Head(h) = h[1]
  BY <1>4, <1>5
<1>7. s[1] = h[1]
  BY <1>1, <1>3
<1>8. Head(h) \in Nat
  BY <1>4, HeadTailProperties
<1>9. /\ t \in Seq(Nat) /\ Len(t) = Len(s) - 1
      /\ \A i \in 1..Len(t) : t[i] = s[i + 1]
  BY <1>2, <1>5, HeadTailProperties
<1> HIDE DEF t
<1>10. Len(t) = n
  BY <1>1, <1>2, <1>9
<1>11. ASSUME NEW i \in 1..n
       PROVE  t[i] = q[i]
  <2>1. t[i] = s[i + 1]
    BY <1>9, <1>10
  <2>2. i + 1 \in 1..Len(h) + n /\ ~(i + 1 <= Len(h)) /\ i + 1 - Len(h) = i
    BY <1>1
  <2>3. s[i + 1] = q[i + 1 - Len(h)]
    BY <1>3, <2>2
  <2>4. QED
    BY <2>1, <2>2, <2>3
<1>12. t = q
  BY <1>9, <1>10, <1>11, SeqEqual DEF n
<1>13. QED
  BY <1>5, <1>6, <1>7, <1>8, <1>12 DEF s, t

\* Nothing in front of a queue is the queue.
LEMMA EmptyBefore == ASSUME NEW q \in Seq(Nat) PROVE <<>> \o q = q
  BY ConcatEmptySeq

\* What is appended to a queue is appended to it with what is in front of it.
LEMMA AppendAfter ==
  ASSUME NEW h \in Seq(Nat), NEW q \in Seq(Nat), NEW x \in Nat
  PROVE  h \o Append(q, x) = Append(h \o q, x)
<1>1. Append(q, x) = q \o <<x>> /\ <<x>> \in Seq(Nat)
  BY AppendIsConcat
<1>2. h \o q \in Seq(Nat)
  BY ConcatProperties
<1>3. Append(h \o q, x) = (h \o q) \o <<x>>
  BY <1>2, AppendIsConcat
<1>4. (h \o q) \o <<x>> = h \o (q \o <<x>>)
  BY <1>1, ConcatAssociative
<1>5. QED
  BY <1>1, <1>3, <1>4

\* How the lengths follow.
LEMMA Lengths ==
  ASSUME NEW s \in Seq(Nat)
  PROVE  /\ Len(s) \in Nat
         /\ \A x \in Nat : Len(Append(s, x)) = Len(s) + 1
         /\ s # <<>> => Len(Tail(s)) = Len(s) - 1
  BY LenProperties, AppendProperties, HeadTailProperties

\* An accepted request is one more pending, a delivered one is one less.
LEMMA Balance ==
  ASSUME NEW a \in Nat, NEW d \in Nat, NEW p \in Nat, a = d + p
  PROVE  a + 1 = d + (p + 1) /\ a = (d + 1) + (p - 1)
  OBVIOUS

-----------------------------------------------------------------------------
(* What the outbox of a conversation holds.                                *)

Pending == [c \in Conversations |-> inHand[c] \o queue[c]]

\* The runner of a running pacer exits only with an empty queue, and what was
\* acknowledged and not handed over is in its hand or in the queue.
Served(c) ==
  ~stopped => /\ pc[c] = "none" => queue[c] = <<>>
              /\ accepted[c] = Len(delivered[c]) + Len(Pending[c])

ServedInv == \A c \in Conversations : Served(c)

\* The types of one conversation, and the empty hand of a runner that does not sleep.
LEMMA ConversationTypes ==
  ASSUME BaseInv, NEW c \in Conversations
  PROVE  /\ queue[c] \in Seq(Nat) /\ inHand[c] \in Seq(Nat) /\ delivered[c] \in Seq(Nat)
         /\ accepted[c] \in Nat
         /\ pc[c] = "sleeping" => Len(inHand[c]) = 1
         /\ pc[c] # "sleeping" => inHand[c] = <<>>
         /\ Pending[c] = inHand[c] \o queue[c] /\ Pending[c] \in Seq(Nat)
         /\ Len(Pending[c]) <= Len(queue[c]) + 1
<1>1. /\ queue[c] \in Seq(Nat) /\ inHand[c] \in Seq(Nat) /\ delivered[c] \in Seq(Nat)
      /\ accepted[c] \in Nat /\ Len(inHand[c]) = IF pc[c] = "sleeping" THEN 1 ELSE 0
  BY DEF BaseInv, TypeOK
<1>2. pc[c] # "sleeping" => inHand[c] = <<>>
  BY <1>1
<1>3. Pending[c] = inHand[c] \o queue[c]
  BY DEF Pending
<1>4. Pending[c] \in Seq(Nat) /\ Len(Pending[c]) = Len(inHand[c]) + Len(queue[c])
  <2> DEFINE h == inHand[c]
             q == queue[c]
  <2>1. h \in Seq(Nat) /\ q \in Seq(Nat) /\ Pending[c] = h \o q
    BY <1>1, <1>3
  <2> HIDE DEF h, q
  <2>2. h \o q \in Seq(Nat) /\ Len(h \o q) = Len(h) + Len(q)
    BY <2>1, ConcatProperties
  <2>3. QED
    BY <2>1, <2>2 DEF h, q
<1>5. Len(queue[c]) \in Nat
  BY <1>1
<1>6. Len(Pending[c]) <= Len(queue[c]) + 1
  BY <1>1, <1>4, <1>5
<1>7. QED
  BY <1>1, <1>2, <1>3, <1>4, <1>6

\* A step that moves nothing of the conversations but c's.
LEMMA PendingAt ==
  ASSUME BaseInv, NEW c \in Conversations, NEW p,
         \A d \in Conversations \ {c} : inHand'[d] = inHand[d] /\ queue'[d] = queue[d],
         inHand'[c] \o queue'[c] = p
  PROVE  Pending' = [Pending EXCEPT ![c] = p] /\ Pending'[c] = p
         /\ \A d \in Conversations \ {c} : Pending'[d] = Pending[d]
  BY DEF Pending

\* Starting or continuing a runner moves the oldest request of its queue into its hand.
LEMMA BeginPending ==
  ASSUME BaseInv, NEW c \in Conversations, NEW q \in Seq(Nat), q # <<>>, NEW last,
         BeginNext(c, q, last)
  PROVE  /\ Pending' = [Pending EXCEPT ![c] = q] /\ Pending'[c] = q
         /\ pc'[c] = "sleeping"
         /\ \A d \in Conversations \ {c} :
              Pending'[d] = Pending[d] /\ queue'[d] = queue[d] /\ pc'[d] = pc[d]
<1>1. /\ inHand' = [inHand EXCEPT ![c] = <<Head(q)>>] /\ queue' = [queue EXCEPT ![c] = Tail(q)]
      /\ pc' = [pc EXCEPT ![c] = "sleeping"]
  BY BeginFacts
<1>2. inHand'[c] = <<Head(q)>> /\ queue'[c] = Tail(q) /\ pc'[c] = "sleeping"
  BY <1>1 DEF BaseInv, TypeOK
<1>3. \A d \in Conversations \ {c} : inHand'[d] = inHand[d] /\ queue'[d] = queue[d] /\ pc'[d] = pc[d]
  BY <1>1 DEF BaseInv, TypeOK
<1>4. <<Head(q)>> \o Tail(q) = q
  BY TakeHead
<1>5. inHand'[c] \o queue'[c] = q
  BY <1>2, <1>4
<1>6. QED
  BY <1>2, <1>3, <1>5, PendingAt

-----------------------------------------------------------------------------
(* The steps of the outbox.                                                *)

\* send() puts the request at the end of the outbox.
LEMMA AcceptStep ==
  ASSUME BaseInv, ServedInv, NEW c \in Conversations, SendAccepted(c)
  PROVE  /\ Pending' = [Pending EXCEPT ![c] = Append(@, accepted[c] + 1)]
         /\ ServedInv'
<1> DEFINE q == Append(queue[c], accepted[c] + 1)
           last == IF c \in known THEN lastReleaseAt[c] ELSE Never
<1>1. q \in Seq(Nat) /\ q # <<>> /\ accepted[c] + 1 \in Nat
  BY AcceptedQueue
<1>2. /\ ~stopped /\ accepted' = [accepted EXCEPT ![c] = @ + 1] /\ UNCHANGED <<stopped, delivered>>
  BY DEF SendAccepted, historyVars
<1>3. accepted'[c] = accepted[c] + 1 /\ \A d \in Conversations \ {c} : accepted'[d] = accepted[d]
  BY <1>2 DEF BaseInv, TypeOK
<1>4. /\ queue[c] \in Seq(Nat) /\ inHand[c] \in Seq(Nat) /\ Pending[c] \in Seq(Nat)
      /\ Pending[c] = inHand[c] \o queue[c] /\ accepted[c] \in Nat /\ delivered[c] \in Seq(Nat)
  BY ConversationTypes
<1>5. accepted[c] = Len(delivered[c]) + Len(Pending[c])
  BY <1>2 DEF ServedInv, Served
<1>6. inHand[c] \o q = Append(Pending[c], accepted[c] + 1)
  <2>1. inHand[c] \o q = Append(inHand[c] \o queue[c], accepted[c] + 1)
    BY <1>1, <1>4, AppendAfter
  <2>2. QED
    BY <1>4, <2>1
<1>7. /\ Pending' = [Pending EXCEPT ![c] = inHand[c] \o q] /\ Pending'[c] = inHand[c] \o q
      /\ pc'[c] # "none"
      /\ \A d \in Conversations \ {c} :
           Pending'[d] = Pending[d] /\ queue'[d] = queue[d] /\ pc'[d] = pc[d]
  <2>1. CASE pc[c] = "none"
    <3>1. BeginNext(c, q, last)
      BY <2>1 DEF SendAccepted
    <3>2. inHand[c] \o q = q
      BY <1>1, <2>1, ConversationTypes, EmptyBefore
    <3> HIDE DEF q, last
    <3>3. QED
      BY <1>1, <3>1, <3>2, BeginPending
  <2>2. CASE pc[c] # "none"
    <3>1. queue' = [queue EXCEPT ![c] = q] /\ UNCHANGED <<pc, inHand>>
      BY <2>2 DEF SendAccepted, runnerVars
    <3> HIDE DEF q
    <3>2. queue'[c] = q /\ \A d \in Conversations \ {c} : queue'[d] = queue[d]
      BY <3>1 DEF BaseInv, TypeOK
    <3>3. inHand'[c] \o queue'[c] = inHand[c] \o q
      BY <3>1, <3>2
    <3>4. QED
      BY <2>2, <3>1, <3>2, <3>3, PendingAt
  <2>3. QED
    BY <2>1, <2>2
<1> HIDE DEF q, last
<1>8. Pending' = [Pending EXCEPT ![c] = Append(@, accepted[c] + 1)]
  BY <1>6, <1>7 DEF Pending
<1>9. accepted'[c] = Len(delivered'[c]) + Len(Pending'[c])
  <2>1. Len(Append(Pending[c], accepted[c] + 1)) = Len(Pending[c]) + 1
    BY <1>1, <1>4, Lengths
  <2>2. Len(Pending'[c]) = Len(Pending[c]) + 1
    BY <1>6, <1>7, <2>1
  <2>3. Len(Pending[c]) \in Nat /\ Len(delivered[c]) \in Nat
    BY <1>4, Lengths
  <2>4. accepted[c] + 1 = Len(delivered[c]) + (Len(Pending[c]) + 1)
    BY <1>4, <1>5, <2>3, Balance
  <2>5. Len(delivered'[c]) = Len(delivered[c])
    BY <1>2
  <2>6. QED
    BY <1>3, <2>2, <2>4, <2>5
<1>10. ServedInv'
  BY <1>2, <1>3, <1>7, <1>9 DEF ServedInv, Served
<1>11. QED
  BY <1>8, <1>10

\* A release takes the first request of the outbox.
LEMMA ReleasePending ==
  ASSUME BaseInv, ServedInv, NEW c \in Conversations, WakeReleases(c)
  PROVE  /\ Pending[c] # <<>> /\ ~stopped /\ UNCHANGED stopped
         /\ delivered' = [delivered EXCEPT ![c] = Append(@, Head(Pending[c]))]
         /\ Pending' = [Pending EXCEPT ![c] = Tail(@)]
         /\ ServedInv'
<1>1. /\ pc[c] = "sleeping" /\ ~stopped
      /\ delivered' = [delivered EXCEPT ![c] = Append(@, Head(inHand[c]))]
      /\ pc' = [pc EXCEPT ![c] = "sending"] /\ inHand' = [inHand EXCEPT ![c] = <<>>]
      /\ UNCHANGED <<stopped, queue, accepted>>
  BY DEF WakeReleases, ReleaseInHand
<1>2. /\ inHand[c] \in Seq(Nat) /\ queue[c] \in Seq(Nat) /\ Len(inHand[c]) = 1
      /\ delivered[c] \in Seq(Nat) /\ Pending[c] = inHand[c] \o queue[c] /\ Pending[c] \in Seq(Nat)
  BY <1>1, ConversationTypes
<1>3. /\ Pending[c] # <<>> /\ Head(Pending[c]) = Head(inHand[c]) /\ Tail(Pending[c]) = queue[c]
      /\ Head(inHand[c]) \in Nat
  <2> DEFINE h == inHand[c]
             q == queue[c]
  <2>1. h \in Seq(Nat) /\ q \in Seq(Nat) /\ Len(h) = 1 /\ Pending[c] = h \o q
    BY <1>2
  <2> HIDE DEF h, q
  <2>2. h \o q # <<>> /\ Head(h \o q) = Head(h) /\ Tail(h \o q) = q /\ Head(h) \in Nat
    BY <2>1, OneBefore
  <2>3. Pending[c] # <<>> /\ Head(Pending[c]) = Head(h) /\ Tail(Pending[c]) = q /\ Head(h) \in Nat
    BY <2>1, <2>2
  <2>4. QED
    BY <2>3 DEF h, q
<1>4. /\ inHand'[c] = <<>> /\ pc'[c] = "sending" /\ delivered'[c] = Append(delivered[c], Head(inHand[c]))
      /\ \A d \in Conversations \ {c} : inHand'[d] = inHand[d] /\ pc'[d] = pc[d] /\ delivered'[d] = delivered[d]
  BY <1>1 DEF BaseInv, TypeOK
<1>5. inHand'[c] \o queue'[c] = Tail(Pending[c])
  BY <1>1, <1>2, <1>3, <1>4, EmptyBefore
<1>6. /\ Pending' = [Pending EXCEPT ![c] = Tail(Pending[c])] /\ Pending'[c] = Tail(Pending[c])
      /\ \A d \in Conversations \ {c} : Pending'[d] = Pending[d]
  BY <1>1, <1>4, <1>5, PendingAt
<1>7. Pending' = [Pending EXCEPT ![c] = Tail(@)]
  BY <1>6 DEF Pending
<1>8. accepted'[c] = Len(delivered'[c]) + Len(Pending'[c])
  <2>1. Len(Append(delivered[c], Head(inHand[c]))) = Len(delivered[c]) + 1
    BY <1>2, <1>3, Lengths
  <2>2. Len(delivered'[c]) = Len(delivered[c]) + 1
    BY <1>4, <2>1
  <2>3. Len(Tail(Pending[c])) = Len(Pending[c]) - 1
    BY <1>2, <1>3, Lengths
  <2>4. Len(Pending'[c]) = Len(Pending[c]) - 1
    BY <1>6, <2>3
  <2>5. Len(Pending[c]) \in Nat /\ Len(delivered[c]) \in Nat
    BY <1>2, Lengths
  <2>6. accepted[c] = Len(delivered[c]) + Len(Pending[c]) /\ accepted'[c] = accepted[c]
    BY <1>1 DEF ServedInv, Served
  <2>7. accepted[c] \in Nat
    BY ConversationTypes
  <2>8. accepted[c] = (Len(delivered[c]) + 1) + (Len(Pending[c]) - 1)
    BY <2>5, <2>6, <2>7, Balance
  <2>9. QED
    BY <2>2, <2>4, <2>6, <2>8
<1>9. ServedInv'
  BY <1>1, <1>4, <1>6, <1>8 DEF ServedInv, Served
<1>10. QED
  BY <1>1, <1>3, <1>7, <1>9

\* A runner that wakes after stop() drops the first request of the outbox.
LEMMA AbandonStep ==
  ASSUME BaseInv, NEW c \in Conversations, WakeStopped(c)
  PROVE  /\ Pending[c] # <<>> /\ stopped /\ UNCHANGED <<stopped, delivered>>
         /\ Pending' = [Pending EXCEPT ![c] = Tail(@)]
<1>1. /\ pc[c] = "sleeping" /\ stopped /\ inHand' = [inHand EXCEPT ![c] = <<>>]
      /\ UNCHANGED <<stopped, queue, delivered>>
  BY DEF WakeStopped, Finish, historyVars
<1>2. /\ inHand[c] \in Seq(Nat) /\ queue[c] \in Seq(Nat) /\ Len(inHand[c]) = 1
      /\ Pending[c] = inHand[c] \o queue[c]
  BY <1>1, ConversationTypes
<1>3. Pending[c] # <<>> /\ Tail(Pending[c]) = queue[c]
  BY <1>2, OneBefore
<1>4. inHand'[c] = <<>> /\ \A d \in Conversations \ {c} : inHand'[d] = inHand[d]
  BY <1>1 DEF BaseInv, TypeOK
<1>5. inHand'[c] \o queue'[c] = Tail(Pending[c])
  BY <1>1, <1>2, <1>3, <1>4, EmptyBefore
<1>6. Pending' = [Pending EXCEPT ![c] = Tail(Pending[c])]
  <2>1. \A d \in Conversations \ {c} : inHand'[d] = inHand[d] /\ queue'[d] = queue[d]
    BY <1>1, <1>4
  <2>2. QED
    BY <1>5, <2>1, PendingAt
<1>7. Pending' = [Pending EXCEPT ![c] = Tail(@)]
  BY <1>6 DEF Pending
<1>8. QED
  BY <1>1, <1>3, <1>7

\* A send that settles leaves every outbox as it is: the runner takes the next request
\* into its hand, or exits with an empty hand.
LEMMA SettleStep ==
  ASSUME BaseInv, ServedInv, NEW c \in Conversations, SendSettles(c)
  PROVE  UNCHANGED <<Pending, stopped, delivered>> /\ ServedInv'
<1>1. pc[c] = "sending" /\ UNCHANGED <<stopped, accepted, delivered>>
  BY DEF SendSettles
<1>2. /\ inHand[c] = <<>> /\ queue[c] \in Seq(Nat) /\ Pending[c] = inHand[c] \o queue[c]
  BY <1>1, ConversationTypes
<1>3. Pending[c] = queue[c]
  BY <1>2, EmptyBefore
<1>4. ASSUME NEW p, Pending' = [Pending EXCEPT ![c] = p], p = Pending[c]
      PROVE  Pending' = Pending
  BY <1>4 DEF Pending
<1>5. /\ Pending' = [Pending EXCEPT ![c] = queue[c]]
      /\ (pc'[c] = "none" => queue'[c] = <<>> \/ stopped)
      /\ \A d \in Conversations \ {c} : queue'[d] = queue[d] /\ pc'[d] = pc[d]
  <2>1. CASE queue[c] # <<>> /\ ~stopped
    <3>1. BeginNext(c, queue[c], lastReleaseAt[c])
      BY <2>1 DEF SendSettles
    <3>2. QED
      BY <1>2, <2>1, <3>1, BeginPending
  <2>2. CASE ~(queue[c] # <<>> /\ ~stopped)
    <3>1. /\ pc' = [pc EXCEPT ![c] = "none"] /\ inHand' = [inHand EXCEPT ![c] = <<>>]
          /\ UNCHANGED queue
      BY <2>2 DEF SendSettles, Finish
    <3>2. /\ inHand'[c] = <<>> /\ pc'[c] = "none"
          /\ \A d \in Conversations \ {c} : inHand'[d] = inHand[d] /\ pc'[d] = pc[d]
      BY <3>1 DEF BaseInv, TypeOK
    <3>3. inHand'[c] \o queue'[c] = queue[c]
      BY <1>2, <3>1, <3>2, EmptyBefore
    <3>4. Pending' = [Pending EXCEPT ![c] = queue[c]]
      BY <3>1, <3>2, <3>3, PendingAt
    <3>5. QED
      BY <2>2, <3>1, <3>2, <3>4
  <2>3. QED
    BY <2>1, <2>2
<1>6. Pending' = Pending
  BY <1>3, <1>4, <1>5
<1>7. ServedInv'
  BY <1>1, <1>5, <1>6 DEF ServedInv, Served
<1>8. QED
  BY <1>1, <1>6, <1>7

-----------------------------------------------------------------------------
(* The refinement.                                                         *)

\* Initially every queue is served, and nothing is pending.
LEMMA InitServed == Init => ServedInv /\ \A c \in Conversations : Pending[c] = <<>>
<1> SUFFICES ASSUME Init, NEW c \in Conversations PROVE Served(c) /\ Pending[c] = <<>>
  BY DEF ServedInv
<1>1. <<>> \in Seq(Nat) /\ Len(<<>>) = 0
  OBVIOUS
<1>2. inHand[c] = <<>> /\ queue[c] = <<>> /\ delivered[c] = <<>> /\ accepted[c] = 0
  BY DEF Init
<1>3. Pending[c] = <<>> \o <<>>
  BY <1>2 DEF Pending
<1>4. Pending[c] = <<>>
  BY <1>1, <1>3, EmptyBefore
<1>5. accepted[c] = Len(delivered[c]) + Len(Pending[c])
  BY <1>1, <1>2, <1>4
<1>6. QED
  BY <1>2, <1>4, <1>5 DEF Served

\* Every step keeps every queue served.
LEMMA ServedStep == BaseInv /\ ServedInv /\ [Next]_vars => ServedInv'
<1> SUFFICES ASSUME BaseInv, ServedInv, [Next]_vars PROVE ServedInv'
  OBVIOUS
<1>1. ASSUME NEW c \in Conversations, SendAccepted(c)
      PROVE  ServedInv'
  BY <1>1, AcceptStep DEF ServedInv
<1>2. ASSUME NEW c \in Conversations, WakeReleases(c)
      PROVE  ServedInv'
  BY <1>2, ReleasePending
<1>3. ASSUME NEW c \in Conversations, WakeStopped(c)
      PROVE  ServedInv'
  <2>1. stopped'
    BY <1>3, AbandonStep
  <2>2. QED
    BY <2>1 DEF ServedInv, Served
<1>4. ASSUME NEW c \in Conversations, SendSettles(c)
      PROVE  ServedInv'
  BY <1>4, SettleStep
<1>5. CASE Stop
  BY <1>5 DEF Stop, ServedInv, Served
<1>6. CASE Tick \/ UNCHANGED vars \/ \E c \in Conversations : SendRefused(c)
  <2>1. UNCHANGED <<stopped, queue, pc, inHand, accepted, delivered>>
    BY <1>6 DEF Tick, SendRefused, vars, runnerVars, historyVars
  <2>2. QED
    BY <2>1 DEF ServedInv, Served, Pending
<1>7. QED
  BY <1>1, <1>2, <1>3, <1>4, <1>5, <1>6 DEF Next, Runner

\* Every step of the pacer is a step of the outbox, or leaves it as it is.
LEMMA OutboxStep ==
  BaseInv /\ ServedInv /\ [Next]_vars => [Box!Next]_<<Pending, delivered, stopped>>
<1> SUFFICES ASSUME BaseInv, ServedInv, [Next]_vars
             PROVE  Box!Next \/ UNCHANGED <<Pending, delivered, stopped>>
  OBVIOUS
<1>1. ASSUME NEW c \in Conversations, SendAccepted(c)
      PROVE  Box!Accept(c)
  <2>1. /\ ~stopped /\ Len(queue[c]) < MaxQueueDepth /\ UNCHANGED <<delivered, stopped>>
    BY <1>1 DEF SendAccepted, historyVars
  <2>2. Pending' = [Pending EXCEPT ![c] = Append(@, accepted[c] + 1)]
    BY <1>1, AcceptStep
  <2>3. /\ queue[c] \in Seq(Nat) /\ Pending[c] \in Seq(Nat) /\ delivered[c] \in Seq(Nat)
        /\ Len(Pending[c]) <= Len(queue[c]) + 1
    BY ConversationTypes
  <2>4. Len(queue[c]) \in Nat /\ Len(Pending[c]) \in Nat /\ MaxQueueDepth \in Nat
    BY <2>3, PacerAssumption
  <2>5. Len(Pending[c]) < MaxQueueDepth + 1
    BY <2>1, <2>3, <2>4
  <2>6. accepted[c] = Len(delivered[c]) + Len(Pending[c])
    BY <2>1 DEF ServedInv, Served
  <2>8. Pending' = [Pending EXCEPT ![c] = Append(@, Len(delivered[c]) + Len(Pending[c]) + 1)]
    BY <2>2, <2>6
  <2>9. QED
    BY <2>1, <2>5, <2>8 DEF Box!Accept, Box!NextRequest, Pending
<1>2. ASSUME NEW c \in Conversations, WakeReleases(c)
      PROVE  Box!Release(c)
  BY <1>2, ReleasePending DEF Box!Release, Pending
<1>3. ASSUME NEW c \in Conversations, WakeStopped(c)
      PROVE  Box!Abandon(c)
  BY <1>3, AbandonStep DEF Box!Abandon, Pending
<1>4. ASSUME NEW c \in Conversations, SendSettles(c)
      PROVE  UNCHANGED <<Pending, delivered, stopped>>
  BY <1>4, SettleStep
<1>5. ASSUME Stop
      PROVE  Box!Halt
  BY <1>5 DEF Stop, Box!Halt, runnerVars, historyVars
<1>6. CASE Tick \/ UNCHANGED vars \/ \E c \in Conversations : SendRefused(c)
  BY <1>6 DEF Tick, SendRefused, vars, runnerVars, historyVars, Pending
<1>7. QED
  BY <1>1, <1>2, <1>3, <1>4, <1>5, <1>6 DEF Next, Runner, Box!Next

\* "in-order delivery per conversation" and stop() (outbound-pacer.ts:124-157, 273-318):
\* the pacer implements the Outbox.  Requests leave a conversation in the order they were
\* acknowledged, each at most once, none is lost before stop(), none leaves after it, and
\* at most maxQueueDepth + 1 are pending.
THEOREM OutboxImplemented == Spec => ImplementsOutbox
<1>1. Init => Box!Init
  <2> SUFFICES ASSUME Init PROVE Box!Init
    OBVIOUS
  <2>1. \A c \in Conversations : inHand[c] \o queue[c] = <<>>
    BY InitServed DEF Pending
  <2>2. QED
    BY <2>1 DEF Init, Box!Init
<1>2. BaseInv /\ ServedInv /\ [Next]_vars => [Box!Next]_Box!outboxVars
  BY OutboxStep DEF Box!outboxVars, Pending
<1>3. QED
  BY <1>1, <1>2, InitBase, BaseStep, InitServed, ServedStep, PTL DEF Spec, ImplementsOutbox, Box!Spec

=============================================================================
