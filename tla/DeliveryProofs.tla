---------------------------- MODULE DeliveryProofs ----------------------------
(***************************************************************************)
(* The safety of the delivery path, for all sets of accounts, ids, clients *)
(* and messages, every subscription and all ages: its type, isolation of   *)
(* the accounts, what an ack proves, one broadcast a message, and no       *)
(* replay of what was acknowledged.  No bound on time or faults is used.   *)
(***************************************************************************)
EXTENDS Delivery, FiniteSetTheorems, SequenceTheorems, TLAPS

-----------------------------------------------------------------------------
(* Frames and how often one occurs.                                        *)

\* How often x occurs in s.
Count(s, x) == Cardinality({i \in DOMAIN s : s[i] = x})

\* The number of times x occurs in a sequence is a natural number.
LEMMA CountIsNat ==
  ASSUME NEW S, NEW s \in Seq(S), NEW x
  PROVE  Count(s, x) \in Nat /\ IsFiniteSet({i \in DOMAIN s : s[i] = x})
<1>1. DOMAIN s = 1..Len(s) /\ Len(s) \in Nat
  BY LenProperties
<1>2. IsFiniteSet(1..Len(s))
  BY <1>1, FS_Interval
<1>3. {i \in DOMAIN s : s[i] = x} \in SUBSET (1..Len(s))
  BY <1>1
<1>4. IsFiniteSet({i \in DOMAIN s : s[i] = x})
  BY <1>2, <1>3, FS_Subset
<1>5. QED
  BY <1>4, FS_CardinalityType DEF Count

\* Nothing occurs in the empty sequence.
LEMMA CountEmpty == ASSUME NEW x PROVE Count(<<>>, x) = 0
<1>1. {i \in DOMAIN <<>> : <<>>[i] = x} = {}
  OBVIOUS
<1>2. QED
  BY <1>1, FS_EmptySet DEF Count

\* Nothing that is added at the end is an x.
LEMMA CountExtended ==
  ASSUME NEW S, NEW s \in Seq(S), NEW t \in Seq(S), NEW x, Len(s) <= Len(t),
         \A i \in 1..Len(s) : t[i] = s[i], \A i \in 1..Len(t) : i > Len(s) => t[i] # x
  PROVE  Count(t, x) = Count(s, x)
<1>1. DOMAIN s = 1..Len(s) /\ DOMAIN t = 1..Len(t) /\ Len(s) \in Nat /\ Len(t) \in Nat
  BY LenProperties
<1>2. {i \in 1..Len(t) : t[i] = x} = {i \in 1..Len(s) : s[i] = x}
  BY <1>1
<1>3. QED
  BY <1>1, <1>2 DEF Count

\* Taking the first frame adds no occurrence.
LEMMA CountTail ==
  ASSUME NEW S, NEW s \in Seq(S), s # <<>>, NEW x
  PROVE  Count(Tail(s), x) <= Count(s, x)
<1> DEFINE A == {i \in DOMAIN Tail(s) : Tail(s)[i] = x}
           B == {i \in DOMAIN s : s[i] = x}
           f == [i \in A |-> i + 1]
<1>1. /\ Tail(s) \in Seq(S) /\ Len(Tail(s)) = Len(s) - 1
      /\ \A i \in 1..Len(Tail(s)) : Tail(s)[i] = s[i + 1]
  BY HeadTailProperties
<1>2. DOMAIN s = 1..Len(s) /\ DOMAIN Tail(s) = 1..Len(Tail(s)) /\ Len(s) \in Nat
  BY <1>1, LenProperties
<1>3. IsFiniteSet(B)
  BY CountIsNat
<1>4. f \in Injection(A, B)
  <2>1. ASSUME NEW i \in A
        PROVE  i + 1 \in B /\ i \in Int
    BY <1>1, <1>2
  <2> HIDE DEF A, B
  <2>2. f \in [A -> B]
    BY <2>1
  <2>3. \A i, j \in A : f[i] = f[j] => i = j
    BY <2>1
  <2>4. QED
    BY <2>2, <2>3 DEF Injection, IsInjective
<1>5. Cardinality(A) <= Cardinality(B)
  <2> HIDE DEF A, B, f
  <2>1. QED
    BY <1>3, <1>4, FS_Injection
<1>6. QED
  BY <1>5 DEF Count

\* A message is the pair of its account and its id, and not the ready frame.
LEMMA MessageFacts ==
  ASSUME NEW m \in Messages
  PROVE  /\ m # Ready /\ account(m) \in Accounts /\ id(m) \in Ids /\ m = <<account(m), id(m)>>
<1>1. m \in Accounts \X Ids
  BY DeliveryAssumption
<1>2. m = <<m[1], m[2]>> /\ m[1] \in Accounts /\ m[2] \in Ids
  BY <1>1
<1>3. m # <<"ready">>
  <2>1. Len(<<m[1], m[2]>>) = 2 /\ Len(<<"ready">>) = 1
    OBVIOUS
  <2>2. QED
    BY <1>2, <2>1
<1>4. QED
  BY <1>2, <1>3 DEF account, id, Ready

-----------------------------------------------------------------------------
(* The invariant.                                                          *)

\* At any time the upstream has created finitely many messages.
CreatedFinite == IsFiniteSet({m \in Messages : createdAt[m] # NotYet})

\* A subscriber is sent the messages of its account and greetings only.
FrameInv ==
  \A c \in Clients : \A i \in 1..Len(down[c]) :
    down[c][i] = Ready \/ (down[c][i] \in Messages /\ account(down[c][i]) = AccountOf[c])

\* An ack under way names a message that its sender acknowledges and has received.
AckInv ==
  \A c \in Clients : \A i \in 1..Len(up[c]) :
    c \in AutoAck /\ <<AccountOf[c], up[c][i]>> \in received[c]

\* What was broadcast or acknowledged stays on record until it is too old for a
\* broadcast or a replay.
RowInv ==
  \A m \in Messages :
    /\ row[m] # "absent" => createdAt[m] # NotYet
    /\ broadcasts[m] > 0 => createdAt[m] # NotYet /\ (row[m] # "absent" \/ Age(m) > Retention)
    /\ m \in acked => createdAt[m] # NotYet /\ (row[m] = "delivered" \/ Age(m) > Retention)

BaseInv == TypeOK /\ CreatedFinite /\ (\A m \in Messages : row[m] # "absent" => createdAt[m] # NotYet)

-----------------------------------------------------------------------------
(* What a step does to the frames of a client.                             *)

\* A replay holds undelivered messages of the account that are within the window.
LEMMA ReplayFacts ==
  ASSUME BaseInv, NEW acc, NEW q \in oldestFirst(undelivered(acc))
  PROVE  /\ q \in Seq(Messages)
         /\ \A i \in 1..Len(q) : q[i] \in undelivered(acc)
<1> DEFINE U == undelivered(acc)
           n == Cardinality(U)
<1>1. U \subseteq Messages
  BY DEF undelivered
<1>2. IsFiniteSet(U)
  <2>1. U \in SUBSET {m \in Messages : createdAt[m] # NotYet}
    BY DEF undelivered, BaseInv
  <2>2. QED
    BY <2>1, FS_Subset DEF BaseInv, CreatedFinite
<1>3. n \in Nat
  BY <1>2, FS_CardinalityType
<1>4. q \in [1..n -> U]
  BY DEF oldestFirst, SetToSeqs
<1> HIDE DEF n, U
<1>5. q \in Seq(U)
  BY <1>3, <1>4
<1>6. q \in Seq(Messages)
  BY <1>1, <1>5, SeqMonotonic
<1>7. \A i \in 1..Len(q) : q[i] \in U
  BY <1>5, ElementOfSeq
<1>8. QED
  BY <1>6, <1>7 DEF U

\* A broadcast hands the message to the subscribers of its account.
LEMMA BroadcastFacts ==
  ASSUME NEW m \in Messages, broadcast(m), NEW c \in Clients
  PROVE  down'[c] = down[c] \/ (down'[c] = Append(down[c], m) /\ account(m) = AccountOf[c])
  BY DEF broadcast

\* The frames on the way to a client after a step.
DownStep(c) ==
  \/ down'[c] = down[c]
  \/ down'[c] = <<>>
  \/ down[c] # <<>> /\ down'[c] = Tail(down[c])
  \/ \E m \in Messages : /\ down'[c] = Append(down[c], m) /\ account(m) = AccountOf[c]
                         /\ row[m] = "absent" /\ recent(m)
  \/ \E q \in Seq(Messages) : /\ down'[c] = down[c] \o <<Ready>> \o q
                              /\ \A i \in 1..Len(q) : q[i] \in undelivered(AccountOf[c])

\* Every step does one of these things to the frames of a client.
LEMMA DownSteps ==
  ASSUME BaseInv, [Next]_vars
  PROVE  /\ down' = [c \in Clients |-> down'[c]]
         /\ \A c \in Clients : DownStep(c)
<1>0. down = [c \in Clients |-> down[c]]
  BY DEF BaseInv, TypeOK
<1>a. ASSUME UNCHANGED down
      PROVE  down' = [c \in Clients |-> down'[c]] /\ \A c \in Clients : DownStep(c)
  BY <1>0, <1>a DEF DownStep
<1>1. ASSUME NEW m \in Messages, Ingest(m)
      PROVE  down' = [c \in Clients |-> down'[c]] /\ \A c \in Clients : DownStep(c)
  <2>1. CASE recent(m) /\ broadcast(m)
    <3>1. row[m] = "absent"
      BY <1>1 DEF Ingest, recordInbound
    <3>2. down' = [c \in Clients |-> down'[c]]
      BY <2>1 DEF broadcast
    <3>3. QED
      BY <2>1, <3>1, <3>2, BroadcastFacts DEF DownStep
  <2>2. QED
    BY <1>1, <1>a, <2>1 DEF Ingest
<1>2. ASSUME Die
      PROVE  down' = [c \in Clients |-> down'[c]] /\ \A c \in Clients : DownStep(c)
  BY <1>2 DEF Die, DownStep
<1>3. ASSUME NEW c \in Clients, NEW d, down' = [down EXCEPT ![c] = d],
             down'[c] = d => DownStep(c)
      PROVE  down' = [e \in Clients |-> down'[e]] /\ \A e \in Clients : DownStep(e)
  <2>1. down'[c] = d /\ \A e \in Clients \ {c} : down'[e] = down[e]
    BY <1>0, <1>3
  <2>2. down' = [e \in Clients |-> down'[e]]
    BY <1>0, <1>3
  <2>3. \A e \in Clients \ {c} : DownStep(e)
    BY <2>1 DEF DownStep
  <2>4. QED
    BY <1>3, <2>1, <2>2, <2>3
<1>4. ASSUME NEW c \in Clients, Greet(c)
      PROVE  down' = [e \in Clients |-> down'[e]] /\ \A e \in Clients : DownStep(e)
  <2>1. PICK q \in oldestFirst(undelivered(AccountOf[c])) :
               down' = [down EXCEPT ![c] = @ \o <<Ready>> \o q]
    BY <1>4 DEF Greet
  <2>2. q \in Seq(Messages) /\ \A i \in 1..Len(q) : q[i] \in undelivered(AccountOf[c])
    BY ReplayFacts
  <2> DEFINE d == down[c] \o <<Ready>> \o q
  <2>3. down' = [down EXCEPT ![c] = d]
    BY <2>1
  <2>4. down'[c] = d => DownStep(c)
    BY <2>2 DEF DownStep
  <2> HIDE DEF d
  <2>5. QED
    BY <1>3, <2>3, <2>4
<1>5. ASSUME NEW c \in Clients, ReceiveReady(c) \/ ReceiveMessage(c)
      PROVE  down' = [e \in Clients |-> down'[e]] /\ \A e \in Clients : DownStep(e)
  <2>1. down[c] # <<>> /\ down' = [down EXCEPT ![c] = Tail(down[c])]
    BY <1>5 DEF ReceiveReady, ReceiveMessage
  <2>2. down'[c] = Tail(down[c]) => DownStep(c)
    BY <2>1 DEF DownStep
  <2>3. QED
    BY <1>3, <2>1, <2>2
<1>6. ASSUME NEW c \in Clients, Break(c)
      PROVE  down' = [e \in Clients |-> down'[e]] /\ \A e \in Clients : DownStep(e)
  <2>1. down' = [down EXCEPT ![c] = <<>>] /\ (down'[c] = <<>> => DownStep(c))
    BY <1>6 DEF Break, DownStep
  <2>2. QED
    BY <1>3, <2>1
<1>7. CASE UNCHANGED vars \/ Restart \/ Prune \/ Tick
           \/ \E m \in Messages : Create(m) \/ IngestDuplicate(m) \/ IngestThrows(m)
  BY <1>7, <1>a DEF vars, linkVars, Restart, Prune, Tick, Create, IngestDuplicate, IngestThrows
<1>8. ASSUME NEW c \in Clients, Connect(c) \/ ConnectFails(c) \/ Reopen(c) \/ ProcessAck(c)
      PROVE  down' = [e \in Clients |-> down'[e]] /\ \A e \in Clients : DownStep(e)
  BY <1>8, <1>a DEF Connect, ConnectFails, Reopen, ProcessAck
<1>9. QED
  BY <1>1, <1>2, <1>4, <1>5, <1>6, <1>7, <1>8 DEF Next, LinkStep, Crash, CrashInIngest

\* The frames of a client after a step are frames.
LEMMA DownTyped ==
  ASSUME BaseInv, NEW c \in Clients, DownStep(c)
  PROVE  down'[c] \in Seq(Frames)
<1>1. down[c] \in Seq(Frames) /\ <<Ready>> \in Seq(Frames) /\ <<>> \in Seq(Frames)
  BY DEF BaseInv, TypeOK, Frames
<1>2. down[c] # <<>> => Tail(down[c]) \in Seq(Frames)
  BY <1>1, HeadTailProperties
<1>3. ASSUME NEW m \in Messages
      PROVE  Append(down[c], m) \in Seq(Frames)
  BY <1>1 DEF Frames
<1>4. ASSUME NEW q \in Seq(Messages)
      PROVE  down[c] \o <<Ready>> \o q \in Seq(Frames)
  <2>1. q \in Seq(Frames)
    BY SeqMonotonic DEF Frames
  <2>2. down[c] \o <<Ready>> \in Seq(Frames)
    BY <1>1, ConcatProperties
  <2>3. QED
    BY <2>1, <2>2, ConcatProperties
<1>5. QED
  BY <1>1, <1>2, <1>3, <1>4 DEF DownStep

\* The first frame of a client that is not a greeting is a message of some account.
LEMMA HeadIsMessage ==
  ASSUME TypeOK, NEW c \in Clients, down[c] # <<>>, Head(down[c]) # Ready
  PROVE  /\ Head(down[c]) \in Messages /\ id(Head(down[c])) \in Ids
         /\ Head(down[c]) = down[c][1] /\ 1 \in 1..Len(down[c])
<1>1. down[c] \in Seq(Frames)
  BY DEF TypeOK
<1>2. Head(down[c]) \in Frames /\ Head(down[c]) = down[c][1]
  BY <1>1, HeadTailProperties
<1>3. Len(down[c]) \in Nat /\ Len(down[c]) # 0
  BY <1>1, EmptySeq
<1>4. Head(down[c]) \in Messages
  BY <1>2 DEF Frames
<1>5. QED
  BY <1>2, <1>3, <1>4, MessageFacts

\* The acks on their way from a client after a step, and what it has received.
UpStep(c) ==
  /\ \/ received'[c] = received[c]
     \/ /\ down[c] # <<>> /\ Head(down[c]) # Ready
        /\ received'[c] = received[c] \cup {Head(down[c])}
  /\ \/ up'[c] = up[c]
     \/ up'[c] = <<>>
     \/ up[c] # <<>> /\ up'[c] = Tail(up[c])
     \/ /\ c \in AutoAck /\ down[c] # <<>> /\ Head(down[c]) # Ready
        /\ up'[c] = Append(up[c], id(Head(down[c]))) /\ Head(down[c]) \in received'[c]

\* Every step does one of these things to the acks of a client and to what it received.
LEMMA UpSteps ==
  ASSUME BaseInv, [Next]_vars
  PROVE  /\ up' \in [Clients -> Seq(Ids)] /\ received' \in [Clients -> SUBSET Messages]
         /\ \A c \in Clients : UpStep(c)
<1> DEFINE Good == /\ up' \in [Clients -> Seq(Ids)] /\ received' \in [Clients -> SUBSET Messages]
                   /\ \A c \in Clients : UpStep(c)
<1> SUFFICES Good
  OBVIOUS
<1>0. up \in [Clients -> Seq(Ids)] /\ received \in [Clients -> SUBSET Messages] /\ <<>> \in Seq(Ids)
  BY DEF BaseInv, TypeOK
<1>a. ASSUME UNCHANGED <<up, received>>
      PROVE  Good
  BY <1>0, <1>a DEF UpStep
<1>b. ASSUME UNCHANGED received, NEW c \in Clients, NEW u \in Seq(Ids), up' = [up EXCEPT ![c] = u],
             up'[c] = u => UpStep(c)
      PROVE  Good
  <2>1. up'[c] = u /\ \A d \in Clients \ {c} : up'[d] = up[d]
    BY <1>0, <1>b
  <2>2. \A d \in Clients \ {c} : UpStep(d)
    BY <1>b, <2>1 DEF UpStep
  <2>3. up' \in [Clients -> Seq(Ids)]
    BY <1>0, <1>b
  <2>4. QED
    BY <1>0, <1>b, <2>1, <2>2, <2>3
<1>1. ASSUME Die
      PROVE  Good
  <2>1. up' = [c \in Clients |-> <<>>] /\ UNCHANGED received
    BY <1>1 DEF Die
  <2>2. QED
    BY <1>0, <2>1 DEF UpStep
<1>2. ASSUME NEW c \in Clients, ProcessAck(c)
      PROVE  Good
  <2>1. up[c] # <<>> /\ up' = [up EXCEPT ![c] = Tail(up[c])] /\ UNCHANGED received
    BY <1>2 DEF ProcessAck
  <2>2. Tail(up[c]) \in Seq(Ids)
    BY <1>0, <2>1, HeadTailProperties
  <2>3. up'[c] = Tail(up[c]) => UpStep(c)
    BY <2>1 DEF UpStep
  <2> HIDE DEF Good
  <2>4. QED
    BY <1>b, <2>1, <2>2, <2>3
<1>3. ASSUME NEW c \in Clients, Break(c)
      PROVE  Good
  <2>1. up' = [up EXCEPT ![c] = <<>>] /\ UNCHANGED received
    BY <1>3 DEF Break, historyVars
  <2>2. up'[c] = <<>> => UpStep(c)
    BY <2>1 DEF UpStep
  <2> HIDE DEF Good
  <2>3. QED
    BY <1>0, <1>b, <2>1, <2>2
<1>4. ASSUME NEW c \in Clients, ReceiveMessage(c)
      PROVE  Good
  <2> DEFINE h == Head(down[c])
             u == IF c \in AutoAck THEN Append(up[c], id(h)) ELSE up[c]
  <2>1. down[c] # <<>> /\ h # Ready
    BY <1>4 DEF ReceiveMessage
  <2>2. h \in Messages /\ id(h) \in Ids
    BY <2>1, HeadIsMessage DEF BaseInv
  <2>3. received' = [received EXCEPT ![c] = @ \cup {h}] /\ up' = [up EXCEPT ![c] = u]
    BY <1>4 DEF ReceiveMessage
  <2>4. up[c] \in Seq(Ids)
    BY <1>0
  <2> HIDE DEF h
  <2>5. u \in Seq(Ids)
    BY <2>2, <2>4
  <2>6. up'[c] = u /\ received'[c] = received[c] \cup {h}
    BY <1>0, <2>3
  <2>7. \A d \in Clients \ {c} : up'[d] = up[d] /\ received'[d] = received[d]
    BY <1>0, <2>3
  <2>8. UpStep(c)
    BY <2>1, <2>6 DEF UpStep, h
  <2>9. \A d \in Clients \ {c} : UpStep(d)
    BY <2>7 DEF UpStep
  <2> HIDE DEF u
  <2>10. up' \in [Clients -> Seq(Ids)] /\ received' \in [Clients -> SUBSET Messages]
    BY <1>0, <2>2, <2>3, <2>5
  <2>11. QED
    BY <2>8, <2>9, <2>10
<1>5. CASE UNCHANGED vars \/ Restart \/ Prune \/ Tick
           \/ \E m \in Messages : Create(m) \/ IngestDuplicate(m) \/ Ingest(m) \/ IngestThrows(m)
  BY <1>5, <1>a DEF vars, linkVars, historyVars, Restart, Prune, Tick, Create, IngestDuplicate, Ingest,
                    IngestThrows
<1>6. ASSUME NEW c \in Clients,
             Connect(c) \/ ConnectFails(c) \/ Reopen(c) \/ Greet(c) \/ ReceiveReady(c)
      PROVE  Good
  BY <1>6, <1>a DEF Connect, ConnectFails, Reopen, Greet, ReceiveReady, historyVars
<1> HIDE DEF Good
<1>7. (\E m \in Messages : CrashInIngest(m)) \/ Crash => Die
  BY DEF Crash, CrashInIngest
<1>8. QED
  BY <1>1, <1>2, <1>3, <1>4, <1>5, <1>6, <1>7 DEF Next, LinkStep

-----------------------------------------------------------------------------
(* Types.                                                                  *)

\* A connection of the server is one of the client.
Joined == \A c \in Clients : (sub[c] # "none") <=> (sock[c] = "open")

LinkTypes ==
  /\ sub \in [Clients -> {"none", "fresh", "live"}]
  /\ sock \in [Clients -> {"opening", "open", "backoff"}]
  /\ readySeen \in [Clients -> BOOLEAN]

\* The types hold initially.
LEMMA InitBase == Init => BaseInv
<1> SUFFICES ASSUME Init PROVE BaseInv
  OBVIOUS
<1>1. <<>> \in Seq(Frames) /\ <<>> \in Seq(Ids)
  OBVIOUS
<1>2. down \in [Clients -> Seq(Frames)] /\ up \in [Clients -> Seq(Ids)]
  BY <1>1 DEF Init
<1>3. TypeOK
  BY <1>2 DEF Init, TypeOK, NotYet
<1>4. CreatedFinite
  <2>1. {m \in Messages : createdAt[m] # NotYet} = {}
    BY DEF Init
  <2>2. QED
    BY <2>1, FS_EmptySet DEF CreatedFinite
<1>5. QED
  BY <1>3, <1>4 DEF Init, BaseInv

\* Both ends of a connection open and close together.
LEMMA LinkTypesStep ==
  ASSUME BaseInv, [Next]_vars
  PROVE  LinkTypes' /\ Joined'
<1>0. LinkTypes /\ Joined
  BY DEF BaseInv, TypeOK, LinkTypes, Joined
<1>a. ASSUME UNCHANGED <<sub, sock, readySeen>>
      PROVE  LinkTypes' /\ Joined'
  BY <1>0, <1>a DEF LinkTypes, Joined
<1>1. ASSUME Die
      PROVE  LinkTypes' /\ Joined'
  BY <1>0, <1>1 DEF Die, LinkTypes, Joined
<1>2. ASSUME NEW c \in Clients, Connect(c)
      PROVE  LinkTypes' /\ Joined'
  BY <1>0, <1>2 DEF Connect, LinkTypes, Joined
<1>3. ASSUME NEW c \in Clients, ConnectFails(c) \/ Reopen(c)
      PROVE  LinkTypes' /\ Joined'
  BY <1>0, <1>3 DEF ConnectFails, Reopen, LinkTypes, Joined
<1>4. ASSUME NEW c \in Clients, Greet(c)
      PROVE  LinkTypes' /\ Joined'
  BY <1>0, <1>4 DEF Greet, LinkTypes, Joined
<1>5. ASSUME NEW c \in Clients, ReceiveReady(c)
      PROVE  LinkTypes' /\ Joined'
  BY <1>0, <1>5 DEF ReceiveReady, LinkTypes, Joined
<1>6. ASSUME NEW c \in Clients, Break(c)
      PROVE  LinkTypes' /\ Joined'
  BY <1>0, <1>6 DEF Break, LinkTypes, Joined
<1>7. CASE UNCHANGED vars \/ Restart \/ Prune \/ Tick
           \/ \E m \in Messages : Create(m) \/ IngestDuplicate(m) \/ Ingest(m) \/ IngestThrows(m)
  BY <1>7, <1>a DEF vars, linkVars, Restart, Prune, Tick, Create, IngestDuplicate, Ingest,
                    IngestThrows
<1>8. ASSUME NEW c \in Clients, ReceiveMessage(c) \/ ProcessAck(c)
      PROVE  LinkTypes' /\ Joined'
  BY <1>8, <1>a DEF ReceiveMessage, ProcessAck
<1>9. QED
  BY <1>1, <1>2, <1>3, <1>4, <1>5, <1>6, <1>7, <1>8 DEF Next, LinkStep, Crash, CrashInIngest

\* What the process and the database hold.
StoreTypes ==
  /\ now \in Nat /\ running \in BOOLEAN /\ faults \in Nat
  /\ createdAt \in [Messages -> Nat \cup {NotYet}]
  /\ row \in [Messages -> {"absent", "undelivered", "delivered"}]
  /\ fresh \subseteq Messages /\ acked \subseteq Messages /\ unsent \subseteq Messages
  /\ broadcasts \in [Messages -> 0..2]

\* Every step keeps the types of what the middleware stores.
LEMMA StoreTypesStep ==
  ASSUME BaseInv, [Next]_vars
  PROVE  StoreTypes'
<1>0. StoreTypes
  BY DEF BaseInv, TypeOK, StoreTypes
<1>a. ASSUME UNCHANGED <<now, createdAt, row, fresh, broadcasts, acked, unsent>>, running' \in BOOLEAN,
             faults' \in Nat
      PROVE  StoreTypes'
  BY <1>0, <1>a DEF StoreTypes
<1>b. ASSUME Die
      PROVE  /\ running' = FALSE /\ faults' \in Nat
             /\ UNCHANGED <<now, createdAt, broadcasts, acked, unsent>>
  <2>1. faults \in Nat
    BY <1>0 DEF StoreTypes
  <2>2. /\ running' = FALSE /\ faults' = faults + 1
        /\ UNCHANGED <<now, createdAt, broadcasts, acked, unsent>>
    BY <1>b DEF Die
  <2>3. QED
    BY <2>1, <2>2
<1>1. ASSUME NEW m \in Messages, Create(m)
      PROVE  StoreTypes'
  BY <1>0, <1>1 DEF Create, historyVars, StoreTypes
<1>2. CASE Tick
  BY <1>0, <1>2 DEF Tick, historyVars, StoreTypes
<1>3. ASSUME NEW m \in Messages, Ingest(m)
      PROVE  StoreTypes'
  <2>1. broadcasts' \in [Messages -> 0..2]
    BY <1>0, <1>3 DEF Ingest, broadcast, StoreTypes
  <2>2. row' \in [Messages -> {"absent", "undelivered", "delivered"}]
    BY <1>0, <1>3 DEF Ingest, recordInbound, StoreTypes
  <2>3. QED
    BY <1>0, <1>3, <2>1, <2>2 DEF Ingest, StoreTypes
<1>4. ASSUME NEW m \in Messages, CrashInIngest(m)
      PROVE  StoreTypes'
  <2>1. row' \in [Messages -> {"absent", "undelivered", "delivered"}]
    BY <1>0, <1>4 DEF CrashInIngest, recordInbound, StoreTypes
  <2>2. fresh' \subseteq Messages
    BY <1>0, <1>4 DEF CrashInIngest, StoreTypes
  <2>3. Die
    BY <1>4 DEF CrashInIngest
  <2>4. QED
    BY <1>0, <1>b, <2>1, <2>2, <2>3 DEF StoreTypes
<1>5. CASE Crash
  BY <1>0, <1>5, <1>b DEF Crash, StoreTypes
<1>6. CASE Prune
  BY <1>0, <1>6 DEF Prune, historyVars, StoreTypes
<1>7. ASSUME NEW c \in Clients, ProcessAck(c)
      PROVE  StoreTypes'
  <2> DEFINE marked == markDelivered(AccountOf[c], Head(up[c]))
  <2>1. marked \subseteq Messages
    BY DEF markDelivered
  <2>2. /\ row' = [m \in Messages |-> IF m \in marked THEN "delivered" ELSE row[m]]
        /\ acked' = acked \cup marked
        /\ UNCHANGED <<now, createdAt, running, fresh, broadcasts, unsent, faults>>
    BY <1>7 DEF ProcessAck
  <2> HIDE DEF marked
  <2>3. QED
    BY <1>0, <2>1, <2>2 DEF StoreTypes
<1>8. CASE UNCHANGED vars \/ Restart \/ \E m \in Messages : IngestDuplicate(m)
  BY <1>0, <1>8, <1>a DEF vars, historyVars, Restart, IngestDuplicate, StoreTypes
<1>9. ASSUME NEW c \in Clients,
             Connect(c) \/ ConnectFails(c) \/ Reopen(c) \/ ReceiveReady(c)
               \/ ReceiveMessage(c) \/ Break(c)
      PROVE  StoreTypes'
  BY <1>0, <1>9, <1>a DEF Connect, ConnectFails, Reopen, ReceiveReady, ReceiveMessage, Break,
                          historyVars, StoreTypes
<1>10. ASSUME NEW c \in Clients, Greet(c)
       PROVE  StoreTypes'
  BY <1>0, <1>10 DEF Greet, StoreTypes
<1>11. ASSUME NEW m \in Messages, IngestThrows(m)
       PROVE  StoreTypes'
  <2>1. row' \in [Messages -> {"absent", "undelivered", "delivered"}]
    BY <1>0, <1>11 DEF IngestThrows, recordInbound, StoreTypes
  <2>2. fresh' \subseteq Messages /\ unsent' \subseteq Messages
    BY <1>0, <1>11 DEF IngestThrows, StoreTypes
  <2>3. faults' \in Nat
    BY <1>0, <1>11 DEF IngestThrows, StoreTypes
  <2>4. QED
    BY <1>0, <1>11, <2>1, <2>2, <2>3 DEF IngestThrows, StoreTypes
<1>12. QED
  BY <1>1, <1>2, <1>3, <1>4, <1>5, <1>6, <1>7, <1>8, <1>9, <1>10, <1>11 DEF Next, LinkStep

\* Messages get their time once, and the clock does not go back.
LEMMA AgesStep ==
  ASSUME BaseInv, [Next]_vars
  PROVE  /\ now' >= now
         /\ \A m \in Messages : createdAt[m] # NotYet =>
              createdAt'[m] = createdAt[m] /\ Age(m)' >= Age(m)
         /\ CreatedFinite'
<1>1. now \in Nat /\ createdAt \in [Messages -> Nat \cup {NotYet}] /\ CreatedFinite
  BY DEF BaseInv, TypeOK
<1>2. CASE Tick
  BY <1>1, <1>2 DEF Tick, CreatedFinite, Age, NotYet
<1>3. ASSUME NEW m \in Messages, Create(m)
      PROVE  /\ now' = now /\ CreatedFinite'
             /\ \A k \in Messages : createdAt[k] # NotYet => createdAt'[k] = createdAt[k]
  <2> DEFINE S == {k \in Messages : createdAt[k] # NotYet}
  <2>1. createdAt[m] = NotYet /\ createdAt' = [createdAt EXCEPT ![m] = now] /\ now' = now
    BY <1>3 DEF Create
  <2>2. {k \in Messages : createdAt'[k] # NotYet} = S \cup {m}
    BY <1>1, <2>1 DEF NotYet
  <2>3. IsFiniteSet(S \cup {m})
    BY <1>1, FS_AddElement DEF CreatedFinite
  <2>4. QED
    BY <1>1, <2>1, <2>2, <2>3 DEF CreatedFinite
<1>4. ASSUME UNCHANGED <<now, createdAt>>
      PROVE  CreatedFinite'
  BY <1>1, <1>4 DEF CreatedFinite
<1>5. Tick \/ (\E m \in Messages : Create(m)) \/ UNCHANGED <<now, createdAt>>
  BY DEF Next, vars, LinkStep, Ingest, IngestThrows, IngestDuplicate, CrashInIngest, Crash, Die, Restart, Prune,
         Connect, ConnectFails, Reopen, Greet, ReceiveReady, ReceiveMessage, ProcessAck, Break
<1>6. QED
  BY <1>1, <1>2, <1>3, <1>4, <1>5 DEF Age, NotYet

-----------------------------------------------------------------------------
(* Rows.                                                                   *)

\* What a step does to the record of one message.
RowStep(m) ==
  /\ \/ row'[m] = row[m]
     \/ row[m] = "absent" /\ row'[m] = "undelivered" /\ createdAt[m] # NotYet
     \/ row'[m] = "absent" /\ Age(m) > Retention /\ UNCHANGED <<createdAt, now>>
     \/ row[m] # "absent" /\ row'[m] = "delivered"
  /\ \/ broadcasts'[m] = broadcasts[m]
     \/ /\ row[m] = "absent" /\ row'[m] = "undelivered" /\ createdAt[m] # NotYet /\ recent(m)
        /\ broadcasts'[m] = IF broadcasts[m] < 2 THEN broadcasts[m] + 1 ELSE 2
  /\ m \in acked' => m \in acked \/ (row[m] # "absent" /\ row'[m] = "delivered")

\* Every step does one of these things to the record of a message.
LEMMA RowSteps ==
  ASSUME BaseInv, [Next]_vars
  PROVE  \A m \in Messages : RowStep(m)
<1>0. StoreTypes
  BY DEF BaseInv, TypeOK, StoreTypes
<1>a. ASSUME UNCHANGED <<row, broadcasts, acked>>
      PROVE  \A m \in Messages : RowStep(m)
  BY <1>a DEF RowStep
<1>1. ASSUME NEW k \in Messages, Ingest(k)
      PROVE  \A m \in Messages : RowStep(m)
  <2>1. /\ row[k] = "absent" /\ row' = [row EXCEPT ![k] = "undelivered"] /\ createdAt[k] # NotYet
        /\ acked' = acked
    BY <1>1 DEF Ingest, recordInbound
  <2>2. \/ broadcasts' = broadcasts
        \/ recent(k) /\ broadcasts' = [broadcasts EXCEPT ![k] = IF @ < 2 THEN @ + 1 ELSE 2]
    BY <1>1 DEF Ingest, broadcast
  <2>3. \A m \in Messages \ {k} : row'[m] = row[m] /\ broadcasts'[m] = broadcasts[m]
    BY <1>0, <2>1, <2>2 DEF StoreTypes
  <2>4. row'[k] = "undelivered"
    BY <1>0, <2>1 DEF StoreTypes
  <2>5. \/ broadcasts'[k] = broadcasts[k]
        \/ recent(k) /\ broadcasts'[k] = IF broadcasts[k] < 2 THEN broadcasts[k] + 1 ELSE 2
    BY <1>0, <2>2 DEF StoreTypes
  <2>6. QED
    BY <2>1, <2>3, <2>4, <2>5 DEF RowStep
<1>2. ASSUME NEW k \in Messages, CrashInIngest(k) \/ IngestThrows(k)
      PROVE  \A m \in Messages : RowStep(m)
  <2>1. /\ row[k] = "absent" /\ row' = [row EXCEPT ![k] = "undelivered"] /\ createdAt[k] # NotYet
        /\ UNCHANGED <<acked, broadcasts>>
    BY <1>2 DEF CrashInIngest, IngestThrows, recordInbound, Die
  <2>2. \A m \in Messages : row'[m] = IF m = k THEN "undelivered" ELSE row[m]
    BY <1>0, <2>1 DEF StoreTypes
  <2>3. QED
    BY <2>1, <2>2 DEF RowStep
<1>3. CASE Prune
  BY <1>3 DEF Prune, historyVars, RowStep
<1>4. ASSUME NEW c \in Clients, ProcessAck(c)
      PROVE  \A m \in Messages : RowStep(m)
  <2> DEFINE marked == markDelivered(AccountOf[c], Head(up[c]))
  <2>1. /\ row' = [m \in Messages |-> IF m \in marked THEN "delivered" ELSE row[m]]
        /\ acked' = acked \cup marked /\ UNCHANGED broadcasts
    BY <1>4 DEF ProcessAck
  <2>2. \A m \in marked : row[m] # "absent"
    BY DEF markDelivered
  <2> HIDE DEF marked
  <2>3. QED
    BY <2>1, <2>2 DEF RowStep
<1>5. CASE UNCHANGED vars \/ Restart \/ Tick \/ Crash
           \/ \E m \in Messages : Create(m) \/ IngestDuplicate(m)
  BY <1>5, <1>a DEF vars, historyVars, Restart, Tick, Crash, Die, Create, IngestDuplicate
<1>6. ASSUME NEW c \in Clients,
             Connect(c) \/ ConnectFails(c) \/ Reopen(c) \/ Greet(c) \/ ReceiveReady(c)
               \/ ReceiveMessage(c) \/ Break(c)
      PROVE  \A m \in Messages : RowStep(m)
  BY <1>6, <1>a DEF Connect, ConnectFails, Reopen, Greet, ReceiveReady, ReceiveMessage, Break,
                    historyVars
<1>7. QED
  BY <1>1, <1>2, <1>3, <1>4, <1>5, <1>6 DEF Next, LinkStep

\* Every step keeps the types.
LEMMA BaseStep == BaseInv /\ [Next]_vars => BaseInv'
<1> SUFFICES ASSUME BaseInv, [Next]_vars PROVE BaseInv'
  OBVIOUS
<1>1. down' \in [Clients -> Seq(Frames)]
  BY DownSteps, DownTyped
<1>2. up' \in [Clients -> Seq(Ids)] /\ received' \in [Clients -> SUBSET Messages]
  BY UpSteps
<1>3. TypeOK'
  BY <1>1, <1>2, LinkTypesStep, StoreTypesStep DEF TypeOK, LinkTypes, Joined, StoreTypes
<1>4. CreatedFinite'
  BY AgesStep
<1>5. ASSUME NEW m \in Messages, row'[m] # "absent"
      PROVE  createdAt'[m] # NotYet
  <2>1. createdAt[m] # NotYet
    BY <1>5, RowSteps DEF RowStep, BaseInv
  <2>2. QED
    BY <2>1, AgesStep
<1>6. QED
  BY <1>3, <1>4, <1>5 DEF BaseInv

\* A message that is too old for the retention is too old for a broadcast, and it is in the
\* replay window only when that outlasts the retention.
LEMMA TooOld ==
  ASSUME BaseInv, NEW m \in Messages, createdAt[m] # NotYet, Age(m) > Retention
  PROVE  ~recent(m) /\ (createdAt[m] >= now - AgeWindow => Outgrown(m))
<1>1. now \in Nat /\ createdAt[m] \in Nat
  BY DEF BaseInv, TypeOK
<1>2. QED
  BY <1>1, DeliveryAssumption DEF recent, Age, Outgrown

\* Every step keeps what is known of the records, and broadcasts no message twice.
LEMMA RowInvStep ==
  BaseInv /\ RowInv /\ BroadcastAtMostOnce /\ [Next]_vars => RowInv' /\ BroadcastAtMostOnce'
<1> SUFFICES ASSUME BaseInv, RowInv, BroadcastAtMostOnce, [Next]_vars, NEW m \in Messages
             PROVE  /\ (row[m] # "absent" => createdAt[m] # NotYet)'
                    /\ (broadcasts[m] > 0 => /\ createdAt[m] # NotYet
                                             /\ row[m] # "absent" \/ Age(m) > Retention)'
                    /\ (m \in acked => /\ createdAt[m] # NotYet
                                       /\ row[m] = "delivered" \/ Age(m) > Retention)'
                    /\ broadcasts'[m] <= 1
  BY DEF RowInv, BroadcastAtMostOnce
<1> DEFINE created == createdAt[m] # NotYet
           old == Age(m) > Retention
<1>1. RowStep(m)
  BY RowSteps
<1>2. created => created' /\ (old => old')
  <2>1. ASSUME created
        PROVE  createdAt'[m] = createdAt[m] /\ Age(m)' >= Age(m)
    BY <2>1, AgesStep
  <2>2. now \in Nat /\ now' \in Nat /\ createdAt[m] \in Int /\ Retention \in Nat
    BY BaseStep, DeliveryAssumption DEF BaseInv, TypeOK, NotYet
  <2>3. QED
    BY <2>1, <2>2 DEF Age
<1>3. /\ row[m] # "absent" => created
      /\ broadcasts[m] > 0 => created /\ (row[m] # "absent" \/ old)
      /\ m \in acked => created /\ (row[m] = "delivered" \/ old)
      /\ broadcasts[m] \in 0..2 /\ broadcasts[m] <= 1
  BY DEF RowInv, BroadcastAtMostOnce, BaseInv, TypeOK
<1>4. created /\ old => ~recent(m)
  BY TooOld
<1>5. row'[m] = "absent" => row[m] = "absent" \/ (old /\ created)
  BY <1>1, <1>3 DEF RowStep
<1> HIDE DEF created, old
<1>6. row'[m] # "absent" => created'
  <2>1. row'[m] # "absent" => created
    BY <1>1, <1>3 DEF RowStep, created
  <2>2. QED
    BY <1>2, <2>1
<1>7. broadcasts'[m] > 0 => created' /\ (row'[m] # "absent" \/ old')
  <2>1. CASE broadcasts'[m] = broadcasts[m]
    BY <1>2, <1>3, <1>5, <2>1
  <2>2. CASE broadcasts'[m] # broadcasts[m]
    <3>1. row'[m] # "absent"
      BY <1>1, <2>2 DEF RowStep
    <3>2. QED
      BY <1>6, <3>1
  <2>3. QED
    BY <2>1, <2>2
<1>8. m \in acked' => created' /\ (row'[m] = "delivered" \/ old')
  BY <1>1, <1>2, <1>3 DEF RowStep, created, old
<1>9. broadcasts'[m] <= 1
  BY <1>1, <1>3, <1>4 DEF RowStep
<1>10. QED
  BY <1>6, <1>7, <1>8, <1>9 DEF created, old

-----------------------------------------------------------------------------
(* Frames and acks.                                                        *)

\* Every step keeps the frames of a connection within its account.
LEMMA FrameInvStep == BaseInv /\ FrameInv /\ [Next]_vars => FrameInv'
<1> SUFFICES ASSUME BaseInv, FrameInv, [Next]_vars, NEW c \in Clients, NEW i \in 1..Len(down'[c])
             PROVE  \/ down'[c][i] = Ready
                    \/ down'[c][i] \in Messages /\ account(down'[c][i]) = AccountOf[c]
  BY DEF FrameInv
<1> DEFINE Fits(f) == f = Ready \/ (f \in Messages /\ account(f) = AccountOf[c])
           s == down[c]
           t == down'[c]
<1> SUFFICES Fits(t[i])
  OBVIOUS
<1>1. s \in Seq(Frames) /\ \A j \in 1..Len(s) : Fits(s[j])
  BY DEF BaseInv, TypeOK, FrameInv
<1>2. DownStep(c)
  BY DownSteps
<1> HIDE DEF Fits
<1>3. CASE t = s
  BY <1>1, <1>3
<1>4. CASE t = <<>>
  <2>1. Len(<<>>) = 0
    OBVIOUS
  <2>2. QED
    BY <1>4, <2>1
<1>5. CASE s # <<>> /\ t = Tail(s)
  <2>1. Len(t) = Len(s) - 1 /\ t[i] = s[i + 1] /\ Len(s) \in Nat
    BY <1>1, <1>5, HeadTailProperties, LenProperties
  <2>2. i + 1 \in 1..Len(s)
    BY <2>1
  <2>3. QED
    BY <1>1, <2>1, <2>2
<1>6. ASSUME NEW m \in Messages, t = Append(s, m), account(m) = AccountOf[c]
      PROVE  Fits(t[i])
  <2>1. m \in Frames
    BY DEF Frames
  <2>2. /\ Len(t) = Len(s) + 1 /\ t[Len(s) + 1] = m /\ \A j \in 1..Len(s) : t[j] = s[j]
    BY <1>1, <1>6, <2>1, AppendProperties
  <2>3. Len(s) \in Nat
    BY <1>1, LenProperties
  <2>4. i \in 1..Len(s) \/ i = Len(s) + 1
    BY <2>2, <2>3
  <2>5. Fits(m)
    BY <1>6 DEF Fits
  <2>6. QED
    BY <1>1, <2>2, <2>4, <2>5
<1>7. ASSUME NEW q \in Seq(Messages), t = s \o <<Ready>> \o q,
             \A j \in 1..Len(q) : q[j] \in undelivered(AccountOf[c])
      PROVE  Fits(t[i])
  <2>1. <<Ready>> \in Seq(Frames) /\ q \in Seq(Frames) /\ Len(<<Ready>>) = 1 /\ <<Ready>>[1] = Ready
    BY SeqMonotonic DEF Frames
  <2> DEFINE g == s \o <<Ready>>
  <2>2. /\ g \in Seq(Frames) /\ Len(g) = Len(s) + 1
        /\ \A j \in 1..Len(s) + 1 : g[j] = IF j <= Len(s) THEN s[j] ELSE <<Ready>>[j - Len(s)]
    BY <1>1, <2>1, ConcatProperties
  <2> HIDE DEF g
  <2>3. /\ Len(t) = Len(g) + Len(q)
        /\ \A j \in 1..Len(g) + Len(q) : t[j] = IF j <= Len(g) THEN g[j] ELSE q[j - Len(g)]
    BY <1>7, <2>1, <2>2, ConcatProperties DEF g
  <2>4. Len(s) \in Nat /\ Len(q) \in Nat
    BY <1>1, LenProperties
  <2>5. ASSUME NEW j \in 1..Len(q)
        PROVE  Fits(q[j])
    BY <1>7 DEF undelivered, Fits
  <2>6. CASE i <= Len(s)
    <3>1. t[i] = s[i] /\ i \in 1..Len(s)
      BY <2>2, <2>3, <2>4, <2>6
    <3>2. QED
      BY <1>1, <3>1
  <2>7. CASE i = Len(s) + 1
    <3>1. i - Len(s) = 1
      BY <2>4, <2>7
    <3>2. t[i] = Ready
      BY <2>1, <2>2, <2>3, <2>4, <2>7, <3>1
    <3>3. QED
      BY <3>2 DEF Fits
  <2>8. CASE i > Len(s) + 1
    <3>1. t[i] = q[i - Len(g)] /\ i - Len(g) \in 1..Len(q)
      BY <2>2, <2>3, <2>4, <2>8
    <3>2. QED
      BY <2>5, <3>1
  <2>9. QED
    BY <2>4, <2>6, <2>7, <2>8
<1>8. Fits(t[i])
  <2>1. \/ t = s \/ t = <<>> \/ (s # <<>> /\ t = Tail(s))
        \/ \E m \in Messages : t = Append(s, m) /\ account(m) = AccountOf[c]
        \/ \E q \in Seq(Messages) : /\ t = s \o <<Ready>> \o q
                                    /\ \A j \in 1..Len(q) : q[j] \in undelivered(AccountOf[c])
    BY <1>2 DEF DownStep
  <2>2. QED
    BY <2>1, <1>3, <1>4, <1>5, <1>6, <1>7
<1>9. QED
  BY <1>8

\* Every step keeps the acks on their way to messages that were received.
LEMMA AckInvStep == BaseInv /\ FrameInv /\ AckInv /\ [Next]_vars => AckInv'
<1> SUFFICES ASSUME BaseInv, FrameInv, AckInv, [Next]_vars, NEW c \in Clients,
                    NEW i \in 1..Len(up'[c])
             PROVE  c \in AutoAck /\ <<AccountOf[c], up'[c][i]>> \in received'[c]
  BY DEF AckInv
<1> DEFINE s == up[c]
           t == up'[c]
<1>1. s \in Seq(Ids) /\ Len(s) \in Nat
  BY LenProperties DEF BaseInv, TypeOK
<1>2. UpStep(c) /\ received[c] \subseteq received'[c]
  BY UpSteps DEF UpStep
<1>3. ASSUME NEW j \in 1..Len(s)
      PROVE  c \in AutoAck /\ <<AccountOf[c], s[j]>> \in received'[c]
  BY <1>2 DEF AckInv
<1>4. CASE t = s
  BY <1>3, <1>4
<1>5. CASE t = <<>>
  <2>1. Len(<<>>) = 0
    OBVIOUS
  <2>2. QED
    BY <1>5, <2>1
<1>6. CASE s # <<>> /\ t = Tail(s)
  <2>1. Len(t) = Len(s) - 1 /\ t[i] = s[i + 1]
    BY <1>1, <1>6, HeadTailProperties
  <2>2. i + 1 \in 1..Len(s)
    BY <1>1, <2>1
  <2>3. QED
    BY <1>3, <2>1, <2>2
<1>7. CASE /\ c \in AutoAck /\ down[c] # <<>> /\ Head(down[c]) # Ready
           /\ t = Append(s, id(Head(down[c]))) /\ Head(down[c]) \in received'[c]
  <2> DEFINE h == Head(down[c])
  <2>1. h \in Messages /\ id(h) \in Ids /\ account(h) = AccountOf[c]
    BY <1>7, HeadIsMessage DEF BaseInv, FrameInv
  <2>2. h = <<AccountOf[c], id(h)>> /\ h \in received'[c]
    BY <1>7, <2>1, MessageFacts
  <2> HIDE DEF h
  <2>3. Len(t) = Len(s) + 1 /\ t[Len(s) + 1] = id(h) /\ \A j \in 1..Len(s) : t[j] = s[j]
    BY <1>1, <1>7, <2>1, AppendProperties DEF h
  <2>4. i \in 1..Len(s) \/ i = Len(s) + 1
    BY <1>1, <2>3
  <2>5. CASE i \in 1..Len(s)
    BY <1>3, <2>3, <2>5
  <2>6. CASE i = Len(s) + 1
    BY <1>7, <2>2, <2>3, <2>6
  <2>7. QED
    BY <2>4, <2>5, <2>6
<1>8. QED
  BY <1>2, <1>4, <1>5, <1>6, <1>7 DEF UpStep

\* No step hands a client a message of another account.
LEMMA IsolationStep ==
  BaseInv /\ FrameInv /\ AccountIsolation /\ [Next]_vars => AccountIsolation'
<1> SUFFICES ASSUME BaseInv, FrameInv, AccountIsolation, [Next]_vars, NEW c \in Clients,
                    NEW m \in received'[c]
             PROVE  account(m) = AccountOf[c]
  BY DEF AccountIsolation
<1>1. CASE m \in received[c]
  BY <1>1 DEF AccountIsolation
<1>2. CASE m \notin received[c]
  <2>1. down[c] # <<>> /\ Head(down[c]) # Ready /\ m = Head(down[c])
    BY <1>2, UpSteps DEF UpStep
  <2>2. QED
    BY <2>1, HeadIsMessage DEF BaseInv, FrameInv
<1>3. QED
  BY <1>1, <1>2

\* No step marks a message delivered that no client received.
LEMMA DeliveredStep ==
  BaseInv /\ AckInv /\ DeliveredWasReceived /\ [Next]_vars => DeliveredWasReceived'
<1> SUFFICES ASSUME BaseInv, AckInv, DeliveredWasReceived, [Next]_vars, NEW m \in acked'
             PROVE  \E c \in AutoAck : AccountOf[c] = account(m) /\ m \in received'[c]
  BY DEF DeliveredWasReceived
<1>1. \A c \in AutoAck : c \in Clients /\ received[c] \subseteq received'[c]
  BY UpSteps, DeliveryAssumption DEF UpStep
<1>2. CASE m \in acked
  BY <1>1, <1>2 DEF DeliveredWasReceived
<1>3. ASSUME NEW c \in Clients, ProcessAck(c), m \notin acked
      PROVE  \E d \in AutoAck : AccountOf[d] = account(m) /\ m \in received'[d]
  <2>1. m \in markDelivered(AccountOf[c], Head(up[c])) /\ up[c] # <<>>
    BY <1>3 DEF ProcessAck
  <2>2. m = <<AccountOf[c], Head(up[c])>>
    BY <2>1 DEF markDelivered
  <2>3. up[c] \in Seq(Ids)
    BY DEF BaseInv, TypeOK
  <2>4. Len(up[c]) \in Nat /\ Len(up[c]) # 0 /\ Head(up[c]) = up[c][1]
    BY <2>1, <2>3, EmptySeq
  <2>5. c \in AutoAck /\ <<AccountOf[c], up[c][1]>> \in received[c]
    BY <2>4 DEF AckInv
  <2>6. QED
    BY <1>1, <2>2, <2>4, <2>5 DEF account
<1>4. ASSUME m \notin acked
      PROVE  \E c \in Clients : ProcessAck(c)
  <2>1. acked' # acked
    BY <1>4
  <2>2. QED
    BY <2>1 DEF Next, vars, historyVars, LinkStep, Create, Ingest, IngestThrows, IngestDuplicate,
                CrashInIngest,
                Crash, Die, Restart, Prune, Tick, Connect, ConnectFails, Reopen, Greet, ReceiveReady,
                ReceiveMessage, Break
<1>5. QED
  BY <1>2, <1>3, <1>4

-----------------------------------------------------------------------------
(* The invariant, and what follows from it.                                *)

Inv == /\ BaseInv /\ RowInv /\ BroadcastAtMostOnce
       /\ FrameInv /\ AckInv /\ AccountIsolation /\ DeliveredWasReceived

\* The whole invariant holds initially.
LEMMA InitInv == Init => Inv
<1> SUFFICES ASSUME Init PROVE Inv
  OBVIOUS
<1>1. Len(<<>>) = 0
  OBVIOUS
<1>2. RowInv /\ BroadcastAtMostOnce
  BY DEF Init, RowInv, BroadcastAtMostOnce
<1>3. FrameInv /\ AckInv
  BY <1>1 DEF Init, FrameInv, AckInv
<1>4. AccountIsolation /\ DeliveredWasReceived
  BY DEF Init, AccountIsolation, DeliveredWasReceived
<1>5. QED
  BY <1>2, <1>3, <1>4, InitBase DEF Inv

\* Every step keeps the whole invariant.
LEMMA InvStep == Inv /\ [Next]_vars => Inv'
  BY BaseStep, RowInvStep, FrameInvStep, AckInvStep, IsolationStep, DeliveredStep DEF Inv

\* The whole invariant holds in every reachable state.
LEMMA InvAlways == Spec => []Inv
  BY InitInv, InvStep, PTL DEF Spec

\* Type correctness, and a connection opens and closes on both ends together.
THEOREM TypeCorrect == Spec => []TypeOK
<1>1. Inv => TypeOK
  BY DEF Inv, BaseInv
<1>2. QED
  BY <1>1, InvAlways, PTL

\* "a subscriber on account A must only see account-A frames" (server.ts): no broadcast
\* and no replay hands a client a message of another account.
THEOREM IsolationAlways == Spec => []AccountIsolation
<1>1. Inv => AccountIsolation
  BY DEF Inv
<1>2. QED
  BY <1>1, InvAlways, PTL

\* A row is marked delivered only for a message an acknowledging subscriber of its account
\* was handed, although acks carry the id alone and ids are shared between accounts.
THEOREM DeliveredAlways == Spec => []DeliveredWasReceived
<1>1. Inv => DeliveredWasReceived
  BY DEF Inv
<1>2. QED
  BY <1>1, InvAlways, PTL

\* A message is broadcast at most once, through restarts, pruning and repeated input.
THEOREM BroadcastOnce == Spec => []BroadcastAtMostOnce
<1>1. Inv => BroadcastAtMostOnce
  BY DEF Inv
<1>2. QED
  BY <1>1, InvAlways, PTL

\* What was acknowledged, and has not outgrown the retention, does not occur more often
\* among the frames after a step.
LEMMA AckedNotSent ==
  ASSUME Inv, [Next]_vars, NEW m \in acked, NEW c \in Clients, ~Outgrown(m)
  PROVE  Count(down'[c], m) <= Count(down[c], m)
<1> DEFINE s == down[c]
           t == down'[c]
<1>1. m \in Messages /\ m # Ready
  BY MessageFacts DEF Inv, BaseInv, TypeOK
<1>2. s \in Seq(Frames) /\ t \in Seq(Frames) /\ Len(s) \in Nat
  BY DownSteps, DownTyped, LenProperties DEF Inv, BaseInv, TypeOK
<1>3. Count(s, m) \in Nat
  BY <1>2, CountIsNat
<1>4. row[m] = "delivered" \/ (~recent(m) /\ ~(createdAt[m] >= now - AgeWindow))
  BY <1>1, TooOld DEF Inv, RowInv
<1>5. CASE t = s
  BY <1>3, <1>5
<1>6. CASE t = <<>>
  BY <1>3, <1>6, CountEmpty
<1>7. CASE s # <<>> /\ t = Tail(s)
  BY <1>2, <1>7, CountTail
<1>8. ASSUME NEW k \in Messages, t = Append(s, k), row[k] = "absent", recent(k)
      PROVE  Count(t, m) <= Count(s, m)
  <2>1. k # m
    BY <1>4, <1>8
  <2>2. k \in Frames
    BY DEF Frames
  <2>3. Len(t) = Len(s) + 1 /\ t[Len(s) + 1] = k /\ \A j \in 1..Len(s) : t[j] = s[j]
    BY <1>2, <1>8, <2>2, AppendProperties
  <2> HIDE DEF s, t
  <2>4. Count(t, m) = Count(s, m)
    <3>1. \A i \in 1..Len(t) : i > Len(s) => t[i] # m
      BY <1>2, <2>1, <2>3
    <3>2. Len(s) <= Len(t)
      BY <1>2, <2>3
    <3>3. QED
      BY <1>2, <2>3, <3>1, <3>2, CountExtended
  <2>5. QED
    BY <1>3, <2>4
<1>9. ASSUME NEW q \in Seq(Messages), t = s \o <<Ready>> \o q,
             \A j \in 1..Len(q) : q[j] \in undelivered(AccountOf[c])
      PROVE  Count(t, m) <= Count(s, m)
  <2>1. <<Ready>> \in Seq(Frames) /\ q \in Seq(Frames) /\ Len(<<Ready>>) = 1 /\ <<Ready>>[1] = Ready
    BY SeqMonotonic DEF Frames
  <2>2. \A j \in 1..Len(q) : q[j] # m
    BY <1>4, <1>9 DEF undelivered
  <2> DEFINE g == s \o <<Ready>>
  <2>3. /\ g \in Seq(Frames) /\ Len(g) = Len(s) + 1
        /\ \A j \in 1..Len(s) + 1 : g[j] = IF j <= Len(s) THEN s[j] ELSE <<Ready>>[j - Len(s)]
    BY <1>2, <2>1, ConcatProperties
  <2>4. /\ Len(t) = Len(g) + Len(q)
        /\ \A j \in 1..Len(g) + Len(q) : t[j] = IF j <= Len(g) THEN g[j] ELSE q[j - Len(g)]
    <3> HIDE DEF g
    <3>1. QED
      BY <1>9, <2>1, <2>3, ConcatProperties DEF g
  <2> HIDE DEF s, t, g
  <2>5. Len(q) \in Nat
    BY LenProperties
  <2>6. Len(s) <= Len(t) /\ \A j \in 1..Len(s) : t[j] = s[j]
    BY <1>2, <2>3, <2>4, <2>5
  <2>7. ASSUME NEW i \in 1..Len(t), i > Len(s)
        PROVE  t[i] # m
    <3>1. CASE i = Len(s) + 1
      <4>1. i - Len(s) = 1
        BY <1>2, <3>1
      <4>2. t[i] = Ready
        BY <1>2, <2>1, <2>3, <2>4, <2>5, <3>1, <4>1
      <4>3. QED
        BY <1>1, <4>2
    <3>2. CASE i # Len(s) + 1
      <4>1. t[i] = q[i - Len(g)] /\ i - Len(g) \in 1..Len(q)
        BY <1>2, <2>3, <2>4, <2>5, <2>7, <3>2
      <4>2. QED
        BY <2>2, <4>1
    <3>3. QED
      BY <3>1, <3>2
  <2>8. Count(t, m) = Count(s, m)
    BY <1>2, <2>6, <2>7, CountExtended
  <2>9. QED
    BY <1>3, <2>8
<1>10. DownStep(c)
  BY DownSteps DEF Inv
<1>11. QED
  BY <1>5, <1>6, <1>7, <1>8, <1>9, <1>10 DEF DownStep

\* What was acknowledged is not sent again (ingest.ts, db.ts getUndelivered): a pruned row
\* that is recorded anew is too old for the broadcast, and for the replay unless
\* ageWindowSeconds is larger than the retention.  Nothing is assumed of the two.
THEOREM AckedIsFinalAlways == Spec => AckedIsFinal
<1>1. Inv /\ [Next]_vars =>
        [\A m \in acked : \A c \in Clients :
           InFlight(c, m)' <= InFlight(c, m) \/ Outgrown(m)]_vars
  BY AckedNotSent DEF InFlight, Count
<1>2. QED
  BY <1>1, InvAlways, PTL DEF Spec, AckedIsFinal

=============================================================================
