------------------------------ MODULE Delivery ------------------------------
(***************************************************************************)
(* How an inbound WeChat message reaches the subscribers of its account:   *)
(* handleInbound (core/ingest.ts) records it in SQLite (core/db.ts) and    *)
(* broadcasts it when recent; the bridge server (core/server.ts) replays   *)
(* the unacknowledged ones to a subscriber that connects and marks them    *)
(* delivered on its ack; the bridge client (shared/bridge-client.ts)       *)
(* acknowledges every frame and reconnects when its socket closes; main.ts *)
(* prunes old rows.                                                        *)
(*                                                                         *)
(* The upstream may present a message several times (webhook retries, the  *)
(* webhook and the WS push both on, a backlog after a restart); connections*)
(* break and lose what is in flight; the middleware may die at any point,  *)
(* between the record and the broadcast of one message included, and only  *)
(* the database survives; a write that follows the record may fail, which  *)
(* costs the broadcast.  Each WebSocket is one channel per direction.      *)
(***************************************************************************)
EXTENDS Integers, Sequences, FiniteSets, SequencesExt

CONSTANTS
  Accounts, Ids,    \* a message is <<account, id>>; ids are unique within an account only
  Clients,          \* the bridge clients
  AccountOf,        \* client -> the account it subscribes to
  AutoAck,          \* the clients that acknowledge (the console does not)
  MaxBroadcastAge,  \* maxMessageAge of the instance
  AgeWindow,        \* ageWindowSeconds
  Retention         \* retentionSec

\* Bounds of a model-checking run.
CONSTANTS Messages,  \* the messages the upstream may create
          MaxTime,   \* until when the clock runs
          MaxFaults  \* breaks, deaths and failed writes over a behaviour

ASSUME DeliveryAssumption ==
  /\ AccountOf \in [Clients -> Accounts] /\ AutoAck \subseteq Clients
  /\ Messages \subseteq (Accounts \X Ids)
  /\ MaxBroadcastAge \in Nat /\ AgeWindow \in Nat /\ Retention \in Nat
  /\ MaxBroadcastAge <= Retention  \* retentionSec is the larger of it and an hour

VARIABLES
  now,       \* the clock, in the unit of the ages
  createdAt, \* message -> CreateTime, NotYet before the upstream has it
  running,   \* the middleware process is alive
  row,       \* message -> its inbound_log row: "absent", "undelivered", "delivered"
  sub,       \* client -> the server's side of its socket: "none", "fresh" (in the
             \*   subscribers map, ready and replay still scheduled) or "live"
  sock,      \* client -> the client's side: "opening", "open" or "backoff"
  down, up,  \* client -> what travels to it, and its acks on their way back
  readySeen, \* client -> the ready frame has arrived on this connection
  received,  \* history: client -> messages passed to onMessage
  fresh,     \* history: messages recorded while recent enough to broadcast
  broadcasts,\* history: message -> how often it was broadcast, up to 2
  acked,     \* history: messages a row of which was ever marked delivered
  unsent,    \* history: messages whose broadcast was lost to a failed write, as long as
             \*   no acknowledging subscriber of their account has been greeted since
  faults     \* history: breaks, deaths and failed writes so far

linkVars == <<sub, sock, down, up, readySeen>>
historyVars == <<received, fresh, broadcasts, acked, unsent>>
vars == <<now, createdAt, running, row, linkVars, historyVars, faults>>

NotYet == -1
Ready == <<"ready">>
account(m) == m[1]
id(m) == m[2]
Age(m) == now - createdAt[m]

Init ==
  /\ now = 0 /\ running = TRUE /\ faults = 0
  /\ createdAt = [m \in Messages |-> NotYet]
  /\ row = [m \in Messages |-> "absent"]
  /\ sub = [c \in Clients |-> "none"] /\ sock = [c \in Clients |-> "opening"]
  /\ down = [c \in Clients |-> <<>>] /\ up = [c \in Clients |-> <<>>]
  /\ readySeen = [c \in Clients |-> FALSE]
  /\ received = [c \in Clients |-> {}]
  /\ fresh = {} /\ acked = {} /\ unsent = {}
  /\ broadcasts = [m \in Messages |-> 0]

-----------------------------------------------------------------------------
(* The environment.                                                        *)

\* A message is created upstream.
Create(m) ==
  /\ createdAt[m] = NotYet
  /\ createdAt' = [createdAt EXCEPT ![m] = now]
  /\ UNCHANGED <<now, running, row, linkVars, historyVars, faults>>

Tick ==
  /\ now < MaxTime
  /\ now' = now + 1
  /\ UNCHANGED <<createdAt, running, row, linkVars, historyVars, faults>>

-----------------------------------------------------------------------------
(* The middleware.                                                         *)

\* recordInbound: INSERT OR IGNORE on (account, id).
recordInbound(m) == row[m] = "absent" /\ row' = [row EXCEPT ![m] = "undelivered"]

recent(m) == Age(m) <= MaxBroadcastAge

\* Mutant of broadcast: the subscriber's account is not looked at.
broadcastToAll(m) ==
  /\ down' = [c \in Clients |-> IF sub[c] # "none" THEN Append(down[c], m) ELSE down[c]]
  /\ broadcasts' = [broadcasts EXCEPT ![m] = IF @ < 2 THEN @ + 1 ELSE 2]

\* broadcast(): every connected subscriber of the account, greeted or not.
broadcast(m) ==
  /\ down' = [c \in Clients |-> IF sub[c] # "none" /\ AccountOf[c] = account(m)
                                  THEN Append(down[c], m) ELSE down[c]]
  /\ broadcasts' = [broadcasts EXCEPT ![m] = IF @ < 2 THEN @ + 1 ELSE 2]

\* Mutant of Ingest: no recency gate.
IngestUngated(m) ==
  /\ running /\ createdAt[m] # NotYet /\ recordInbound(m)
  /\ broadcast(m) /\ fresh' = fresh \cup {m}
  /\ UNCHANGED <<now, createdAt, running, sub, sock, up, readySeen,
                 received, acked, unsent, faults>>

\* handleInbound for a message not on record: record it, and broadcast it if recent.
Ingest(m) ==
  /\ running /\ createdAt[m] # NotYet /\ recordInbound(m)
  /\ \/ recent(m) /\ broadcast(m) /\ fresh' = fresh \cup {m}
     \/ ~recent(m) /\ UNCHANGED <<down, broadcasts, fresh>>
  /\ UNCHANGED <<now, createdAt, running, sub, sock, up, readySeen,
                 received, acked, unsent, faults>>

\* handleInbound throws behind recordInbound, in upsertContact or recordMedia: main.ts
\* logs it.  The row is there and nothing is broadcast; the connections stay up.
IngestThrows(m) ==
  /\ running /\ createdAt[m] # NotYet /\ recordInbound(m)
  /\ faults < MaxFaults /\ faults' = faults + 1
  /\ fresh' = IF recent(m) THEN fresh \cup {m} ELSE fresh
  /\ unsent' = IF recent(m) THEN unsent \cup {m} ELSE unsent
  /\ UNCHANGED <<now, createdAt, running, linkVars, received, broadcasts, acked>>

\* handleInbound for a message on record: dropped as a duplicate.
IngestDuplicate(m) ==
  /\ running /\ createdAt[m] # NotYet /\ row[m] # "absent"
  /\ UNCHANGED vars

\* The process is gone: its sockets close, what was in flight is lost.
Die ==
  /\ faults < MaxFaults /\ faults' = faults + 1
  /\ running' = FALSE
  /\ sub' = [c \in Clients |-> "none"]
  /\ sock' = [c \in Clients |-> IF sock[c] = "open" THEN "backoff" ELSE sock[c]]
  /\ down' = [c \in Clients |-> <<>>] /\ up' = [c \in Clients |-> <<>>]
  /\ UNCHANGED <<now, createdAt, readySeen, received, broadcasts, acked, unsent>>

Crash == running /\ Die /\ UNCHANGED <<row, fresh>>

\* The process dies inside handleInbound, after the record and before the broadcast.
CrashInIngest(m) ==
  /\ running /\ createdAt[m] # NotYet /\ recordInbound(m)
  /\ fresh' = IF recent(m) THEN fresh \cup {m} ELSE fresh
  /\ Die

Restart ==
  /\ ~running /\ running' = TRUE
  /\ UNCHANGED <<now, createdAt, row, linkVars, historyVars, faults>>

\* The prune timer deletes rows older than the retention.
Prune ==
  /\ running
  /\ \E m \in Messages : row[m] # "absent" /\ Age(m) > Retention
  /\ row' = [m \in Messages |-> IF createdAt[m] # NotYet /\ Age(m) > Retention
                                  THEN "absent" ELSE row[m]]
  /\ UNCHANGED <<now, createdAt, running, linkVars, historyVars, faults>>

\* Mutant of undelivered: acknowledged rows are replayed as well.
replayAll(acc) ==
  {m \in Messages : account(m) = acc /\ row[m] # "absent" /\ createdAt[m] >= now - AgeWindow}

\* getUndelivered(account, now - ageWindow).
undelivered(acc) ==
  {m \in Messages : account(m) = acc /\ row[m] = "undelivered" /\ createdAt[m] >= now - AgeWindow}

\* ORDER BY ts ASC; rows with equal times come in either order.
oldestFirst(S) ==
  {q \in SetToSeqs(S) : \A i, j \in DOMAIN q : i < j => createdAt[q[i]] <= createdAt[q[j]]}

\* What a greeting ends the wait of: the messages of an acknowledging subscriber's account.
greeted(c) == {m \in Messages : c \in AutoAck /\ account(m) = AccountOf[c]}

\* Mutant of Greet: no replay.
GreetWithoutReplay(c) ==
  /\ running /\ sub[c] = "fresh"
  /\ sub' = [sub EXCEPT ![c] = "live"]
  /\ down' = [down EXCEPT ![c] = Append(@, Ready)]
  /\ unsent' = unsent \ greeted(c)
  /\ UNCHANGED <<now, createdAt, running, row, sock, up, readySeen,
                 received, fresh, broadcasts, acked, faults>>

\* The setImmediate callback of a connection: the ready frame, then the replay.
Greet(c) ==
  /\ running /\ sub[c] = "fresh"
  /\ sub' = [sub EXCEPT ![c] = "live"]
  /\ \E q \in oldestFirst(undelivered(AccountOf[c])) :
       down' = [down EXCEPT ![c] = @ \o <<Ready>> \o q]
  /\ unsent' = unsent \ greeted(c)
  /\ UNCHANGED <<now, createdAt, running, row, sock, up, readySeen,
                 received, fresh, broadcasts, acked, faults>>

\* Mutant of markDelivered: the account of the subscriber is not part of the key.
markDeliveredById(acc, i) == {m \in Messages : id(m) = i /\ row[m] # "absent"}

\* The rows markDelivered(account, id) updates.
markDelivered(acc, i) == {m \in Messages : m = <<acc, i>> /\ row[m] # "absent"}

\* The server reads an ack.
ProcessAck(c) ==
  /\ running /\ sub[c] # "none" /\ up[c] # <<>>
  /\ up' = [up EXCEPT ![c] = Tail(@)]
  /\ LET marked == markDelivered(AccountOf[c], Head(up[c]))
     IN /\ row' = [m \in Messages |-> IF m \in marked THEN "delivered" ELSE row[m]]
        /\ acked' = acked \cup marked
  /\ UNCHANGED <<now, createdAt, running, sub, sock, down, readySeen,
                 received, fresh, broadcasts, unsent, faults>>

-----------------------------------------------------------------------------
(* The bridge clients.                                                     *)

\* The handshake completes: the server enters the socket in its subscribers map.
Connect(c) ==
  /\ running /\ sock[c] = "opening"
  /\ sock' = [sock EXCEPT ![c] = "open"] /\ sub' = [sub EXCEPT ![c] = "fresh"]
  /\ readySeen' = [readySeen EXCEPT ![c] = FALSE]
  /\ UNCHANGED <<now, createdAt, running, row, down, up, historyVars, faults>>

\* With no middleware to answer, the socket closes and the reconnect timer is set.
ConnectFails(c) ==
  /\ ~running /\ sock[c] = "opening"
  /\ sock' = [sock EXCEPT ![c] = "backoff"]
  /\ UNCHANGED <<now, createdAt, running, row, sub, down, up, readySeen, historyVars, faults>>

\* The reconnect timer fires.
Reopen(c) ==
  /\ sock[c] = "backoff"
  /\ sock' = [sock EXCEPT ![c] = "opening"]
  /\ UNCHANGED <<now, createdAt, running, row, sub, down, up, readySeen, historyVars, faults>>

ReceiveReady(c) ==
  /\ sock[c] = "open" /\ down[c] # <<>> /\ Head(down[c]) = Ready
  /\ down' = [down EXCEPT ![c] = Tail(@)]
  /\ readySeen' = [readySeen EXCEPT ![c] = TRUE]
  /\ UNCHANGED <<now, createdAt, running, row, sub, sock, up, historyVars, faults>>

\* onMessage runs, and the ack is sent whether it returns or throws.
ReceiveMessage(c) ==
  /\ sock[c] = "open" /\ down[c] # <<>> /\ Head(down[c]) # Ready
  /\ down' = [down EXCEPT ![c] = Tail(@)]
  /\ received' = [received EXCEPT ![c] = @ \cup {Head(down[c])}]
  /\ up' = [up EXCEPT ![c] = IF c \in AutoAck THEN Append(@, id(Head(down[c]))) ELSE @]
  /\ UNCHANGED <<now, createdAt, running, row, sub, sock, readySeen,
                 fresh, broadcasts, acked, unsent, faults>>

\* Mutant of Break: the server's close handler keeps the socket in its map.
BreakKeepsSubscriber(c) ==
  /\ sock[c] = "open"
  /\ faults < MaxFaults /\ faults' = faults + 1
  /\ sock' = [sock EXCEPT ![c] = "backoff"]
  /\ down' = [down EXCEPT ![c] = <<>>] /\ up' = [up EXCEPT ![c] = <<>>]
  /\ UNCHANGED <<now, createdAt, running, row, sub, readySeen, historyVars>>

\* The connection breaks.  Both ends notice; what is in flight either way is lost.
Break(c) ==
  /\ sock[c] = "open"
  /\ faults < MaxFaults /\ faults' = faults + 1
  /\ sock' = [sock EXCEPT ![c] = "backoff"] /\ sub' = [sub EXCEPT ![c] = "none"]
  /\ down' = [down EXCEPT ![c] = <<>>] /\ up' = [up EXCEPT ![c] = <<>>]
  /\ UNCHANGED <<now, createdAt, running, row, readySeen, historyVars>>

-----------------------------------------------------------------------------
LinkStep(c) ==
  Connect(c) \/ ConnectFails(c) \/ Reopen(c) \/ Greet(c) \/ ReceiveReady(c)
    \/ ReceiveMessage(c) \/ ProcessAck(c)

Next ==
  \/ \E m \in Messages : \/ Create(m) \/ Ingest(m) \/ IngestDuplicate(m)
                         \/ IngestThrows(m) \/ CrashInIngest(m)
  \/ \E c \in Clients : LinkStep(c) \/ Break(c)
  \/ Crash \/ Restart \/ Prune \/ Tick

\* A supervisor restarts the middleware, timers fire, and a connection carries what was
\* sent on it until it breaks.  Nothing obliges the upstream, the clock or the faults.
Fairness == WF_vars(Restart) /\ \A c \in Clients : WF_vars(LinkStep(c))

Spec == Init /\ [][Next]_vars
FairSpec == Spec /\ Fairness

-----------------------------------------------------------------------------
(* Properties.                                                             *)

Frames == Messages \cup {Ready}

\* Every variable has its type, and the server has a socket exactly while the client's
\* end of it is open.
TypeOK ==
  /\ now \in Nat /\ running \in BOOLEAN /\ faults \in Nat
  /\ createdAt \in [Messages -> Nat \cup {NotYet}]
  /\ row \in [Messages -> {"absent", "undelivered", "delivered"}]
  /\ sub \in [Clients -> {"none", "fresh", "live"}]
  /\ sock \in [Clients -> {"opening", "open", "backoff"}]
  /\ \A c \in Clients : (sub[c] # "none") <=> (sock[c] = "open")
  /\ down \in [Clients -> Seq(Frames)] /\ up \in [Clients -> Seq(Ids)]
  /\ readySeen \in [Clients -> BOOLEAN]
  /\ received \in [Clients -> SUBSET Messages]
  /\ fresh \subseteq Messages /\ acked \subseteq Messages /\ unsent \subseteq Messages
  /\ broadcasts \in [Messages -> 0..2]

\* "a subscriber on account A must only see account-A frames".
AccountIsolation == \A c \in Clients : \A m \in received[c] : account(m) = AccountOf[c]

\* A row is marked delivered only for a message that an acknowledging subscriber of its
\* account has been handed: a shared id, a lost frame or a reconnect marks nothing else.
DeliveredWasReceived ==
  \A m \in acked : \E c \in AutoAck : AccountOf[c] = account(m) /\ m \in received[c]

\* A message is broadcast at most once, although it may be presented again after a
\* restart, or after its row was pruned and has been recorded anew.
BroadcastAtMostOnce == \A m \in Messages : broadcasts[m] <= 1

\* The occurrences of message m on their way to client c.
InFlight(c, m) == Cardinality({i \in DOMAIN down[c] : down[c][i] = m})

\* The replay window outlasts the retention, which config.ts allows, and m is of an age
\* in between: its row may have been pruned and recorded anew.
Outgrown(m) == Retention < Age(m) /\ Age(m) <= AgeWindow

\* Once acknowledged a message is never sent again, although its row is pruned and the
\* upstream may present it anew, unless the replay window outlasts the retention.
AckedIsFinal ==
  [][\A m \in acked : \A c \in Clients : InFlight(c, m)' <= InFlight(c, m) \/ Outgrown(m)]_vars

\* A message recorded while recent reaches an acknowledging subscriber of its account,
\* through crashes, broken connections and lost frames, unless it outlives the replay
\* window or the retention before the subscriber is back.  One whose broadcast was lost
\* to a failed write has to wait for the next connection, and reaches it by that.
FreshIsReceived ==
  \A m \in Messages :
    (m \in fresh \ unsent /\ \E c \in AutoAck : AccountOf[c] = account(m))
      ~> (Age(m) > AgeWindow \/ Age(m) > Retention \/ \E c \in AutoAck : m \in received[c])

\* "Sent once when a subscriber connects, before any message frames": a client is
\* handed no message on a connection before the ready frame.  The code does not keep
\* this: a broadcast may overtake the greeting.
ReadyBeforeMessages ==
  [][\A c \in Clients : received'[c] # received[c] => readySeen[c]]_vars
=============================================================================
