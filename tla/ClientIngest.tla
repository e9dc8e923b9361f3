---------------------------- MODULE ClientIngest ----------------------------
(***************************************************************************)
(* How WcppClient (core/client.ts) takes in the messages of its account:   *)
(* frames of the WebSocket push, envelopes of the shared webhook listener  *)
(* (core/webhook-listener.ts, routed by main.ts) and the replies to        *)
(* forceSync all run through ingestSyncMessages, which drops what its      *)
(* in-memory filter has seen and hands the rest to handleInbound.          *)
(*                                                                         *)
(* Upstream each account has a log of messages.  Any of them may be        *)
(* presented at any time, again and in any order; forceSync answers are    *)
(* overtaken by pushes and by each other; a database write may fail; a     *)
(* restart keeps the database only.  An account's wxid is identified with  *)
(* the account.                                                            *)
(***************************************************************************)
EXTENDS Integers, Sequences, FiniteSets, SequencesExt

CONSTANTS
  Accounts,   \* the instances
  Peers,      \* other wxids
  Foreign,    \* the device id the upstream puts on some envelopes instead of the wxid
  Declared,   \* the accounts whose wxid the configuration states
  Log,        \* account -> its messages upstream: [msgId, kind, to]
  SeenMax,    \* SEEN_MSG_ID_MAX
  Unknown     \* the wxid of a client that has not learned it

\* Bounds of a model-checking run.
CONSTANTS Rounds,      \* the forceSync calls that may be pending together
          MaxBatch,    \* messages in a frame, an envelope or a Sync reply
          MaxFailures  \* messages whose write has failed, at any time

Kinds == {"inbound", "ownDM", "ownGroup", "filtered"}
Messages(a) == ToSet(Log[a])
isSelf(m) == m.kind \in {"ownDM", "ownGroup"}

ASSUME ClientAssumption ==
  /\ Declared \subseteq Accounts
  /\ \A a \in Accounts :
       /\ Log[a] \in Seq(Messages(a))
       /\ \A m, o \in Messages(a) : m.msgId = o.msgId => m = o
       \* "Self messages are skipped (their toUser is the peer, not us)": the others have us.
       /\ \A m \in Messages(a) :
            m.kind \in Kinds /\ m.to \in Accounts \cup Peers /\ (~isSelf(m) => m.to = a)
  /\ Foreign \notin Accounts \cup Peers /\ Unknown \notin Accounts \cup Peers \cup {Foreign}
  /\ SeenMax \in Nat \ {0} /\ MaxBatch \in Nat \ {0}

VARIABLES
  wxid,      \* account -> the wxid its client goes by
  synckey,   \* account -> the Sync cursor, as a position in Log; 0 is the empty string
  seen,      \* account -> seenMsgIds in insertion order
  rounds,    \* forceSync call -> its state at the await
  stored,    \* account -> the messages in inbound_log
  failed,    \* history: account -> messages not on record whose write failed in this process
  recent,    \* history: account -> the ids that entered the filter last
  missed,    \* history: account -> the wanted messages that the step just taken presented
             \*   and did not store, the database taking them
  skipped,   \* history: account -> the own group messages of that step's webhook push
  dropped    \* history: the account whose push the step just taken dropped as "unrouted"

clientVars == <<wxid, synckey, seen>>
vars == <<clientVars, rounds, stored, failed, recent, missed, skipped, dropped>>

Idle == [phase |-> "idle"]
Nothing == [a \in Accounts |-> {}]
\* Mutant of configured: every client starts without a wxid.
configuredLater == [a \in Accounts |-> Unknown]

\* The wxid a client starts with.
configured == [a \in Accounts |-> IF a \in Declared THEN a ELSE Unknown]
\* The ids that survive an eviction.
Kept == (SeenMax + 1) - ((SeenMax + 1) \div 2)
last(n, s) == SubSeq(s, IF Len(s) > n THEN Len(s) - n + 1 ELSE 1, Len(s))
Batches(a) == {b \in UNION {[1..n -> Messages(a)] : n \in 0..MaxBatch} : IsInjective(b)}
wanted(m) == m.kind \in {"inbound", "ownGroup"}

Init ==
  /\ wxid = configured
  /\ synckey = [a \in Accounts |-> 0]
  /\ seen = [a \in Accounts |-> <<>>] /\ recent = [a \in Accounts |-> <<>>]
  /\ rounds = [r \in Rounds |-> Idle]
  /\ stored = Nothing /\ failed = Nothing /\ missed = Nothing /\ skipped = Nothing
  /\ dropped = {}

-----------------------------------------------------------------------------
(* The ingest pipeline.                                                    *)

\* Mutants of evict: the newer half goes; nothing goes.
evictNewer(s) == IF Len(s) > SeenMax THEN SubSeq(s, 1, Kept) ELSE s
evictNothing(s) == s

\* Over SEEN_MSG_ID_MAX entries the filter keeps entries.slice(length / 2).
evict(s) == IF Len(s) > SeenMax THEN last(Kept, s) ELSE s

\* Type 51, a disallowed type, or a placeholder without a file.
typeAllowed(m) == m.kind # "filtered"

\* "Drop own DMs; keep own group messages": the sender is the wxid the client goes by.
ownDM(a, w, m) == m.kind = "ownDM" /\ w = a

\* Mutant of ingestOne: an exception of the message handler is not caught, and what is
\* left of the batch goes with it.
ingestOneUncaught(a, w, broken, s, m) ==
  IF s.failed # {} \/ m.msgId \in ToSet(s.seen) \/ ~typeAllowed(m) THEN s
  ELSE [seen |-> evict(Append(s.seen, m.msgId)),
        recent |-> last(Kept, Append(s.recent, m.msgId)),
        stored |-> IF ownDM(a, w, m) \/ m \in broken THEN s.stored ELSE s.stored \cup {m},
        failed |-> IF ~ownDM(a, w, m) /\ m \in broken \ s.stored
                     THEN s.failed \cup {m} ELSE s.failed]

\* One message of a batch: into the filter, and on to handleInbound, which stores a
\* message not on record.  A failed write is logged and the batch goes on.
ingestOne(a, w, broken, s, m) ==
  IF m.msgId \in ToSet(s.seen) \/ ~typeAllowed(m) THEN s
  ELSE [seen |-> evict(Append(s.seen, m.msgId)),
        recent |-> last(Kept, Append(s.recent, m.msgId)),
        stored |-> IF ownDM(a, w, m) \/ m \in broken THEN s.stored ELSE s.stored \cup {m},
        failed |-> IF ~ownDM(a, w, m) /\ m \in broken \ s.stored
                     THEN s.failed \cup {m} ELSE s.failed]

\* The wxid of a client told that it is w: only the first is taken.
learn(a, w) == IF wxid[a] = Unknown THEN w ELSE wxid[a]

\* ingestSyncMessages of account a for a batch that tells w, where the database refuses
\* to write the messages in broken; presented is what the upstream sent, which the batch
\* may be a part of.
ingest(a, w, presented, batch, broken) ==
  LET after[i \in 0..Len(batch)] ==
        IF i = 0 THEN [seen |-> seen[a], recent |-> recent[a],
                       stored |-> stored[a], failed |-> failed[a]]
        ELSE ingestOne(a, learn(a, w), broken, after[i - 1], batch[i])
      s == after[Len(batch)]
  IN /\ wxid' = [wxid EXCEPT ![a] = learn(a, w)]
     /\ seen' = [seen EXCEPT ![a] = s.seen]
     /\ recent' = [recent EXCEPT ![a] = s.recent]
     /\ stored' = [stored EXCEPT ![a] = s.stored]
     /\ failed' = [failed EXCEPT ![a] = s.failed \ s.stored]
     /\ Cardinality(UNION {failed'[b] : b \in Accounts}) <= MaxFailures
     /\ missed' = [Nothing EXCEPT ![a] = {m \in ToSet(presented) : wanted(m)} \ (s.stored \cup broken)]

\* The database takes every message of a batch, or refuses one it does not have.
mayBreak(a, batch) == {{}} \cup {{m} : m \in ToSet(batch) \ stored[a]}
\* What a frame or a reply tells of the wxid; a client that has one does not look.
tells(a) == IF wxid[a] = Unknown THEN {Unknown, a} ELSE {Unknown}

-----------------------------------------------------------------------------
(* The transports.                                                         *)

\* A WebSocket push.  Some envelopes state the wxid; none carries a KeyBuf.
handleWsMessage(a) ==
  /\ \E batch \in Batches(a) \ {<<>>}, w \in tells(a) :
       \E broken \in mayBreak(a, batch) : ingest(a, w, batch, batch, broken)
  /\ skipped' = Nothing /\ dropped' = {} /\ UNCHANGED <<synckey, rounds>>

\* Mutant of sinks: an envelope nobody claims goes to some instance.
sinksOrAny(key) ==
  LET claimed == {a \in Accounts : (a \in Declared /\ a = key) \/ wxid[a] = key}
  IN IF claimed = {} THEN Accounts ELSE claimed

\* The instances that claim a routing key: routeWebhook.
sinks(key) == {a \in Accounts : (a \in Declared /\ a = key) \/ wxid[a] = key}

\* Where the listener sends an envelope: by its Wxid, else by the toUser of the messages
\* that are not the account's own.
route(envWxid, batch) ==
  IF sinks(envWxid) # {} THEN sinks(envWxid)
  ELSE UNION {sinks(m.to) : m \in {x \in ToSet(batch) : ~isSelf(x)}}

\* The messages of a batch that are not the account's own, in their order.
notSelf(batch) ==
  LET kept[i \in 0..Len(batch)] ==
        IF i = 0 THEN <<>>
        ELSE IF isSelf(batch[i]) THEN kept[i - 1] ELSE Append(kept[i - 1], batch[i])
  IN kept[Len(batch)]

\* A push of messages of account a that passes the gate and is routed to an instance,
\* which skips self messages, those to a group too, and learns its wxid from the toUser
\* of another.
WebhookRouted(a, envWxid, batch) ==
  /\ \E sink \in route(envWxid, batch) : \E broken \in mayBreak(sink, batch) :
       LET inbound == notSelf(batch)
           w == IF inbound = <<>> THEN Unknown ELSE inbound[1].to
       IN /\ ingest(sink, w, batch, inbound, broken)
          /\ skipped' = [Nothing EXCEPT ![sink] = {m \in ToSet(batch) : m.kind = "ownGroup"}]
  /\ dropped' = {} /\ UNCHANGED <<synckey, rounds>>

\* A push that no instance claims is acknowledged and dropped.
WebhookUnrouted(a, envWxid, batch) ==
  /\ route(envWxid, batch) = {}
  /\ dropped' = {a} /\ missed' = Nothing /\ skipped' = Nothing
  /\ UNCHANGED <<clientVars, rounds, stored, failed, recent>>

webhookPush(a, envWxid, batch) ==
  WebhookRouted(a, envWxid, batch) \/ WebhookUnrouted(a, envWxid, batch)

\* A push with a bad or missing signature, or one out of the timestamp window.
WebhookRefused == UNCHANGED vars

\* forceSync up to the await: the cursor goes out, and the reply is on its way.
BeginSync(r, a) ==
  /\ rounds[r] = Idle
  /\ LET k == synckey[a]
         end == IF k + MaxBatch < Len(Log[a]) THEN k + MaxBatch ELSE Len(Log[a])
     IN rounds' = [rounds EXCEPT ![r] =
          [phase |-> "pending", account |-> a, key |-> end, batch |-> SubSeq(Log[a], k + 1, end)]]
  /\ missed' = Nothing /\ skipped' = Nothing /\ dropped' = {}
  /\ UNCHANGED <<clientVars, stored, failed, recent>>

\* The rest of a successful forceSync: the cursor of the reply, then its messages.
SyncReply(r) ==
  /\ rounds[r] # Idle
  /\ LET a == rounds[r].account
     IN /\ synckey' = [synckey EXCEPT ![a] = rounds[r].key]
        /\ \E w \in tells(a), broken \in mayBreak(a, rounds[r].batch) :
             ingest(a, w, rounds[r].batch, rounds[r].batch, broken)
  /\ rounds' = [rounds EXCEPT ![r] = Idle]
  /\ skipped' = Nothing /\ dropped' = {}

\* Mutant of SyncFails: the cursor is taken from a reply that is not processed.
SyncFailsAdvances(r) ==
  /\ rounds[r] # Idle
  /\ rounds' = [rounds EXCEPT ![r] = Idle]
  /\ missed' = Nothing /\ skipped' = Nothing /\ dropped' = {}
  /\ synckey' = [synckey EXCEPT ![rounds[r].account] = rounds[r].key]
  /\ UNCHANGED <<wxid, seen, stored, failed, recent>>

\* The request fails, or its reply says !Success.
SyncFails(r) ==
  /\ rounds[r] # Idle
  /\ rounds' = [rounds EXCEPT ![r] = Idle]
  /\ missed' = Nothing /\ skipped' = Nothing /\ dropped' = {}
  /\ UNCHANGED <<clientVars, stored, failed, recent>>

\* The process is replaced: the database stays.
Restart ==
  /\ wxid' = configured
  /\ synckey' = [a \in Accounts |-> 0]
  /\ seen' = [a \in Accounts |-> <<>>] /\ recent' = [a \in Accounts |-> <<>>]
  /\ rounds' = [r \in Rounds |-> Idle]
  /\ failed' = Nothing /\ missed' = Nothing /\ skipped' = Nothing /\ dropped' = {}
  /\ UNCHANGED stored

Next ==
  \/ \E a \in Accounts :
       handleWsMessage(a) \/ \E batch \in Batches(a), w \in {a, Foreign} : webhookPush(a, w, batch)
  \/ WebhookRefused
  \/ \E r \in Rounds : (\E a \in Accounts : BeginSync(r, a)) \/ SyncReply(r) \/ SyncFails(r)
  \/ Restart

Spec == Init /\ [][Next]_vars

\* The upstream keeps pushing what an account receives to its webhook.
PushedSpec ==
  Spec /\ \A a \in Accounts : WF_vars(\E batch \in Batches(a) :
    (\E m \in ToSet(batch) : m.kind = "inbound") /\ webhookPush(a, a, batch))

-----------------------------------------------------------------------------
(* Properties.                                                             *)

\* Every variable has its type, and the filter is a duplicate-free list within its limit.
TypeOK ==
  /\ wxid \in [Accounts -> Accounts \cup Peers \cup {Foreign, Unknown}]
  /\ \A a \in Accounts :
       /\ synckey[a] \in 0..Len(Log[a])
       /\ IsInjective(seen[a]) /\ Len(seen[a]) <= SeenMax
       /\ ToSet(seen[a]) \subseteq {m.msgId : m \in Messages(a)}
       /\ stored[a] \subseteq Messages(a)
       /\ missed[a] \subseteq Messages(a) /\ skipped[a] \subseteq Messages(a)
       /\ failed[a] \subseteq Messages(a) \ stored[a]
       /\ ToSet(recent[a]) \subseteq {m.msgId : m \in Messages(a)}
  /\ dropped \subseteq Accounts
  /\ \A r \in Rounds : rounds[r] = Idle \/ rounds[r].account \in Accounts

\* Whatever a push says its Wxid is, and though one account may be the peer of another,
\* a client learns no wxid but its own and stores no message of another account.
RightAccount ==
  \A a \in Accounts : wxid[a] \in {a, Unknown} /\ stored[a] \subseteq Messages(a)

\* An account with a configured wxid never takes its own direct messages for inbound
\* ones, by any transport, after a restart either.
NoOwnDM == \A a \in Declared : \A m \in stored[a] : m.kind # "ownDM"

\* The webhook copy of a push, a few seconds later, is still known: an eviction in
\* between forgets none of the ids that entered the filter last.
SeenRemembersRecent == \A a \in Accounts : ToSet(recent[a]) \subseteq ToSet(seen[a])

\* A message of another or of a group is on record once a frame, a routed push or a reply
\* has brought it and the database took it, unless an earlier write of it failed in this
\* process, or it is an own message to a group that came by webhook: that transport alone
\* leaves it out.
PresentedIsStored == \A a \in Accounts : missed[a] \subseteq failed[a] \cup skipped[a]

\* "KEEP own group messages - unified across all transports here": what of them a webhook
\* push brings is on record.  It need not be: see PresentedIsStored.
OwnGroupIsKept == \A a \in Accounts : skipped[a] \subseteq stored[a]

\* The cursor never runs ahead of what was processed, however the replies of overlapping
\* calls are ordered: a message it has passed is on record, or its write has failed.
CursorCovers ==
  \A a \in Accounts : \A i \in 1..synckey[a] :
    wanted(Log[a][i]) => Log[a][i] \in stored[a] \cup failed[a]

\* "The middleware persists every new ... message to SQLite regardless of age - so a
\* backlog redelivery ... is captured losslessly": also one whose first write failed.
\* (What a webhook push leaves out is OwnGroupIsKept's.)
RedeliveryIsStored == \A a \in Accounts : missed[a] \subseteq skipped[a]

\* "fall back to a learned one so routing works even before a wxid is configured":
\* an account whose pushes are dropped for want of a wxid learns it from later pushes.
PushesGetRouted == \A a \in Accounts : (a \in dropped) ~> (wxid[a] = a)
=============================================================================
