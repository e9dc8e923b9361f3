--------------------------- MODULE AdapterRuntime ---------------------------
(***************************************************************************)
(* The OpenClaw adapter between the middleware and the agent: the gateway  *)
(* starts and stops the account (adapters/openclaw/channel.ts), each start *)
(* makes a runtime of its own with a bridge client (shared/bridge-client.ts*)
(* ), which subscribes, acknowledges and reconnects; the gate              *)
(* (adapters/openclaw/gate.ts) drops the bot's own group messages, which it*)
(* knows by the wxid of the ready frame; the debouncer holds the rest for a*)
(* moment and hands what one sender wrote meanwhile to the agent at once.  *)
(*                                                                         *)
(* Connections break, the middleware restarts and forgets a learned wxid,  *)
(* the adapter's process dies with what its debouncer holds.  The outages  *)
(* are shorter than the replay window; Delivery is about longer ones.      *)
(***************************************************************************)
EXTENDS Integers, Sequences, FiniteSets, SequencesExt

CONSTANTS
  MaxFrames,  \* messages of the account that come in, numbered as their rows
  Senders,    \* who writes in which conversation: the debouncer's keys
  Bot,        \* the bot itself, writing to a group
  Configured, \* the middleware's config states the wxid; else it is learned
  Debounced   \* debounceMs > 0

\* Bounds of a model-checking run.
CONSTANTS MaxStarts,  \* runtimes started
          MaxBreaks   \* connections broken or refused, middleware restarts

ASSUME AdapterAssumption ==
  /\ MaxFrames \in Nat /\ Bot \in Senders
  /\ Configured \in BOOLEAN /\ Debounced \in BOOLEAN
  /\ MaxStarts \in Nat \ {0} /\ MaxBreaks \in Nat

Runtimes == 1 .. MaxStarts
Frames == 1 .. MaxFrames

VARIABLES
  host,       \* the account in the gateway: "idle" or "running"
  started,    \* runtimes started so far
  current,    \* the bridges map's entry for the account, 0 for none
  conn,       \* runtime -> its socket: "none", "opening", "open", "backoff", "closing"
  selfWxid,   \* runtime -> it knows the bot's wxid
  sub,        \* runtime -> the server's side: "none", "fresh" (not yet greeted), "live"
  down, up,   \* runtime -> what travels to it in order, and on the way back its acks of
              \* rows not yet delivered (one of a delivered row changes nothing)
  known,      \* the middleware knows the wxid
  row,        \* frame -> its inbound_log row: "absent", "undelivered", "delivered"
  from,       \* frame -> its sender and conversation
  held,       \* runtime -> the frames in its debouncer
  latest,     \* runtime -> those of them that are the last of their key's burst
  handled,    \* history: frames handed to the agent with all they carry, dropped by
              \* the gate, or taken by a death with the debouncer that held them
  joined,     \* history: frames of which no more than the text was handed over, joined
              \* to that of a later one of the burst
  told,       \* runtime -> history: its connection was sent a ready with the wxid
  leaked,     \* history: own frames that passed the gate though sent after such a ready
  breaks      \* breaks so far

hostVars == <<host, started, current>>
linkVars == <<conn, sub, down, up, told>>
fateVars == <<from, held, latest, handled, joined, leaked>>
vars == <<hostVars, linkVars, selfWxid, known, row, fateVars, breaks>>

Connected == {"open", "closing"}
Wanting == {"opening", "open", "backoff"}
Ready == [type |-> "ready", told |-> known]
Message(f, t) == [type |-> "message", frame |-> f, told |-> t]

Init ==
  /\ host = "idle" /\ started = 0 /\ current = 0
  /\ conn = [g \in Runtimes |-> "none"] /\ sub = [g \in Runtimes |-> "none"]
  /\ down = [g \in Runtimes |-> <<>>] /\ up = [g \in Runtimes |-> {}]
  /\ selfWxid = [g \in Runtimes |-> FALSE]
  /\ known = Configured /\ row = [f \in Frames |-> "absent"]
  /\ from \in [Frames -> Senders]
  /\ held = [g \in Runtimes |-> {}] /\ latest = [g \in Runtimes |-> {}]
  /\ handled = {} /\ joined = {}
  /\ told = [g \in Runtimes |-> FALSE] /\ leaked = {} /\ breaks = 0

-----------------------------------------------------------------------------
(* The gateway.                                                            *)

\* startAccount: a new runtime, its bridge client in the map, connect().  The
\* gateway starts an account only after the previous start and stop returned.
StartAccount ==
  /\ host = "idle" /\ started < MaxStarts
  /\ host' = "running" /\ started' = started + 1 /\ current' = started + 1
  /\ conn' = [conn EXCEPT ![started + 1] = "opening"]
  /\ UNCHANGED <<sub, down, up, told, selfWxid, known, row, fateVars, breaks>>

\* Mutant: close() leaves the reconnect timer armed.
ClosedKeepsTimer(c) == IF c = "open" THEN "closing" ELSE IF c = "opening" THEN "none" ELSE c

\* close() of a bridge client: the reconnect timer is cleared, a socket that is
\* still opening given up, an open one told to close.
Closed(c) == IF c = "open" THEN "closing" ELSE IF c = "closing" THEN c ELSE "none"

\* The gateway fires the abort signal: startAccount resumes and stops the
\* runtime, and so does stopAccount; the later of the two finds it gone.
StopWcppRuntime ==
  /\ host = "running" /\ host' = "idle"
  /\ conn' = [g \in Runtimes |-> IF g = current THEN Closed(conn[g]) ELSE conn[g]]
  /\ current' = 0
  /\ UNCHANGED <<started, sub, down, up, told, selfWxid, known, row, fateVars, breaks>>

\* History: the frames F have gone with all they carry, of G at least the text.
HandOver(F, G) == handled' = handled \cup F /\ joined' = (joined \cup G) \ handled'

\* The gateway's process dies: sockets, timers and the debouncers are gone.
AdapterDies ==
  /\ host = "running" /\ host' = "idle" /\ current' = 0
  /\ conn' = [g \in Runtimes |-> "none"] /\ sub' = [g \in Runtimes |-> "none"]
  /\ down' = [g \in Runtimes |-> <<>>] /\ up' = [g \in Runtimes |-> {}]
  /\ HandOver(UNION {held[g] : g \in Runtimes}, {})
  /\ held' = [g \in Runtimes |-> {}] /\ latest' = [g \in Runtimes |-> {}]
  /\ told' = [g \in Runtimes |-> FALSE] /\ selfWxid' = [g \in Runtimes |-> FALSE]
  /\ UNCHANGED <<started, known, row, from, leaked, breaks>>

-----------------------------------------------------------------------------
(* The connection, both sides of it.                                       *)

Subscribe(g) ==
  /\ conn[g] = "opening"
  /\ conn' = [conn EXCEPT ![g] = "open"] /\ sub' = [sub EXCEPT ![g] = "fresh"]
  /\ UNCHANGED <<hostVars, down, up, told, selfWxid, known, row, fateVars, breaks>>

\* Mutant: the close handler sets no reconnect timer once it was open.
AfterCloseGivesUp(c) == IF c \in {"opening", "backoff"} THEN "backoff" ELSE "none"

\* What is left when the sockets of the runtimes G are gone: a client that was
\* not told to close sets its reconnect timer, the server drops the subscriber.
AfterClose(c) == IF c \in {"opening", "open"} THEN "backoff" ELSE IF c = "closing" THEN "none" ELSE c

\* Mutant: the close handler leaves the subscriber in the map.
UnsubscribeForgets(G) == UNCHANGED sub

Unsubscribe(G) == sub' = [g \in Runtimes |-> IF g \in G THEN "none" ELSE sub[g]]
Disconnect(G) ==
  /\ conn' = [g \in Runtimes |-> IF g \in G THEN AfterClose(conn[g]) ELSE conn[g]]
  /\ Unsubscribe(G)
  /\ down' = [g \in Runtimes |-> IF g \in G THEN <<>> ELSE down[g]]
  /\ up' = [g \in Runtimes |-> IF g \in G THEN {} ELSE up[g]]
  /\ told' = [g \in Runtimes |-> g \notin G /\ told[g]]

\* A connection breaks or is refused.
Break(g) ==
  /\ conn[g] \in {"opening", "open"} /\ breaks < MaxBreaks /\ breaks' = breaks + 1
  /\ Disconnect({g})
  /\ UNCHANGED <<hostVars, selfWxid, known, row, fateVars>>

\* The closing handshake ends; what was still on the way is not delivered.
CloseEnds(g) ==
  /\ conn[g] = "closing" /\ Disconnect({g})
  /\ UNCHANGED <<hostVars, selfWxid, known, row, fateVars, breaks>>

\* The middleware restarts: every connection is gone, and so is a learned wxid.
MiddlewareRestarts ==
  /\ breaks < MaxBreaks /\ breaks' = breaks + 1
  /\ Disconnect(Runtimes) /\ known' = Configured
  /\ UNCHANGED <<hostVars, selfWxid, row, fateVars>>

\* openSocket, when the reconnect timer fires.
Reconnect(g) ==
  /\ conn[g] = "backoff" /\ conn' = [conn EXCEPT ![g] = "opening"]
  /\ UNCHANGED <<hostVars, sub, down, up, told, selfWxid, known, row, fateVars, breaks>>

-----------------------------------------------------------------------------
(* The middleware.                                                         *)

\* The upstream tells the wxid.
LearnWxid ==
  /\ ~known /\ known' = TRUE
  /\ UNCHANGED <<hostVars, linkVars, selfWxid, row, fateVars, breaks>>

\* The deferred greeting: ready, then what is not acknowledged, in order.
Replay == SetToSeq({Message(f, known) : f \in {x \in Frames : row[x] = "undelivered"}})

\* Mutant: the replay goes out before the ready frame.
ReplayFirst == Replay \o <<Ready>>

Greeting == <<Ready>> \o Replay
Greet(g) ==
  /\ sub[g] = "fresh" /\ sub' = [sub EXCEPT ![g] = "live"]
  /\ down' = [down EXCEPT ![g] = @ \o Greeting]
  /\ told' = [told EXCEPT ![g] = known]
  /\ UNCHANGED <<hostVars, conn, up, selfWxid, known, row, fateVars, breaks>>

\* A message is recorded and broadcast to every subscriber, greeted or not.
Record(f) ==
  /\ row[f] = "absent" /\ \A e \in 1 .. f - 1 : row[e] # "absent"
  /\ row' = [row EXCEPT ![f] = "undelivered"]
  /\ down' = [g \in Runtimes |-> IF sub[g] = "none" THEN down[g] ELSE Append(down[g], Message(f, told[g]))]
  /\ UNCHANGED <<hostVars, conn, sub, up, told, selfWxid, known, fateVars, breaks>>

\* Acks commute: the order in which they arrive is left open.
AckArrives(g, f) ==
  /\ f \in up[g] /\ up' = [e \in Runtimes |-> up[e] \ {f}]
  /\ row' = [row EXCEPT ![f] = "delivered"]
  /\ UNCHANGED <<hostVars, conn, sub, down, told, selfWxid, known, fateVars, breaks>>

-----------------------------------------------------------------------------
(* The runtime.                                                            *)

OnReady(g) ==
  /\ conn[g] \in Connected /\ down[g] # <<>> /\ Head(down[g]).type = "ready"
  /\ down' = [down EXCEPT ![g] = Tail(@)]
  /\ selfWxid' = [selfWxid EXCEPT ![g] = Head(down[g]).told]
  /\ UNCHANGED <<hostVars, conn, sub, up, told, known, row, fateVars, breaks>>

SelfEcho(g, f) == selfWxid[g] /\ from[f] = Bot

\* A frame ends the burst of its sender and conversation, for now.
Enqueue(g, f) ==
  /\ held' = [held EXCEPT ![g] = @ \cup {f}]
  /\ latest' = [latest EXCEPT ![g] = {e \in @ : from[e] # from[f]} \cup {f}]

\* The frame passes the gate or is dropped, and is acknowledged as soon as
\* onMessage returns, unless the socket has meanwhile been told to close.
OnMessage(g) ==
  /\ conn[g] \in Connected /\ down[g] # <<>> /\ Head(down[g]).type = "message"
  /\ LET f == Head(down[g]).frame IN
     /\ IF SelfEcho(g, f) \/ ~Debounced
        THEN HandOver({f}, {}) /\ UNCHANGED <<held, latest>>
        ELSE Enqueue(g, f) /\ UNCHANGED <<handled, joined>>
     /\ up' = IF conn[g] = "open" /\ row[f] # "delivered" THEN [up EXCEPT ![g] = @ \cup {f}] ELSE up
     /\ down' = [down EXCEPT ![g] = Tail(@)]
     /\ leaked' = IF Head(down[g]).told /\ from[f] = Bot /\ ~SelfEcho(g, f) THEN leaked \cup {f} ELSE leaked
  /\ UNCHANGED <<hostVars, conn, sub, told, selfWxid, known, row, from, breaks>>

\* The debounce timer of a key fires, also when the runtime has been stopped since:
\* onFlush dispatches the last frame of the burst with its media, msgId and reply
\* context, the texts of all joined; the media of the earlier ones is dropped.
Flush(g, k) ==
  /\ LET burst == {f \in held[g] : from[f] = k} IN
     /\ burst # {}
     /\ held' = [held EXCEPT ![g] = @ \ burst] /\ latest' = [latest EXCEPT ![g] = @ \ burst]
     /\ HandOver(burst \cap latest[g], burst)
  /\ UNCHANGED <<hostVars, linkVars, selfWxid, known, row, from, leaked, breaks>>

Receive(g) == OnReady(g) \/ OnMessage(g)

Progress(g) ==
  \/ Subscribe(g) \/ Reconnect(g) \/ Greet(g) \/ Receive(g)
  \/ \E f \in Frames : AckArrives(g, f)

Next ==
  \/ StartAccount \/ StopWcppRuntime \/ AdapterDies \/ MiddlewareRestarts \/ LearnWxid
  \/ \E g \in Runtimes : Progress(g) \/ Break(g) \/ CloseEnds(g)
  \/ \E f \in Frames : Record(f)
  \/ \E g \in Runtimes, k \in Senders : Flush(g, k)

Spec == Init /\ [][Next]_vars

\* Timers, setImmediate and what a socket has received are served by Node; a
\* connection attempt succeeds when it does not break, and breaks are finite.
Fairness ==
  /\ \A g \in Runtimes : WF_vars(Progress(g))
  /\ WF_vars(\E g \in Runtimes, k \in Senders : Flush(g, k))

FairSpec == Spec /\ Fairness

-----------------------------------------------------------------------------
(* Properties.                                                             *)

\* The sockets, the queues and the subscriber map keep their shape.
TypeOK ==
  /\ host \in {"idle", "running"}
  /\ started \in 0 .. MaxStarts /\ current \in 0 .. started
  /\ conn \in [Runtimes -> Wanting \cup {"none", "closing"}]
  /\ sub \in [Runtimes -> {"none", "fresh", "live"}]
  /\ \A g \in Runtimes : conn[g] \notin Connected =>
        sub[g] = "none" /\ down[g] = <<>> /\ up[g] = {} /\ ~told[g]
  /\ selfWxid \in [Runtimes -> BOOLEAN] /\ told \in [Runtimes -> BOOLEAN] /\ known \in BOOLEAN
  /\ row \in [Frames -> {"absent", "undelivered", "delivered"}]
  /\ from \in [Frames -> Senders]
  /\ \A g \in Runtimes : held[g] \subseteq Frames /\ latest[g] \subseteq held[g]
  /\ handled \subseteq Frames /\ joined \subseteq Frames /\ leaked \subseteq Frames
  /\ breaks \in 0 .. MaxBreaks

\* However starts, aborts, the two stops, breaks and reconnect timers interleave,
\* only the runtime in the bridges map connects or will connect again, and a
\* subscription outlives its runtime's place in the map only while its closing
\* handshake lasts.  (During that handshake it still dispatches what comes, and the
\* next start may dispatch the same message: two subscriptions, one of them ending.)
OneStandingSubscription ==
  \A g \in Runtimes :
    /\ conn[g] \in Wanting => g = current /\ host = "running"
    /\ sub[g] # "none" => g = current \/ conn[g] = "closing"

\* A message the bot sent itself, once it travels behind a ready frame that
\* carried the wxid, never gets to the agent: the gate knows the wxid by the time
\* it sees the message, across reconnects and restarts of either side.
EchoGated == leaked = {}

\* While the account stays started, every recorded message in the end reaches the
\* agent: with all it carries, or, in a burst, as text joined to a later message of
\* its sender (its media, acknowledged by then, is dropped).  The exceptions are what
\* the gate drops and what died with an adapter whose debouncer held it.
Recorded == {f \in Frames : row[f] # "absent"}
FrameIsHandled ==
  ~(Recorded \subseteq handled \cup joined)
    ~> (Recorded \subseteq handled \cup joined \/ host # "running")
=============================================================================
