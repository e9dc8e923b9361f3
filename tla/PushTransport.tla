--------------------------- MODULE PushTransport ---------------------------
(***************************************************************************)
(* How each instance holds its line to the upstream: the WebSocket push    *)
(* with its keepalive and its reconnects (core/client.ts), the             *)
(* registration of its webhook (Remove, then Set), and the life of the     *)
(* process around them, from startup to shutdown (core/main.ts), which     *)
(* waits for the shared webhook listener (core/webhook-listener.ts).       *)
(*                                                                         *)
(* The upstream closes sockets whenever it likes, executes the HTTP        *)
(* requests on the wire late and in any order, or never; the process is    *)
(* told to stop at any point of its life, or dies, and is started again.   *)
(***************************************************************************)
EXTENDS Integers, Sequences, FiniteSets, Functions

CONSTANTS
  Order,             \* the instances, in the order of the config's map
  WsEnabled,         \* those whose wsEnabled is not false
  Registers,         \* those with webhookRegister and a webhookUrl
  BaseDelay, MaxDelay \* the reconnect backoff: first delay and cap, in units of 5 s

\* Bounds of a model-checking run.
CONSTANTS MaxAttempt,  \* the failures counted; the delay must be at its cap by then
          MaxLives,    \* how often the process is started
          MaxPosts     \* POSTs at the webhook listener at a time

Instances == Range(Order)

\* No two instances have the same account label.
AccountsUnique == IsInjective(Order)

ASSUME PushAssumption ==
  /\ Order \in Seq(Instances) /\ AccountsUnique
  /\ WsEnabled \subseteq Instances /\ Registers \subseteq Instances
  /\ BaseDelay \in Nat \ {0} /\ MaxDelay \in Nat /\ BaseDelay <= MaxDelay
  /\ MaxAttempt \in Nat /\ BaseDelay * 2 ^ MaxAttempt >= MaxDelay
  /\ MaxLives \in Nat \ {0} /\ MaxPosts \in Nat

VARIABLES
  proc,       \* the process: "booting", "connected", "serving", "stopping", "closing", "exited", "crashed"
  stopped,    \* how many instances the shutdown loop is done with
  released,   \* instance -> disconnect() has been called in this life
  sock,       \* instance -> maxWs: "none", "connecting", "open", "closed"
  orphaned,   \* history: instance -> a live socket was overwritten
  timer,      \* instance -> the delay of maxWsReconnectTimer, or Unarmed
  attempt,    \* instance -> maxWsReconnectAttempt, up to MaxAttempt
  interval,   \* instance -> keepalive intervals that run, up to 2
  pingTimer,  \* instance -> maxWsPingTimer is set
  tickedEarly,\* history: instance -> the interval fired before this socket was open
  drops,      \* history: instance -> closes since the last open, up to MaxAttempt + 1
  chain,      \* instance -> the re-registration: "idle", "removing", "setting", "set", "failed"
  wire,       \* instance -> the webhook requests the upstream has still to execute
  webhook,    \* instance -> the upstream has our URL
  disturbed,  \* history: instance -> a Remove of an earlier time could follow this Set
  lost,       \* history: instance -> a webhook request was never executed
  unsettled,  \* history: instance -> at disconnect() a Set was still to come
  posts,      \* the POSTs at the webhook listener that are not answered
  lives       \* history: lives of the process so far

processVars == <<proc, stopped, released, posts, lives>>
socketVars == <<sock, orphaned, timer, attempt, interval, pingTimer, tickedEarly, drops>>
webhookVars == <<chain, wire, webhook, disturbed, lost, unsettled>>
vars == <<processVars, socketVars, webhookVars>>

Unarmed == 0
Up == {"booting", "connected", "serving", "stopping", "closing"}
Live == {"connecting", "open"}
\* The requests of this life ("clean" is the Remove of connect(), "bye" that of
\* disconnect()) and what becomes of one whose caller is gone.
Late == [clean |-> "lateRemove", bye |-> "lateRemove", set |-> "lateSet",
         lateRemove |-> "lateRemove", lateSet |-> "lateSet"]
Requests == DOMAIN Late
Removes == {"clean", "bye", "lateRemove"}
Least(a, b) == IF a <= b THEN a ELSE b

\* What a new process starts from; only the upstream remembers.
Fresh ==
  /\ stopped' = 0 /\ released' = [i \in Instances |-> FALSE] /\ posts' = 0
  /\ sock' = [i \in Instances |-> "none"] /\ orphaned' = [i \in Instances |-> FALSE]
  /\ timer' = [i \in Instances |-> Unarmed] /\ attempt' = [i \in Instances |-> 0]
  /\ interval' = [i \in Instances |-> 0] /\ pingTimer' = [i \in Instances |-> FALSE]
  /\ tickedEarly' = [i \in Instances |-> FALSE] /\ drops' = [i \in Instances |-> 0]
  /\ chain' = [i \in Instances |-> "idle"] /\ disturbed' = [i \in Instances |-> FALSE]
  /\ wire' = [i \in Instances |-> {Late[r] : r \in wire[i]}]

Init ==
  /\ proc = "booting" /\ lives = 1
  /\ stopped = 0 /\ released = [i \in Instances |-> FALSE] /\ posts = 0
  /\ sock = [i \in Instances |-> "none"] /\ orphaned = [i \in Instances |-> FALSE]
  /\ timer = [i \in Instances |-> Unarmed] /\ attempt = [i \in Instances |-> 0]
  /\ interval = [i \in Instances |-> 0] /\ pingTimer = [i \in Instances |-> FALSE]
  /\ tickedEarly = [i \in Instances |-> FALSE] /\ drops = [i \in Instances |-> 0]
  /\ chain = [i \in Instances |-> "idle"] /\ wire = [i \in Instances |-> {}]
  /\ webhook = [i \in Instances |-> FALSE]
  /\ disturbed = [i \in Instances |-> FALSE] /\ lost = [i \in Instances |-> FALSE]
  /\ unsettled = [i \in Instances |-> FALSE]

-----------------------------------------------------------------------------
(* The WebSocket of one instance.                                          *)

\* Mutant: the delay doubles without a cap.
BackoffUncapped(n) == BaseDelay * 2 ^ n

Backoff(n) == Least(BaseDelay * 2 ^ n, MaxDelay)

\* connectMaxWebSocket over the set I of instances: the interval of an earlier
\* socket is cleared, the socket replaced, a new interval started.
ConnectMaxWebSocket(I) ==
  LET kept(i) == interval[i] - (IF pingTimer[i] THEN 1 ELSE 0) IN
  /\ sock' = [i \in Instances |-> IF i \in I THEN "connecting" ELSE sock[i]]
  /\ orphaned' = [i \in Instances |-> orphaned[i] \/ (i \in I /\ sock[i] \in Live)]
  /\ interval' = [i \in Instances |-> IF i \in I THEN Least(kept(i) + 1, 2) ELSE interval[i]]
  /\ pingTimer' = [i \in Instances |-> pingTimer[i] \/ i \in I]
  /\ tickedEarly' = [i \in Instances |-> tickedEarly[i] /\ i \notin I]

\* Mutant: a healthy connection does not reset the backoff.
SocketOpensKeepsBackoff(i) ==
  /\ proc \in Up /\ sock[i] = "connecting"
  /\ sock' = [sock EXCEPT ![i] = "open"]
  /\ drops' = [drops EXCEPT ![i] = 0]
  /\ UNCHANGED <<processVars, webhookVars, orphaned, timer, attempt, interval, pingTimer, tickedEarly>>

SocketOpens(i) ==
  /\ proc \in Up /\ sock[i] = "connecting"
  /\ sock' = [sock EXCEPT ![i] = "open"]
  /\ attempt' = [attempt EXCEPT ![i] = 0] /\ drops' = [drops EXCEPT ![i] = 0]
  /\ UNCHANGED <<processVars, webhookVars, orphaned, timer, interval, pingTimer, tickedEarly>>

\* Mutant: the handle is dropped, the interval runs on.
StopPingingForgets(i) ==
  /\ pingTimer' = [pingTimer EXCEPT ![i] = FALSE]
  /\ UNCHANGED interval

StopPinging(i) ==
  /\ interval' = [interval EXCEPT ![i] = IF pingTimer[i] THEN @ - 1 ELSE @]
  /\ pingTimer' = [pingTimer EXCEPT ![i] = FALSE]

\* Mutant: only a socket that had been open is connected again.
SocketClosesOnce(i) ==
  /\ proc \in Up /\ sock[i] \in Live
  /\ sock' = [sock EXCEPT ![i] = "closed"]
  /\ drops' = [drops EXCEPT ![i] = Least(@ + 1, MaxAttempt + 1)]
  /\ StopPinging(i)
  /\ IF timer[i] # Unarmed \/ sock[i] = "connecting" THEN UNCHANGED <<timer, attempt>>
     ELSE /\ timer' = [timer EXCEPT ![i] = Backoff(attempt[i])]
          /\ attempt' = [attempt EXCEPT ![i] = Least(@ + 1, MaxAttempt)]
  /\ UNCHANGED <<processVars, webhookVars, orphaned, tickedEarly>>

\* The 'close' event, after 'error' or not, of an open socket or of one that
\* never opened: keepalive off, scheduleMaxWsReconnect unless a timer is armed.
SocketCloses(i) ==
  /\ proc \in Up /\ sock[i] \in Live
  /\ sock' = [sock EXCEPT ![i] = "closed"]
  /\ drops' = [drops EXCEPT ![i] = Least(@ + 1, MaxAttempt + 1)]
  /\ StopPinging(i)
  /\ IF timer[i] # Unarmed THEN UNCHANGED <<timer, attempt>>
     ELSE /\ timer' = [timer EXCEPT ![i] = Backoff(attempt[i])]
          /\ attempt' = [attempt EXCEPT ![i] = Least(@ + 1, MaxAttempt)]
  /\ UNCHANGED <<processVars, webhookVars, orphaned, tickedEarly>>

ReconnectTimerFires(i) ==
  /\ proc \in Up /\ timer[i] # Unarmed
  /\ timer' = [timer EXCEPT ![i] = Unarmed]
  /\ ConnectMaxWebSocket({i})
  /\ UNCHANGED <<processVars, webhookVars, attempt, drops>>

\* The 30 s interval pings an open socket; finding any other, it ends itself,
\* also when the socket is about to open.
KeepaliveFires(i) ==
  /\ proc \in Up /\ interval[i] > 0 /\ sock[i] # "open" /\ pingTimer[i]
  /\ StopPinging(i)
  /\ tickedEarly' = [tickedEarly EXCEPT ![i] = TRUE]
  /\ UNCHANGED <<processVars, webhookVars, sock, orphaned, timer, attempt, drops>>

-----------------------------------------------------------------------------
(* The webhook registration.                                               *)

\* The upstream executes a request; the answer to the one the chain awaits
\* reaches it at once.  Set is answered after it took effect.
UpstreamExecutes(i, r) ==
  /\ r \in wire[i]
  /\ wire' = [wire EXCEPT ![i] = @ \ {r}]
  /\ webhook' = [webhook EXCEPT ![i] = r \notin Removes]
  /\ disturbed' = [disturbed EXCEPT ![i] = IF r = "set" THEN "lateRemove" \in wire[i] ELSE @]
  /\ chain' = [chain EXCEPT ![i] = IF r = "set" THEN "set" ELSE @]
  /\ UNCHANGED <<processVars, socketVars, lost, unsettled>>

\* A request never arrives, or the upstream refuses it.
RequestFails(i, r) ==
  /\ r \in wire[i]
  /\ wire' = [wire EXCEPT ![i] = @ \ {r}]
  /\ lost' = [lost EXCEPT ![i] = TRUE]
  /\ chain' = [chain EXCEPT ![i] = IF r = "set" THEN "failed" ELSE @]
  /\ UNCHANGED <<processVars, socketVars, webhook, disturbed, unsettled>>

\* The answer is lost or late: the caller sees an error, the request stays.
CallerGivesUp(i, r) ==
  /\ proc \in Up /\ r \in wire[i] \cap {"clean", "set"}
  /\ wire' = [wire EXCEPT ![i] = (@ \ {r}) \cup {Late[r]}]
  /\ chain' = [chain EXCEPT ![i] = IF r = "set" THEN "failed" ELSE @]
  /\ UNCHANGED <<processVars, socketVars, webhook, disturbed, lost, unsettled>>

\* Mutant: Set does not wait for the Remove.
RegisterWebhookAtOnce(i) ==
  /\ proc \in Up /\ chain[i] = "removing"
  /\ chain' = [chain EXCEPT ![i] = "setting"]
  /\ wire' = [wire EXCEPT ![i] = @ \cup {"set"}]
  /\ UNCHANGED <<processVars, socketVars, webhook, disturbed, lost, unsettled>>

\* removeWebhook has settled, whatever came of it: registerWebhook.
RegisterWebhook(i) ==
  /\ proc \in Up /\ chain[i] = "removing" /\ "clean" \notin wire[i]
  /\ chain' = [chain EXCEPT ![i] = "setting"]
  /\ wire' = [wire EXCEPT ![i] = @ \cup {"set"}]
  /\ UNCHANGED <<processVars, socketVars, webhook, disturbed, lost, unsettled>>

-----------------------------------------------------------------------------
(* The process.                                                            *)

\* The webhook listener is up (awaited); connect() of every instance.
ConnectAll ==
  /\ proc = "booting" /\ proc' = "connected"
  /\ ConnectMaxWebSocket(WsEnabled)
  /\ chain' = [i \in Instances |-> IF i \in Registers THEN "removing" ELSE "idle"]
  /\ wire' = [i \in Instances |-> wire[i] \cup (IF i \in Registers THEN {"clean"} ELSE {})]
  /\ UNCHANGED <<stopped, released, posts, lives, timer, attempt, drops, webhook, disturbed,
                 lost, unsettled>>

\* The bridge server listens; heartbeats start and the signal handlers are set.
Serve ==
  /\ proc = "connected" /\ proc' = "serving"
  /\ UNCHANGED <<stopped, released, posts, lives, socketVars, webhookVars>>

\* SIGTERM or SIGINT to a process with handlers; a second one is ignored.
Signal ==
  /\ proc = "serving" /\ proc' = "stopping"
  /\ UNCHANGED <<stopped, released, posts, lives, socketVars, webhookVars>>

OnTurn(i) == /\ proc = "stopping" /\ ~released[i]
             /\ stopped < Len(Order) /\ i = Order[stopped + 1]

\* Mutant: disconnect() leaves the reconnect timer armed.
DisconnectKeepsTimer(i) ==
  /\ OnTurn(i) /\ sock[i] # "connecting"
  /\ released' = [released EXCEPT ![i] = TRUE]
  /\ StopPinging(i)
  /\ sock' = [sock EXCEPT ![i] = "none"]
  /\ wire' = [wire EXCEPT ![i] = @ \cup (IF i \in Registers THEN {"bye"} ELSE {})]
  /\ unsettled' = [unsettled EXCEPT ![i] = \/ chain[i] \in {"removing", "setting"}
                                           \/ "lateSet" \in wire[i]]
  /\ UNCHANGED <<proc, stopped, posts, lives, timer, orphaned, attempt, tickedEarly, drops,
                 chain, webhook, disturbed, lost>>

\* disconnect() of the instance whose turn it is, its pacer stopped before: the
\* timers are cleared, the listeners removed, the socket closed, a Remove sent.
Disconnect(i) ==
  /\ OnTurn(i) /\ sock[i] # "connecting"
  /\ released' = [released EXCEPT ![i] = TRUE]
  /\ timer' = [timer EXCEPT ![i] = Unarmed]
  /\ StopPinging(i)
  /\ sock' = [sock EXCEPT ![i] = "none"]
  /\ wire' = [wire EXCEPT ![i] = @ \cup (IF i \in Registers THEN {"bye"} ELSE {})]
  /\ unsettled' = [unsettled EXCEPT ![i] = \/ chain[i] \in {"removing", "setting"}
                                           \/ "lateSet" \in wire[i]]
  /\ UNCHANGED <<proc, stopped, posts, lives, orphaned, attempt, tickedEarly, drops,
                 chain, webhook, disturbed, lost>>

\* The ws library reports the close of a connecting socket as an 'error' on the
\* next tick; disconnect() has just removed the listener, so the error is
\* uncaught and the process dies in the middle of its shutdown.
DisconnectThrows(i) ==
  /\ OnTurn(i) /\ sock[i] = "connecting"
  /\ proc' = "crashed" /\ Fresh
  /\ UNCHANGED <<lives, webhook, lost, unsettled>>

\* Mutant: the loop also waits for the upstream to remove the webhook.
HeartbeatStoppedAfterRemove ==
  /\ proc = "stopping" /\ stopped < Len(Order) /\ released[Order[stopped + 1]]
  /\ "bye" \notin wire[Order[stopped + 1]]
  /\ stopped' = stopped + 1
  /\ UNCHANGED <<proc, released, posts, lives, socketVars, webhookVars>>

\* await hb.stop(): meanwhile the instances after it carry on.
HeartbeatStopped ==
  /\ proc = "stopping" /\ stopped < Len(Order) /\ released[Order[stopped + 1]]
  /\ stopped' = stopped + 1
  /\ UNCHANGED <<proc, released, posts, lives, socketVars, webhookVars>>

\* A POST of the upstream arrives at the listener, before it is closed.  (One that came
\* during startup is like one that comes now: only the close looks at it.)
PostArrives ==
  /\ proc \in {"serving", "stopping"} /\ posts < MaxPosts /\ posts' = posts + 1
  /\ UNCHANGED <<proc, stopped, released, lives, socketVars, webhookVars>>

\* A POST under way is complete and answered, or its connection breaks.  An upstream that
\* stops in the middle of a body does neither.
PostSettles ==
  /\ proc \in Up /\ posts > 0 /\ posts' = posts - 1
  /\ UNCHANGED <<proc, stopped, released, lives, socketVars, webhookVars>>

\* The loop is over: await webhookListener.close(), a bare server.close(), which accepts
\* nothing new and waits for the POSTs under way.
CloseListener ==
  /\ proc = "stopping" /\ stopped = Len(Order)
  /\ proc' = "closing"
  /\ UNCHANGED <<stopped, released, posts, lives, socketVars, webhookVars>>

\* The bridge server, which destroys its sockets, and the database are closed; exit(0).
Exit ==
  /\ proc = "closing" /\ posts = 0
  /\ proc' = "exited" /\ Fresh
  /\ UNCHANGED <<lives, webhook, lost, unsettled>>

\* A port in use, a signal before the handlers are set, a kill.
Die ==
  /\ proc \in Up /\ proc' = "crashed" /\ Fresh
  /\ UNCHANGED <<lives, webhook, lost, unsettled>>

\* systemd (Restart=on-failure) or the operator.
Start ==
  /\ proc \in {"exited", "crashed"} /\ lives < MaxLives
  /\ proc' = "booting" /\ lives' = lives + 1
  /\ lost' = [i \in Instances |-> FALSE] /\ unsettled' = [i \in Instances |-> FALSE]
  /\ UNCHANGED <<stopped, released, posts, socketVars, chain, wire, webhook, disturbed>>

InstanceStep(i) ==
  \/ SocketOpens(i) \/ SocketCloses(i) \/ ReconnectTimerFires(i) \/ KeepaliveFires(i)
  \/ RegisterWebhook(i) \/ Disconnect(i) \/ DisconnectThrows(i)
  \/ \E r \in wire[i] : UpstreamExecutes(i, r) \/ RequestFails(i, r) \/ CallerGivesUp(i, r)

Next ==
  \/ \E i \in Instances : InstanceStep(i)
  \/ ConnectAll \/ Serve \/ Signal \/ HeartbeatStopped
  \/ PostArrives \/ PostSettles \/ CloseListener \/ Exit \/ Die \/ Start

Spec == Init /\ [][Next]_vars

\* Node runs timers that are due and promises that settled; hb.stop() and the closes of
\* the bridge server and the database return (their own waits are bounded).  The upstream
\* owes nothing: it need not complete a POST, so the close of the listener may never return.
Fairness ==
  /\ \A i \in Instances : /\ WF_vars(ReconnectTimerFires(i))
                          /\ WF_vars(Disconnect(i) \/ DisconnectThrows(i))
  /\ WF_vars(HeartbeatStopped) /\ WF_vars(CloseListener) /\ WF_vars(Exit)

FairSpec == Spec /\ Fairness

-----------------------------------------------------------------------------
(* Properties.                                                             *)

TypeOK ==
  /\ proc \in Up \cup {"exited", "crashed"} /\ stopped \in 0 .. Len(Order) /\ lives \in 1 .. MaxLives
  /\ released \in [Instances -> BOOLEAN] /\ orphaned \in [Instances -> BOOLEAN]
  /\ sock \in [Instances -> Live \cup {"none", "closed"}]
  /\ timer \in [Instances -> 0 .. MaxDelay] /\ attempt \in [Instances -> 0 .. MaxAttempt]
  /\ interval \in [Instances -> 0 .. 2] /\ pingTimer \in [Instances -> BOOLEAN]
  /\ tickedEarly \in [Instances -> BOOLEAN] /\ drops \in [Instances -> 0 .. MaxAttempt + 1]
  /\ chain \in [Instances -> {"idle", "removing", "setting", "set", "failed"}]
  /\ wire \in [Instances -> SUBSET Requests] /\ webhook \in [Instances -> BOOLEAN]
  /\ disturbed \in [Instances -> BOOLEAN] /\ lost \in [Instances -> BOOLEAN]
  /\ unsettled \in [Instances -> BOOLEAN] /\ posts \in 0 .. MaxPosts

\* An instance whose push is wanted has exactly one of a live socket and an
\* armed reconnect timer, whatever the interleaving of close events, the timer
\* and disconnect(); no live socket is ever overwritten, and after disconnect()
\* nothing is left to connect again (client.ts 1464-1494).
SocketOrTimer ==
  \A i \in Instances :
    LET wanted == i \in WsEnabled /\ proc \in Up \ {"booting"} /\ ~released[i]
    IN  /\ ~orphaned[i]
        /\ wanted => ((sock[i] \in Live) # (timer[i] # Unarmed))
        /\ ~wanted => sock[i] = "none" /\ timer[i] = Unarmed

\* "A single interval owned by maxWsPingTimer" (client.ts 1399): intervals never
\* pile up over reconnects, none outlives its socket, and the live socket has
\* one unless it was slow to open.
KeepaliveMatchesSocket ==
  \A i \in Instances :
    /\ interval[i] = (IF pingTimer[i] THEN 1 ELSE 0)
    /\ pingTimer[i] => sock[i] \in Live
    /\ (sock[i] \in Live /\ ~tickedEarly[i]) => pingTimer[i]

\* The delay before the next attempt is the one due after that many closes
\* without a healthy connection in between: it grows to its cap and starts over
\* only when a socket opened (client.ts 1384, 1464-1474).
BackoffFollowsFailures ==
  \A i \in Instances : timer[i] # Unarmed => timer[i] = Backoff(drops[i] - 1)

\* A registration the client takes for done holds at the upstream until
\* disconnect(): its own Remove cannot undo its Set (client.ts 1830-1834), only
\* one an earlier life, or an attempt given up, left on the wire.  And the one
\* the process leaves behind is removed (config.ts 48-51): after an exit all of
\* whose requests were executed there is none, unless disconnect() came while the
\* Set of connect(), which nothing cancels, was still to come.
WebhookFollowsProcess ==
  \A i \in Instances :
    /\ (chain[i] = "set" /\ ~disturbed[i] /\ ~released[i]) => webhook[i]
    /\ (proc = "exited" /\ wire[i] = {} /\ ~lost[i] /\ ~unsettled[i]) => ~webhook[i]

\* A closed socket is always followed by another attempt, unless the instance
\* is disconnected or the process ends (client.ts 1474-1477).
KeepsTrying ==
  \A i \in WsEnabled : sock[i] = "closed" ~> (sock[i] = "connecting" \/ sock[i] = "none")

\* A shutdown that began ends, whatever becomes of the requests to the upstream and of its
\* sockets, unless a POST of the upstream stays open at the listener for ever (main.ts
\* 340-380; webhook-listener.ts 190-192, where the bridge server destroys its sockets).
ShutdownEnds ==
  proc = "stopping" ~> (proc \in {"exited", "crashed"} \/ [](proc = "closing" /\ posts > 0))

=============================================================================
