----------------------------- MODULE ReplyPath -----------------------------
(***************************************************************************)
(* How the parts of an agent's reply travel to the conversation: deliver   *)
(* in adapters/openclaw/dispatch.ts hands them one by one to the bridge    *)
(* client, which posts each to the middleware's /send and waits; the pacer,*)
(* where it is enabled, lets one send of a conversation through at a time; *)
(* createSendHandler and the send methods of core/client.ts turn it into   *)
(* one or two calls of the upstream's API, each retried by maxApiCall while*)
(* no verdict was obtained.  An attempt that brought none may still have   *)
(* been executed, or be executed later.                                    *)
(***************************************************************************)
EXTENDS Integers, Sequences, FiniteSets, SequencesExt

CONSTANTS
  Turns, Chats, ChatOf,  \* a turn of the agent belongs to a conversation
  PacedChats,            \* the conversations of accounts whose outbound pacer is enabled
  Retries                \* sendRetry.retries

\* Bounds of a model-checking run.
CONSTANTS MaxLosses  \* turn -> attempts without a verdict, those a death interrupts aside

ASSUME ReplyAssumption ==
  /\ ChatOf \in [Turns -> Chats] /\ PacedChats \subseteq Chats
  /\ Retries \in Nat /\ MaxLosses \in [Turns -> Nat]

VARIABLES
  parts,    \* turn -> the parts of the reply, in order; a part is its kind
  sent,     \* turn -> how many of them the adapter is done with
  awaiting, \* turn -> it awaits the answer to the POST of part sent + 1
  jobs,     \* conversation -> the sends the middleware has in hand
  posted,   \* turn -> <<part, call>> of what the upstream executed, in that order
  late,     \* turn -> the attempts it may still execute
  refused,  \* history: turn -> the calls it refused
  losses,   \* history: turn -> attempts that brought no verdict
  brokeOff  \* history: turn -> the adapter stopped waiting for a send under way

replyVars == <<parts, sent, awaiting, jobs, posted, late, refused, losses, brokeOff>>

\* The API a part is sent by, at most once per attempt.
Endpoint == [text |-> "SendTxt", quote |-> "Quote", image |-> "UploadImg",
             video |-> "SendVideo", file |-> "SendFile"]

\* The upstream calls of a part.  A caption follows its image as a text, if the
\* image was sent; a file or a video takes none.
Calls(part) == IF part = "captioned" THEN <<Endpoint["image"], Endpoint["text"]>>
               ELSE <<Endpoint[part]>>
MediaParts == {"image", "captioned", "video", "file"}

ReplyInit ==
  /\ parts = [t \in Turns |-> <<>>] /\ sent = [t \in Turns |-> 0]
  /\ awaiting = [t \in Turns |-> FALSE]
  /\ jobs = [c \in Chats |-> <<>>]
  /\ posted = [t \in Turns |-> <<>>] /\ late = [t \in Turns |-> {}]
  /\ refused = [t \in Turns |-> {}]
  /\ losses = [t \in Turns |-> 0] /\ brokeOff = [t \in Turns |-> FALSE]

-----------------------------------------------------------------------------
(* The adapter.                                                            *)

MayDeliver(t) == ~awaiting[t] /\ sent[t] < Len(parts[t])

\* The next part is posted to /send and accepted.
Deliver(t) ==
  /\ MayDeliver(t)
  /\ awaiting' = [awaiting EXCEPT ![t] = TRUE]
  /\ jobs' = [jobs EXCEPT ![ChatOf[t]] = Append(@,
       [turn |-> t, part |-> sent[t] + 1, stage |-> "accepted", call |-> 1, attempt |-> 0])]
  /\ UNCHANGED <<parts, sent, posted, late, refused, losses, brokeOff>>

\* Bridge stopped, middleware down, no instance, pacer full or stopped: not-ok
\* at once, which deliver logs.
DeliveryRefused(t) ==
  /\ MayDeliver(t)
  /\ sent' = [sent EXCEPT ![t] = @ + 1]
  /\ UNCHANGED <<parts, awaiting, jobs, posted, late, refused, losses, brokeOff>>

\* The POST breaks off; the middleware is not told and goes on.
WaitBreaks(t) ==
  /\ awaiting[t] /\ ~brokeOff[t]
  /\ awaiting' = [awaiting EXCEPT ![t] = FALSE] /\ sent' = [sent EXCEPT ![t] = @ + 1]
  /\ brokeOff' = [brokeOff EXCEPT ![t] = TRUE]
  /\ UNCHANGED <<parts, jobs, posted, late, refused, losses>>

-----------------------------------------------------------------------------
(* The middleware.                                                         *)

\* The sends of a conversation that may proceed.
Active(c) == IF c \in PacedChats THEN DOMAIN jobs[c] \cap {1} ELSE DOMAIN jobs[c]
Kind(job) == parts[job.turn][job.part]
CallId(job) == <<job.part, job.call>>

\* The answer to /send: the job leaves, and the adapter goes on if it still waits.
Answer(c, k) ==
  LET t == jobs[c][k].turn
      awaited == awaiting[t] /\ sent[t] + 1 = jobs[c][k].part
  IN  /\ jobs' = [jobs EXCEPT ![c] = RemoveAt(@, k)]
      /\ awaiting' = IF awaited THEN [awaiting EXCEPT ![t] = FALSE] ELSE awaiting
      /\ sent' = IF awaited THEN [sent EXCEPT ![t] = @ + 1] ELSE sent

\* The job goes on, and the adapter waits.
Goes(c, k, stage, call, attempt) ==
  /\ jobs' = [jobs EXCEPT ![c][k] = [jobs[c][k] EXCEPT !.stage = stage, !.call = call, !.attempt = attempt]]
  /\ UNCHANGED <<sent, awaiting>>

\* Mutant: the request is dropped without an answer.
MediaUnavailableHangs(c, k) ==
  /\ k \in Active(c) /\ jobs[c][k].stage = "accepted" /\ Kind(jobs[c][k]) \in MediaParts
  /\ jobs' = [jobs EXCEPT ![c] = RemoveAt(@, k)]
  /\ UNCHANGED <<parts, sent, awaiting, posted, late, refused, losses, brokeOff>>

\* The media cannot be fetched, or a video has no thumbnail: no call is made.
MediaUnavailable(c, k) ==
  /\ k \in Active(c) /\ jobs[c][k].stage = "accepted" /\ Kind(jobs[c][k]) \in MediaParts
  /\ Answer(c, k)
  /\ UNCHANGED <<parts, posted, late, refused, losses, brokeOff>>

\* The first attempt, and after a pause the next.
Call(c, k) ==
  /\ k \in Active(c) /\ jobs[c][k].stage \in {"accepted", "pausing"}
  /\ Goes(c, k, "calling", jobs[c][k].call, jobs[c][k].attempt)
  /\ UNCHANGED <<parts, posted, late, refused, losses, brokeOff>>

\* The upstream executed the call and says so.
CallSucceeds(c, k) ==
  LET job == jobs[c][k] IN
  /\ k \in Active(c) /\ job.stage = "calling"
  /\ posted' = [posted EXCEPT ![job.turn] = Append(@, CallId(job))]
  /\ IF job.call < Len(Calls(Kind(job)))
     THEN Goes(c, k, "accepted", job.call + 1, 0)
     ELSE Answer(c, k)
  /\ UNCHANGED <<parts, late, refused, losses, brokeOff>>

\* Mutant: a refusal is retried like a lost answer.
CallRefusedRetries(c, k) ==
  LET job == jobs[c][k] IN
  /\ k \in Active(c) /\ job.stage = "calling"
  /\ refused' = [refused EXCEPT ![job.turn] = @ \cup {CallId(job)}]
  /\ IF job.attempt < Retries
     THEN Goes(c, k, "pausing", job.call, job.attempt + 1)
     ELSE Answer(c, k)
  /\ UNCHANGED <<parts, posted, late, losses, brokeOff>>

\* The upstream's verdict is no: it is final.
CallRefused(c, k) ==
  LET job == jobs[c][k] IN
  /\ k \in Active(c) /\ job.stage = "calling"
  /\ refused' = [refused EXCEPT ![job.turn] = @ \cup {CallId(job)}]
  /\ Answer(c, k)
  /\ UNCHANGED <<parts, posted, late, losses, brokeOff>>

\* No verdict: 5xx, network error, timeout, or an answer that does not parse.
\* The attempt was executed, or will be, or will not; it is repeated after a
\* pause as long as attempts are left.
CallLost(c, k, fate) ==
  LET job == jobs[c][k] t == job.turn IN
  /\ k \in Active(c) /\ job.stage = "calling" /\ losses[t] < MaxLosses[t]
  /\ losses' = [losses EXCEPT ![t] = @ + 1]
  /\ posted' = IF fate = "executed" THEN [posted EXCEPT ![t] = Append(@, CallId(job))] ELSE posted
  /\ late' = IF fate = "late" THEN [late EXCEPT ![t] = @ \cup {<<job.part, job.call, job.attempt>>}]
             ELSE late
  /\ IF job.attempt < Retries
     THEN Goes(c, k, "pausing", job.call, job.attempt + 1)
     ELSE Answer(c, k)
  /\ UNCHANGED <<parts, refused, brokeOff>>

\* An attempt given up is executed after all.
LateExecution(t) ==
  /\ \E a \in late[t] : /\ late' = [late EXCEPT ![t] = @ \ {a}]
                        /\ posted' = [posted EXCEPT ![t] = Append(@, <<a[1], a[2]>>)]
  /\ UNCHANGED <<parts, sent, awaiting, jobs, refused, losses, brokeOff>>

\* The middleware dies: every send in hand is forgotten, the attempts under way
\* may still be executed; whoever waits gets an error.
SendsDie ==
  LET hit(t) == {k \in DOMAIN jobs[ChatOf[t]] : jobs[ChatOf[t]][k].turn = t}
      open(t) == {k \in hit(t) : jobs[ChatOf[t]][k].stage = "calling"}
  IN  /\ jobs' = [c \in Chats |-> <<>>]
      /\ late' = [t \in Turns |-> late[t] \cup
           {<<jobs[ChatOf[t]][k].part, jobs[ChatOf[t]][k].call, jobs[ChatOf[t]][k].attempt>> : k \in open(t)}]
      /\ losses' = [t \in Turns |-> IF open(t) = {} THEN losses[t] ELSE losses[t] + 1]
      /\ awaiting' = [t \in Turns |-> FALSE]
      /\ sent' = [t \in Turns |-> IF awaiting[t] THEN sent[t] + 1 ELSE sent[t]]
      /\ UNCHANGED <<parts, posted, refused, brokeOff>>

Attempt(c, k) == CallSucceeds(c, k) \/ CallRefused(c, k)
                 \/ \E fate \in {"executed", "late", "never"} : CallLost(c, k, fate)

SendStep(c) == \E k \in DOMAIN jobs[c] : MediaUnavailable(c, k) \/ Call(c, k) \/ Attempt(c, k)

Done(t) == ~awaiting[t] /\ sent[t] = Len(parts[t])

ReplyTypeOK ==
  /\ \A t \in Turns : /\ sent[t] \in 0 .. Len(parts[t])
                      /\ awaiting[t] => sent[t] < Len(parts[t])
                      /\ losses[t] \in Nat
  /\ \A c \in Chats : \A k \in DOMAIN jobs[c] :
       LET job == jobs[c][k] IN
       /\ ChatOf[job.turn] = c /\ job.part \in 1 .. Len(parts[job.turn])
       /\ job.call \in DOMAIN Calls(Kind(job)) /\ job.attempt \in 0 .. Retries
       /\ job.stage \in {"accepted", "calling", "pausing"}
=============================================================================
