----------------------------- MODULE AgentTurn -----------------------------
(***************************************************************************)
(* The way of a message through the agent, dispatchInboundToOpenClaw in    *)
(* adapters/openclaw/dispatch.ts: a direct message must pass the DM        *)
(* authorizer, then its media is fetched (MediaDownload), a voice decoded, *)
(* the agent's route resolved, the agent run, and the parts of its reply   *)
(* delivered (ReplyPath).  Turns run side by side; each waits for the      *)
(* middleware over HTTP, which may break off, and the middleware may die.  *)
(* The gateway's pairing store and agent are external.                     *)
(***************************************************************************)
EXTENDS MediaDownload, ReplyPath

CONSTANTS
  Direct,   \* the turns of direct messages, when the host supplies a runtime
  Replies   \* turn -> the replies the agent may give: sequences of parts

\* Bounds of a model-checking run.
CONSTANTS MaxDeaths  \* deaths of the middleware

ASSUME TurnAssumption ==
  /\ Messages \subseteq Turns  \* the other turns carry no media
  /\ Direct \subseteq Turns /\ MaxDeaths \in Nat
  /\ \A t \in Turns : Replies[t] \subseteq Seq({"text", "quote"} \cup MediaParts)

VARIABLES
  phase,    \* turn -> how far it is
  decision, \* turn -> the verdict of the DM authorizer
  path,     \* turn -> a media path is handed on
  seen,     \* turn -> the file as the agent's pipeline read it, or Unread
  deaths    \* deaths of the middleware so far

turnVars == <<phase, decision, path, seen, deaths>>
vars == <<mediaVars, replyVars, turnVars>>

Unread == [of |-> "unread", bytes |-> <<>>]
Phases == {"arrived", "cleared", "fetching", "fetched", "decoded", "thinking", "replying", "done"}

Init ==
  /\ MediaInit /\ ReplyInit
  /\ phase = [t \in Turns |-> "arrived"] /\ decision = [t \in Turns |-> "none"]
  /\ path = [t \in Turns |-> FALSE] /\ seen = [t \in Turns |-> Unread]
  /\ deaths = 0

GoesTo(t, from, to) == phase[t] = from /\ phase' = [phase EXCEPT ![t] = to]

-----------------------------------------------------------------------------

\* The verdicts on a turn: without a runtime, and for a group, no authorizer.
Verdicts(t) == IF t \in Direct THEN {"allow", "pairing", "block"} ELSE {"allow"}
\* What a pairing sends: the challenge, unless one is outstanding.
Challenges == {<<>>, <<"text">>}

\* Mutant: after the challenge the turn goes on.
AuthorizeGoesOn(t, verdict) ==
  /\ verdict \in Verdicts(t)
  /\ GoesTo(t, "arrived", IF verdict = "block" THEN "done" ELSE "cleared")
  /\ decision' = [decision EXCEPT ![t] = verdict]
  /\ UNCHANGED <<mediaVars, replyVars, path, seen, deaths>>

\* Groups pass; a direct message is what the authorizer says.  On "pairing" it
\* has sent a challenge, the first time, over the reply path, and awaits it.
Authorize(t, verdict) ==
  /\ verdict \in Verdicts(t)
  /\ GoesTo(t, "arrived", CASE verdict = "allow" -> "cleared"
                            [] verdict = "pairing" -> "replying"
                            [] verdict = "block" -> "done")
  /\ decision' = [decision EXCEPT ![t] = verdict]
  /\ IF verdict = "pairing" THEN \E challenge \in Challenges : parts' = [parts EXCEPT ![t] = challenge]
     ELSE UNCHANGED parts
  /\ UNCHANGED <<mediaVars, sent, awaiting, jobs, posted, late, refused, losses, brokeOff,
                 path, seen, deaths>>

\* The lazy fetch, "only now that the message has cleared the gate".
RequestMedia(t) ==
  /\ t \in Messages /\ GoesTo(t, "cleared", "fetching")
  /\ BeginFetch(t) \/ NothingToFetch(t)
  /\ UNCHANGED <<replyVars, decision, path, seen, deaths>>

\* No media, or the middleware cannot be reached: the text goes on alone.
SkipMedia(t) ==
  /\ GoesTo(t, "cleared", "fetched")
  /\ UNCHANGED <<mediaVars, replyVars, decision, path, seen, deaths>>

MediaReturns(t) ==
  /\ t \in Messages /\ fetch[t].stage \in {"ok", "failed"}
  /\ GoesTo(t, "fetching", "fetched")
  /\ path' = [path EXCEPT ![t] = fetch[t].stage = "ok"]
  /\ UNCHANGED <<mediaVars, replyVars, decision, seen, deaths>>

\* The POST breaks off; the download goes on and writes its file later.
MediaWaitBreaks(t) ==
  /\ GoesTo(t, "fetching", "fetched")
  /\ UNCHANGED <<mediaVars, replyVars, decision, path, seen, deaths>>

\* A voice is decoded to a WAV of its own, which fixes what is read; when that
\* fails the SILK goes on.
HasVoice(t) == t \in Messages /\ path[t] /\ kind[t] \in {"voice", "inline"}
DecodeVoice(t, ok) ==
  /\ HasVoice(t) /\ GoesTo(t, "fetched", "decoded")
  /\ seen' = IF ok THEN [seen EXCEPT ![t] = files[NameOf[t]]] ELSE seen
  /\ UNCHANGED <<mediaVars, replyVars, decision, path, deaths>>

\* resolveAgentRoute, which may throw: the turn then ends.
Route(t, ok) ==
  /\ IF HasVoice(t) THEN phase[t] = "decoded" ELSE phase[t] = "fetched"
  /\ phase' = [phase EXCEPT ![t] = IF ok THEN "thinking" ELSE "done"]
  /\ UNCHANGED <<mediaVars, replyVars, decision, path, seen, deaths>>

\* The agent's pipeline opens the path it was handed, in its own time.
AgentReads(t) ==
  /\ phase[t] = "thinking" /\ path[t] /\ seen[t] = Unread
  /\ seen' = [seen EXCEPT ![t] = files[NameOf[t]]]
  /\ UNCHANGED <<mediaVars, replyVars, phase, decision, path, deaths>>

\* The agent answers, with no part at all when it throws or stays silent.
AgentReplies(t, reply) ==
  /\ path[t] => seen[t] # Unread
  /\ GoesTo(t, "thinking", "replying")
  /\ parts' = [parts EXCEPT ![t] = reply]
  /\ UNCHANGED <<mediaVars, sent, awaiting, jobs, posted, late, refused, losses, brokeOff,
                 decision, path, seen, deaths>>

EndTurn(t) ==
  /\ Done(t) /\ GoesTo(t, "replying", "done")
  /\ UNCHANGED <<mediaVars, replyVars, decision, path, seen, deaths>>

\* The middleware dies and is started again.
MiddlewareDies ==
  /\ deaths < MaxDeaths /\ deaths' = deaths + 1
  /\ DownloadsDie /\ SendsDie
  /\ UNCHANGED <<phase, decision, path, seen>>

MediaStep(m) == (UpstreamAnswers(m) \/ AskAgain(m)) /\ UNCHANGED <<replyVars, turnVars>>

\* deliver runs within the turn, one part after the other.
DeliverStep(t) ==
  /\ phase[t] = "replying" /\ (Deliver(t) \/ DeliveryRefused(t))
  /\ UNCHANGED <<mediaVars, turnVars>>

SendStepOf(c) == SendStep(c) /\ UNCHANGED <<mediaVars, turnVars>>

Mishap(t) == (WaitBreaks(t) \/ LateExecution(t)) /\ UNCHANGED <<mediaVars, turnVars>>

TurnStep(t) ==
  \/ \E verdict \in Verdicts(t) : Authorize(t, verdict)
  \/ RequestMedia(t) \/ SkipMedia(t) \/ MediaReturns(t)
  \/ \E ok \in BOOLEAN : DecodeVoice(t, ok) \/ Route(t, ok)
  \/ AgentReads(t) \/ \E r \in Replies[t] \cup {<<>>} : AgentReplies(t, r)
  \/ EndTurn(t)

Next ==
  \/ \E t \in Turns : TurnStep(t) \/ DeliverStep(t) \/ MediaWaitBreaks(t) \/ Mishap(t)
  \/ \E m \in Messages : MediaStep(m)
  \/ \E c \in Chats : SendStepOf(c)
  \/ MiddlewareDies

Spec == Init /\ [][Next]_vars

\* Node runs what is due: timers, answers, the next part.  undici bounds the wait
\* for a download's answer, AbortSignal.timeout that of a send.  The authorizer
\* and the agent are assumed to come to an end.
Fairness ==
  /\ \A t \in Turns : WF_vars(TurnStep(t)) /\ WF_vars(DeliverStep(t))
  /\ \A m \in Messages : WF_vars(MediaStep(m))
  /\ \A c \in Chats : WF_vars(SendStepOf(c))

FairSpec == Spec /\ Fairness

-----------------------------------------------------------------------------
(* Properties.                                                             *)

TypeOK ==
  /\ MediaTypeOK /\ ReplyTypeOK
  /\ phase \in [Turns -> Phases] /\ path \in [Turns -> BOOLEAN]
  /\ decision \in [Turns -> {"none", "allow", "pairing", "block"}]
  /\ \A t \in Turns : seen[t] \in {Unread, NoFile} \/ seen[t].of \in Messages
  /\ deaths \in 0 .. MaxDeaths

\* What the agent reads for a message are that message's own bytes, from the
\* first on and without a gap, and all of them unless the upstream stopped
\* serving (client.ts 2313-2330): whatever size the upstream cuts its sections
\* to, and whatever other downloads, breaks and deaths come in between.  The one
\* exception is another message whose attachment has the same file name.
AgentReadsItsMedia ==
  \A t \in Messages :
    LET namesake == \E m \in writers \ {t} : NameOf[m] = NameOf[t] IN
    (seen[t] # Unread /\ ~namesake) =>
      /\ seen[t].of = t /\ IsPrefix(seen[t].bytes, Whole(t))
      /\ seen[t].bytes = Whole(t) \/ t \in gaveOut

\* server.ts 47-48: the path returned is that of the bytes "for a
\* previously-broadcast media frame": of that frame.
PathHoldsItsMessage ==
  \A t \in Messages : seen[t] # Unread => seen[t].of = t

\* What a sender who may not talk to the agent can cost: "before the message
\* hits the agent pipeline" (dispatch.ts 98-101), no download, no reading, no
\* reply but the pairing challenge.
GatedCostsNothing ==
  \A t \in Turns : decision[t] # "allow" =>
    /\ t \in Messages => fetch[t].stage = "idle"
    /\ ~path[t] /\ seen[t] = Unread
    /\ Range(posted[t]) \subseteq (IF decision[t] = "pairing" THEN {<<1, 1>>} ELSE {})

\* As long as every attempt brought a verdict, the conversation holds each call
\* of the reply at most once and in the order of the reply, and none that the
\* upstream had refused (client.ts 1870-1922).  A wait that broke off may
\* reorder the parts only where no pacer serialises the conversation.
Before(a, b) == a[1] < b[1] \/ (a[1] = b[1] /\ a[2] < b[2])
OnceAndInOrder ==
  \A t \in Turns :
    (losses[t] = 0 /\ (ChatOf[t] \in PacedChats \/ ~brokeOff[t])) =>
      /\ \A j, k \in DOMAIN posted[t] : j < k => Before(posted[t][j], posted[t][k])
      /\ Range(posted[t]) \cap refused[t] = {}

\* Every turn ends, whatever the upstream does with its requests.
TurnEnds == \A t \in Turns : phase[t] = "arrived" ~> phase[t] = "done"
=============================================================================
