--------------------------- MODULE MediaDownload ---------------------------
(***************************************************************************)
(* POST /media: the middleware downloads the bytes of one message to a     *)
(* file in the shared media directory and returns its path                 *)
(* (createMediaFetcher in core/wiring.ts, resolveMedia and the download    *)
(* methods in core/client.ts).  The upstream may answer with the bytes,    *)
(* with some of them, with none, or with an error.  Bytes are units, known *)
(* by their position; a file says whose bytes it holds.                    *)
(***************************************************************************)
EXTENDS Integers, Sequences, FiniteSets, SequencesExt

CONSTANTS
  Messages,      \* the media messages
  Kinds,         \* message -> the kinds it may have; "inline" is a voice that carries its bytes
  Size,          \* message -> the length its content states
  NameOf,        \* message -> attachment.fileName, from the title or the message's number
  MinTries, MaxTries, \* imageRetry: attempts at an image, the number drawn per download
  SectionCap,    \* MAX_SECTION of the section loop
  MaxSections    \* its guard: 1024 for a file, 4096 for a video

Whole(m) == [k \in 1 .. Size[m] |-> k]
Names == {NameOf[m] : m \in Messages}

\* The first try always runs.
RetryAccepted == MinTries >= 1 /\ MaxTries >= MinTries

ASSUME MediaAssumption ==
  /\ Kinds \in [Messages -> SUBSET {"voice", "inline", "image", "video", "file"}]
  /\ Size \in [Messages -> Nat \ {0}] /\ NameOf \in [Messages -> Names]
  /\ MinTries \in Nat /\ MaxTries \in Nat /\ RetryAccepted
  /\ SectionCap \in Nat \ {0} /\ MaxSections \in Nat

VARIABLES
  kind,     \* message -> its kind
  fetch,    \* message -> the download: [stage, answers, limit]
  buffer,   \* message -> the units collected by the section loop
  files,    \* name -> the file: NoFile or [of, bytes]
  gaveOut,  \* history: messages the upstream, or the guard, cut short
  writers   \* history: messages whose download wrote their file

mediaVars == <<kind, fetch, buffer, files, gaveOut, writers>>

NoFile == [of |-> "nobody", bytes |-> <<>>]
Sectioned == {"video", "file"}
Idle == [stage |-> "idle", answers |-> 0, limit |-> 0]

MediaInit ==
  /\ kind \in {k \in [Messages -> UNION Range(Kinds)] : \A m \in Messages : k[m] \in Kinds[m]}
  /\ fetch = [m \in Messages |-> Idle] /\ buffer = [m \in Messages |-> <<>>]
  /\ files = [n \in Names |-> NoFile]
  /\ gaveOut = {} /\ writers = {}

-----------------------------------------------------------------------------

Pending == {"asking", "pausing"}

\* An answer to the download: it goes on, or ends and its locals are gone.
Settle(m, stage) ==
  fetch' = [fetch EXCEPT ![m] = IF stage \in Pending
              THEN [stage |-> stage, answers |-> @.answers + 1, limit |-> @.limit]
              ELSE [Idle EXCEPT !.stage = stage]]

\* fs.writeFile replaces what the name held.
WriteFile(m, bytes) ==
  /\ files' = [files EXCEPT ![NameOf[m]] = [of |-> m, bytes |-> bytes]]
  /\ writers' = writers \cup {m}

\* The stored descriptor is found and resolves to a downloadable message; the
\* number of image attempts is drawn.  Inline bytes need no request.
BeginFetch(m) ==
  /\ fetch[m].stage = "idle"
  /\ IF kind[m] = "inline"
     THEN /\ Settle(m, "ok") /\ WriteFile(m, Whole(m))
     ELSE /\ \E n \in MinTries .. MaxTries :
               fetch' = [fetch EXCEPT ![m] = [stage |-> "asking", answers |-> 0, limit |-> n]]
          /\ UNCHANGED <<files, writers>>
  /\ UNCHANGED <<kind, buffer, gaveOut>>

\* No descriptor (pruned, or lost between its message and itself), or one that
\* lacks a field the endpoint requires.
NothingToFetch(m) ==
  /\ fetch[m].stage = "idle" /\ Settle(m, "failed")
  /\ UNCHANGED <<kind, buffer, files, gaveOut, writers>>

\* HTTP error, Success:false without bytes, network: the download throws and
\* createMediaFetcher answers {ok: false}, whatever was collected.
UpstreamErrs(m) ==
  /\ fetch[m].stage = "asking" /\ Settle(m, "failed")
  /\ buffer' = [buffer EXCEPT ![m] = <<>>]
  /\ UNCHANGED <<kind, files, gaveOut, writers>>

\* Voice and image come in one answer.
WholeArrives(m) ==
  /\ fetch[m].stage = "asking" /\ kind[m] \notin Sectioned
  /\ Settle(m, "ok") /\ WriteFile(m, Whole(m)) /\ gaveOut' = gaveOut \ {m}
  /\ UNCHANGED <<kind, buffer>>

\* Mutant: one attempt more than was drawn.
MayRetryOnceMore(m) == kind[m] = "image" /\ fetch[m].answers < fetch[m].limit

MayRetry(m) == kind[m] = "image" /\ fetch[m].answers + 1 < fetch[m].limit

\* A JSON answer without bytes: an image is asked for again, then it failed
\* ("Guard against false success").
NoBytesArrive(m) ==
  /\ fetch[m].stage = "asking" /\ kind[m] \notin Sectioned
  /\ Settle(m, IF MayRetry(m) THEN "pausing" ELSE "failed")
  /\ UNCHANGED <<kind, buffer, files, gaveOut, writers>>

\* A raw answer of no bytes is an empty Buffer, which the guard lets pass: an
\* empty file is written, and it is what a voice, or the last attempt, returns.
EmptyBodyArrives(m) ==
  /\ fetch[m].stage = "asking" /\ kind[m] \notin Sectioned
  /\ Settle(m, IF MayRetry(m) THEN "pausing" ELSE "ok")
  /\ WriteFile(m, <<>>) /\ gaveOut' = gaveOut \cup {m}
  /\ UNCHANGED <<kind, buffer>>

\* The pause between two attempts at an image is over.
AskAgain(m) ==
  /\ fetch[m].stage = "pausing" /\ fetch' = [fetch EXCEPT ![m].stage = "asking"]
  /\ UNCHANGED <<kind, buffer, files, gaveOut, writers>>

\* Mutant: the next section is taken to start where a full one would have ended.
SectionStartByCap(m) == fetch[m].answers * SectionCap

\* What the next section is asked for: everything first, then from the end of
\* what is there, SectionCap at most.
SectionStart(m) == Len(buffer[m])
SectionLen(m) ==
  LET rest == Size[m] - Len(buffer[m]) IN
  IF fetch[m].answers = 0 \/ rest <= SectionCap THEN rest ELSE SectionCap

\* The upstream serves n of the units asked for; none, or a last one so small
\* that it is not recognised as bytes, ends the loop, and so does its guard.
\* What is there by then is the file.
SectionArrives(m, n) ==
  LET all  == buffer[m] \o [k \in 1 .. n |-> SectionStart(m) + k]
      over == n = 0 \/ Len(all) >= Size[m] \/ fetch[m].answers >= MaxSections
  IN  /\ fetch[m].stage = "asking" /\ kind[m] \in Sectioned /\ n \in 0 .. SectionLen(m)
      /\ buffer' = [buffer EXCEPT ![m] = IF over THEN <<>> ELSE all]
      /\ Settle(m, IF ~over THEN "asking" ELSE IF all = <<>> THEN "failed" ELSE "ok")
      /\ IF over /\ all # <<>> THEN WriteFile(m, all) ELSE UNCHANGED <<files, writers>>
      /\ gaveOut' = IF over /\ Len(all) < Size[m] THEN gaveOut \cup {m} ELSE gaveOut
      /\ UNCHANGED kind

\* The middleware dies: what was under way is lost, what was written stays.
DownloadsDie ==
  /\ fetch' = [m \in Messages |-> IF fetch[m].stage \in Pending
                                  THEN [Idle EXCEPT !.stage = "failed"] ELSE fetch[m]]
  /\ buffer' = [m \in Messages |-> <<>>]
  /\ UNCHANGED <<kind, files, gaveOut, writers>>

UpstreamAnswers(m) ==
  \/ UpstreamErrs(m) \/ WholeArrives(m) \/ NoBytesArrive(m) \/ EmptyBodyArrives(m)
  \/ \E n \in 0 .. Size[m] : SectionArrives(m, n)

MediaTypeOK ==
  /\ kind \in [Messages -> {"voice", "inline", "image", "video", "file"}]
  /\ fetch \in [Messages -> [stage : Pending \cup {"idle", "ok", "failed"},
                             answers : Nat, limit : 0 .. MaxTries]]
  /\ \A m \in Messages :
       /\ Len(buffer[m]) < Size[m]
       /\ fetch[m].answers <= (IF kind[m] \in Sectioned THEN MaxSections ELSE MaxTries - 1)
  /\ \A n \in Names : files[n] = NoFile \/ files[n].of \in Messages
  /\ gaveOut \subseteq Messages /\ writers \subseteq Messages
=============================================================================
