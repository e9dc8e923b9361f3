----------------------------- MODULE TurnProofs -----------------------------
(***************************************************************************)
(* The safety of a turn of the agent, for any set of turns, messages and   *)
(* conversations, any sizes, sections, names, retries and losses, and any  *)
(* number of deaths of the middleware: its type, what the agent reads, what*)
(* the DM authorizer keeps out, and the order of a reply's calls.          *)
(***************************************************************************)
EXTENDS AgentTurn, SequenceTheorems, TLAPS

-----------------------------------------------------------------------------
(* Downloads.                                                              *)

AllKinds == {"voice", "inline", "image", "video", "file"}
Downloads == [stage : Pending \cup {"idle", "ok", "failed"}, answers : Nat, limit : 0 .. MaxTries]
Contents == [of : Messages \cup {"nobody"}, bytes : Seq(Nat)]

MediaTypes ==
  /\ kind \in [Messages -> AllKinds] /\ fetch \in [Messages -> Downloads]
  /\ buffer \in [Messages -> Seq(Nat)] /\ files \in [Names -> Contents]
  /\ gaveOut \subseteq Messages /\ writers \subseteq Messages

\* The units of m from the first on, without a gap.
Leading(s, m) == Len(s) <= Size[m] /\ \A k \in 1..Len(s) : s[k] = k

\* A download d of m, with b in its buffer: the answers it may have had.
DownloadOk(m, d, b) ==
  /\ d.answers <= (IF kind[m] \in Sectioned THEN MaxSections ELSE MaxTries - 1)
  /\ Leading(b, m) /\ Len(b) < Size[m]
  /\ b # <<>> => d.stage = "asking" /\ kind[m] \in Sectioned
  /\ d.stage = "ok" => m \in writers

Namesake(m) == \E o \in writers \ {m} : NameOf[o] = NameOf[m]

\* The file of a message that shares its name with no other that was written.
FileOk(m) ==
  m \in writers /\ ~Namesake(m) =>
    /\ files[NameOf[m]].of = m /\ Leading(files[NameOf[m]].bytes, m)
    /\ m \in gaveOut \/ Len(files[NameOf[m]].bytes) = Size[m]

FilesInv == \A n \in Names : files[n] # NoFile => files[n].of \in Messages

MediaInv ==
  /\ MediaTypes /\ FilesInv
  /\ \A m \in Messages : DownloadOk(m, fetch[m], buffer[m]) /\ FileOk(m)

\* The types of a file, and that the whole of it is a leading part.
LEMMA SizeFacts ==
  ASSUME NEW m \in Messages
  PROVE  /\ Size[m] \in Nat \ {0} /\ NameOf[m] \in Names /\ MaxTries \in Nat \ {0}
         /\ Whole(m) \in Seq(Nat) /\ Len(Whole(m)) = Size[m] /\ Leading(Whole(m), m)
<1>1. Size[m] \in Nat \ {0} /\ NameOf[m] \in Names /\ MaxTries \in Nat \ {0}
  BY MediaAssumption DEF Names, RetryAccepted
<1>2. Whole(m) \in [1..Size[m] -> Nat] /\ \A k \in 1..Size[m] : Whole(m)[k] = k
  BY <1>1 DEF Whole
<1>3. Whole(m) \in Seq(Nat) /\ Len(Whole(m)) = Size[m]
  BY <1>1, <1>2
<1>4. Leading(Whole(m), m)
  BY <1>1, <1>2, <1>3 DEF Leading
<1>5. QED
  BY <1>1, <1>3, <1>4

\* Nothing is a leading part of every file, and not the whole of any.
LEMMA EmptyLeads ==
  ASSUME NEW m \in Messages
  PROVE  <<>> \in Seq(Nat) /\ Len(<<>>) = 0 /\ Leading(<<>>, m) /\ Len(<<>>) < Size[m]
<1>1. <<>> \in Seq(Nat) /\ Len(<<>>) = 0
  OBVIOUS
<1>2. QED
  BY <1>1, SizeFacts DEF Leading

\* What was written for m leads; if it is not whole, m was cut short.
Wrote(m) ==
  \E b \in Seq(Nat) : WriteFile(m, b) /\ Leading(b, m) /\ (m \in gaveOut' \/ Len(b) = Size[m])

\* A step of the download of m keeps the invariant.
LEMMA DownloadKeeps ==
  ASSUME MediaInv, NEW m \in Messages, kind' = kind,
         NEW d \in Downloads, fetch' = [fetch EXCEPT ![m] = d],
         NEW b \in Seq(Nat), buffer' = [buffer EXCEPT ![m] = b],
         DownloadOk(m, d, b)', gaveOut' \ {m} = gaveOut \ {m}, gaveOut' \subseteq Messages,
         Wrote(m) \/ (UNCHANGED <<files, writers>> /\ gaveOut \subseteq gaveOut')
  PROVE  MediaInv'
<1>1. /\ writers' \subseteq Messages /\ writers \subseteq writers' /\ writers' \subseteq writers \cup {m}
      /\ files' \in [Names -> Contents]
      /\ \A n \in Names \ {NameOf[m]} : files'[n] = files[n]
  <2>1. CASE Wrote(m)
    <3>1. PICK c \in Seq(Nat) : WriteFile(m, c)
      BY <2>1 DEF Wrote
    <3>2. [of |-> m, bytes |-> c] \in Contents
      BY DEF Contents
    <3>3. QED
      BY <3>1, <3>2 DEF WriteFile, MediaInv, MediaTypes
  <2>2. CASE UNCHANGED <<files, writers>>
    BY <2>2 DEF MediaInv, MediaTypes
  <2>3. QED
    BY <2>1, <2>2
<1>2. MediaTypes'
  BY <1>1 DEF MediaInv, MediaTypes
<1>3. FilesInv'
  <2>1. CASE Wrote(m)
    <3>1. PICK c \in Seq(Nat) : WriteFile(m, c)
      BY <2>1 DEF Wrote
    <3>2. files'[NameOf[m]].of = m
      BY <3>1, SizeFacts DEF WriteFile, MediaInv, MediaTypes
    <3>3. QED
      BY <1>1, <3>2 DEF FilesInv, MediaInv
  <2>2. CASE UNCHANGED <<files, writers>>
    BY <2>2 DEF MediaInv, FilesInv
  <2>3. QED
    BY <2>1, <2>2
<1>4. ASSUME NEW o \in Messages
      PROVE  DownloadOk(o, fetch[o], buffer[o])'
  <2>1. CASE o = m
    BY <2>1 DEF MediaInv, MediaTypes
  <2>2. CASE o # m
    <3>1. fetch'[o] = fetch[o] /\ buffer'[o] = buffer[o] /\ DownloadOk(o, fetch[o], buffer[o])
      BY <2>2 DEF MediaInv, MediaTypes
    <3>2. QED
      BY <1>1, <3>1 DEF DownloadOk
  <2>3. QED
    BY <2>1, <2>2
<1>5. ASSUME NEW o \in Messages
      PROVE  FileOk(o)'
  <2> SUFFICES ASSUME o \in writers', ~Namesake(o)'
               PROVE  /\ files'[NameOf[o]].of = o /\ Leading(files'[NameOf[o]].bytes, o)
                      /\ o \in gaveOut' \/ Len(files'[NameOf[o]].bytes) = Size[o]
    BY DEF FileOk
  <2>0. NameOf[o] \in Names /\ NameOf[m] \in Names
    BY SizeFacts
  <2>1. ~Namesake(o)
    BY <1>1 DEF Namesake
  <2>2. CASE o = m /\ Wrote(m)
    <3>1. PICK c \in Seq(Nat) :
            WriteFile(m, c) /\ Leading(c, m) /\ (m \in gaveOut' \/ Len(c) = Size[m])
      BY <2>2 DEF Wrote
    <3>2. files'[NameOf[m]] = [of |-> m, bytes |-> c]
      BY <2>0, <3>1 DEF WriteFile, MediaInv, MediaTypes
    <3>3. QED
      BY <2>2, <3>1, <3>2
  <2>3. CASE o = m /\ UNCHANGED <<files, writers>> /\ gaveOut \subseteq gaveOut'
    BY <2>1, <2>3 DEF MediaInv, FileOk
  <2>4. CASE o # m /\ Wrote(m)
    <3>1. m \in writers'
      BY <2>4 DEF Wrote, WriteFile
    <3>2. NameOf[o] # NameOf[m] /\ o \in writers
      BY <1>1, <2>4, <3>1 DEF Namesake
    <3>3. files'[NameOf[o]] = files[NameOf[o]]
      BY <1>1, <2>0, <3>2
    <3>4. FileOk(o) /\ (o \in gaveOut <=> o \in gaveOut')
      BY <2>4 DEF MediaInv
    <3>5. QED
      BY <2>1, <3>2, <3>3, <3>4 DEF FileOk
  <2>5. CASE o # m /\ UNCHANGED <<files, writers>>
    BY <2>1, <2>5 DEF MediaInv, FileOk
  <2>6. QED
    BY <2>2, <2>3, <2>4, <2>5
<1>6. QED
  BY <1>2, <1>3, <1>4, <1>5 DEF MediaInv

\* What a step of the download of m leaves alone.
MediaFrame(m) ==
  /\ \A o \in Messages \ {m} : fetch'[o] = fetch[o]
  /\ writers \subseteq writers' /\ gaveOut' \ {m} = gaveOut \ {m}

\* The state of a download after an answer of the upstream.
LEMMA SettleFacts ==
  ASSUME MediaInv, NEW m \in Messages,
         NEW stage \in Pending \cup {"idle", "ok", "failed"}, Settle(m, stage)
  PROVE  \E d \in Downloads :
           /\ fetch' = [fetch EXCEPT ![m] = d] /\ d.stage = stage
           /\ d.answers = IF stage \in Pending THEN fetch[m].answers + 1 ELSE 0
<1> DEFINE f == fetch[m]
           d == IF stage \in Pending
                THEN [stage |-> stage, answers |-> f.answers + 1, limit |-> f.limit]
                ELSE [Idle EXCEPT !.stage = stage]
<1>1. fetch' = [fetch EXCEPT ![m] = d]
  BY DEF Settle
<1>2. fetch[m] \in Downloads /\ MaxTries \in Nat
  BY SizeFacts DEF MediaInv, MediaTypes
<1>3. CASE stage \in Pending
  <2>1. d \in Downloads /\ d.stage = stage /\ d.answers = fetch[m].answers + 1
    BY <1>2, <1>3 DEF Downloads
  <2>2. QED
    BY <1>1, <1>3, <2>1
<1>4. CASE stage \notin Pending
  <2>1. d \in Downloads /\ d.stage = stage /\ d.answers = 0
    BY <1>2, <1>4 DEF Downloads, Idle
  <2>2. QED
    BY <1>1, <1>4, <2>1
<1>5. QED
  BY <1>3, <1>4

\* A buffer that is left alone is a sequence of units as before.
LEMMA BufferSame ==
  ASSUME MediaInv, NEW m \in Messages, buffer' = buffer
  PROVE  buffer' = [buffer EXCEPT ![m] = buffer[m]] /\ buffer[m] \in Seq(Nat)
BY DEF MediaInv, MediaTypes

\* A download that settles with what is not asking has nothing in its buffer.
LEMMA EndsEmpty ==
  ASSUME MediaInv, NEW m \in Messages, kind' = kind, NEW d \in Downloads,
         d.answers <= (IF kind[m] \in Sectioned THEN MaxSections ELSE MaxTries - 1),
         d.stage = "ok" => m \in writers'
  PROVE  DownloadOk(m, d, <<>>)'
BY EmptyLeads DEF DownloadOk, Leading

\* A download that begins has had no more answers than it may have.
LEMMA BoundsFacts ==
  ASSUME NEW m \in Messages
  PROVE  0 <= (IF kind[m] \in Sectioned THEN MaxSections ELSE MaxTries - 1)
BY SizeFacts, MediaAssumption

\* The begin of a download keeps the invariant of the downloads.
LEMMA FetchBegins ==
  ASSUME MediaInv, NEW m \in Messages, BeginFetch(m) \/ NothingToFetch(m)
  PROVE  MediaInv' /\ fetch[m].stage = "idle" /\ MediaFrame(m)
<1>1. fetch[m].stage = "idle" /\ UNCHANGED <<kind, buffer, gaveOut>>
  BY DEF BeginFetch, NothingToFetch
<1>2. buffer[m] = <<>> /\ buffer' = [buffer EXCEPT ![m] = <<>>]
  BY <1>1, BufferSame DEF MediaInv, DownloadOk
<1>3. <<>> \in Seq(Nat) /\ gaveOut' \subseteq Messages /\ gaveOut' \ {m} = gaveOut \ {m} /\ gaveOut \subseteq gaveOut'
  BY <1>1, EmptyLeads DEF MediaInv, MediaTypes
<1>4. \E d \in Downloads :
        /\ fetch' = [fetch EXCEPT ![m] = d] /\ d.answers = 0
        /\ Wrote(m) \/ (UNCHANGED <<files, writers>> /\ d.stage # "ok")
  <2>1. CASE BeginFetch(m) /\ kind[m] = "inline"
    <3>1. Settle(m, "ok") /\ WriteFile(m, Whole(m))
      BY <2>1 DEF BeginFetch
    <3>2. Wrote(m)
      BY <3>1, SizeFacts DEF Wrote
    <3>3. PICK d \in Downloads : fetch' = [fetch EXCEPT ![m] = d] /\ d.answers = 0
      BY <3>1, SettleFacts DEF Pending
    <3>4. QED
      BY <3>2, <3>3
  <2>2. CASE BeginFetch(m) /\ kind[m] # "inline"
    <3>1. PICK n \in MinTries .. MaxTries :
            fetch' = [fetch EXCEPT ![m] = [stage |-> "asking", answers |-> 0, limit |-> n]]
      BY <2>2 DEF BeginFetch
    <3>2. UNCHANGED <<files, writers>>
      BY <2>2 DEF BeginFetch
    <3>3. [stage |-> "asking", answers |-> 0, limit |-> n] \in Downloads
      BY MediaAssumption DEF Downloads, Pending
    <3>4. QED
      BY <3>1, <3>2, <3>3
  <2>3. CASE NothingToFetch(m)
    <3>1. Settle(m, "failed") /\ UNCHANGED <<files, writers>>
      BY <2>3 DEF NothingToFetch
    <3>2. PICK d \in Downloads : fetch' = [fetch EXCEPT ![m] = d] /\ d.answers = 0 /\ d.stage = "failed"
      BY <3>1, SettleFacts DEF Pending
    <3>3. QED
      BY <3>1, <3>2
  <2>4. QED
    BY <2>1, <2>2, <2>3
<1>5. PICK d \in Downloads :
        /\ fetch' = [fetch EXCEPT ![m] = d] /\ d.answers = 0
        /\ Wrote(m) \/ (UNCHANGED <<files, writers>> /\ d.stage # "ok")
  BY <1>4
<1>6. (d.stage = "ok" => m \in writers') /\ writers \subseteq writers'
  BY <1>5 DEF Wrote, WriteFile
<1>7. DownloadOk(m, d, <<>>)'
  BY <1>1, <1>5, <1>6, EndsEmpty, BoundsFacts
<1>8. MediaInv'
  BY <1>1, <1>2, <1>3, <1>5, <1>7, DownloadKeeps
<1>9. MediaFrame(m)
  BY <1>1, <1>5, <1>6 DEF MediaFrame, MediaInv, MediaTypes
<1>10. QED
  BY <1>1, <1>8, <1>9

\* A download that ends, or is asked again, without a buffer.
LEMMA AnswerKeeps ==
  ASSUME MediaInv, NEW m \in Messages, kind' = kind,
         NEW stage \in Pending \cup {"ok", "failed"}, Settle(m, stage),
         buffer' = [buffer EXCEPT ![m] = <<>>],
         stage \in Pending => kind[m] \notin Sectioned /\ MayRetry(m),
         gaveOut' \ {m} = gaveOut \ {m}, gaveOut' \subseteq Messages,
         Wrote(m) \/ (UNCHANGED <<files, writers>> /\ stage # "ok" /\ gaveOut \subseteq gaveOut')
  PROVE  MediaInv' /\ MediaFrame(m)
<1>1. PICK d \in Downloads :
        /\ fetch' = [fetch EXCEPT ![m] = d] /\ d.stage = stage
        /\ d.answers = IF stage \in Pending THEN fetch[m].answers + 1 ELSE 0
  BY SettleFacts
<1>2. (d.stage = "ok" => m \in writers') /\ writers \subseteq writers'
  BY <1>1 DEF Wrote, WriteFile
<1>3. d.answers <= (IF kind[m] \in Sectioned THEN MaxSections ELSE MaxTries - 1)
  <2>1. fetch[m] \in Downloads /\ MaxTries \in Nat
    BY SizeFacts DEF MediaInv, MediaTypes
  <2>2. CASE stage \in Pending
    <3>1. fetch[m].answers + 1 < fetch[m].limit /\ fetch[m].limit <= MaxTries
      BY <2>1, <2>2 DEF MayRetry, Downloads
    <3>2. QED
      BY <1>1, <2>1, <2>2, <3>1 DEF Downloads
  <2>3. CASE stage \notin Pending
    BY <1>1, <2>3, BoundsFacts
  <2>4. QED
    BY <2>2, <2>3
<1>4. DownloadOk(m, d, <<>>)'
  BY <1>2, <1>3, EndsEmpty
<1>5. MediaInv'
  BY <1>1, <1>4, EmptyLeads, DownloadKeeps
<1>6. QED
  BY <1>1, <1>2, <1>5 DEF MediaFrame, MediaInv, MediaTypes

\* The units of the next section follow those in the buffer.
LEMMA SectionLeads ==
  ASSUME NEW m \in Messages, NEW s \in Seq(Nat), Leading(s, m), NEW n \in Nat, Len(s) + n <= Size[m]
  PROVE  LET all == s \o [k \in 1 .. n |-> Len(s) + k] IN
         all \in Seq(Nat) /\ Len(all) = Len(s) + n /\ Leading(all, m)
<1> DEFINE r == [k \in 1 .. n |-> Len(s) + k]
           all == s \o r
<1>1. Len(s) \in Nat
  BY LenProperties
<1>2. r \in [1..n -> Nat] /\ \A k \in 1..n : r[k] = Len(s) + k
  BY <1>1
<1> HIDE DEF r
<1>3. r \in Seq(Nat) /\ Len(r) = n
  BY <1>2
<1>4. /\ all \in Seq(Nat) /\ Len(all) = Len(s) + Len(r)
      /\ \A i \in 1..Len(s) + Len(r) : all[i] = IF i <= Len(s) THEN s[i] ELSE r[i - Len(s)]
  BY <1>3, ConcatProperties
<1> HIDE DEF all
<1>5. ASSUME NEW i \in 1..Len(all)
      PROVE  all[i] = i
  <2>1. CASE i <= Len(s)
    <3>1. i \in 1..Len(s) /\ i \in 1..Len(s) + Len(r)
      BY <1>1, <1>3, <1>4, <2>1
    <3>2. QED
      BY <1>4, <2>1, <3>1 DEF Leading
  <2>2. CASE ~(i <= Len(s))
    <3>1. i - Len(s) \in 1..n /\ i \in 1..Len(s) + Len(r) /\ Len(s) + (i - Len(s)) = i
      BY <1>1, <1>3, <1>4, <2>2
    <3>2. QED
      BY <1>2, <1>4, <2>2, <3>1
  <2>3. QED
    BY <2>1, <2>2
<1>6. Leading(all, m)
  BY <1>3, <1>4, <1>5 DEF Leading
<1>7. QED
  BY <1>3, <1>4, <1>6 DEF all, r

\* A section that arrives keeps the invariant of the downloads.
LEMMA SectionKeeps ==
  ASSUME MediaInv, NEW m \in Messages, NEW n \in 0 .. Size[m], SectionArrives(m, n)
  PROVE  MediaInv' /\ MediaFrame(m)
<1> DEFINE s == buffer[m]
           all == s \o [k \in 1 .. n |-> Len(s) + k]
           over == n = 0 \/ Len(all) >= Size[m] \/ fetch[m].answers >= MaxSections
<1>1. /\ kind[m] \in Sectioned /\ n \in 0 .. SectionLen(m) /\ kind' = kind
      /\ buffer' = [buffer EXCEPT ![m] = IF over THEN <<>> ELSE all]
      /\ Settle(m, IF ~over THEN "asking" ELSE IF all = <<>> THEN "failed" ELSE "ok")
      /\ IF over /\ all # <<>> THEN WriteFile(m, all) ELSE UNCHANGED <<files, writers>>
      /\ gaveOut' = IF over /\ Len(all) < Size[m] THEN gaveOut \cup {m} ELSE gaveOut
  BY DEF SectionArrives, SectionStart
<1>2. s \in Seq(Nat) /\ Len(s) \in Nat /\ Leading(s, m) /\ Len(s) < Size[m] /\ Size[m] \in Nat
  BY SizeFacts, LenProperties DEF MediaInv, MediaTypes, DownloadOk
<1>3. SectionLen(m) <= Size[m] - Len(s) /\ SectionLen(m) \in Nat
  BY <1>2, MediaAssumption DEF SectionLen
<1>4. n \in Nat /\ Len(s) + n <= Size[m]
  BY <1>1, <1>2, <1>3
<1>5. all \in Seq(Nat) /\ Len(all) = Len(s) + n /\ Leading(all, m)
  BY <1>2, <1>4, SectionLeads
<1>6. fetch[m] \in Downloads /\ fetch[m].answers \in Nat /\ MaxSections \in Nat
  BY MediaAssumption DEF MediaInv, MediaTypes, Downloads
<1>7. gaveOut' \ {m} = gaveOut \ {m} /\ gaveOut' \subseteq Messages /\ gaveOut \subseteq gaveOut'
  BY <1>1 DEF MediaInv, MediaTypes
<1> HIDE DEF all
<1>8. CASE ~over
  <2>1. PICK d \in Downloads :
          fetch' = [fetch EXCEPT ![m] = d] /\ d.stage = "asking" /\ d.answers = fetch[m].answers + 1
    <3>1. Settle(m, "asking")
      BY <1>1, <1>8
    <3>2. QED
      BY <3>1, SettleFacts DEF Pending
  <2>2. UNCHANGED <<files, writers>> /\ buffer' = [buffer EXCEPT ![m] = all]
    BY <1>1, <1>8
  <2>3. d.answers <= MaxSections /\ Len(all) < Size[m]
    BY <1>2, <1>4, <1>5, <1>6, <1>8, <2>1
  <2>4. PICK b \in Seq(Nat) : b = all
    BY <1>5
  <2>5. MediaInv'
    <3>1. DownloadOk(m, d, b)'
      BY <1>1, <1>5, <2>1, <2>3, <2>4 DEF DownloadOk, Leading
    <3>2. buffer' = [buffer EXCEPT ![m] = b]
      BY <2>2, <2>4
    <3>3. QED
      BY <1>1, <1>7, <2>1, <2>2, <3>1, <3>2, DownloadKeeps
  <2>6. QED
    BY <1>7, <2>1, <2>2, <2>5 DEF MediaFrame, MediaInv, MediaTypes
<1>9. CASE over
  <2>1. buffer' = [buffer EXCEPT ![m] = <<>>]
    BY <1>1, <1>9
  <2>2. CASE all = <<>>
    <3>1. Settle(m, "failed") /\ UNCHANGED <<files, writers>>
      BY <1>1, <1>9, <2>2
    <3>2. QED
      BY <1>1, <1>7, <2>1, <3>1, AnswerKeeps DEF Pending
  <2>3. CASE all # <<>>
    <3>1. Settle(m, "ok") /\ WriteFile(m, all)
      BY <1>1, <1>9, <2>3
    <3>2. m \in gaveOut' \/ Len(all) = Size[m]
      <4>1. CASE Len(all) < Size[m]
        BY <1>1, <1>9, <4>1
      <4>2. Len(all) = Size[m] \/ Len(all) < Size[m]
        <5>1. Len(all) \in Nat /\ Len(all) <= Size[m]
          BY <1>2, <1>4, <1>5
        <5>2. QED
          BY <1>2, <5>1
      <4>3. QED
        BY <4>1, <4>2
    <3>3. Wrote(m)
      BY <1>5, <3>1, <3>2 DEF Wrote
    <3>4. QED
      BY <1>1, <1>7, <2>1, <3>1, <3>3, AnswerKeeps DEF Pending
  <2>4. QED
    BY <2>2, <2>3
<1>10. QED
  BY <1>8, <1>9

\* Every answer of the upstream keeps the invariant of the downloads.
LEMMA UpstreamKeeps ==
  ASSUME MediaInv, NEW m \in Messages, UpstreamAnswers(m) \/ AskAgain(m)
  PROVE  MediaInv' /\ MediaFrame(m) /\ fetch[m].stage \in Pending
<1> DEFINE Good == MediaInv' /\ MediaFrame(m)
<1>1. fetch[m].stage \in Pending
  BY DEF UpstreamAnswers, AskAgain, UpstreamErrs, WholeArrives, NoBytesArrive, EmptyBodyArrives,
         SectionArrives, Pending
<1>2. kind[m] \notin Sectioned => buffer[m] = <<>>
  BY DEF MediaInv, DownloadOk
<1>3. gaveOut \subseteq Messages
  BY DEF MediaInv, MediaTypes
<1>4. CASE UpstreamErrs(m)
  <2>1. /\ Settle(m, "failed") /\ buffer' = [buffer EXCEPT ![m] = <<>>]
        /\ UNCHANGED <<kind, files, gaveOut, writers>>
    BY <1>4 DEF UpstreamErrs
  <2>2. QED
    BY <1>1, <1>3, <2>1, AnswerKeeps DEF Pending
<1>5. CASE WholeArrives(m)
  <2>1. /\ Settle(m, "ok") /\ WriteFile(m, Whole(m)) /\ gaveOut' = gaveOut \ {m}
        /\ UNCHANGED <<kind, buffer>> /\ kind[m] \notin Sectioned
    BY <1>5 DEF WholeArrives
  <2>2. Wrote(m) /\ buffer' = [buffer EXCEPT ![m] = <<>>]
    BY <1>2, <2>1, SizeFacts, BufferSame DEF Wrote
  <2>3. QED
    BY <1>1, <1>3, <2>1, <2>2, AnswerKeeps DEF Pending
<1>6. CASE NoBytesArrive(m) \/ EmptyBodyArrives(m)
  <2>1. /\ UNCHANGED <<kind, buffer>> /\ kind[m] \notin Sectioned
        /\ \/ /\ Settle(m, IF MayRetry(m) THEN "pausing" ELSE "failed")
              /\ UNCHANGED <<files, gaveOut, writers>>
           \/ /\ Settle(m, IF MayRetry(m) THEN "pausing" ELSE "ok")
              /\ WriteFile(m, <<>>) /\ gaveOut' = gaveOut \cup {m}
    BY <1>6 DEF NoBytesArrive, EmptyBodyArrives
  <2>2. buffer' = [buffer EXCEPT ![m] = <<>>]
    BY <1>2, <2>1, BufferSame
  <2>3. /\ gaveOut' \ {m} = gaveOut \ {m} /\ gaveOut' \subseteq Messages /\ gaveOut \subseteq gaveOut'
        /\ UNCHANGED <<files, writers>> \/ Wrote(m)
    BY <1>3, <2>1, EmptyLeads DEF Wrote
  <2>4. PICK stage \in {"pausing", "failed", "ok"} :
          /\ Settle(m, stage) /\ (stage = "pausing" => MayRetry(m))
          /\ Wrote(m) \/ (UNCHANGED <<files, writers>> /\ stage # "ok")
    <3>1. CASE MayRetry(m)
      <4>1. Settle(m, "pausing")
        BY <2>1, <3>1
      <4>2. QED
        BY <2>3, <3>1, <4>1
    <3>2. CASE ~MayRetry(m)
      <4>1. CASE Settle(m, "failed") /\ UNCHANGED <<files, gaveOut, writers>>
        BY <4>1
      <4>2. CASE Settle(m, "ok") /\ WriteFile(m, <<>>) /\ gaveOut' = gaveOut \cup {m}
        BY <4>2, EmptyLeads DEF Wrote
      <4>3. QED
        BY <2>1, <3>2, <4>1, <4>2
    <3>3. QED
      BY <3>1, <3>2
  <2>5. QED
    BY <1>1, <2>1, <2>2, <2>3, <2>4, AnswerKeeps DEF Pending
<1>7. CASE AskAgain(m)
  <2>1. /\ fetch[m].stage = "pausing"
        /\ fetch' = [fetch EXCEPT ![m] = [fetch[m] EXCEPT !.stage = "asking"]]
        /\ UNCHANGED <<kind, buffer, files, gaveOut, writers>>
    BY <1>7 DEF AskAgain
  <2>2. fetch[m] \in Downloads /\ DownloadOk(m, fetch[m], buffer[m])
    BY DEF MediaInv, MediaTypes
  <2>3. PICK d \in Downloads :
          fetch' = [fetch EXCEPT ![m] = d] /\ d.stage = "asking" /\ d.answers = fetch[m].answers
    <3> DEFINE e == [fetch[m] EXCEPT !.stage = "asking"]
    <3>1. e \in Downloads /\ e.stage = "asking" /\ e.answers = fetch[m].answers
      BY <2>2 DEF Downloads, Pending
    <3>2. QED
      BY <2>1, <3>1
  <2>4. buffer' = [buffer EXCEPT ![m] = buffer[m]] /\ buffer[m] \in Seq(Nat) /\ buffer[m] = <<>>
    BY <2>1, <2>2, BufferSame DEF DownloadOk
  <2>5. DownloadOk(m, d, <<>>)'
    <3>1. d.answers <= (IF kind[m] \in Sectioned THEN MaxSections ELSE MaxTries - 1)
      BY <2>2, <2>3 DEF DownloadOk
    <3>2. QED
      BY <2>1, <2>3, <3>1, EndsEmpty
  <2>6. MediaInv'
    <3>1. buffer' = [buffer EXCEPT ![m] = <<>>]
      BY <2>4
    <3>2. gaveOut' \ {m} = gaveOut \ {m} /\ gaveOut' \subseteq Messages /\ gaveOut \subseteq gaveOut'
      BY <1>3, <2>1
    <3>3. QED
      BY <2>1, <2>3, <2>5, <3>1, <3>2, EmptyLeads, DownloadKeeps
  <2>7. QED
    BY <1>1, <2>1, <2>6 DEF MediaFrame, MediaInv, MediaTypes
<1>8. ASSUME NEW n \in 0 .. Size[m], SectionArrives(m, n)
      PROVE  Good
  BY <1>8, SectionKeeps
<1> HIDE DEF Good
<1>9. Good
  BY <1>4, <1>5, <1>6, <1>7, <1>8 DEF UpstreamAnswers, Good
<1>10. QED
  BY <1>1, <1>9 DEF Good

\* The death of the middleware ends the downloads under way and nothing else.
LEMMA DownloadsDieKeeps ==
  ASSUME MediaInv, DownloadsDie
  PROVE  /\ MediaInv' /\ UNCHANGED <<writers, gaveOut>>
         /\ \A m \in Messages : fetch[m].stage \in {"ok", "idle"} => fetch'[m] = fetch[m]
<1> DEFINE lost == [Idle EXCEPT !.stage = "failed"]
<1>1. /\ fetch' = [m \in Messages |-> IF fetch[m].stage \in Pending THEN lost ELSE fetch[m]]
      /\ buffer' = [m \in Messages |-> <<>>] /\ UNCHANGED <<kind, files, gaveOut, writers>>
  BY DEF DownloadsDie
<1>2. \A m \in Messages : fetch[m].stage \in {"ok", "idle"} => fetch'[m] = fetch[m]
  BY <1>1 DEF Pending
<1>3. lost = [stage |-> "failed", answers |-> 0, limit |-> 0]
  BY DEF Idle
<1> HIDE DEF lost
<1>4. ASSUME NEW m \in Messages
      PROVE  lost \in Downloads /\ fetch[m] \in Downloads /\ DownloadOk(m, fetch[m], buffer[m]) /\ FileOk(m)
  BY <1>3, SizeFacts DEF Downloads, MediaInv, MediaTypes
<1>5. <<>> \in Seq(Nat)
  OBVIOUS
<1>6. fetch' \in [Messages -> Downloads] /\ buffer' \in [Messages -> Seq(Nat)]
  BY <1>1, <1>4, <1>5
<1>7. MediaTypes' /\ FilesInv'
  BY <1>1, <1>6 DEF MediaInv, MediaTypes, FilesInv
<1>8. ASSUME NEW m \in Messages
      PROVE  DownloadOk(m, fetch[m], buffer[m])'
  <2>1. PICK d \in Downloads : fetch'[m] = d /\ (d = lost \/ d = fetch[m])
    BY <1>1, <1>4
  <2>2. buffer'[m] = <<>>
    BY <1>1
  <2>3. d.answers <= (IF kind[m] \in Sectioned THEN MaxSections ELSE MaxTries - 1)
    BY <1>3, <1>4, <2>1, BoundsFacts DEF DownloadOk
  <2>4. d.stage = "ok" => m \in writers'
    BY <1>1, <1>3, <1>4, <2>1 DEF DownloadOk
  <2>5. DownloadOk(m, d, <<>>)'
    BY <1>1, <2>3, <2>4, EndsEmpty
  <2>6. QED
    BY <2>1, <2>2, <2>5
<1>9. \A m \in Messages : FileOk(m)'
  BY <1>1, <1>4 DEF FileOk, Namesake
<1>10. QED
  BY <1>1, <1>2, <1>7, <1>8, <1>9 DEF MediaInv

-----------------------------------------------------------------------------
(* The gate, and what the agent reads.                                     *)

TurnTypes ==
  /\ phase \in [Turns -> Phases] /\ path \in [Turns -> BOOLEAN]
  /\ decision \in [Turns -> {"none", "allow", "pairing", "block"}]
  /\ seen \in [Turns -> Contents \cup {Unread}]
  /\ deaths \in 0 .. MaxDeaths

\* A turn past the gate and before its reply.
Allowed == {"cleared", "fetching", "fetched", "decoded", "thinking"}

\* What was read is the message's own file, as FileOk has it.
ReadOk(t) ==
  seen[t] # Unread /\ ~Namesake(t) =>
    /\ seen[t].of = t /\ Leading(seen[t].bytes, t)
    /\ t \in gaveOut \/ Len(seen[t].bytes) = Size[t]

\* The download of a turn begins after its verdict, and what it hands on is final.
GateOk(t) ==
  /\ decision[t] = "none" <=> phase[t] = "arrived"
  /\ phase[t] \in Allowed => decision[t] = "allow"
  /\ t \in Messages /\ (decision[t] # "allow" \/ phase[t] = "cleared") => fetch[t].stage = "idle"
  /\ path[t] => t \in Messages /\ fetch[t].stage = "ok"
  /\ seen[t] # Unread => path[t]
  /\ ReadOk(t)
  /\ seen[t] # Unread => seen[t] = NoFile \/ seen[t].of \in Messages

GateInv == \A t \in Turns : GateOk(t)

\* A step of turn t, of its download or of both.
LEMMA GateKeeps ==
  ASSUME GateInv, NEW t \in Turns, GateOk(t)',
         \A e \in Turns \ {t} : /\ phase'[e] = phase[e] /\ decision'[e] = decision[e]
                                /\ path'[e] = path[e] /\ seen'[e] = seen[e],
         \A m \in Messages \ {t} : fetch'[m] = fetch[m],
         writers \subseteq writers', gaveOut' \ {t} = gaveOut \ {t}
  PROVE  GateInv'
<1> SUFFICES ASSUME NEW e \in Turns PROVE GateOk(e)'
  BY DEF GateInv
<1>1. CASE e = t
  BY <1>1
<1>2. CASE e # t
  <2>1. GateOk(e)
    BY DEF GateInv
  <2>2. /\ phase'[e] = phase[e] /\ decision'[e] = decision[e] /\ path'[e] = path[e] /\ seen'[e] = seen[e]
        /\ (e \in Messages => fetch'[e] = fetch[e]) /\ (e \in gaveOut' <=> e \in gaveOut)
    BY <1>2
  <2>3. Namesake(e) => Namesake(e)'
    BY DEF Namesake
  <2>4. ReadOk(e)'
    BY <2>1, <2>2, <2>3 DEF GateOk, ReadOk
  <2>5. QED
    BY <2>1, <2>2, <2>4 DEF GateOk
<1>3. QED
  BY <1>1, <1>2

\* The steps of a turn that leave the downloads, the verdicts and what was read alone.
LEMMA PhaseKeeps ==
  ASSUME MediaInv, TurnTypes, GateInv, NEW t \in Turns, NEW p \in Phases \ {"arrived", "cleared"},
         phase' = [phase EXCEPT ![t] = p], phase[t] # "arrived",
         p \in Allowed => phase[t] \in Allowed,
         UNCHANGED <<mediaVars, decision, path, seen, deaths>>
  PROVE  MediaInv' /\ TurnTypes' /\ GateInv'
<1>1. UNCHANGED <<kind, fetch, buffer, files, gaveOut, writers>>
  BY DEF mediaVars
<1>2. MediaInv'
  BY <1>1 DEF MediaInv, MediaTypes, FilesInv, DownloadOk, FileOk, Namesake
<1>3. TurnTypes'
  BY DEF TurnTypes
<1>4. /\ phase'[t] = p /\ decision'[t] = decision[t] /\ path'[t] = path[t] /\ seen'[t] = seen[t]
      /\ \A e \in Turns \ {t} : phase'[e] = phase[e]
  BY DEF TurnTypes
<1>5. GateOk(t)'
  BY <1>1, <1>4 DEF GateInv, GateOk, ReadOk, Namesake
<1>6. GateInv'
  BY <1>1, <1>4, <1>5, GateKeeps
<1>7. QED
  BY <1>2, <1>3, <1>6

\* What a turn reads at its path is its own file.
LEMMA ReadsOwn ==
  ASSUME MediaInv, GateInv, NEW t \in Turns, path[t]
  PROVE  LET f == files[NameOf[t]] IN
         /\ t \in Messages /\ f \in Contents
         /\ f # NoFile => f.of \in Messages
         /\ ~Namesake(t) => /\ f.of = t /\ Leading(f.bytes, t)
                            /\ t \in gaveOut \/ Len(f.bytes) = Size[t]
<1>1. t \in Messages /\ fetch[t].stage = "ok"
  BY DEF GateInv, GateOk
<1>2. t \in writers /\ FileOk(t) /\ NameOf[t] \in Names
  BY <1>1, SizeFacts DEF MediaInv, DownloadOk
<1>3. QED
  BY <1>1, <1>2 DEF MediaInv, MediaTypes, FilesInv, FileOk

\* Every step keeps the invariants of the downloads and of the gate.
LEMMA GateStep ==
  ASSUME MediaInv, TurnTypes, GateInv, [Next]_vars
  PROVE  MediaInv' /\ TurnTypes' /\ GateInv'
<1> DEFINE Good == MediaInv' /\ TurnTypes' /\ GateInv'
<1> SUFFICES Good
  OBVIOUS
<1> USE DEF GoesTo
<1>a. UNCHANGED mediaVars => MediaInv'
  BY DEF mediaVars, MediaInv, MediaTypes, FilesInv, DownloadOk, FileOk, Namesake
<1>b. UNCHANGED mediaVars => /\ UNCHANGED <<fetch, writers, gaveOut>>
                             /\ \A t \in Turns : Namesake(t)' <=> Namesake(t)
  BY DEF mediaVars, Namesake
<1>1. ASSUME NEW t \in Turns, NEW verdict \in Verdicts(t), Authorize(t, verdict)
      PROVE  Good
  <2> DEFINE p == CASE verdict = "allow" -> "cleared"
                    [] verdict = "pairing" -> "replying"
                    [] verdict = "block" -> "done"
  <2>1. /\ phase[t] = "arrived" /\ phase' = [phase EXCEPT ![t] = p]
        /\ decision' = [decision EXCEPT ![t] = verdict] /\ UNCHANGED <<mediaVars, path, seen, deaths>>
    BY <1>1 DEF Authorize
  <2>2. verdict \in {"allow", "pairing", "block"}
    BY DEF Verdicts
  <2>3. p \in {"cleared", "replying", "done"} /\ (p = "cleared" => verdict = "allow")
    BY <2>2
  <2> HIDE DEF p
  <2>4. TurnTypes'
    BY <2>1, <2>2, <2>3 DEF TurnTypes, Phases
  <2>5. /\ phase'[t] = p /\ decision'[t] = verdict
        /\ \A e \in Turns \ {t} : phase'[e] = phase[e] /\ decision'[e] = decision[e]
    BY <2>1 DEF TurnTypes
  <2>6. ~path[t] /\ seen[t] = Unread /\ (t \in Messages => fetch[t].stage = "idle")
    BY <2>1 DEF GateInv, GateOk
  <2>7. GateOk(t)'
    BY <1>b, <2>1, <2>2, <2>3, <2>5, <2>6 DEF GateOk, ReadOk, Allowed
  <2>8. GateInv'
    BY <1>b, <2>1, <2>5, <2>7, GateKeeps
  <2>9. QED
    BY <1>a, <2>1, <2>4, <2>8
<1>2. ASSUME NEW t \in Turns, RequestMedia(t)
      PROVE  Good
  <2>1. /\ t \in Messages /\ phase[t] = "cleared" /\ phase' = [phase EXCEPT ![t] = "fetching"]
        /\ BeginFetch(t) \/ NothingToFetch(t)
        /\ UNCHANGED <<decision, path, seen, deaths>>
    BY <1>2 DEF RequestMedia
  <2>2. MediaInv' /\ fetch[t].stage = "idle" /\ MediaFrame(t)
    BY <2>1, FetchBegins
  <2>3. TurnTypes'
    BY <2>1 DEF TurnTypes, Phases
  <2>4. phase'[t] = "fetching" /\ \A e \in Turns \ {t} : phase'[e] = phase[e]
    BY <2>1 DEF TurnTypes
  <2>5. decision[t] = "allow" /\ ~path[t] /\ seen[t] = Unread
    BY <2>1, <2>2 DEF GateInv, GateOk, Allowed
  <2>6. GateOk(t)'
    BY <2>1, <2>4, <2>5 DEF GateOk, ReadOk
  <2>7. GateInv'
    BY <2>1, <2>2, <2>4, <2>6, GateKeeps DEF MediaFrame
  <2>8. QED
    BY <2>2, <2>3, <2>7
<1>3. ASSUME NEW t \in Turns, SkipMedia(t) \/ MediaWaitBreaks(t)
      PROVE  Good
  <2>1. /\ phase[t] \in {"cleared", "fetching"} /\ phase' = [phase EXCEPT ![t] = "fetched"]
        /\ UNCHANGED <<mediaVars, decision, path, seen, deaths>>
    BY <1>3 DEF SkipMedia, MediaWaitBreaks
  <2>2. QED
    BY <2>1, PhaseKeeps DEF Phases, Allowed
<1>4. ASSUME NEW t \in Turns, MediaReturns(t)
      PROVE  Good
  <2>1. /\ t \in Messages /\ phase[t] = "fetching" /\ phase' = [phase EXCEPT ![t] = "fetched"]
        /\ path' = [path EXCEPT ![t] = fetch[t].stage = "ok"]
        /\ UNCHANGED <<mediaVars, decision, seen, deaths>>
    BY <1>4 DEF MediaReturns
  <2>2. TurnTypes'
    <3>1. (fetch[t].stage = "ok") \in BOOLEAN
      OBVIOUS
    <3>2. QED
      BY <2>1, <3>1 DEF TurnTypes, Phases
  <2>3. /\ phase'[t] = "fetched" /\ (path'[t] <=> fetch[t].stage = "ok")
        /\ \A e \in Turns \ {t} : phase'[e] = phase[e] /\ path'[e] = path[e]
    BY <2>1 DEF TurnTypes
  <2>4. GateOk(t) /\ decision[t] = "allow"
    BY <2>1 DEF GateInv, GateOk, Allowed
  <2>5. GateOk(t)'
    BY <1>b, <2>1, <2>3, <2>4 DEF GateOk, ReadOk
  <2>6. GateInv'
    BY <1>b, <2>1, <2>3, <2>5, GateKeeps
  <2>7. QED
    BY <1>a, <2>1, <2>2, <2>6
<1>5. ASSUME NEW t \in Turns, NEW p \in Phases \ {"arrived", "cleared"},
             path[t], phase[t] \in Allowed,
             phase' = [phase EXCEPT ![t] = p],
             seen' = [seen EXCEPT ![t] = files[NameOf[t]]],
             UNCHANGED <<mediaVars, decision, path, deaths>>
      PROVE  Good
  <2> DEFINE f == files[NameOf[t]]
  <2>1. /\ t \in Messages /\ f \in Contents /\ (f # NoFile => f.of \in Messages)
        /\ ~Namesake(t) => /\ f.of = t /\ Leading(f.bytes, t)
                           /\ t \in gaveOut \/ Len(f.bytes) = Size[t]
    BY <1>5, ReadsOwn
  <2>2. seen' = [seen EXCEPT ![t] = f]
    BY <1>5
  <2> HIDE DEF f
  <2>3. TurnTypes'
    BY <1>5, <2>1, <2>2 DEF TurnTypes
  <2>4. /\ phase'[t] = p /\ seen'[t] = f
        /\ \A e \in Turns \ {t} : phase'[e] = phase[e] /\ seen'[e] = seen[e]
    BY <1>5, <2>2 DEF TurnTypes
  <2>5. GateOk(t) /\ decision[t] = "allow" /\ phase[t] # "arrived"
    BY <1>5 DEF GateInv, GateOk, Allowed
  <2>6. GateOk(t)'
    BY <1>b, <1>5, <2>1, <2>4, <2>5 DEF GateOk, ReadOk, Leading
  <2>7. GateInv'
    BY <1>b, <1>5, <2>4, <2>6, GateKeeps
  <2>8. QED
    BY <1>a, <1>5, <2>3, <2>7
<1>6. ASSUME NEW t \in Turns, NEW ok \in BOOLEAN, DecodeVoice(t, ok)
      PROVE  Good
  <2>1. /\ path[t] /\ phase[t] = "fetched" /\ phase' = [phase EXCEPT ![t] = "decoded"]
        /\ seen' = [seen EXCEPT ![t] = files[NameOf[t]]] \/ seen' = seen
        /\ UNCHANGED <<mediaVars, decision, path, deaths>>
    BY <1>6 DEF DecodeVoice, HasVoice
  <2>2. CASE seen' = seen
    BY <2>1, <2>2, PhaseKeeps DEF Phases, Allowed
  <2>3. CASE seen' = [seen EXCEPT ![t] = files[NameOf[t]]]
    BY <1>5, <2>1, <2>3 DEF Phases, Allowed
  <2>4. QED
    BY <2>1, <2>2, <2>3
<1>7. ASSUME NEW t \in Turns, AgentReads(t)
      PROVE  Good
  <2>1. /\ path[t] /\ phase[t] = "thinking"
        /\ seen' = [seen EXCEPT ![t] = files[NameOf[t]]]
        /\ UNCHANGED <<mediaVars, phase, decision, path, deaths>>
    BY <1>7 DEF AgentReads
  <2>2. phase' = [phase EXCEPT ![t] = "thinking"]
    BY <2>1 DEF TurnTypes
  <2>3. QED
    BY <1>5, <2>1, <2>2 DEF Phases, Allowed
<1>8. ASSUME NEW t \in Turns, NEW ok \in BOOLEAN, Route(t, ok)
      PROVE  Good
  <2>1. /\ phase[t] \in {"fetched", "decoded"}
        /\ phase' = [phase EXCEPT ![t] = IF ok THEN "thinking" ELSE "done"]
        /\ UNCHANGED <<mediaVars, decision, path, seen, deaths>>
    BY <1>8 DEF Route
  <2>2. QED
    BY <2>1, PhaseKeeps DEF Phases, Allowed
<1>9. ASSUME NEW t \in Turns, EndTurn(t) \/ \E r \in Replies[t] \cup {<<>>} : AgentReplies(t, r)
      PROVE  Good
  <2>1. /\ \/ phase[t] = "thinking" /\ phase' = [phase EXCEPT ![t] = "replying"]
           \/ phase[t] = "replying" /\ phase' = [phase EXCEPT ![t] = "done"]
        /\ UNCHANGED <<mediaVars, decision, path, seen, deaths>>
    BY <1>9 DEF EndTurn, AgentReplies
  <2>2. QED
    BY <2>1, PhaseKeeps DEF Phases, Allowed
<1>10. CASE MiddlewareDies
  <2>1. deaths < MaxDeaths /\ deaths' = deaths + 1 /\ DownloadsDie /\ UNCHANGED <<phase, decision, path, seen>>
    BY <1>10 DEF MiddlewareDies
  <2>2. /\ MediaInv' /\ UNCHANGED <<writers, gaveOut>>
        /\ \A m \in Messages : fetch[m].stage \in {"ok", "idle"} => fetch'[m] = fetch[m]
    BY <2>1, DownloadsDieKeeps
  <2>3. TurnTypes'
    BY <2>1, TurnAssumption DEF TurnTypes
  <2>4. ASSUME NEW t \in Turns
        PROVE  GateOk(t)'
    <3>1. GateOk(t) /\ (Namesake(t)' <=> Namesake(t))
      BY <2>2 DEF GateInv, Namesake
    <3>2. QED
      BY <2>1, <2>2, <3>1 DEF GateOk, ReadOk
  <2>5. QED
    BY <2>2, <2>3, <2>4 DEF GateInv
<1>11. ASSUME NEW m \in Messages, MediaStep(m)
       PROVE  Good
  <2>1. (UpstreamAnswers(m) \/ AskAgain(m)) /\ UNCHANGED <<phase, decision, path, seen, deaths>>
    BY <1>11 DEF MediaStep, turnVars
  <2>2. MediaInv' /\ MediaFrame(m) /\ fetch[m].stage \in Pending
    BY <2>1, UpstreamKeeps
  <2>3. m \in Turns
    BY TurnAssumption
  <2>4. TurnTypes'
    BY <2>1 DEF TurnTypes
  <2>5. GateOk(m) /\ decision[m] = "allow" /\ phase[m] # "cleared" /\ ~path[m] /\ seen[m] = Unread
    BY <2>2, <2>3 DEF GateInv, GateOk, Pending
  <2>6. GateOk(m)'
    BY <2>1, <2>5 DEF GateOk, ReadOk
  <2>7. GateInv'
    BY <2>1, <2>2, <2>3, <2>6, GateKeeps DEF MediaFrame
  <2>8. QED
    BY <2>2, <2>4, <2>7
<1>12. CASE UNCHANGED vars \/ (\E t \in Turns : DeliverStep(t) \/ Mishap(t)) \/ \E c \in Chats : SendStepOf(c)
  <2>1. UNCHANGED <<mediaVars, phase, decision, path, seen, deaths>>
    BY <1>12 DEF vars, turnVars, DeliverStep, Mishap, SendStepOf
  <2>2. TurnTypes'
    BY <2>1 DEF TurnTypes
  <2>3. GateInv'
    BY <1>b, <2>1 DEF GateInv, GateOk, ReadOk
  <2>4. QED
    BY <1>a, <2>1, <2>2, <2>3
<1> HIDE DEF Good
<1>13. CASE \E t \in Turns : TurnStep(t)
  BY <1>1, <1>2, <1>3, <1>4, <1>6, <1>7, <1>8, <1>9, <1>13 DEF TurnStep
<1>14. QED
  BY <1>3, <1>10, <1>11, <1>12, <1>13 DEF Next

-----------------------------------------------------------------------------
(* The jobs of a conversation.                                             *)

PartKinds == {"text", "quote"} \cup MediaParts
Jobs == [turn : Turns, part : Nat, stage : {"accepted", "calling", "pausing"},
         call : Nat, attempt : Nat]
CallIds == Nat \X Nat

\* A sequence without its entry k.
LEMMA RemoveFacts ==
  ASSUME NEW S, NEW s \in Seq(S), NEW k \in 1..Len(s)
  PROVE  /\ RemoveAt(s, k) \in Seq(S) /\ Len(RemoveAt(s, k)) = Len(s) - 1
         /\ \A i \in 1..Len(s) - 1 : RemoveAt(s, k)[i] = s[IF i < k THEN i ELSE i + 1]
<1> DEFINE n == Len(s)
           a == SubSeq(s, 1, k - 1)
           b == SubSeq(s, k + 1, n)
<1>1. n \in Nat /\ k \in 1..n /\ k - 1 \in Int /\ k + 1 \in Int
  BY LenProperties
<1>2. \A i \in 1..n : s[i] \in S
  BY ElementOfSeq
<1>3. (\A i \in 1 .. k - 1 : i \in 1..n) /\ (\A i \in k + 1 .. n : i \in 1..n)
  BY <1>1
<1>4. /\ a \in Seq(S) /\ Len(a) = (IF 1 <= k - 1 THEN k - 1 - 1 + 1 ELSE 0)
      /\ \A i \in 1 .. k - 1 - 1 + 1 : a[i] = s[1 + i - 1]
  BY <1>1, <1>2, <1>3, SubSeqProperties
<1>5. /\ b \in Seq(S) /\ Len(b) = (IF k + 1 <= n THEN n - (k + 1) + 1 ELSE 0)
      /\ \A i \in 1 .. n - (k + 1) + 1 : b[i] = s[k + 1 + i - 1]
  BY <1>1, <1>2, <1>3, SubSeqProperties
<1>6. RemoveAt(s, k) = a \o b
  BY DEF RemoveAt
<1> HIDE DEF n, a, b
<1>7. Len(a) = k - 1 /\ \A i \in 1..k - 1 : a[i] = s[i]
  BY <1>1, <1>4
<1>8. Len(b) = n - k /\ \A i \in 1..n - k : b[i] = s[k + i]
  BY <1>1, <1>5
<1>9. /\ a \o b \in Seq(S) /\ Len(a \o b) = Len(a) + Len(b)
      /\ \A i \in 1..Len(a) + Len(b) : (a \o b)[i] = IF i <= Len(a) THEN a[i] ELSE b[i - Len(a)]
  BY <1>4, <1>5, ConcatProperties
<1> DEFINE r == a \o b
<1> HIDE DEF r
<1>10. ASSUME NEW i \in 1..n - 1
       PROVE  r[i] = s[IF i < k THEN i ELSE i + 1]
  <2>1. r[i] = IF i <= k - 1 THEN a[i] ELSE b[i - (k - 1)]
    BY <1>1, <1>7, <1>8, <1>9 DEF r
  <2>2. CASE i < k
    <3>1. i <= k - 1 /\ i \in 1..k - 1
      BY <1>1, <2>2
    <3>2. QED
      BY <1>7, <2>1, <2>2, <3>1
  <2>3. CASE ~(i < k)
    <3>1. ~(i <= k - 1) /\ i - (k - 1) \in 1..n - k /\ k + (i - (k - 1)) = i + 1
      BY <1>1, <2>3
    <3>2. QED
      BY <1>8, <2>1, <2>3, <3>1
  <2>4. QED
    BY <2>2, <2>3
<1>11. Len(r) = n - 1
  BY <1>1, <1>7, <1>8, <1>9 DEF r
<1>12. QED
  BY <1>6, <1>9, <1>10, <1>11 DEF r, n

\* A part is one call, one with a caption two.
LEMMA CallsFacts ==
  ASSUME NEW p
  PROVE  /\ Len(Calls(p)) = (IF p = "captioned" THEN 2 ELSE 1)
         /\ DOMAIN Calls(p) = 1..(IF p = "captioned" THEN 2 ELSE 1)
<1> DEFINE x == Endpoint["image"]
           y == Endpoint["text"]
           z == Endpoint[p]
<1>1. CASE p = "captioned"
  <2>1. Calls(p) = <<x, y>>
    BY <1>1 DEF Calls
  <2> HIDE DEF x, y
  <2>2. QED
    BY <1>1, <2>1
<1>2. CASE p # "captioned"
  <2>1. Calls(p) = <<z>>
    BY <1>2 DEF Calls
  <2> HIDE DEF z
  <2>2. QED
    BY <1>2, <2>1
<1>3. QED
  BY <1>1, <1>2

ReplyTypes ==
  /\ parts \in [Turns -> Seq(PartKinds)] /\ sent \in [Turns -> Nat]
  /\ awaiting \in [Turns -> BOOLEAN] /\ jobs \in [Chats -> Seq(Jobs)]
  /\ posted \in [Turns -> Seq(CallIds)] /\ late \in [Turns -> SUBSET (Nat \X Nat \X Nat)]
  /\ refused \in [Turns -> SUBSET CallIds] /\ losses \in [Turns -> Nat]
  /\ brokeOff \in [Turns -> BOOLEAN]

\* A call of the reply of t.
IsCall(t, part, call) ==
  part \in 1..Len(parts[t]) /\ call \in 1..Len(Calls(parts[t][part]))

\* A job of the conversation c.
JobOk(c, job) ==
  /\ ChatOf[job.turn] = c /\ IsCall(job.turn, job.part, job.call)
  /\ job.attempt \in 0 .. Retries

\* What the adapter has done of a reply.
SentOk(t) == sent[t] <= Len(parts[t]) /\ (awaiting[t] => sent[t] < Len(parts[t]))

\* What the upstream executed of it, or may.
CallsOk(t) ==
  /\ \A j \in 1..Len(posted[t]) : IsCall(t, posted[t][j][1], posted[t][j][2])
  /\ \A a \in late[t] : IsCall(t, a[1], a[2])

\* There are parts only behind the verdict they belong to.
PartsOk(t) ==
  /\ phase[t] \in {"arrived"} \cup Allowed => parts[t] = <<>>
  /\ decision[t] \in {"none", "block"} => parts[t] = <<>>
  /\ decision[t] = "pairing" => parts[t] \in Challenges

JobsInv == \A c \in Chats : \A k \in 1..Len(jobs[c]) : JobOk(c, jobs[c][k])
ReplyInv == ReplyTypes /\ JobsInv /\ \A t \in Turns : SentOk(t) /\ CallsOk(t) /\ PartsOk(t)

\* The job k of c becomes job.
Becomes(c, k, job) == jobs' = [jobs EXCEPT ![c][k] = job] /\ UNCHANGED <<sent, awaiting>>
At(job, stage, call, attempt) == [job EXCEPT !.stage = stage, !.call = call, !.attempt = attempt]

\* A job at another stage is a job of the same part.
LEMMA AtFacts ==
  ASSUME NEW job \in Jobs, NEW stage \in {"accepted", "calling", "pausing"},
         NEW call \in Nat, NEW attempt \in Nat
  PROVE  /\ At(job, stage, call, attempt) \in Jobs
         /\ At(job, stage, call, attempt).turn = job.turn
         /\ At(job, stage, call, attempt).part = job.part
         /\ At(job, stage, call, attempt).call = call
         /\ At(job, stage, call, attempt).attempt = attempt
BY DEF Jobs, At

\* The jobs of every conversation when one of them moves on.
LEMMA BecomesFacts ==
  ASSUME ReplyTypes, NEW c \in Chats, NEW k \in DOMAIN jobs[c], NEW job \in Jobs, Becomes(c, k, job)
  PROVE  /\ jobs' \in [Chats -> Seq(Jobs)] /\ Len(jobs'[c]) = Len(jobs[c])
         /\ \A d \in Chats \ {c} : jobs'[d] = jobs[d]
         /\ \A i \in 1..Len(jobs[c]) : jobs'[c][i] = IF i = k THEN job ELSE jobs[c][i]
         /\ k \in 1..Len(jobs[c]) /\ Len(jobs[c]) \in Nat /\ jobs[c][k] \in Jobs
         /\ UNCHANGED <<sent, awaiting>>
<1> DEFINE s == jobs[c]
           q == [s EXCEPT ![k] = job]
<1>1. s \in Seq(Jobs) /\ k \in 1..Len(s) /\ Len(s) \in Nat
  <2>1. s \in Seq(Jobs)
    BY DEF ReplyTypes
  <2>2. DOMAIN s = 1..Len(s)
    BY <2>1, LenProperties
  <2>3. QED
    BY <2>1, <2>2, LenProperties
<1>2. s[k] \in Jobs
  BY <1>1, ElementOfSeq
<1>3. jobs' = [jobs EXCEPT ![c] = q] /\ UNCHANGED <<sent, awaiting>>
  BY DEF Becomes
<1> HIDE DEF s
<1>4. q \in Seq(Jobs) /\ Len(q) = Len(s) /\ \A i \in 1..Len(s) : q[i] = IF i = k THEN job ELSE s[i]
  BY <1>1
<1> HIDE DEF q
<1>5. jobs'[c] = q /\ \A d \in Chats \ {c} : jobs'[d] = jobs[d]
  BY <1>3 DEF ReplyTypes
<1>6. jobs' \in [Chats -> Seq(Jobs)]
  BY <1>3, <1>4 DEF ReplyTypes
<1>7. QED
  BY <1>1, <1>2, <1>3, <1>4, <1>5, <1>6 DEF s

\* The job k of c is answered.
LEMMA AnswerFacts ==
  ASSUME ReplyTypes, NEW c \in Chats, NEW k \in DOMAIN jobs[c], Answer(c, k)
  PROVE  LET t == jobs[c][k].turn IN
         /\ jobs' \in [Chats -> Seq(Jobs)] /\ Len(jobs'[c]) = Len(jobs[c]) - 1
         /\ \A d \in Chats \ {c} : jobs'[d] = jobs[d]
         /\ \A i \in 1..Len(jobs[c]) - 1 : jobs'[c][i] = jobs[c][IF i < k THEN i ELSE i + 1]
         /\ k \in 1..Len(jobs[c]) /\ Len(jobs[c]) \in Nat /\ jobs[c][k] \in Jobs /\ t \in Turns
         /\ sent' \in [Turns -> Nat] /\ awaiting' \in [Turns -> BOOLEAN]
         /\ \A e \in Turns \ {t} : sent'[e] = sent[e] /\ awaiting'[e] = awaiting[e]
         /\ IF awaiting[t] /\ sent[t] + 1 = jobs[c][k].part
            THEN ~awaiting'[t] /\ sent'[t] = sent[t] + 1
            ELSE awaiting'[t] = awaiting[t] /\ sent'[t] = sent[t]
<1> DEFINE s == jobs[c]
           q == RemoveAt(s, k)
           t == s[k].turn
           awaited == awaiting[t] /\ sent[t] + 1 = s[k].part
<1>1. s \in Seq(Jobs) /\ k \in 1..Len(s) /\ Len(s) \in Nat
  <2>1. s \in Seq(Jobs)
    BY DEF ReplyTypes
  <2>2. DOMAIN s = 1..Len(s)
    BY <2>1, LenProperties
  <2>3. QED
    BY <2>1, <2>2, LenProperties
<1>2. s[k] \in Jobs
  BY <1>1, ElementOfSeq
<1>3. t \in Turns
  BY <1>2 DEF Jobs
<1>4. /\ jobs' = [jobs EXCEPT ![c] = q]
      /\ awaiting' = (IF awaited THEN [awaiting EXCEPT ![t] = FALSE] ELSE awaiting)
      /\ sent' = (IF awaited THEN [sent EXCEPT ![t] = sent[t] + 1] ELSE sent)
  BY DEF Answer
<1> HIDE DEF s
<1>5. q \in Seq(Jobs) /\ Len(q) = Len(s) - 1 /\ \A i \in 1..Len(s) - 1 : q[i] = s[IF i < k THEN i ELSE i + 1]
  BY <1>1, RemoveFacts
<1> HIDE DEF q
<1>6. jobs'[c] = q /\ (\A d \in Chats \ {c} : jobs'[d] = jobs[d]) /\ jobs' \in [Chats -> Seq(Jobs)]
  BY <1>4, <1>5 DEF ReplyTypes
<1> HIDE DEF t
<1>7. /\ sent' \in [Turns -> Nat] /\ awaiting' \in [Turns -> BOOLEAN]
      /\ \A e \in Turns \ {t} : sent'[e] = sent[e] /\ awaiting'[e] = awaiting[e]
      /\ IF awaited THEN ~awaiting'[t] /\ sent'[t] = sent[t] + 1
         ELSE awaiting'[t] = awaiting[t] /\ sent'[t] = sent[t]
  <2>1. CASE awaited
    <3>1. awaiting' = [awaiting EXCEPT ![t] = FALSE] /\ sent' = [sent EXCEPT ![t] = sent[t] + 1]
      BY <1>4, <2>1
    <3>2. QED
      BY <1>3, <2>1, <3>1 DEF ReplyTypes
  <2>2. CASE ~awaited
    <3>1. awaiting' = awaiting /\ sent' = sent
      BY <1>4, <2>2
    <3>2. QED
      BY <2>2, <3>1 DEF ReplyTypes
  <2>3. QED
    BY <2>1, <2>2
<1>8. QED
  BY <1>1, <1>2, <1>3, <1>5, <1>6, <1>7 DEF s, t

-----------------------------------------------------------------------------
(* The types of a reply.                                                   *)

\* What a step of the job k of c tells of the upstream.
Told(c, k) ==
  LET job == jobs[c][k] t == job.turn IN
  /\ posted' = posted \/ posted' = [posted EXCEPT ![t] = Append(@, CallId(job))]
  /\ late' = late \/ late' = [late EXCEPT ![t] = @ \cup {<<job.part, job.call, job.attempt>>}]
  /\ refused' = refused \/ refused' = [refused EXCEPT ![t] = @ \cup {CallId(job)}]
  /\ losses' = losses \/ losses' = [losses EXCEPT ![t] = @ + 1]
  /\ UNCHANGED <<parts, brokeOff>>

\* The types of a job in hand.
LEMMA JobFacts ==
  ASSUME ReplyInv, NEW c \in Chats, NEW k \in DOMAIN jobs[c]
  PROVE  /\ k \in 1..Len(jobs[c]) /\ Len(jobs[c]) \in Nat
         /\ jobs[c][k] \in Jobs /\ JobOk(c, jobs[c][k]) /\ jobs[c][k].turn \in Turns
         /\ jobs[c][k].part \in Nat /\ jobs[c][k].call \in Nat /\ jobs[c][k].attempt \in Nat
<1> DEFINE s == jobs[c]
<1>1. s \in Seq(Jobs)
  BY DEF ReplyInv, ReplyTypes
<1>2. DOMAIN s = 1..Len(s) /\ Len(s) \in Nat
  BY <1>1, LenProperties
<1>3. k \in 1..Len(s)
  BY <1>2
<1>4. s[k] \in Jobs
  BY <1>1, <1>3, ElementOfSeq
<1>5. JobOk(c, s[k])
  BY <1>3 DEF ReplyInv, JobsInv
<1>6. s[k].turn \in Turns /\ s[k].part \in Nat /\ s[k].call \in Nat /\ s[k].attempt \in Nat
  BY <1>4 DEF Jobs
<1>7. QED
  BY <1>2, <1>3, <1>4, <1>5, <1>6

\* A send makes its calls, is asked again, or is answered.
LEMMA JobSteps ==
  ASSUME ReplyInv, NEW c \in Chats, NEW k \in DOMAIN jobs[c],
         MediaUnavailable(c, k) \/ Call(c, k) \/ Attempt(c, k)
  PROVE  /\ k \in Active(c) /\ Told(c, k)
         /\ Answer(c, k) \/ \E job \in Jobs : Becomes(c, k, job) /\ JobOk(c, job) /\ job.turn = jobs[c][k].turn
<1>1. MediaUnavailable(c, k) \/ Call(c, k) \/ Attempt(c, k)
  OBVIOUS
<1> DEFINE job == jobs[c][k]
<1>2. /\ job \in Jobs /\ JobOk(c, job) /\ job.part \in Nat /\ job.call \in Nat /\ job.attempt \in Nat
      /\ Retries \in Nat
  BY JobFacts, ReplyAssumption
<1>3. k \in Active(c)
  BY <1>1 DEF MediaUnavailable, Call, Attempt, CallSucceeds, CallRefused, CallLost
<1>4. Told(c, k)
  BY <1>1 DEF Told, MediaUnavailable, Call, Attempt, CallSucceeds, CallRefused, CallLost
<1>5. CASE MediaUnavailable(c, k) \/ CallRefused(c, k)
  BY <1>3, <1>4, <1>5 DEF MediaUnavailable, CallRefused
<1>6. CASE Call(c, k)
  <2> DEFINE call == job.call
             attempt == job.attempt
             j == At(job, "calling", call, attempt)
  <2>1. Becomes(c, k, j)
    BY <1>6 DEF Call, Goes, Becomes, At
  <2> HIDE DEF job
  <2>2. j \in Jobs /\ j.turn = job.turn /\ j.part = job.part /\ j.call = call /\ j.attempt = attempt
    <3>1. call \in Nat /\ attempt \in Nat /\ job \in Jobs
      BY <1>2
    <3> HIDE DEF call, attempt
    <3>2. QED
      BY <3>1, AtFacts
  <2>3. JobOk(c, j)
    BY <1>2, <2>2 DEF JobOk
  <2>4. QED
    BY <1>3, <1>4, <2>1, <2>2, <2>3 DEF job
<1>7. CASE CallSucceeds(c, k)
  <2> DEFINE call == job.call + 1
             j == At(job, "accepted", call, 0)
  <2>1. IF job.call < Len(Calls(Kind(job))) THEN Becomes(c, k, j) ELSE Answer(c, k)
    BY <1>7 DEF CallSucceeds, Goes, Becomes, At
  <2>2. CASE job.call < Len(Calls(Kind(job)))
    <3>1. Becomes(c, k, j)
      BY <2>1, <2>2
    <3> HIDE DEF job
    <3>2. j \in Jobs /\ j.turn = job.turn /\ j.part = job.part /\ j.call = call /\ j.attempt = 0
      <4>1. call \in Nat /\ 0 \in Nat /\ job \in Jobs
        BY <1>2
      <4> HIDE DEF call
      <4>2. QED
        BY <4>1, AtFacts
    <3>3. Len(Calls(Kind(job))) \in Nat
      BY CallsFacts
    <3>4. job.call + 1 \in 1..Len(Calls(parts[job.turn][job.part]))
      BY <1>2, <2>2, <3>3 DEF Kind
    <3>5. JobOk(c, j)
      BY SMTT(30), <1>2, <3>2, <3>4 DEF JobOk, IsCall
    <3>6. QED
      BY <1>3, <1>4, <3>1, <3>2, <3>5 DEF job
  <2>3. CASE ~(job.call < Len(Calls(Kind(job))))
    BY <1>3, <1>4, <2>1, <2>3
  <2>4. QED
    BY <2>2, <2>3
<1>8. CASE \E fate \in {"executed", "late", "never"} : CallLost(c, k, fate)
  <2> DEFINE call == job.call
             attempt == job.attempt + 1
             j == At(job, "pausing", call, attempt)
  <2>1. IF job.attempt < Retries THEN Becomes(c, k, j) ELSE Answer(c, k)
    BY <1>8 DEF CallLost, Goes, Becomes, At
  <2>2. CASE job.attempt < Retries
    <3>1. Becomes(c, k, j)
      BY <2>1, <2>2
    <3> HIDE DEF job
    <3>2. j \in Jobs /\ j.turn = job.turn /\ j.part = job.part /\ j.call = call /\ j.attempt = attempt
      <4>1. call \in Nat /\ attempt \in Nat /\ job \in Jobs
        BY <1>2
      <4> HIDE DEF call, attempt
      <4>2. QED
        BY <4>1, AtFacts
    <3>3. JobOk(c, j)
      BY <1>2, <2>2, <3>2 DEF JobOk
    <3>4. QED
      BY <1>3, <1>4, <3>1, <3>2, <3>3 DEF job
  <2>3. CASE ~(job.attempt < Retries)
    BY <1>3, <1>4, <2>1, <2>3
  <2>4. QED
    BY <2>2, <2>3
<1>9. QED
  BY <1>1, <1>5, <1>6, <1>7, <1>8 DEF Attempt

\* A verdict on a call, or the want of one, keeps the calls to those of the reply.
LEMMA ToldKeeps ==
  ASSUME ReplyInv, NEW c \in Chats, NEW k \in DOMAIN jobs[c], Told(c, k)
  PROVE  /\ posted' \in [Turns -> Seq(CallIds)] /\ late' \in [Turns -> SUBSET (Nat \X Nat \X Nat)]
         /\ refused' \in [Turns -> SUBSET CallIds] /\ losses' \in [Turns -> Nat]
         /\ UNCHANGED <<parts, brokeOff>> /\ \A e \in Turns : CallsOk(e)'
<1> DEFINE job == jobs[c][k]
           t == job.turn
           x == <<job.part, job.call>>
           y == <<job.part, job.call, job.attempt>>
<1>1. t \in Turns /\ IsCall(t, job.part, job.call) /\ x \in CallIds /\ y \in Nat \X Nat \X Nat
  BY JobFacts DEF JobOk, CallIds
<1>2. /\ posted' = posted \/ posted' = [posted EXCEPT ![t] = Append(posted[t], x)]
      /\ late' = late \/ late' = [late EXCEPT ![t] = late[t] \cup {y}]
      /\ refused' = refused \/ refused' = [refused EXCEPT ![t] = refused[t] \cup {x}]
      /\ losses' = losses \/ losses' = [losses EXCEPT ![t] = losses[t] + 1]
      /\ UNCHANGED <<parts, brokeOff>>
  BY DEF Told, CallId
<1>3. x[1] = job.part /\ x[2] = job.call /\ y[1] = job.part /\ y[2] = job.call
  OBVIOUS
<1>4. /\ posted[t] \in Seq(CallIds) /\ late[t] \in SUBSET (Nat \X Nat \X Nat)
      /\ refused[t] \in SUBSET CallIds /\ losses[t] \in Nat
  BY <1>1 DEF ReplyInv, ReplyTypes
<1> HIDE DEF job, t, x, y
<1>5. /\ Append(posted[t], x) \in Seq(CallIds) /\ Len(Append(posted[t], x)) = Len(posted[t]) + 1
      /\ \A i \in 1..Len(posted[t]) : Append(posted[t], x)[i] = posted[t][i]
      /\ Append(posted[t], x)[Len(posted[t]) + 1] = x /\ Len(posted[t]) \in Nat
  BY <1>1, <1>4, AppendProperties, LenProperties
<1>6. posted' \in [Turns -> Seq(CallIds)]
  BY <1>1, <1>2, <1>5 DEF ReplyInv, ReplyTypes
<1>7. late' \in [Turns -> SUBSET (Nat \X Nat \X Nat)]
  <2> DEFINE all == SUBSET (Nat \X Nat \X Nat)
             new == late[t] \cup {y}
  <2>1. new \in all
    BY <1>1, <1>4
  <2>2. late \in [Turns -> all] /\ (late' = late \/ late' = [late EXCEPT ![t] = new])
    BY <1>2 DEF ReplyInv, ReplyTypes
  <2> HIDE DEF all, new
  <2>3. late' \in [Turns -> all]
    BY <2>1, <2>2
  <2>4. QED
    BY <2>3 DEF all
<1>8. refused' \in [Turns -> SUBSET CallIds] /\ losses' \in [Turns -> Nat]
  <2> DEFINE new == refused[t] \cup {x}
  <2>1. new \in SUBSET CallIds
    BY <1>1, <1>4
  <2>2. refused \in [Turns -> SUBSET CallIds] /\ (refused' = refused \/ refused' = [refused EXCEPT ![t] = new])
    BY <1>2 DEF ReplyInv, ReplyTypes
  <2> HIDE DEF new
  <2>3. refused' \in [Turns -> SUBSET CallIds]
    BY <2>1, <2>2
  <2>4. losses' \in [Turns -> Nat]
    BY <1>2, <1>4 DEF ReplyInv, ReplyTypes
  <2>5. QED
    BY <2>3, <2>4
<1>9. ASSUME NEW e \in Turns
      PROVE  CallsOk(e)'
  <2>1. CallsOk(e) /\ \A p, n : IsCall(e, p, n)' <=> IsCall(e, p, n)
    BY <1>2 DEF ReplyInv, IsCall
  <2>2. ASSUME NEW j \in 1..Len(posted'[e])
        PROVE  IsCall(e, posted'[e][j][1], posted'[e][j][2])
    <3>1. CASE posted'[e] = posted[e]
      BY <2>1, <3>1 DEF CallsOk
    <3>2. CASE e = t /\ posted'[t] = Append(posted[t], x)
      <4>1. j \in 1..Len(posted[t]) \/ j = Len(posted[t]) + 1
        BY <1>5, <3>2
      <4>2. CASE j \in 1..Len(posted[t])
        BY <1>5, <2>1, <3>2, <4>2 DEF CallsOk
      <4>3. CASE j = Len(posted[t]) + 1
        BY <1>1, <1>3, <1>5, <3>2, <4>3
      <4>4. QED
        BY <4>1, <4>2, <4>3
    <3>3. posted'[e] = posted[e] \/ (e = t /\ posted'[t] = Append(posted[t], x))
      BY <1>1, <1>2 DEF ReplyInv, ReplyTypes
    <3>4. QED
      BY <3>1, <3>2, <3>3
  <2>3. ASSUME NEW a \in late'[e]
        PROVE  IsCall(e, a[1], a[2])
    <3>1. a \in late[e] \/ (e = t /\ a = y)
      BY <1>1, <1>2 DEF ReplyInv, ReplyTypes
    <3>2. QED
      BY <1>1, <1>3, <2>1, <3>1 DEF CallsOk
  <2>4. QED
    BY <2>1, <2>2, <2>3 DEF CallsOk
<1>10. QED
  BY <1>2, <1>6, <1>7, <1>8, <1>9

\* Every step of the send path keeps the invariant of the replies.
LEMMA SendKeeps ==
  ASSUME ReplyInv, NEW c \in Chats, SendStep(c), UNCHANGED <<phase, decision>>
  PROVE  ReplyInv'
<1>1. PICK k \in DOMAIN jobs[c] :
        /\ Told(c, k)
        /\ Answer(c, k) \/ \E j \in Jobs : Becomes(c, k, j) /\ JobOk(c, j) /\ j.turn = jobs[c][k].turn
  BY JobSteps DEF SendStep
<1>2. /\ posted' \in [Turns -> Seq(CallIds)] /\ late' \in [Turns -> SUBSET (Nat \X Nat \X Nat)]
      /\ refused' \in [Turns -> SUBSET CallIds] /\ losses' \in [Turns -> Nat]
      /\ UNCHANGED <<parts, brokeOff>> /\ \A e \in Turns : CallsOk(e)'
  BY <1>1, ToldKeeps
<1>3. ReplyTypes
  BY DEF ReplyInv
<1>4. \A d, j : JobOk(d, j)' <=> JobOk(d, j)
  BY <1>2 DEF JobOk, IsCall
<1>5. \A t \in Turns : PartsOk(t)'
  BY <1>2 DEF ReplyInv, PartsOk
<1>6. CASE Answer(c, k)
  <2> DEFINE t == jobs[c][k].turn
             n == Len(jobs[c])
  <2>1. /\ jobs' \in [Chats -> Seq(Jobs)] /\ Len(jobs'[c]) = n - 1 /\ n \in Nat /\ k \in 1..n
        /\ \A d \in Chats \ {c} : jobs'[d] = jobs[d]
        /\ \A i \in 1..n - 1 : jobs'[c][i] = jobs[c][IF i < k THEN i ELSE i + 1]
        /\ t \in Turns /\ sent' \in [Turns -> Nat] /\ awaiting' \in [Turns -> BOOLEAN]
        /\ \A e \in Turns \ {t} : sent'[e] = sent[e] /\ awaiting'[e] = awaiting[e]
        /\ IF awaiting[t] /\ sent[t] + 1 = jobs[c][k].part
           THEN ~awaiting'[t] /\ sent'[t] = sent[t] + 1
           ELSE awaiting'[t] = awaiting[t] /\ sent'[t] = sent[t]
    BY SMTT(30), <1>3, <1>6, AnswerFacts
  <2> HIDE DEF t, n
  <2>2. ASSUME NEW i \in 1..n - 1
        PROVE  JobOk(c, jobs'[c][i])
    <3>1. (IF i < k THEN i ELSE i + 1) \in 1..n
      BY <2>1
    <3>2. QED
      BY <2>1, <3>1 DEF ReplyInv, JobsInv, n
  <2>3. JobsInv'
    BY <1>4, <2>1, <2>2 DEF ReplyInv, JobsInv
  <2>4. ASSUME NEW e \in Turns
        PROVE  SentOk(e)'
    <3>1. SentOk(e) /\ parts'[e] = parts[e] /\ Len(parts[e]) \in Nat /\ sent[e] \in Nat
      <4>1. parts[e] \in Seq(PartKinds) /\ sent[e] \in Nat
        BY <1>3 DEF ReplyTypes
      <4>2. QED
        BY <1>2, <4>1, LenProperties DEF ReplyInv
    <3>2. CASE e # t
      BY <2>1, <3>1, <3>2 DEF SentOk
    <3>3. CASE e = t /\ awaiting[t] /\ sent[t] + 1 = jobs[c][k].part
      <4>1. ~awaiting'[t] /\ sent'[t] = sent[t] + 1
        BY <2>1, <3>3
      <4>2. sent[t] < Len(parts[t])
        BY <3>1, <3>3 DEF SentOk
      <4>3. QED
        BY <3>1, <3>3, <4>1, <4>2 DEF SentOk
    <3>4. CASE e = t /\ ~(awaiting[t] /\ sent[t] + 1 = jobs[c][k].part)
      <4>1. awaiting'[t] = awaiting[t] /\ sent'[t] = sent[t]
        BY <2>1, <3>4
      <4>2. QED
        BY <3>1, <3>4, <4>1 DEF SentOk
    <3>5. QED
      BY <3>2, <3>3, <3>4
  <2>5. ReplyTypes'
    BY <1>2, <1>3, <2>1 DEF ReplyTypes
  <2>6. QED
    BY <1>2, <1>5, <2>3, <2>4, <2>5 DEF ReplyInv
<1>7. CASE \E j \in Jobs : Becomes(c, k, j) /\ JobOk(c, j)
  <2>1. PICK j \in Jobs : Becomes(c, k, j) /\ JobOk(c, j)
    BY <1>7
  <2>2. /\ jobs' \in [Chats -> Seq(Jobs)] /\ Len(jobs'[c]) = Len(jobs[c])
        /\ \A d \in Chats \ {c} : jobs'[d] = jobs[d]
        /\ \A i \in 1..Len(jobs[c]) : jobs'[c][i] = IF i = k THEN j ELSE jobs[c][i]
        /\ UNCHANGED <<sent, awaiting>>
    BY <1>3, <2>1, BecomesFacts
  <2>3. JobsInv'
    <3>1. ASSUME NEW i \in 1..Len(jobs[c])
          PROVE  JobOk(c, jobs'[c][i])
      BY <2>1, <2>2 DEF ReplyInv, JobsInv
    <3>2. QED
      BY <1>4, <2>2, <3>1 DEF ReplyInv, JobsInv
  <2>4. ReplyTypes'
    BY <1>2, <1>3, <2>2 DEF ReplyTypes
  <2>5. \A t \in Turns : SentOk(t)'
    BY <1>2, <2>2 DEF ReplyInv, SentOk
  <2>6. QED
    BY <1>2, <1>5, <2>3, <2>4, <2>5 DEF ReplyInv
<1>8. QED
  BY <1>1, <1>6, <1>7

\* So does a step that leaves the send path alone.
LEMMA ReplySame ==
  ASSUME ReplyInv, UNCHANGED replyVars, \A t \in Turns : PartsOk(t)'
  PROVE  ReplyInv'
<1>1. UNCHANGED <<parts, sent, awaiting, jobs, posted, late, refused, losses, brokeOff>>
  BY DEF replyVars
<1>2. ReplyTypes' /\ JobsInv'
  BY <1>1 DEF ReplyInv, ReplyTypes, JobsInv, JobOk, IsCall
<1>3. \A t \in Turns : SentOk(t)' /\ CallsOk(t)'
  BY <1>1 DEF ReplyInv, SentOk, CallsOk, IsCall
<1>4. QED
  BY <1>2, <1>3 DEF ReplyInv

\* A turn without parts has nothing on its way; it is given some.
LEMMA PartsGiven ==
  ASSUME ReplyInv, NEW t \in Turns, parts[t] = <<>>, NEW r \in Seq(PartKinds),
         parts' = [parts EXCEPT ![t] = r], \A e \in Turns : PartsOk(e)',
         UNCHANGED <<sent, awaiting, jobs, posted, late, refused, losses, brokeOff>>
  PROVE  ReplyInv'
<1>1. /\ parts'[t] = r /\ \A e \in Turns \ {t} : parts'[e] = parts[e]
      /\ Len(<<>>) = 0 /\ Len(r) \in Nat /\ sent[t] \in Nat
  <2>1. Len(<<>>) = 0 /\ Len(r) \in Nat
    BY LenProperties
  <2>2. QED
    BY <2>1 DEF ReplyInv, ReplyTypes
<1>2. ReplyTypes'
  BY DEF ReplyInv, ReplyTypes
<1>3. \A p, n : ~IsCall(t, p, n)
  BY <1>1 DEF IsCall
<1>4. \A e \in Turns : \A p, n : IsCall(e, p, n) => IsCall(e, p, n)'
  BY <1>1, <1>3 DEF IsCall
<1>5. JobsInv'
  <2>1. ASSUME NEW c \in Chats, NEW k \in 1..Len(jobs[c])
        PROVE  JobOk(c, jobs[c][k])'
    <3>1. JobOk(c, jobs[c][k])
      BY DEF ReplyInv, JobsInv
    <3>2. jobs[c][k] \in Jobs
      BY ElementOfSeq DEF ReplyInv, ReplyTypes
    <3>3. jobs[c][k].turn \in Turns
      BY <3>2 DEF Jobs
    <3>4. QED
      BY <1>4, <3>1, <3>3 DEF JobOk
  <2>2. QED
    BY <2>1 DEF JobsInv
<1>6. ASSUME NEW e \in Turns
      PROVE  SentOk(e)' /\ CallsOk(e)'
  <2>1. SentOk(e) /\ CallsOk(e)
    BY DEF ReplyInv
  <2>2. CallsOk(e)'
    BY <1>4, <2>1 DEF CallsOk
  <2>3. SentOk(e)'
    <3>1. CASE e # t
      BY <1>1, <2>1, <3>1 DEF SentOk
    <3>2. CASE e = t
      BY <1>1, <2>1, <3>2 DEF SentOk
    <3>3. QED
      BY <3>1, <3>2
  <2>4. QED
    BY <2>2, <2>3
<1>7. QED
  BY <1>2, <1>5, <1>6 DEF ReplyInv

\* The adapter posts a part.
LEMMA DeliverKeeps ==
  ASSUME ReplyInv, NEW t \in Turns, Deliver(t), UNCHANGED <<phase, decision>>
  PROVE  ReplyInv'
<1> DEFINE c == ChatOf[t]
           job == [turn |-> t, part |-> sent[t] + 1, stage |-> "accepted", call |-> 1, attempt |-> 0]
           s == jobs[c]
           q == Append(s, job)
<1>1. /\ ~awaiting[t] /\ sent[t] < Len(parts[t])
      /\ awaiting' = [awaiting EXCEPT ![t] = TRUE] /\ jobs' = [jobs EXCEPT ![c] = q]
      /\ UNCHANGED <<parts, sent, posted, late, refused, losses, brokeOff>>
  BY DEF Deliver, MayDeliver
<1>2. c \in Chats /\ s \in Seq(Jobs) /\ sent[t] \in Nat /\ Len(parts[t]) \in Nat /\ Retries \in Nat
  <2>1. parts[t] \in Seq(PartKinds)
    BY DEF ReplyInv, ReplyTypes
  <2>2. c \in Chats
    BY ReplyAssumption
  <2>3. QED
    BY <2>1, <2>2, LenProperties, ReplyAssumption DEF ReplyInv, ReplyTypes
<1>3. job \in Jobs /\ job.turn = t /\ job.part = sent[t] + 1 /\ job.call = 1 /\ job.attempt = 0
  BY <1>2 DEF Jobs
<1> HIDE DEF job
<1>4. JobOk(c, job)
  <2>1. sent[t] + 1 \in 1..Len(parts[t])
    BY <1>1, <1>2
  <2>2. 1 \in 1..Len(Calls(parts[t][sent[t] + 1]))
    BY CallsFacts
  <2>3. QED
    BY <1>2, <1>3, <2>1, <2>2 DEF JobOk, IsCall
<1> HIDE DEF c, s
<1>5. /\ q \in Seq(Jobs) /\ Len(q) = Len(s) + 1 /\ Len(s) \in Nat
      /\ \A i \in 1..Len(s) : q[i] = s[i]
      /\ q[Len(s) + 1] = job
  BY <1>2, <1>3, AppendProperties, LenProperties
<1> HIDE DEF q
<1>6. jobs'[c] = q /\ \A d \in Chats \ {c} : jobs'[d] = jobs[d]
  BY <1>1, <1>2 DEF ReplyInv, ReplyTypes
<1>7. \A d, j : JobOk(d, j)' <=> JobOk(d, j)
  BY <1>1 DEF JobOk, IsCall
<1>8. JobsInv'
  <2>1. ASSUME NEW i \in 1..Len(q)
        PROVE  JobOk(c, q[i])
    <3>1. i \in 1..Len(s) \/ i = Len(s) + 1
      BY <1>5
    <3>2. QED
      BY <1>2, <1>4, <1>5, <3>1 DEF ReplyInv, JobsInv, s
  <2>2. QED
    BY <1>6, <1>7, <2>1 DEF ReplyInv, JobsInv
<1>9. ReplyTypes'
  BY <1>1, <1>2, <1>5 DEF ReplyInv, ReplyTypes
<1>10. \A e \in Turns : SentOk(e)' /\ CallsOk(e)' /\ PartsOk(e)'
  BY <1>1 DEF ReplyInv, ReplyTypes, SentOk, CallsOk, IsCall, PartsOk
<1>11. QED
  BY <1>8, <1>9, <1>10 DEF ReplyInv

\* A part is refused, or its wait breaks off.
LEMMA PassedOver ==
  ASSUME ReplyInv, NEW t \in Turns, DeliveryRefused(t) \/ WaitBreaks(t), UNCHANGED <<phase, decision>>
  PROVE  ReplyInv'
<1>1. /\ sent[t] < Len(parts[t]) /\ sent' = [sent EXCEPT ![t] = sent[t] + 1]
      /\ \/ ~awaiting[t] /\ UNCHANGED <<awaiting, brokeOff>>
         \/ awaiting' = [awaiting EXCEPT ![t] = FALSE] /\ brokeOff' = [brokeOff EXCEPT ![t] = TRUE]
      /\ UNCHANGED <<parts, jobs, posted, late, refused, losses>>
  BY DEF DeliveryRefused, MayDeliver, WaitBreaks, ReplyInv, SentOk
<1>2. sent[t] \in Nat /\ Len(parts[t]) \in Nat
  <2>1. parts[t] \in Seq(PartKinds)
    BY DEF ReplyInv, ReplyTypes
  <2>2. QED
    BY <2>1, LenProperties DEF ReplyInv, ReplyTypes
<1>3. ReplyTypes'
  <2>1. ReplyTypes /\ sent' \in [Turns -> Nat]
    BY <1>1, <1>2 DEF ReplyInv, ReplyTypes
  <2>2. awaiting' \in [Turns -> BOOLEAN] /\ brokeOff' \in [Turns -> BOOLEAN]
    <3>1. CASE UNCHANGED <<awaiting, brokeOff>>
      BY <2>1, <3>1 DEF ReplyTypes
    <3>2. CASE awaiting' = [awaiting EXCEPT ![t] = FALSE] /\ brokeOff' = [brokeOff EXCEPT ![t] = TRUE]
      BY <2>1, <3>2 DEF ReplyTypes
    <3>3. QED
      BY <1>1, <3>1, <3>2
  <2>3. UNCHANGED <<parts, jobs, posted, late, refused, losses>>
    BY <1>1
  <2>4. QED
    BY <2>1, <2>2, <2>3 DEF ReplyTypes
<1>4. JobsInv' /\ \A e \in Turns : CallsOk(e)' /\ PartsOk(e)'
  BY <1>1 DEF ReplyInv, JobsInv, JobOk, CallsOk, IsCall, PartsOk
<1>5. ASSUME NEW e \in Turns
      PROVE  SentOk(e)'
  <2>1. CASE e # t
    BY <1>1, <2>1 DEF ReplyInv, ReplyTypes, SentOk
  <2>2. CASE e = t
    <3>1. sent'[t] = sent[t] + 1 /\ ~awaiting'[t]
      BY <1>1 DEF ReplyInv, ReplyTypes
    <3>2. QED
      BY <1>1, <1>2, <2>2, <3>1 DEF SentOk
  <2>3. QED
    BY <2>1, <2>2
<1>6. QED
  BY <1>3, <1>4, <1>5 DEF ReplyInv

\* An attempt given up is executed after all.
LEMMA LateKeeps ==
  ASSUME ReplyInv, NEW t \in Turns, LateExecution(t), UNCHANGED <<phase, decision>>
  PROVE  ReplyInv'
<1>1. PICK a \in late[t] : /\ late' = [late EXCEPT ![t] = late[t] \ {a}]
                           /\ posted' = [posted EXCEPT ![t] = Append(posted[t], <<a[1], a[2]>>)]
  BY DEF LateExecution
<1>2. UNCHANGED <<parts, sent, awaiting, jobs, refused, losses, brokeOff>>
  BY DEF LateExecution
<1> DEFINE x == <<a[1], a[2]>>
           s == posted[t]
           q == Append(s, x)
           l == late[t] \ {a}
           all == SUBSET (Nat \X Nat \X Nat)
<1>3. /\ s \in Seq(CallIds) /\ late[t] \in all /\ late \in [Turns -> all]
      /\ posted \in [Turns -> Seq(CallIds)] /\ a \in Nat \X Nat \X Nat
  BY DEF ReplyInv, ReplyTypes
<1>4. x \in CallIds /\ x[1] = a[1] /\ x[2] = a[2] /\ l \in all
  BY <1>3 DEF CallIds
<1>5. IsCall(t, a[1], a[2])
  BY DEF ReplyInv, CallsOk
<1> HIDE DEF x, s, l, all
<1>6. /\ q \in Seq(CallIds) /\ Len(q) = Len(s) + 1 /\ Len(s) \in Nat
      /\ \A i \in 1..Len(s) : q[i] = s[i]
      /\ q[Len(s) + 1] = x
  BY <1>3, <1>4, AppendProperties, LenProperties
<1>7. posted' = [posted EXCEPT ![t] = q] /\ late' = [late EXCEPT ![t] = l]
  BY <1>1 DEF q, s, x, l
<1> HIDE DEF q
<1>8. posted' \in [Turns -> Seq(CallIds)] /\ posted'[t] = q /\ \A e \in Turns \ {t} : posted'[e] = posted[e]
  BY <1>3, <1>6, <1>7
<1>9. late' \in [Turns -> all] /\ late'[t] = l /\ \A e \in Turns \ {t} : late'[e] = late[e]
  BY <1>3, <1>4, <1>7
<1>10. ReplyTypes'
  BY <1>2, <1>8, <1>9 DEF ReplyInv, ReplyTypes, all
<1>11. ASSUME NEW e \in Turns
       PROVE  CallsOk(e)'
  <2>1. CallsOk(e) /\ \A p, n : IsCall(e, p, n)' <=> IsCall(e, p, n)
    BY <1>2 DEF ReplyInv, IsCall
  <2>2. CASE e # t
    BY <1>8, <1>9, <2>1, <2>2 DEF CallsOk
  <2>3. CASE e = t
    <3>1. ASSUME NEW j \in 1..Len(q)
          PROVE  IsCall(t, q[j][1], q[j][2])
      <4>1. j \in 1..Len(s) \/ j = Len(s) + 1
        BY <1>6
      <4>2. CASE j \in 1..Len(s)
        BY <1>6, <2>1, <2>3, <4>2 DEF CallsOk, s
      <4>3. CASE j = Len(s) + 1
        BY <1>4, <1>5, <1>6, <4>3
      <4>4. QED
        BY <4>1, <4>2, <4>3
    <3>2. \A b \in l : IsCall(t, b[1], b[2])
      BY <2>1, <2>3 DEF CallsOk, l
    <3>3. QED
      BY <1>8, <1>9, <2>1, <2>3, <3>1, <3>2 DEF CallsOk
  <2>4. QED
    BY <2>2, <2>3
<1>12. JobsInv' /\ \A e \in Turns : SentOk(e)' /\ PartsOk(e)'
  BY <1>2 DEF ReplyInv, JobsInv, JobOk, SentOk, IsCall, PartsOk
<1>13. QED
  BY <1>10, <1>11, <1>12 DEF ReplyInv

\* The middleware dies.
LEMMA SendsDieKeeps ==
  ASSUME ReplyInv, SendsDie, UNCHANGED <<phase, decision>>
  PROVE  ReplyInv'
<1> DEFINE open(t) == {k \in DOMAIN jobs[ChatOf[t]] : /\ jobs[ChatOf[t]][k].turn = t
                                                      /\ jobs[ChatOf[t]][k].stage = "calling"}
           tried(t) == {<<jobs[ChatOf[t]][k].part, jobs[ChatOf[t]][k].call, jobs[ChatOf[t]][k].attempt>> :
                          k \in open(t)}
           all == SUBSET (Nat \X Nat \X Nat)
<1>1. /\ jobs' = [c \in Chats |-> <<>>]
      /\ awaiting' = [t \in Turns |-> FALSE]
      /\ sent' = [t \in Turns |-> IF awaiting[t] THEN sent[t] + 1 ELSE sent[t]]
      /\ UNCHANGED <<parts, posted, refused, brokeOff>>
  BY DEF SendsDie
<1>2. late' = [t \in Turns |-> late[t] \cup tried(t)]
  BY DEF SendsDie
<1>3. losses' = [t \in Turns |-> losses[t]] \/ losses' \in [Turns -> Nat]
  <2>1. ASSUME NEW t \in Turns
        PROVE  losses'[t] \in Nat
    BY DEF SendsDie, ReplyInv, ReplyTypes
  <2>2. losses' = [t \in Turns |-> losses'[t]]
    BY DEF SendsDie
  <2>3. QED
    BY <2>1, <2>2
<1>4. losses' \in [Turns -> Nat]
  BY <1>3 DEF ReplyInv, ReplyTypes
<1>5. ASSUME NEW t \in Turns
      PROVE  tried(t) \in all /\ \A a \in tried(t) : IsCall(t, a[1], a[2])
  <2>1. ASSUME NEW k \in open(t)
        PROVE  LET a == <<jobs[ChatOf[t]][k].part, jobs[ChatOf[t]][k].call, jobs[ChatOf[t]][k].attempt>> IN
               a \in Nat \X Nat \X Nat /\ IsCall(t, a[1], a[2])
    <3> DEFINE c == ChatOf[t]
    <3>1. c \in Chats
      BY ReplyAssumption
    <3>2. k \in DOMAIN jobs[c] /\ jobs[c][k].turn = t
      OBVIOUS
    <3> HIDE DEF c
    <3>3. /\ JobOk(c, jobs[c][k])
          /\ jobs[c][k].part \in Nat /\ jobs[c][k].call \in Nat /\ jobs[c][k].attempt \in Nat
      BY <3>1, <3>2, JobFacts
    <3>4. QED
      BY <3>2, <3>3 DEF JobOk, c
  <2> HIDE DEF open
  <2>2. QED
    BY <2>1
<1> HIDE DEF tried
<1>6. late' \in [Turns -> all]
  <2>1. \A t \in Turns : late[t] \in all
    BY DEF ReplyInv, ReplyTypes
  <2>2. \A t \in Turns : late[t] \cup tried(t) \in all
    BY <1>5, <2>1
  <2> HIDE DEF all
  <2>3. QED
    BY <1>2, <2>2
<1>7. ReplyTypes'
  <2>1. <<>> \in Seq(Jobs)
    OBVIOUS
  <2>2. jobs' \in [Chats -> Seq(Jobs)] /\ awaiting' \in [Turns -> BOOLEAN]
    BY <1>1, <2>1
  <2>3. sent' \in [Turns -> Nat]
    BY <1>1 DEF ReplyInv, ReplyTypes
  <2>4. QED
    BY <1>1, <1>4, <1>6, <2>2, <2>3 DEF ReplyInv, ReplyTypes
<1>8. JobsInv'
  <2>1. \A c \in Chats : jobs'[c] = <<>> /\ Len(<<>>) = 0
    BY <1>1
  <2>2. QED
    BY <2>1 DEF JobsInv
<1>9. ASSUME NEW t \in Turns
      PROVE  SentOk(t)' /\ CallsOk(t)' /\ PartsOk(t)'
  <2>1. SentOk(t) /\ CallsOk(t) /\ PartsOk(t)
    BY DEF ReplyInv
  <2>2. SentOk(t)'
    <3>1. sent[t] \in Nat /\ parts[t] \in Seq(PartKinds)
      BY DEF ReplyInv, ReplyTypes
    <3>2. Len(parts[t]) \in Nat
      BY <3>1, LenProperties
    <3>3. ~awaiting'[t] /\ sent'[t] = (IF awaiting[t] THEN sent[t] + 1 ELSE sent[t]) /\ parts'[t] = parts[t]
      BY <1>1
    <3>4. QED
      BY <2>1, <3>1, <3>2, <3>3 DEF SentOk
  <2>3. CallsOk(t)'
    <3>1. late'[t] = late[t] \cup tried(t)
      BY <1>2
    <3>2. \A a \in late'[t] : IsCall(t, a[1], a[2])
      BY <1>5, <2>1, <3>1 DEF CallsOk
    <3>3. QED
      BY <1>1, <2>1, <3>2 DEF CallsOk, IsCall
  <2>4. PartsOk(t)'
    BY <1>1, <2>1 DEF PartsOk
  <2>5. QED
    BY <2>2, <2>3, <2>4
<1>10. QED
  BY <1>7, <1>8, <1>9 DEF ReplyInv

-----------------------------------------------------------------------------
(* Every step of a turn keeps what is known of its reply.                  *)

\* So does a turn that moves on and leaves the send path alone.
LEMMA ReplyKept ==
  ASSUME ReplyInv, TurnTypes, NEW t \in Turns, NEW p \in Phases,
         phase[t] \in Allowed \/ p \notin {"arrived"} \cup Allowed,
         phase' = [phase EXCEPT ![t] = p], UNCHANGED decision, UNCHANGED replyVars
  PROVE  ReplyInv'
<1>1. parts' = parts
  BY DEF replyVars
<1>2. phase'[t] = p /\ \A e \in Turns \ {t} : phase'[e] = phase[e]
  BY DEF TurnTypes
<1>3. ASSUME NEW e \in Turns
      PROVE  PartsOk(e)'
  <2>1. PartsOk(e)
    BY DEF ReplyInv
  <2>2. CASE e = t
    BY <1>1, <1>2, <2>1, <2>2 DEF PartsOk
  <2>3. CASE e # t
    BY <1>1, <1>2, <2>1, <2>3 DEF PartsOk
  <2>4. QED
    BY <2>2, <2>3
<1>4. QED
  BY <1>3, ReplySame

\* So does the verdict of the authorizer.
LEMMA AuthorizeReply ==
  ASSUME ReplyInv, TurnTypes, NEW t \in Turns, NEW verdict \in Verdicts(t), Authorize(t, verdict)
  PROVE  ReplyInv'
<1> DEFINE p == CASE verdict = "allow" -> "cleared" [] verdict = "pairing" -> "replying"
                  [] verdict = "block" -> "done"
<1>1. /\ phase[t] = "arrived" /\ phase' = [phase EXCEPT ![t] = p]
      /\ decision' = [decision EXCEPT ![t] = verdict]
      /\ IF verdict = "pairing" THEN \E c \in Challenges : parts' = [parts EXCEPT ![t] = c] ELSE parts' = parts
      /\ UNCHANGED <<sent, awaiting, jobs, posted, late, refused, losses, brokeOff>>
  BY DEF Authorize, GoesTo
<1>2. verdict \in {"allow", "pairing", "block"}
  BY DEF Verdicts
<1>3. p \in {"cleared", "replying", "done"} /\ (verdict = "pairing" => p = "replying")
  BY <1>2
<1> HIDE DEF p
<1>4. /\ phase'[t] = p /\ decision'[t] = verdict
      /\ \A e \in Turns \ {t} : phase'[e] = phase[e] /\ decision'[e] = decision[e]
  BY <1>1 DEF TurnTypes
<1>5. parts[t] = <<>> /\ \A e \in Turns : PartsOk(e)
  BY <1>1 DEF ReplyInv, PartsOk
<1>6. CASE verdict # "pairing"
  <2>1. UNCHANGED replyVars /\ parts' = parts
    BY <1>1, <1>6 DEF replyVars
  <2>2. ASSUME NEW e \in Turns
        PROVE  PartsOk(e)'
    <3>1. CASE e = t
      BY <1>4, <1>5, <1>6, <2>1, <3>1 DEF PartsOk
    <3>2. CASE e # t
      BY <1>4, <1>5, <2>1, <3>2 DEF PartsOk
    <3>3. QED
      BY <3>1, <3>2
  <2>3. QED
    BY <2>1, <2>2, ReplySame
<1>7. CASE verdict = "pairing"
  <2>1. PICK c \in Challenges : parts' = [parts EXCEPT ![t] = c]
    BY <1>1, <1>7
  <2>2. c \in Seq(PartKinds)
    <3>1. c = <<>> \/ c = <<"text">>
      BY DEF Challenges
    <3>2. "text" \in PartKinds
      BY DEF PartKinds
    <3>3. <<>> \in Seq(PartKinds) /\ <<"text">> \in Seq(PartKinds)
      BY <3>2
    <3>4. QED
      BY <3>1, <3>3
  <2>3. parts'[t] = c /\ \A e \in Turns \ {t} : parts'[e] = parts[e]
    BY <2>1 DEF ReplyInv, ReplyTypes
  <2>4. ASSUME NEW e \in Turns
        PROVE  PartsOk(e)'
    <3>1. CASE e = t
      BY <1>3, <1>4, <1>7, <2>3, <3>1 DEF PartsOk, Allowed
    <3>2. CASE e # t
      BY <1>4, <1>5, <2>3, <3>2 DEF PartsOk
    <3>3. QED
      BY <3>1, <3>2
  <2>5. QED
    BY <1>1, <1>5, <2>1, <2>2, <2>4, PartsGiven
<1>8. QED
  BY <1>6, <1>7

\* So does the reply of the agent.
LEMMA AgentReply ==
  ASSUME ReplyInv, TurnTypes, GateInv, NEW t \in Turns, NEW r \in Replies[t] \cup {<<>>}, AgentReplies(t, r)
  PROVE  ReplyInv'
<1>1. /\ phase[t] = "thinking" /\ phase' = [phase EXCEPT ![t] = "replying"]
      /\ parts' = [parts EXCEPT ![t] = r]
      /\ UNCHANGED <<decision, sent, awaiting, jobs, posted, late, refused, losses, brokeOff>>
  BY DEF AgentReplies, GoesTo
<1>2. /\ phase'[t] = "replying" /\ \A e \in Turns \ {t} : phase'[e] = phase[e]
      /\ parts'[t] = r /\ \A e \in Turns \ {t} : parts'[e] = parts[e]
  BY <1>1 DEF TurnTypes, ReplyInv, ReplyTypes
<1>3. decision[t] = "allow" /\ parts[t] = <<>>
  BY <1>1 DEF GateInv, GateOk, Allowed, ReplyInv, PartsOk
<1>4. r \in Seq(PartKinds)
  <2>1. <<>> \in Seq(PartKinds)
    OBVIOUS
  <2>2. QED
    BY <2>1, TurnAssumption DEF PartKinds
<1>5. ASSUME NEW e \in Turns
      PROVE  PartsOk(e)'
  <2>1. CASE e = t
    BY <1>1, <1>2, <1>3, <2>1 DEF PartsOk, Allowed
  <2>2. CASE e # t
    BY <1>1, <1>2, <2>2 DEF PartsOk, ReplyInv
  <2>3. QED
    BY <2>1, <2>2
<1>6. QED
  BY <1>1, <1>3, <1>4, <1>5, PartsGiven

\* Every step keeps the invariant of the replies.
LEMMA ReplyStep ==
  ASSUME ReplyInv, TurnTypes, GateInv, [Next]_vars
  PROVE  ReplyInv'
<1>1. ASSUME NEW t \in Turns, TurnStep(t) \/ MediaWaitBreaks(t)
      PROVE  ReplyInv'
  <2>1. CASE \E verdict \in Verdicts(t) : Authorize(t, verdict)
    BY <2>1, AuthorizeReply
  <2>2. CASE \E r \in Replies[t] \cup {<<>>} : AgentReplies(t, r)
    BY <2>2, AgentReply
  <2>3. CASE AgentReads(t)
    <3>1. phase' = phase /\ decision' = decision /\ UNCHANGED replyVars
      BY <2>3 DEF AgentReads
    <3>2. \A e \in Turns : PartsOk(e)'
      BY <3>1 DEF ReplyInv, PartsOk, replyVars
    <3>3. QED
      BY <3>1, <3>2, ReplySame
  <2>4. CASE RequestMedia(t) \/ SkipMedia(t) \/ MediaReturns(t) \/ MediaWaitBreaks(t) \/ EndTurn(t)
    <3>1. PICK p \in Phases :
            /\ phase[t] \in Allowed \/ p \notin {"arrived"} \cup Allowed
            /\ phase' = [phase EXCEPT ![t] = p] /\ UNCHANGED decision /\ UNCHANGED replyVars
      BY <2>4 DEF RequestMedia, SkipMedia, MediaReturns, MediaWaitBreaks, EndTurn, GoesTo, Phases, Allowed
    <3>2. QED
      BY <3>1, ReplyKept
  <2>5. CASE \E ok \in BOOLEAN : DecodeVoice(t, ok) \/ Route(t, ok)
    <3>1. PICK ok \in BOOLEAN : DecodeVoice(t, ok) \/ Route(t, ok)
      BY <2>5
    <3>2. PICK p \in Phases :
            /\ phase[t] \in Allowed /\ phase' = [phase EXCEPT ![t] = p]
            /\ UNCHANGED decision /\ UNCHANGED replyVars
      BY <3>1 DEF DecodeVoice, Route, GoesTo, Phases, Allowed
    <3>3. QED
      BY <3>2, ReplyKept
  <2>6. QED
    BY <1>1, <2>1, <2>2, <2>3, <2>4, <2>5 DEF TurnStep
<1>2. CASE MiddlewareDies
  BY <1>2, SendsDieKeeps DEF MiddlewareDies
<1>3. CASE (\E m \in Messages : MediaStep(m)) \/ UNCHANGED vars
  <2>1. phase' = phase /\ decision' = decision /\ UNCHANGED replyVars
    BY <1>3 DEF MediaStep, turnVars, vars
  <2>2. \A e \in Turns : PartsOk(e)'
    BY <2>1 DEF ReplyInv, PartsOk, replyVars
  <2>3. QED
    BY <2>1, <2>2, ReplySame
<1>4. ASSUME NEW t \in Turns, DeliverStep(t) \/ Mishap(t)
      PROVE  ReplyInv'
  BY <1>4, DeliverKeeps, PassedOver, LateKeeps DEF DeliverStep, Mishap, turnVars
<1>5. ASSUME NEW c \in Chats, SendStepOf(c)
      PROVE  ReplyInv'
  BY <1>5, SendKeeps DEF SendStepOf, turnVars
<1>6. QED
  BY <1>1, <1>2, <1>3, <1>4, <1>5 DEF Next

-----------------------------------------------------------------------------
(* The theorems.                                                           *)

TurnInv == MediaInv /\ TurnTypes /\ GateInv /\ ReplyInv

\* The whole invariant but the order holds initially.
LEMMA TurnInvInit ==
  ASSUME Init
  PROVE  TurnInv
<1>1. MediaInit /\ ReplyInit
  BY DEF Init
<1>2. \A m \in Messages : /\ Idle \in Downloads /\ Idle.stage = "idle" /\ Idle.answers = 0
                          /\ Leading(<<>>, m) /\ Len(<<>>) < Size[m]
  BY SizeFacts, EmptyLeads DEF Idle, Downloads
<1>3. MediaTypes
  <2>1. kind \in [Messages -> AllKinds]
    <3>1. PICK k \in [Messages -> UNION Range(Kinds)] : kind = k /\ \A m \in Messages : k[m] \in Kinds[m]
      BY <1>1 DEF MediaInit
    <3>2. \A m \in Messages : Kinds[m] \subseteq AllKinds
      BY MediaAssumption DEF AllKinds
    <3>3. \A m \in Messages : k[m] \in AllKinds
      BY <3>1, <3>2
    <3>4. QED
      BY <3>1, <3>3
  <2>2. <<>> \in Seq(Nat)
    OBVIOUS
  <2>3. fetch \in [Messages -> Downloads] /\ buffer \in [Messages -> Seq(Nat)]
    BY <1>1, <1>2, <2>2 DEF MediaInit
  <2>4. files \in [Names -> Contents] /\ gaveOut \subseteq Messages /\ writers \subseteq Messages
    BY <1>1, <2>2 DEF MediaInit, NoFile, Contents
  <2>5. QED
    BY <2>1, <2>3, <2>4 DEF MediaTypes
<1>4. MediaInv
  <2>1. ASSUME NEW m \in Messages
        PROVE  DownloadOk(m, fetch[m], buffer[m]) /\ FileOk(m)
    <3>1. fetch[m] = Idle /\ buffer[m] = <<>> /\ writers = {}
      BY <1>1 DEF MediaInit
    <3>2. 0 <= (IF kind[m] \in Sectioned THEN MaxSections ELSE MaxTries - 1)
      BY SizeFacts, MediaAssumption
    <3>3. QED
      BY <1>2, <3>1, <3>2 DEF DownloadOk, FileOk
  <2>2. FilesInv
    BY <1>1 DEF FilesInv, MediaInit
  <2>3. QED
    BY <1>3, <2>1, <2>2 DEF MediaInv
<1>5. TurnTypes
  BY TurnAssumption DEF Init, TurnTypes, Phases
<1>6. GateInv
  BY <1>1, <1>2 DEF Init, MediaInit, GateInv, GateOk, ReadOk, Allowed
<1>7. ReplyInv
  <2>1. <<>> \in Seq(PartKinds) /\ <<>> \in Seq(Jobs) /\ <<>> \in Seq(CallIds) /\ Len(<<>>) = 0
    OBVIOUS
  <2>2. ReplyTypes
    <3>1. parts \in [Turns -> Seq(PartKinds)] /\ jobs \in [Chats -> Seq(Jobs)] /\ posted \in [Turns -> Seq(CallIds)]
      BY <1>1, <2>1 DEF ReplyInit
    <3>2. /\ sent \in [Turns -> Nat] /\ losses \in [Turns -> Nat]
          /\ awaiting \in [Turns -> BOOLEAN] /\ brokeOff \in [Turns -> BOOLEAN]
      BY <1>1 DEF ReplyInit
    <3>3. late \in [Turns -> SUBSET (Nat \X Nat \X Nat)] /\ refused \in [Turns -> SUBSET CallIds]
      BY <1>1 DEF ReplyInit
    <3>4. QED
      BY <3>1, <3>2, <3>3 DEF ReplyTypes
  <2>3. JobsInv
    BY <1>1, <2>1 DEF JobsInv, ReplyInit
  <2>4. ASSUME NEW t \in Turns
        PROVE  SentOk(t) /\ CallsOk(t) /\ PartsOk(t)
    <3>1. /\ parts[t] = <<>> /\ sent[t] = 0 /\ ~awaiting[t] /\ posted[t] = <<>> /\ late[t] = {}
          /\ decision[t] = "none"
      BY <1>1 DEF ReplyInit, Init
    <3>2. QED
      BY <2>1, <3>1 DEF SentOk, CallsOk, PartsOk
  <2>5. QED
    BY <2>2, <2>3, <2>4 DEF ReplyInv
<1>8. QED
  BY <1>4, <1>5, <1>6, <1>7 DEF TurnInv

\* Every step keeps it.
LEMMA TurnInvStep == TurnInv /\ [Next]_vars => TurnInv'
BY GateStep, ReplyStep DEF TurnInv

\* It holds in every reachable state.
LEMMA TurnInvAlways == Spec => []TurnInv
<1>1. Init => TurnInv
  BY TurnInvInit
<1>2. QED
  BY <1>1, TurnInvStep, PTL DEF Spec

\* Every reachable state has its type: the downloads keep to the attempts and
\* sections they were given, an adapter is done with no more parts than it has,
\* and a send in hand is one of a part that exists, in its own conversation
\* (client.ts 2040-2330, dispatch.ts, server.ts).
THEOREM TypeCorrect == Spec => []TypeOK
<1>1. TurnInv => TypeOK
  <2> SUFFICES ASSUME TurnInv PROVE TypeOK
    OBVIOUS
  <2>1. MediaTypeOK
    <3>1. \A m \in Messages : Len(buffer[m]) < Size[m]
      BY DEF TurnInv, MediaInv, DownloadOk
    <3>2. \A m \in Messages :
            fetch[m].answers <= (IF kind[m] \in Sectioned THEN MaxSections ELSE MaxTries - 1)
      BY DEF TurnInv, MediaInv, DownloadOk
    <3>3. QED
      BY <3>1, <3>2 DEF TurnInv, MediaInv, MediaTypes, FilesInv, MediaTypeOK, AllKinds, Downloads
  <2>2. ReplyTypeOK
    <3>1. ASSUME NEW t \in Turns
          PROVE  /\ sent[t] \in 0 .. Len(parts[t]) /\ (awaiting[t] => sent[t] < Len(parts[t]))
                 /\ losses[t] \in Nat
      <4>1. parts[t] \in Seq(PartKinds) /\ sent[t] \in Nat /\ losses[t] \in Nat /\ SentOk(t)
        BY DEF TurnInv, ReplyInv, ReplyTypes
      <4>2. Len(parts[t]) \in Nat
        BY <4>1, LenProperties
      <4>3. QED
        BY <4>1, <4>2 DEF SentOk
    <3>2. ASSUME NEW c \in Chats, NEW k \in DOMAIN jobs[c]
          PROVE  LET job == jobs[c][k] IN
                 /\ ChatOf[job.turn] = c /\ job.part \in 1 .. Len(parts[job.turn])
                 /\ job.call \in DOMAIN Calls(Kind(job)) /\ job.attempt \in 0 .. Retries
                 /\ job.stage \in {"accepted", "calling", "pausing"}
      <4> DEFINE job == jobs[c][k]
      <4>1. job \in Jobs /\ JobOk(c, job)
        BY JobFacts DEF TurnInv
      <4> HIDE DEF job
      <4>2. DOMAIN Calls(Kind(job)) = 1..Len(Calls(Kind(job)))
        BY CallsFacts
      <4>3. job.stage \in {"accepted", "calling", "pausing"}
        BY <4>1 DEF Jobs
      <4>4. QED
        BY <4>1, <4>2, <4>3 DEF JobOk, IsCall, Kind, job
    <3>3. QED
      BY <3>1, <3>2 DEF ReplyTypeOK
  <2>3. ASSUME NEW t \in Turns
        PROVE  seen[t] \in {Unread, NoFile} \/ seen[t].of \in Messages
    BY DEF TurnInv, GateInv, GateOk
  <2>4. QED
    BY <2>1, <2>2, <2>3 DEF TurnInv, TurnTypes, TypeOK
<1>2. QED
  BY <1>1, TurnInvAlways, PTL

\* What the agent reads for a message are that message's own bytes, from the
\* first on, and all of them unless the upstream stopped serving, whatever other
\* downloads, breaks and deaths come in between; but for a namesake
\* (resolveMedia and the section loop, client.ts 2040-2330; wiring.ts).
THEOREM AgentReadsAlways == Spec => []AgentReadsItsMedia
<1>1. TurnInv => AgentReadsItsMedia
  <2> SUFFICES ASSUME TurnInv, NEW t \in Messages, seen[t] # Unread, ~Namesake(t)
               PROVE  /\ seen[t].of = t /\ IsPrefix(seen[t].bytes, Whole(t))
                      /\ seen[t].bytes = Whole(t) \/ t \in gaveOut
    BY DEF AgentReadsItsMedia, Namesake
  <2> DEFINE b == seen[t].bytes
             w == Whole(t)
             n == Len(b)
  <2>1. t \in Turns
    BY TurnAssumption
  <2>2. /\ seen[t].of = t /\ Leading(b, t) /\ (t \in gaveOut \/ n = Size[t])
    BY <2>1 DEF TurnInv, GateInv, GateOk, ReadOk
  <2>3. b \in Seq(Nat)
    BY <2>1 DEF TurnInv, TurnTypes, Contents
  <2>4. w \in Seq(Nat) /\ Len(w) = Size[t] /\ \A k \in 1..Size[t] : w[k] = k
    BY SizeFacts DEF Leading
  <2> HIDE DEF b, w
  <2>5. n \in Nat /\ n <= Len(w) /\ Len(w) \in Nat /\ \A k \in 1..n : b[k] = w[k]
    BY <2>2, <2>3, <2>4, LenProperties DEF Leading
  <2>6. IsPrefix(b, w)
    BY <2>3, <2>4, <2>5 DEF IsPrefix
  <2>7. n = Size[t] => b = w
    BY <2>3, <2>4, <2>5, SeqEqual
  <2>8. QED
    BY <2>2, <2>6, <2>7 DEF b, w
<1>2. QED
  BY <1>1, TurnInvAlways, PTL

\* A sender who may not talk to the agent costs no download, no reading and no
\* reply but the pairing challenge (dispatch.ts 98-101).
THEOREM GatedAlways == Spec => []GatedCostsNothing
<1>1. TurnInv => GatedCostsNothing
  <2> SUFFICES ASSUME TurnInv, NEW t \in Turns, decision[t] # "allow"
               PROVE  /\ t \in Messages => fetch[t].stage = "idle"
                      /\ ~path[t] /\ seen[t] = Unread
                      /\ Range(posted[t]) \subseteq (IF decision[t] = "pairing" THEN {<<1, 1>>} ELSE {})
    BY DEF GatedCostsNothing
  <2>1. (t \in Messages => fetch[t].stage = "idle") /\ ~path[t] /\ seen[t] = Unread
    BY DEF TurnInv, GateInv, GateOk
  <2>2. PartsOk(t) /\ CallsOk(t) /\ posted[t] \in Seq(CallIds)
    BY DEF TurnInv, ReplyInv, ReplyTypes
  <2>3. decision[t] \in {"none", "pairing", "block"}
    BY DEF TurnInv, TurnTypes
  <2>4. parts[t] = <<>> \/ (decision[t] = "pairing" /\ parts[t] = <<"text">>)
    BY <2>2, <2>3 DEF PartsOk, Challenges
  <2>5. ASSUME NEW j \in 1..Len(posted[t])
        PROVE  decision[t] = "pairing" /\ posted[t][j] = <<1, 1>>
    <3> DEFINE x == posted[t][j]
    <3>1. x \in CallIds /\ IsCall(t, x[1], x[2])
      BY <2>2, ElementOfSeq DEF CallsOk
    <3> HIDE DEF x
    <3>2. x = <<x[1], x[2]>>
      BY <3>1 DEF CallIds
    <3>3. Len(<<>>) = 0 /\ Len(<<"text">>) = 1 /\ <<"text">>[1] = "text"
      OBVIOUS
    <3>4. decision[t] = "pairing" /\ parts[t] = <<"text">>
      BY <2>4, <3>1, <3>3 DEF IsCall
    <3>5. x[1] = 1
      BY <3>1, <3>3, <3>4 DEF IsCall
    <3>6. Len(Calls("text")) = 1
      BY CallsFacts
    <3>7. x[2] = 1
      <4>1. parts[t][x[1]] = "text"
        BY <3>3, <3>4, <3>5
      <4>2. x[2] \in 1..Len(Calls("text"))
        BY <3>1, <4>1 DEF IsCall
      <4> DEFINE n == x[2]
      <4>3. n \in 1..1
        BY <3>6, <4>2
      <4> HIDE DEF n
      <4>4. n = 1
        BY <4>3
      <4>5. QED
        BY <4>4 DEF n
    <3>8. QED
      BY <3>2, <3>4, <3>5, <3>7 DEF x
  <2>6. DOMAIN posted[t] = 1..Len(posted[t])
    BY <2>2, LenProperties
  <2>7. QED
    BY <2>1, <2>5, <2>6 DEF Range
<1>2. QED
  BY <1>1, TurnInvAlways, PTL

-----------------------------------------------------------------------------
(* The order of the calls of a reply.                                      *)

\* The order of the calls is transitive.
LEMMA BeforeTransitive ==
  ASSUME NEW a \in CallIds, NEW b \in CallIds, NEW c \in CallIds, Before(a, b), Before(b, c)
  PROVE  Before(a, c)
<1>1. /\ a[1] \in Nat /\ a[2] \in Nat /\ b[1] \in Nat /\ b[2] \in Nat /\ c[1] \in Nat /\ c[2] \in Nat
  BY DEF CallIds
<1>2. QED
  BY <1>1 DEF Before

\* No call comes before itself.
LEMMA BeforeIrreflexive ==
  ASSUME NEW a \in CallIds
  PROVE  ~Before(a, a)
<1>1. a[1] \in Nat /\ a[2] \in Nat
  BY DEF CallIds
<1>2. QED
  BY <1>1 DEF Before

\* Every attempt brought a verdict, and no wait broke off but where a pacer serialises.
Orderly(t) == losses[t] = 0 /\ (ChatOf[t] \in PacedChats \/ ~brokeOff[t])

\* The parts of the reply that were posted so far.
Upto(t) == IF awaiting[t] THEN sent[t] + 1 ELSE sent[t]

\* The jobs of a turn.
JobAt(t, i) == jobs[ChatOf[t]][i]
Own(t) == {i \in 1..Len(jobs[ChatOf[t]]) : JobAt(t, i).turn = t}

\* x comes after every verdict on t.
After(t, x) == /\ \A j \in 1..Len(posted[t]) : Before(posted[t][j], x)
               /\ \A z \in refused[t] : Before(z, x)

HistoryOk(t) ==
  /\ late[t] = {}
  /\ \A j \in 1..Len(posted[t]) : posted[t][j][1] <= Upto(t) /\ posted[t][j] \notin refused[t]
  /\ \A z \in refused[t] : z[1] <= Upto(t)
  /\ \A i, j \in 1..Len(posted[t]) : i < j => Before(posted[t][i], posted[t][j])

\* A job's call is yet to come; while nothing broke off it is the part awaited.
JobInOrder(t, job) ==
  /\ job.part <= Upto(t) /\ After(t, CallId(job))
  /\ ~brokeOff[t] => awaiting[t] /\ job.part = sent[t] + 1

QueueOk(t) ==
  /\ \A i \in Own(t) : JobInOrder(t, JobAt(t, i))
  /\ \A i, j \in Own(t) : i < j => JobAt(t, i).part < JobAt(t, j).part

OrderOk(t) == Orderly(t) => HistoryOk(t) /\ QueueOk(t)

\* The types of the jobs of a turn.
LEMMA OwnFacts ==
  ASSUME ReplyInv, NEW t \in Turns, NEW i \in Own(t)
  PROVE  /\ ChatOf[t] \in Chats /\ i \in DOMAIN jobs[ChatOf[t]] /\ i \in Nat
         /\ i \in 1..Len(jobs[ChatOf[t]]) /\ JobAt(t, i) \in Jobs /\ JobAt(t, i).turn = t
         /\ JobAt(t, i).part \in Nat /\ JobAt(t, i).call \in Nat
<1> DEFINE c == ChatOf[t]
           s == jobs[c]
<1>1. c \in Chats
  BY ReplyAssumption
<1>2. i \in 1..Len(s) /\ s[i].turn = t
  BY DEF Own, JobAt
<1>3. s \in Seq(Jobs)
  BY <1>1 DEF ReplyInv, ReplyTypes
<1>4. DOMAIN s = 1..Len(s) /\ Len(s) \in Nat
  BY <1>3, LenProperties
<1>5. s[i] \in Jobs
  BY <1>2, <1>3, ElementOfSeq
<1>6. s[i].part \in Nat /\ s[i].call \in Nat
  BY <1>5 DEF Jobs
<1>7. QED
  BY <1>1, <1>2, <1>4, <1>5, <1>6 DEF JobAt

\* A call is known by its part and its number.
LEMMA CallIdFacts ==
  ASSUME NEW job, job.part \in Nat, job.call \in Nat
  PROVE  CallId(job) \in CallIds /\ CallId(job)[1] = job.part /\ CallId(job)[2] = job.call
BY DEF CallId, CallIds

\* The types of what is recorded of a turn.
LEMMA VerdictTypes ==
  ASSUME ReplyInv, NEW t \in Turns
  PROVE  /\ posted[t] \in Seq(CallIds) /\ refused[t] \subseteq CallIds /\ Len(posted[t]) \in Nat
         /\ \A j \in 1..Len(posted[t]) : posted[t][j] \in CallIds
         /\ sent[t] \in Nat /\ losses[t] \in Nat /\ Upto(t) \in Nat
<1>1. posted[t] \in Seq(CallIds) /\ refused[t] \in SUBSET CallIds /\ sent[t] \in Nat /\ losses[t] \in Nat
  BY DEF ReplyInv, ReplyTypes
<1>2. Len(posted[t]) \in Nat /\ \A j \in 1..Len(posted[t]) : posted[t][j] \in CallIds
  BY <1>1, LenProperties, ElementOfSeq
<1>3. Upto(t) \in Nat
  BY <1>1 DEF Upto
<1>4. QED
  BY <1>1, <1>2, <1>3

\* What comes after a call that comes after every verdict does so too.
LEMMA AfterLater ==
  ASSUME ReplyInv, NEW t \in Turns, NEW x \in CallIds, NEW y \in CallIds, After(t, x), Before(x, y)
  PROVE  After(t, y)
<1>1. \A j \in 1..Len(posted[t]) : Before(posted[t][j], y)
  BY VerdictTypes, BeforeTransitive DEF After
<1>2. \A z \in refused[t] : Before(z, y)
  BY VerdictTypes, BeforeTransitive DEF After
<1>3. QED
  BY <1>1, <1>2 DEF After

\* The upstream says yes or no to x, or nothing.
ToldOf(t, x) ==
  /\ late'[t] = late[t]
  /\ \/ posted'[t] = posted[t] /\ refused'[t] = refused[t]
     \/ posted'[t] = Append(posted[t], x) /\ refused'[t] = refused[t]
     \/ posted'[t] = posted[t] /\ refused'[t] = refused[t] \cup {x}

\* A verdict on a call that comes after all others keeps the verdicts in order.
LEMMA HistoryTold ==
  ASSUME ReplyInv, NEW t \in Turns, HistoryOk(t), NEW x \in CallIds, x[1] <= Upto(t), After(t, x),
         Upto(t)' = Upto(t), ToldOf(t, x)
  PROVE  HistoryOk(t)' /\ \A y \in CallIds : Before(x, y) => After(t, y)'
<1> DEFINE p == posted[t]
           n == Len(p)
           u == Upto(t)
           r == refused[t]
<1>1. /\ p \in Seq(CallIds) /\ r \subseteq CallIds /\ n \in Nat /\ u \in Nat
      /\ \A j \in 1..n : p[j] \in CallIds
  BY VerdictTypes
<1>2. /\ Append(p, x) \in Seq(CallIds) /\ Len(Append(p, x)) = n + 1
      /\ \A i \in 1..n : Append(p, x)[i] = p[i]
      /\ Append(p, x)[n + 1] = x
  BY <1>1, AppendProperties
<1>3. /\ late[t] = {} /\ (\A j \in 1..n : p[j][1] <= u /\ p[j] \notin r) /\ (\A z \in r : z[1] <= u)
      /\ (\A i, j \in 1..n : i < j => Before(p[i], p[j]))
      /\ (\A j \in 1..n : Before(p[j], x)) /\ (\A z \in r : Before(z, x)) /\ x[1] <= u
  BY DEF HistoryOk, After
<1>4. x \notin r /\ \A j \in 1..n : p[j] # x
  BY <1>3, BeforeIrreflexive
<1>5. \A y \in CallIds : Before(x, y) => After(t, y)
  BY AfterLater
<1>6. late'[t] = {} /\ Upto(t)' = u
  BY <1>3 DEF ToldOf
<1> HIDE DEF u
<1>7. CASE posted'[t] = p /\ refused'[t] = r
  <2>1. HistoryOk(t)'
    BY <1>3, <1>6, <1>7 DEF HistoryOk
  <2>2. QED
    BY <1>5, <1>7, <2>1 DEF After
<1>8. CASE posted'[t] = p /\ refused'[t] = r \cup {x}
  <2>1. HistoryOk(t)'
    BY <1>3, <1>4, <1>6, <1>8 DEF HistoryOk
  <2>2. QED
    BY <1>5, <1>8, <2>1 DEF After
<1>9. CASE posted'[t] = Append(p, x) /\ refused'[t] = r
  <2> DEFINE q == Append(p, x)
  <2>0. q = posted'[t] /\ Len(q) = n + 1 /\ (\A i \in 1..n : q[i] = p[i]) /\ q[n + 1] = x
    BY <1>2, <1>9
  <2> HIDE DEF q, p, n
  <2>a. \A j \in 1..n + 1 : j \in 1..n \/ j = n + 1
    BY <1>1
  <2>1. \A j \in 1..Len(q) : q[j][1] <= u /\ q[j] \notin r
    BY <1>3, <1>4, <2>0, <2>a
  <2>2. ASSUME NEW i \in 1..Len(q), NEW j \in 1..Len(q), i < j
        PROVE  Before(q[i], q[j])
    <3>1. i \in 1..n
      BY <1>1, <2>0, <2>2
    <3>2. CASE j \in 1..n
      BY <1>3, <2>0, <2>2, <3>1, <3>2
    <3>3. CASE j = n + 1
      BY <1>3, <2>0, <3>1, <3>3
    <3>4. QED
      BY <2>0, <2>a, <3>2, <3>3
  <2>3. HistoryOk(t)'
    BY <1>3, <1>6, <1>9, <2>0, <2>1, <2>2 DEF HistoryOk
  <2>4. ASSUME NEW y \in CallIds, Before(x, y)
        PROVE  After(t, y)'
    <3>1. \A j \in 1..n : Before(p[j], y)
      BY <1>5, <2>4 DEF After, p, n
    <3>2. \A j \in 1..Len(q) : Before(q[j], y)
      BY <2>0, <2>4, <2>a, <3>1
    <3>3. QED
      BY <1>5, <1>9, <2>0, <2>4, <3>2 DEF After
  <2>5. QED
    BY <2>3, <2>4
<1>10. QED
  BY <1>7, <1>8, <1>9 DEF ToldOf

\* The jobs of t are some of those before, none of them in X, in the same order.
Traced(t, X) ==
  /\ \A i \in Own(t)' : \E k \in Own(t) \ X : JobAt(t, i)' = JobAt(t, k)
  /\ \A i, j \in Own(t)' : i < j =>
       \E k, l \in Own(t) \ X : k < l /\ JobAt(t, i)' = JobAt(t, k) /\ JobAt(t, j)' = JobAt(t, l)

\* What a step of another turn leaves of t.
Aside(t) ==
  /\ posted'[t] = posted[t] /\ late'[t] = late[t] /\ refused'[t] = refused[t]
  /\ sent'[t] = sent[t] /\ awaiting'[t] = awaiting[t]
  /\ losses'[t] = losses[t] /\ brokeOff'[t] = brokeOff[t]

\* Such a step keeps the order of t.
LEMMA AsideKeeps ==
  ASSUME NEW t \in Turns, OrderOk(t), Aside(t), Traced(t, {})
  PROVE  OrderOk(t)'
<1> SUFFICES ASSUME Orderly(t)' PROVE HistoryOk(t)' /\ QueueOk(t)'
  BY DEF OrderOk
<1>1. Orderly(t) /\ Upto(t)' = Upto(t)
  BY DEF Orderly, Upto, Aside
<1>2. HistoryOk(t) /\ QueueOk(t)
  BY <1>1 DEF OrderOk
<1>3. HistoryOk(t)'
  BY <1>1, <1>2 DEF HistoryOk, Aside
<1>4. \A job : JobInOrder(t, job) => JobInOrder(t, job)'
  BY <1>1 DEF JobInOrder, After, Aside, CallId
<1>5. ASSUME NEW i \in Own(t)'
      PROVE  JobInOrder(t, JobAt(t, i))'
  <2>1. PICK k \in Own(t) : JobAt(t, i)' = JobAt(t, k)
    BY DEF Traced
  <2>2. PICK job : job = JobAt(t, k)
    OBVIOUS
  <2>3. JobInOrder(t, job)'
    BY <1>2, <1>4, <2>2 DEF QueueOk
  <2>4. QED
    BY <2>1, <2>2, <2>3 DEF JobInOrder
<1>6. ASSUME NEW i \in Own(t)', NEW j \in Own(t)', i < j
      PROVE  JobAt(t, i)'.part < JobAt(t, j)'.part
  BY <1>2, <1>6 DEF Traced, QueueOk
<1>7. QED
  BY <1>3, <1>5, <1>6 DEF QueueOk

\* Jobs that are left alone are in the same order.
LEMMA SameTraced ==
  ASSUME NEW t \in Turns, \A i \in Own(t)' : i \in Own(t) /\ JobAt(t, i)' = JobAt(t, i)
  PROVE  Traced(t, {})
<1>1. ASSUME NEW i \in Own(t)', NEW j \in Own(t)', i < j
      PROVE  \E k, l \in Own(t) \ {} : k < l /\ JobAt(t, i)' = JobAt(t, k) /\ JobAt(t, j)' = JobAt(t, l)
  BY <1>1
<1>2. \A i \in Own(t)' : \E k \in Own(t) \ {} : JobAt(t, i)' = JobAt(t, k)
  OBVIOUS
<1>3. QED
  BY <1>1, <1>2 DEF Traced

\* A job that is answered leaves those of every turn as they are.
LEMMA AnswerTraced ==
  ASSUME ReplyInv, NEW c \in Chats, NEW k \in DOMAIN jobs[c], Answer(c, k), NEW t \in Turns
  PROVE  /\ ChatOf[t] = c => Traced(t, {k})
         /\ jobs[c][k].turn # t => Traced(t, {})
<1> DEFINE n == Len(jobs[c])
           m(i) == IF i < k THEN i ELSE i + 1
<1>1. /\ Len(jobs'[c]) = n - 1 /\ n \in Nat /\ k \in 1..n
      /\ \A d \in Chats \ {c} : jobs'[d] = jobs[d]
      /\ \A i \in 1..n - 1 : jobs'[c][i] = jobs[c][m(i)]
  <2>1. ReplyTypes
    BY DEF ReplyInv
  <2>2. QED
    BY <2>1, AnswerFacts
<1>2. ChatOf[t] \in Chats
  BY ReplyAssumption
<1>3. CASE ChatOf[t] # c
  <2>1. jobs'[ChatOf[t]] = jobs[ChatOf[t]]
    BY <1>1, <1>2, <1>3
  <2>2. \A i \in Own(t)' : i \in Own(t) /\ JobAt(t, i)' = JobAt(t, i)
    BY <2>1 DEF Own, JobAt
  <2>3. QED
    BY <1>3, <2>2, SameTraced
<1>4. CASE ChatOf[t] = c
  <2>1. ASSUME NEW i \in Own(t)'
        PROVE  m(i) \in Own(t) \ {k} /\ JobAt(t, i)' = JobAt(t, m(i)) /\ i \in Nat
    <3>1. i \in 1..n - 1 /\ jobs'[c][i].turn = t
      BY <1>1, <1>4 DEF Own, JobAt
    <3>2. m(i) \in 1..n /\ m(i) # k
      BY <1>1, <3>1
    <3>3. jobs'[c][i] = jobs[c][m(i)]
      BY <1>1, <3>1
    <3> HIDE DEF m
    <3>4. QED
      BY <1>4, <3>1, <3>2, <3>3 DEF Own, JobAt
  <2>2. ASSUME NEW i \in Own(t)', NEW j \in Own(t)', i < j
        PROVE  m(i) < m(j)
    <3>1. i \in Nat /\ j \in Nat /\ k \in Nat
      BY <1>1, <2>1
    <3>2. QED
      BY <2>2, <3>1
  <2> HIDE DEF m
  <2>3. \A i \in Own(t)' : \E l \in Own(t) \ {k} : JobAt(t, i)' = JobAt(t, l)
    BY <2>1
  <2>4. ASSUME NEW i \in Own(t)', NEW j \in Own(t)', i < j
        PROVE  \E o, l \in Own(t) \ {k} : o < l /\ JobAt(t, i)' = JobAt(t, o) /\ JobAt(t, j)' = JobAt(t, l)
    BY <2>1, <2>2, <2>4
  <2>5. Traced(t, {k})
    BY <2>3, <2>4 DEF Traced
  <2>6. Traced(t, {k}) => Traced(t, {})
    BY DEF Traced
  <2>7. QED
    BY <2>5, <2>6
<1>5. QED
  BY <1>3, <1>4

\* A job that goes on leaves those of every other turn as they are.
LEMMA BecomesTraced ==
  ASSUME ReplyInv, NEW c \in Chats, NEW k \in DOMAIN jobs[c], NEW job \in Jobs, Becomes(c, k, job),
         job.turn = jobs[c][k].turn, NEW t \in Turns, job.turn # t
  PROVE  Traced(t, {})
<1>1. /\ Len(jobs'[c]) = Len(jobs[c])
      /\ \A d \in Chats \ {c} : jobs'[d] = jobs[d]
      /\ \A i \in 1..Len(jobs[c]) : jobs'[c][i] = IF i = k THEN job ELSE jobs[c][i]
  <2>1. ReplyTypes
    BY DEF ReplyInv
  <2>2. QED
    BY <2>1, BecomesFacts
<1>2. ChatOf[t] \in Chats
  BY ReplyAssumption
<1>3. ASSUME NEW i \in Own(t)'
      PROVE  i \in Own(t) /\ JobAt(t, i)' = JobAt(t, i)
  <2>1. CASE ChatOf[t] # c
    BY <1>1, <1>2, <2>1 DEF Own, JobAt
  <2>2. CASE ChatOf[t] = c
    <3>1. i \in 1..Len(jobs[c]) /\ jobs'[c][i].turn = t
      BY <1>1, <2>2 DEF Own, JobAt
    <3>2. i # k /\ jobs'[c][i] = jobs[c][i]
      BY <1>1, <3>1
    <3>3. QED
      BY <2>2, <3>1, <3>2 DEF Own, JobAt
  <2>3. QED
    BY <2>1, <2>2
<1>4. QED
  BY <1>3, SameTraced

\* The job that proceeds is the first of its turn: a pacer lets only the first of the
\* conversation through, and without one there is but one as long as no wait broke off.
LEMMA FirstOf ==
  ASSUME ReplyInv, NEW t \in Turns, Orderly(t), QueueOk(t), NEW k \in Own(t), k \in Active(ChatOf[t]),
         NEW l \in Own(t) \ {k}
  PROVE  JobAt(t, k).part < JobAt(t, l).part
<1>1. /\ k \in Nat /\ l \in Nat /\ l \in 1..Len(jobs[ChatOf[t]])
      /\ JobAt(t, k).part \in Nat /\ JobAt(t, l).part \in Nat
  BY OwnFacts
<1>2. CASE ChatOf[t] \in PacedChats
  <2>1. k = 1 /\ k < l
    BY <1>1, <1>2 DEF Active
  <2>2. QED
    BY <2>1 DEF QueueOk
<1>3. CASE ChatOf[t] \notin PacedChats
  <2>1. ~brokeOff[t]
    BY <1>3 DEF Orderly
  <2>2. JobAt(t, k).part = JobAt(t, l).part
    BY <2>1 DEF QueueOk, JobInOrder
  <2>3. k < l \/ l < k
    BY <1>1
  <2>4. FALSE
    BY <1>1, <2>2, <2>3 DEF QueueOk
  <2>5. QED
    BY <2>4
<1>4. QED
  BY <1>2, <1>3

\* The upstream's last word on a job, and the answer to it.
LEMMA AnswerOrder ==
  ASSUME ReplyInv, NEW t \in Turns, OrderOk(t), NEW k \in Own(t), k \in Active(ChatOf[t]),
         Answer(ChatOf[t], k), ToldOf(t, CallId(JobAt(t, k))),
         losses'[t] = losses[t], brokeOff'[t] = brokeOff[t]
  PROVE  OrderOk(t)'
<1> SUFFICES ASSUME Orderly(t)' PROVE HistoryOk(t)' /\ QueueOk(t)'
  BY DEF OrderOk
<1> DEFINE c == ChatOf[t]
           job == JobAt(t, k)
           x == CallId(job)
<1>1. Orderly(t) /\ HistoryOk(t) /\ QueueOk(t)
  BY DEF Orderly, OrderOk
<1>2. c \in Chats /\ k \in DOMAIN jobs[c] /\ job.turn = t /\ job.part \in Nat /\ job.call \in Nat
  BY OwnFacts
<1>3. x \in CallIds /\ x[1] = job.part /\ x[2] = job.call
  BY <1>2, CallIdFacts
<1>4. JobInOrder(t, job)
  BY <1>1 DEF QueueOk
<1>5. Upto(t)' = Upto(t)
  <2>1. IF awaiting[t] /\ sent[t] + 1 = job.part
        THEN ~awaiting'[t] /\ sent'[t] = sent[t] + 1
        ELSE awaiting'[t] = awaiting[t] /\ sent'[t] = sent[t]
    <3>1. ReplyTypes
      BY DEF ReplyInv
    <3>2. jobs[c][k].turn = t /\ jobs[c][k].part = job.part
      BY <1>2 DEF JobAt
    <3>3. QED
      BY SMTT(30), <1>2, <3>1, <3>2, AnswerFacts
  <2>2. CASE awaiting[t] /\ sent[t] + 1 = job.part
    BY <2>1, <2>2 DEF Upto
  <2>3. CASE ~(awaiting[t] /\ sent[t] + 1 = job.part)
    BY <2>1, <2>3 DEF Upto
  <2>4. QED
    BY <2>2, <2>3
<1>6. HistoryOk(t)' /\ \A y \in CallIds : Before(x, y) => After(t, y)'
  <2>1. x[1] <= Upto(t) /\ After(t, x)
    BY <1>3, <1>4 DEF JobInOrder
  <2>2. QED
    BY <1>1, <1>3, <1>5, <2>1, HistoryTold
<1>7. Traced(t, {k})
  BY <1>2, AnswerTraced
<1>8. ASSUME NEW i \in Own(t)'
      PROVE  JobInOrder(t, JobAt(t, i))'
  <2>1. PICK l \in Own(t) \ {k} : JobAt(t, i)' = JobAt(t, l)
    BY <1>7 DEF Traced
  <2>2. PICK b : b = JobAt(t, l)
    OBVIOUS
  <2>3. job.part < b.part /\ b.part \in Nat /\ b.call \in Nat
    BY <1>1, <2>2, FirstOf, OwnFacts
  <2>4. CallId(b) \in CallIds /\ CallId(b)[1] = b.part
    BY <2>3, CallIdFacts
  <2>5. Before(x, CallId(b))
    BY <1>3, <2>3, <2>4 DEF Before
  <2>6. After(t, CallId(b))'
    <3>1. PICK y \in CallIds : y = CallId(b)
      BY <2>4
    <3>2. After(t, y)'
      BY <1>6, <2>5, <3>1
    <3>3. QED
      BY <3>1, <3>2 DEF CallId
  <2>7. JobInOrder(t, b)
    BY <1>1, <2>2 DEF QueueOk
  <2>8. b.part <= Upto(t)'
    BY <1>5, <2>7 DEF JobInOrder
  <2>9. brokeOff[t]
    <3>1. ASSUME ~brokeOff[t] PROVE FALSE
      <4>1. job.part = b.part
        BY <1>4, <2>7, <3>1 DEF JobInOrder
      <4>2. QED
        BY <1>2, <2>3, <4>1
    <3>2. QED
      BY <3>1
  <2>10. JobInOrder(t, b)'
    BY <2>6, <2>8, <2>9 DEF JobInOrder
  <2>11. QED
    BY <2>1, <2>2, <2>10 DEF JobInOrder
<1>9. ASSUME NEW i \in Own(t)', NEW j \in Own(t)', i < j
      PROVE  JobAt(t, i)'.part < JobAt(t, j)'.part
  BY <1>1, <1>7, <1>9 DEF Traced, QueueOk
<1>10. QED
  BY <1>6, <1>8, <1>9 DEF QueueOk

\* The job makes its next attempt, or its part's next call after a success.
Proceeds(t, job, next) ==
  /\ late'[t] = late[t] /\ refused'[t] = refused[t]
  /\ \/ next.call = job.call /\ posted'[t] = posted[t]
     \/ next.call = job.call + 1 /\ posted'[t] = Append(posted[t], CallId(job))

\* A job that proceeds keeps the order of its turn.
LEMMA GoesOrder ==
  ASSUME ReplyInv, NEW t \in Turns, OrderOk(t), NEW k \in Own(t), k \in Active(ChatOf[t]),
         NEW b \in Jobs, Becomes(ChatOf[t], k, b), b.turn = t, b.part = JobAt(t, k).part,
         Proceeds(t, JobAt(t, k), b), losses'[t] = losses[t], brokeOff'[t] = brokeOff[t]
  PROVE  OrderOk(t)'
<1> SUFFICES ASSUME Orderly(t)' PROVE HistoryOk(t)' /\ QueueOk(t)'
  BY DEF OrderOk
<1> DEFINE c == ChatOf[t]
           job == JobAt(t, k)
           x == CallId(job)
           y == CallId(b)
<1>1. Orderly(t) /\ HistoryOk(t) /\ QueueOk(t)
  BY DEF Orderly, OrderOk
<1>2. /\ c \in Chats /\ k \in DOMAIN jobs[c] /\ k \in 1..Len(jobs[c])
      /\ job.turn = t /\ job.part \in Nat /\ job.call \in Nat
  BY OwnFacts
<1>3. x \in CallIds /\ x[1] = job.part /\ x[2] = job.call
  BY <1>2, CallIdFacts
<1>4. b.part \in Nat /\ b.call \in Nat
  BY DEF Jobs
<1>5. y \in CallIds /\ y[1] = job.part /\ y[2] = b.call
  BY <1>4, CallIdFacts
<1>6. JobInOrder(t, job)
  BY <1>1 DEF QueueOk
<1>7. /\ Len(jobs'[c]) = Len(jobs[c])
      /\ \A i \in 1..Len(jobs[c]) : jobs'[c][i] = IF i = k THEN b ELSE jobs[c][i]
      /\ UNCHANGED <<sent, awaiting>>
  <2>1. ReplyTypes
    BY DEF ReplyInv
  <2>2. QED
    BY <1>2, <2>1, BecomesFacts
<1>8. Upto(t)' = Upto(t)
  BY <1>7 DEF Upto
<1>9. \A i \in Own(t)' : i \in Own(t) /\ JobAt(t, i)' = (IF i = k THEN b ELSE JobAt(t, i))
  BY <1>2, <1>7 DEF Own, JobAt
<1>10. JobAt(t, k)' = b
  BY <1>2, <1>7 DEF JobAt
<1>11. ToldOf(t, x)
  BY DEF ToldOf, Proceeds
<1>12. HistoryOk(t)' /\ \A z \in CallIds : Before(x, z) => After(t, z)'
  <2>1. x[1] <= Upto(t) /\ After(t, x)
    BY <1>3, <1>6 DEF JobInOrder
  <2>2. QED
    BY <1>1, <1>3, <1>8, <1>11, <2>1, HistoryTold
<1>13. After(t, y)'
  <2>1. CASE b.call = job.call /\ posted'[t] = posted[t]
    <3>1. y = x
      BY <2>1 DEF CallId
    <3>2. After(t, x)
      BY <1>6 DEF JobInOrder
    <3>3. PICK z : z = y
      OBVIOUS
    <3>4. After(t, z)'
      BY <2>1, <3>1, <3>2, <3>3 DEF After, Proceeds
    <3>5. QED
      BY <3>3, <3>4 DEF CallId
  <2>2. CASE b.call = job.call + 1
    <3>1. Before(x, y)
      BY <1>2, <1>3, <1>4, <1>5, <2>2 DEF Before
    <3>2. PICK z \in CallIds : z = y
      BY <1>5
    <3>3. After(t, z)'
      BY <1>12, <3>1, <3>2
    <3>4. QED
      BY <3>2, <3>3 DEF CallId
  <2>3. QED
    BY <2>1, <2>2 DEF Proceeds
<1>14. ASSUME NEW i \in Own(t)'
       PROVE  JobInOrder(t, JobAt(t, i))'
  <2>1. CASE i = k
    <3>1. b.part <= Upto(t)' /\ (~brokeOff'[t] => awaiting'[t] /\ b.part = sent'[t] + 1)
      BY <1>6, <1>7, <1>8 DEF JobInOrder
    <3>2. JobInOrder(t, b)'
      BY <1>13, <3>1 DEF JobInOrder
    <3>3. QED
      BY <1>10, <2>1, <3>2 DEF JobInOrder
  <2>2. CASE i # k
    <3>1. i \in Own(t) \ {k} /\ JobAt(t, i)' = JobAt(t, i)
      BY <1>9, <2>2
    <3>2. PICK a : a = JobAt(t, i)
      OBVIOUS
    <3>3. job.part < a.part /\ a.part \in Nat /\ a.call \in Nat
      BY <1>1, <3>1, <3>2, FirstOf, OwnFacts
    <3>4. CallId(a) \in CallIds /\ CallId(a)[1] = a.part
      BY <3>3, CallIdFacts
    <3>5. Before(x, CallId(a))
      BY <1>3, <3>3, <3>4 DEF Before
    <3>6. After(t, CallId(a))'
      <4>1. PICK z \in CallIds : z = CallId(a)
        BY <3>4
      <4>2. After(t, z)'
        BY <1>12, <3>5, <4>1
      <4>3. QED
        BY <4>1, <4>2 DEF CallId
    <3>7. JobInOrder(t, a)
      BY <1>1, <3>1, <3>2 DEF QueueOk
    <3>8. a.part <= Upto(t)' /\ (~brokeOff'[t] => awaiting'[t] /\ a.part = sent'[t] + 1)
      BY <1>7, <1>8, <3>7 DEF JobInOrder
    <3>9. JobInOrder(t, a)'
      BY <3>6, <3>8 DEF JobInOrder
    <3>10. QED
      BY <3>1, <3>2, <3>9 DEF JobInOrder
  <2>3. QED
    BY <2>1, <2>2
<1>15. ASSUME NEW i \in Own(t)', NEW j \in Own(t)', i < j
       PROVE  JobAt(t, i)'.part < JobAt(t, j)'.part
  <2>1. /\ i \in Own(t) /\ JobAt(t, i)'.part = JobAt(t, i).part
        /\ j \in Own(t) /\ JobAt(t, j)'.part = JobAt(t, j).part
    BY <1>9
  <2>2. QED
    BY <1>1, <1>15, <2>1 DEF QueueOk
<1>16. QED
  BY <1>12, <1>14, <1>15 DEF QueueOk

\* The steps of a job: an attempt without a verdict, an answer, or the next attempt or call.
LEMMA SendCases ==
  ASSUME ReplyInv, NEW c \in Chats, NEW k \in DOMAIN jobs[c],
         MediaUnavailable(c, k) \/ Call(c, k) \/ Attempt(c, k)
  PROVE  LET job == jobs[c][k] t == job.turn IN
         /\ k \in Active(c) /\ Told(c, k)
         /\ \/ losses'[t] # 0
            \/ losses' = losses /\ Answer(c, k) /\ ToldOf(t, CallId(job))
            \/ /\ losses' = losses
               /\ \E b \in Jobs : /\ Becomes(c, k, b) /\ b.turn = t /\ b.part = job.part
                                  /\ Proceeds(t, job, b)
<1> DEFINE job == jobs[c][k]
           t == job.turn
           x == CallId(job)
<1>1. /\ job \in Jobs /\ t \in Turns /\ job.part \in Nat /\ job.call \in Nat /\ job.attempt \in Nat
  BY JobFacts
<1>2. k \in Active(c) /\ Told(c, k)
  BY DEF Told, MediaUnavailable, Call, Attempt, CallSucceeds, CallRefused, CallLost
<1>3. CASE MediaUnavailable(c, k)
  BY <1>2, <1>3 DEF MediaUnavailable, ToldOf
<1>4. CASE CallRefused(c, k)
  <2>1. /\ Answer(c, k) /\ UNCHANGED <<posted, late, losses>>
        /\ refused' = [refused EXCEPT ![t] = refused[t] \cup {x}]
    BY <1>4 DEF CallRefused
  <2> HIDE DEF x
  <2>2. refused'[t] = refused[t] \cup {x}
    BY <1>1, <2>1 DEF ReplyInv, ReplyTypes
  <2>3. ToldOf(t, x)
    BY <2>1, <2>2 DEF ToldOf
  <2>4. QED
    BY <1>2, <2>1, <2>3 DEF x
<1>5. CASE Call(c, k)
  <2> DEFINE call == job.call
             attempt == job.attempt
             b == At(job, "calling", call, attempt)
  <2>1. Becomes(c, k, b) /\ UNCHANGED <<posted, late, refused, losses>>
    BY <1>5 DEF Call, Goes, Becomes, At
  <2> HIDE DEF job
  <2>2. b \in Jobs /\ b.turn = job.turn /\ b.part = job.part /\ b.call = call
    <3>1. call \in Nat /\ attempt \in Nat /\ job \in Jobs
      BY <1>1
    <3> HIDE DEF call, attempt
    <3>2. QED
      BY <3>1, AtFacts
  <2>3. Proceeds(t, job, b)
    BY <2>1, <2>2 DEF Proceeds
  <2>4. QED
    BY <1>2, <2>1, <2>2, <2>3 DEF job
<1>6. CASE CallSucceeds(c, k)
  <2> DEFINE call == job.call + 1
             b == At(job, "accepted", call, 0)
  <2>1. /\ Becomes(c, k, b) \/ Answer(c, k)
        /\ posted' = [posted EXCEPT ![t] = Append(posted[t], x)] /\ UNCHANGED <<late, refused, losses>>
    BY <1>6 DEF CallSucceeds, Goes, Becomes, At
  <2>2. posted'[t] = Append(posted[t], x)
    <3> HIDE DEF x
    <3>1. QED
      BY <1>1, <2>1 DEF ReplyInv, ReplyTypes
  <2>3. CASE Answer(c, k)
    <3>1. ToldOf(t, x)
      BY <2>1, <2>2 DEF ToldOf
    <3>2. QED
      BY <1>2, <2>1, <2>3, <3>1
  <2>4. CASE Becomes(c, k, b)
    <3> HIDE DEF job
    <3>1. b \in Jobs /\ b.turn = job.turn /\ b.part = job.part /\ b.call = call
      <4>1. call \in Nat /\ 0 \in Nat /\ job \in Jobs
        BY <1>1
      <4> HIDE DEF call
      <4>2. QED
        BY <4>1, AtFacts
    <3>2. Proceeds(t, job, b)
      BY <2>1, <2>2, <3>1 DEF Proceeds
    <3>3. QED
      BY <1>2, <2>1, <2>4, <3>1, <3>2 DEF job
  <2>5. QED
    BY <2>1, <2>3, <2>4
<1>7. CASE \E fate \in {"executed", "late", "never"} : CallLost(c, k, fate)
  <2>1. losses' = [losses EXCEPT ![t] = losses[t] + 1]
    BY <1>7 DEF CallLost
  <2>2. losses'[t] = losses[t] + 1 /\ losses[t] \in Nat
    BY <1>1, <2>1 DEF ReplyInv, ReplyTypes
  <2>3. losses'[t] # 0
    BY <2>2
  <2>4. QED
    BY <1>2, <2>3
<1>8. QED
  BY <1>3, <1>4, <1>5, <1>6, <1>7 DEF Attempt

\* Every step of the send path keeps the order of every turn.
LEMMA SendOrder ==
  ASSUME ReplyInv, NEW c \in Chats, SendStep(c), NEW t \in Turns, OrderOk(t)
  PROVE  OrderOk(t)'
<1>1. PICK k \in DOMAIN jobs[c] : MediaUnavailable(c, k) \/ Call(c, k) \/ Attempt(c, k)
  BY DEF SendStep
<1> DEFINE job == jobs[c][k]
<1>2. /\ k \in 1..Len(jobs[c]) /\ job \in Jobs /\ ChatOf[job.turn] = c /\ job.turn \in Turns
  BY JobFacts DEF JobOk
<1>3. /\ k \in Active(c) /\ Told(c, k)
      /\ \/ losses'[job.turn] # 0
         \/ losses' = losses /\ Answer(c, k) /\ ToldOf(job.turn, CallId(job))
         \/ /\ losses' = losses
            /\ \E b \in Jobs : /\ Becomes(c, k, b) /\ b.turn = job.turn /\ b.part = job.part
                               /\ Proceeds(job.turn, job, b)
  BY <1>1, SendCases
<1>4. brokeOff' = brokeOff
  BY <1>3 DEF Told
<1>5. CASE t = job.turn
  <2>1. k \in Own(t) /\ JobAt(t, k) = job /\ ChatOf[t] = c
    BY <1>2, <1>5 DEF Own, JobAt
  <2>2. CASE losses'[t] # 0
    BY <2>2 DEF OrderOk, Orderly
  <2>3. CASE losses' = losses /\ Answer(c, k) /\ ToldOf(t, CallId(job))
    BY <1>3, <1>4, <2>1, <2>3, AnswerOrder
  <2>4. CASE losses' = losses /\ \E b \in Jobs : /\ Becomes(c, k, b) /\ b.turn = t /\ b.part = job.part
                                                  /\ Proceeds(t, job, b)
    <3>1. PICK b \in Jobs : Becomes(c, k, b) /\ b.turn = t /\ b.part = job.part /\ Proceeds(t, job, b)
      BY <2>4
    <3> HIDE DEF job
    <3>2. QED
      BY <1>3, <1>4, <2>1, <2>4, <3>1, GoesOrder
  <2>5. QED
    BY <1>3, <1>5, <2>2, <2>3, <2>4
<1>6. CASE t # job.turn
  <2>1. PICK u \in Turns : u = job.turn
    BY <1>2
  <2>2. /\ posted' = posted \/ \E v : posted' = [posted EXCEPT ![u] = v]
        /\ late' = late \/ \E v : late' = [late EXCEPT ![u] = v]
        /\ refused' = refused \/ \E v : refused' = [refused EXCEPT ![u] = v]
        /\ losses' = losses \/ \E v : losses' = [losses EXCEPT ![u] = v]
    BY <1>3, <2>1 DEF Told
  <2>3. posted'[t] = posted[t] /\ late'[t] = late[t] /\ refused'[t] = refused[t] /\ losses'[t] = losses[t]
    BY <1>6, <2>1, <2>2 DEF ReplyInv, ReplyTypes
  <2>4. Answer(c, k) \/ \E b \in Jobs : Becomes(c, k, b) /\ JobOk(c, b) /\ b.turn = job.turn
    BY <1>1, JobSteps
  <2>5. ReplyTypes
    BY DEF ReplyInv
  <2>6. CASE Answer(c, k)
    <3>1. sent'[t] = sent[t] /\ awaiting'[t] = awaiting[t]
      BY <1>6, <2>5, <2>6, AnswerFacts
    <3>2. Traced(t, {})
      BY <1>6, <2>6, AnswerTraced
    <3>3. QED
      BY <1>4, <2>3, <3>1, <3>2, AsideKeeps DEF Aside
  <2>7. CASE \E b \in Jobs : Becomes(c, k, b) /\ b.turn = job.turn
    <3>1. PICK b \in Jobs : Becomes(c, k, b) /\ b.turn = job.turn
      BY <2>7
    <3>2. UNCHANGED <<sent, awaiting>>
      BY <2>5, <3>1, BecomesFacts
    <3>3. Traced(t, {})
      BY <1>6, <3>1, BecomesTraced
    <3>4. QED
      BY <1>4, <2>3, <3>2, <3>3, AsideKeeps DEF Aside
  <2>8. QED
    BY <2>4, <2>6, <2>7
<1>7. QED
  BY <1>5, <1>6

\* The adapter posts the next part.
LEMMA DeliverOrder ==
  ASSUME ReplyInv, NEW u \in Turns, Deliver(u), NEW t \in Turns, OrderOk(t)
  PROVE  OrderOk(t)'
<1> DEFINE c == ChatOf[u]
           s == jobs[c]
           n == Len(s)
           new == [turn |-> u, part |-> sent[u] + 1, stage |-> "accepted", call |-> 1, attempt |-> 0]
<1>1. /\ ~awaiting[u]
      /\ awaiting' = [awaiting EXCEPT ![u] = TRUE] /\ jobs' = [jobs EXCEPT ![c] = Append(s, new)]
      /\ UNCHANGED <<sent, posted, late, refused, losses, brokeOff>>
  BY DEF Deliver, MayDeliver
<1>2. c \in Chats /\ s \in Seq(Jobs) /\ n \in Nat /\ sent[u] \in Nat /\ ChatOf[t] \in Chats
  <2>1. c \in Chats /\ ChatOf[t] \in Chats
    BY ReplyAssumption
  <2>2. s \in Seq(Jobs) /\ sent[u] \in Nat
    BY <2>1 DEF ReplyInv, ReplyTypes
  <2>3. QED
    BY <2>1, <2>2, LenProperties
<1>3. PICK b \in Jobs : b = new /\ b.turn = u /\ b.part = sent[u] + 1 /\ b.call = 1
  <2>1. new \in Jobs /\ new.turn = u /\ new.part = sent[u] + 1 /\ new.call = 1
    BY <1>2 DEF Jobs
  <2>2. QED
    BY <2>1
<1>l. PICK l \in Nat : l = n
  BY <1>2
<1>4. /\ Len(Append(s, b)) = l + 1 /\ (\A i \in 1..l : Append(s, b)[i] = s[i])
      /\ Append(s, b)[l + 1] = b
  BY <1>2, <1>3, <1>l, AppendProperties
<1> HIDE DEF new
<1>5. jobs'[c] = Append(s, b) /\ \A d \in Chats \ {c} : jobs'[d] = jobs[d]
  BY <1>1, <1>2, <1>3 DEF ReplyInv, ReplyTypes
<1>6. ASSUME NEW i \in Own(t)', ~(t = u /\ i = l + 1)
      PROVE  i \in Own(t) /\ JobAt(t, i)' = JobAt(t, i)
  <2>1. CASE ChatOf[t] # c
    <3>1. jobs'[ChatOf[t]] = jobs[ChatOf[t]]
      BY <1>2, <1>5, <2>1
    <3>2. QED
      BY <3>1 DEF Own, JobAt
  <2>2. CASE ChatOf[t] = c
    <3>1. i \in 1..l + 1 /\ jobs'[c][i].turn = t
      BY <1>4, <1>5, <2>2 DEF Own, JobAt
    <3>2. i # l + 1
      BY <1>3, <1>4, <1>5, <1>6, <3>1
    <3>3. i \in 1..l
      BY <1>2, <3>1, <3>2
    <3>4. jobs'[c][i] = jobs[c][i]
      BY <1>4, <1>5, <3>3
    <3>5. QED
      BY <1>l, <2>2, <3>1, <3>3, <3>4 DEF Own, JobAt
  <2>3. QED
    BY <2>1, <2>2
<1>7. CASE t # u
  <2>1. Aside(t)
    BY <1>1, <1>7 DEF Aside, ReplyInv, ReplyTypes
  <2>2. Traced(t, {})
    BY <1>6, <1>7, SameTraced
  <2>3. QED
    BY <2>1, <2>2, AsideKeeps
<1>8. CASE t = u
  <2> SUFFICES ASSUME Orderly(t)' PROVE HistoryOk(t)' /\ QueueOk(t)'
    BY DEF OrderOk
  <2>1. Orderly(t) /\ HistoryOk(t) /\ QueueOk(t)
    BY <1>1 DEF Orderly, OrderOk
  <2>2. ~awaiting[t] /\ awaiting'[t] /\ sent'[t] = sent[t] /\ Upto(t) = sent[t] /\ Upto(t)' = sent[t] + 1
    BY <1>1, <1>8 DEF Upto, ReplyInv, ReplyTypes
  <2>3. PICK m \in Nat : m = sent[t]
    BY <1>2, <1>8
  <2>4. /\ \A j \in 1..Len(posted[t]) : posted[t][j] \in CallIds /\ posted[t][j][1] \in Nat /\ posted[t][j][1] <= m
        /\ \A z \in refused[t] : z \in CallIds /\ z[1] \in Nat /\ z[1] <= m
    BY <2>1, <2>2, <2>3, VerdictTypes DEF HistoryOk, CallIds
  <2>5. HistoryOk(t)'
    <3>1. /\ \A j \in 1..Len(posted[t]) : posted[t][j][1] <= m + 1
          /\ \A z \in refused[t] : z[1] <= m + 1
      BY <2>4
    <3>2. QED
      BY <1>1, <2>1, <2>2, <2>3, <3>1 DEF HistoryOk
  <2>6. PICK y \in CallIds : y = CallId(b) /\ y[1] = m + 1
    BY <1>2, <1>3, <1>8, <2>3, CallIdFacts
  <2>7. After(t, y)'
    <3>1. \A j \in 1..Len(posted[t]) : Before(posted[t][j], y)
      BY <2>4, <2>6 DEF Before
    <3>2. \A z \in refused[t] : Before(z, y)
      BY <2>4, <2>6 DEF Before
    <3>3. QED
      BY <1>1, <3>1, <3>2 DEF After
  <2>8. JobInOrder(t, b)'
    <3>1. After(t, CallId(b))'
      BY <2>6, <2>7 DEF CallId
    <3>2. b.part <= Upto(t)' /\ awaiting'[t] /\ b.part = sent'[t] + 1
      BY <1>2, <1>3, <1>8, <2>2
    <3>3. QED
      BY <3>1, <3>2 DEF JobInOrder
  <2>9. JobAt(t, l + 1)' = b
    BY <1>4, <1>5, <1>8 DEF JobAt
  <2>10. ASSUME NEW i \in Own(t)', i # l + 1
         PROVE  /\ i \in Own(t) /\ JobAt(t, i)' = JobAt(t, i) /\ JobInOrder(t, JobAt(t, i))'
                /\ JobAt(t, i).part \in Nat /\ JobAt(t, i).part <= m
    <3>1. i \in Own(t) /\ JobAt(t, i)' = JobAt(t, i)
      BY <1>6, <2>10
    <3>2. PICK a : a = JobAt(t, i)
      OBVIOUS
    <3>3. JobInOrder(t, a) /\ a.part \in Nat
      BY <2>1, <3>1, <3>2, OwnFacts DEF QueueOk
    <3>4. brokeOff'[t] /\ a.part <= m
      BY <1>1, <2>2, <2>3, <3>3 DEF JobInOrder
    <3>5. a.part <= Upto(t)'
      BY <2>2, <2>3, <3>3, <3>4
    <3>6. After(t, CallId(a))'
      BY <1>1, <3>3 DEF JobInOrder, After, CallId
    <3>7. JobInOrder(t, a)'
      BY <3>4, <3>5, <3>6 DEF JobInOrder
    <3>8. QED
      BY <3>1, <3>2, <3>3, <3>4, <3>7 DEF JobInOrder
  <2>11. ASSUME NEW i \in Own(t)'
         PROVE  JobInOrder(t, JobAt(t, i))'
    <3>1. CASE i = l + 1
      BY <2>8, <2>9, <3>1 DEF JobInOrder
    <3>2. CASE i # l + 1
      BY <2>10, <3>2
    <3>3. QED
      BY <3>1, <3>2
  <2>12. ASSUME NEW i \in Own(t)', NEW j \in Own(t)', i < j
         PROVE  JobAt(t, i)'.part < JobAt(t, j)'.part
    <3>1. i \in 1..l + 1 /\ j \in 1..l + 1
      BY <1>4, <1>5, <1>8 DEF Own, JobAt
    <3>2. i # l + 1
      BY <1>2, <2>12, <3>1
    <3>3. CASE j # l + 1
      BY <2>1, <2>10, <2>12, <3>2, <3>3 DEF QueueOk
    <3>4. CASE j = l + 1
      <4>1. JobAt(t, j)'.part = m + 1
        BY <1>3, <1>8, <2>3, <2>9, <3>4
      <4>2. JobAt(t, i)'.part \in Nat /\ JobAt(t, i)'.part <= m
        BY <2>10, <3>2
      <4>3. QED
        BY <4>1, <4>2
    <3>5. QED
      BY <3>3, <3>4
  <2>13. QED
    BY <2>5, <2>11, <2>12 DEF QueueOk
<1>9. QED
  BY <1>7, <1>8

\* A part is refused, or its wait breaks off: what was posted so far stays what it was.
LEMMA PassedOrder ==
  ASSUME ReplyInv, NEW u \in Turns, DeliveryRefused(u) \/ WaitBreaks(u), NEW t \in Turns, OrderOk(t)
  PROVE  OrderOk(t)'
<1>1. UNCHANGED <<jobs, posted, late, refused, losses>> /\ sent' = [sent EXCEPT ![u] = sent[u] + 1]
  BY DEF DeliveryRefused, WaitBreaks
<1>2. Own(t)' = Own(t) /\ \A i : JobAt(t, i)' = JobAt(t, i)
  BY <1>1 DEF Own, JobAt
<1>3. CASE t # u
  <2>1. Aside(t)
    <3>1. /\ awaiting' = awaiting \/ awaiting' = [awaiting EXCEPT ![u] = FALSE]
          /\ brokeOff' = brokeOff \/ brokeOff' = [brokeOff EXCEPT ![u] = TRUE]
      BY DEF DeliveryRefused, WaitBreaks
    <3>2. awaiting'[t] = awaiting[t] /\ brokeOff'[t] = brokeOff[t] /\ sent'[t] = sent[t]
      BY <1>1, <1>3, <3>1 DEF ReplyInv, ReplyTypes
    <3>3. QED
      BY <1>1, <3>2 DEF Aside
  <2>2. Traced(t, {})
    BY <1>2, SameTraced
  <2>3. QED
    BY <2>1, <2>2, AsideKeeps
<1>4. CASE t = u
  <2> SUFFICES ASSUME Orderly(t)' PROVE HistoryOk(t)' /\ QueueOk(t)'
    BY DEF OrderOk
  <2>1. sent'[t] = sent[t] + 1 /\ sent[t] \in Nat
    BY <1>1, <1>4 DEF ReplyInv, ReplyTypes
  <2>2. \/ ~awaiting[t] /\ ~awaiting'[t] /\ brokeOff'[t] = brokeOff[t]
        \/ awaiting[t] /\ ~awaiting'[t] /\ brokeOff'[t]
    BY <1>4 DEF DeliveryRefused, MayDeliver, WaitBreaks, ReplyInv, ReplyTypes
  <2>3. Orderly(t) /\ HistoryOk(t) /\ QueueOk(t)
    BY <1>1, <2>2 DEF Orderly, OrderOk
  <2>4. Upto(t) \in Nat /\ Upto(t)' \in Nat /\ Upto(t) <= Upto(t)'
    BY <2>1, <2>2 DEF Upto
  <2>5. HistoryOk(t)'
    <3>1. /\ \A j \in 1..Len(posted[t]) : posted[t][j][1] \in Nat
          /\ \A z \in refused[t] : z[1] \in Nat
      BY VerdictTypes DEF CallIds
    <3>2. /\ \A j \in 1..Len(posted[t]) : posted[t][j][1] <= Upto(t)'
          /\ \A z \in refused[t] : z[1] <= Upto(t)'
      BY <2>3, <2>4, <3>1 DEF HistoryOk
    <3>3. QED
      BY <1>1, <2>3, <3>2 DEF HistoryOk
  <2>6. ASSUME NEW i \in Own(t)'
        PROVE  JobInOrder(t, JobAt(t, i))'
    <3>1. i \in Own(t) /\ JobAt(t, i)' = JobAt(t, i)
      BY <1>2
    <3>2. PICK a : a = JobAt(t, i)
      OBVIOUS
    <3>3. JobInOrder(t, a) /\ a.part \in Nat
      BY <2>3, <3>1, <3>2, OwnFacts DEF QueueOk
    <3>4. brokeOff'[t]
      BY <2>2, <3>3 DEF JobInOrder
    <3>5. a.part <= Upto(t)'
      BY <2>4, <3>3 DEF JobInOrder
    <3>6. After(t, CallId(a))'
      BY <1>1, <3>3 DEF JobInOrder, After, CallId
    <3>7. JobInOrder(t, a)'
      BY <3>4, <3>5, <3>6 DEF JobInOrder
    <3>8. QED
      BY <3>1, <3>2, <3>7 DEF JobInOrder
  <2>7. ASSUME NEW i \in Own(t)', NEW j \in Own(t)', i < j
        PROVE  JobAt(t, i)'.part < JobAt(t, j)'.part
    BY <1>2, <2>3, <2>7 DEF QueueOk
  <2>8. QED
    BY <2>5, <2>6, <2>7 DEF QueueOk
<1>5. QED
  BY <1>3, <1>4

\* Nothing given up is left of a turn whose every attempt brought a verdict.
LEMMA LateOrder ==
  ASSUME ReplyInv, NEW u \in Turns, LateExecution(u), NEW t \in Turns, OrderOk(t)
  PROVE  OrderOk(t)'
<1>1. PICK a \in late[u] : /\ late' = [late EXCEPT ![u] = late[u] \ {a}]
                           /\ posted' = [posted EXCEPT ![u] = Append(posted[u], <<a[1], a[2]>>)]
  BY DEF LateExecution
<1>2. UNCHANGED <<parts, sent, awaiting, jobs, refused, losses, brokeOff>>
  BY DEF LateExecution
<1>3. CASE t = u
  <2>1. ~Orderly(t)
    BY <1>3 DEF OrderOk, HistoryOk
  <2>2. QED
    BY <1>2, <2>1 DEF OrderOk, Orderly
<1>4. CASE t # u
  <2>1. late'[t] = late[t] /\ posted'[t] = posted[t]
    <3> DEFINE l == late[u] \ {a}
               p == Append(posted[u], <<a[1], a[2]>>)
    <3>1. late' = [late EXCEPT ![u] = l] /\ posted' = [posted EXCEPT ![u] = p]
      BY <1>1
    <3> HIDE DEF l, p
    <3>2. QED
      BY <1>4, <3>1 DEF ReplyInv, ReplyTypes
  <2>2. Aside(t)
    BY <1>2, <2>1 DEF Aside
  <2>3. Own(t)' = Own(t) /\ \A i : JobAt(t, i)' = JobAt(t, i)
    BY <1>2 DEF Own, JobAt
  <2>4. Traced(t, {})
    BY <2>3, SameTraced
  <2>5. QED
    BY <2>2, <2>4, AsideKeeps
<1>5. QED
  BY <1>3, <1>4

\* The middleware dies: a call under way was lost, and otherwise nothing was.
LEMMA SendsDieOrder ==
  ASSUME ReplyInv, SendsDie, NEW t \in Turns, OrderOk(t)
  PROVE  OrderOk(t)'
<1> SUFFICES ASSUME Orderly(t)' PROVE HistoryOk(t)' /\ QueueOk(t)'
  BY DEF OrderOk
<1> DEFINE hit == {k \in DOMAIN jobs[ChatOf[t]] : jobs[ChatOf[t]][k].turn = t}
           open == {k \in hit : jobs[ChatOf[t]][k].stage = "calling"}
           tried == {<<jobs[ChatOf[t]][k].part, jobs[ChatOf[t]][k].call, jobs[ChatOf[t]][k].attempt>> :
                       k \in open}
<1>1. /\ jobs' = [c \in Chats |-> <<>>] /\ ~awaiting'[t]
      /\ sent'[t] = (IF awaiting[t] THEN sent[t] + 1 ELSE sent[t])
      /\ UNCHANGED <<posted, refused, brokeOff>>
  BY DEF SendsDie
<1>2. late'[t] = late[t] \cup tried /\ losses'[t] = (IF open = {} THEN losses[t] ELSE losses[t] + 1)
  BY DEF SendsDie
<1>3. losses[t] \in Nat
  BY DEF ReplyInv, ReplyTypes
<1>4. open = {} /\ losses[t] = 0
  <2> HIDE DEF open
  <2>1. losses'[t] = 0
    BY DEF Orderly
  <2>2. QED
    BY <1>2, <1>3, <2>1
<1>5. tried = {}
  <2> HIDE DEF open
  <2>1. QED
    BY <1>4
<1>6. Orderly(t) /\ HistoryOk(t)
  BY <1>1, <1>4 DEF Orderly, OrderOk
<1>7. Upto(t)' = Upto(t)
  BY <1>1 DEF Upto
<1>8. late'[t] = {}
  BY <1>2, <1>5, <1>6 DEF HistoryOk
<1>9. HistoryOk(t)'
  BY <1>1, <1>6, <1>7, <1>8 DEF HistoryOk
<1>10. Own(t)' = {}
  <2>1. ChatOf[t] \in Chats /\ Len(<<>>) = 0
    BY ReplyAssumption
  <2>2. jobs'[ChatOf[t]] = <<>>
    BY <1>1, <2>1
  <2>3. QED
    BY <2>1, <2>2 DEF Own
<1>11. QED
  BY <1>9, <1>10 DEF QueueOk

OrderInv == \A t \in Turns : OrderOk(t)

\* The order holds initially.
LEMMA OrderInit ==
  ASSUME Init
  PROVE  OrderInv
<1> SUFFICES ASSUME NEW t \in Turns PROVE HistoryOk(t) /\ QueueOk(t)
  BY DEF OrderInv, OrderOk
<1>1. /\ posted[t] = <<>> /\ late[t] = {} /\ refused[t] = {} /\ Len(<<>>) = 0
      /\ ChatOf[t] \in Chats /\ jobs[ChatOf[t]] = <<>>
  BY ReplyAssumption DEF Init, ReplyInit
<1>2. HistoryOk(t)
  BY <1>1 DEF HistoryOk
<1>3. Own(t) = {}
  BY <1>1 DEF Own
<1>4. QED
  BY <1>2, <1>3 DEF QueueOk

\* Every step keeps the order.
LEMMA OrderStep ==
  ASSUME ReplyInv, OrderInv, [Next]_vars
  PROVE  OrderInv'
<1> SUFFICES ASSUME NEW t \in Turns PROVE OrderOk(t)'
  BY DEF OrderInv
<1>1. OrderOk(t)
  BY DEF OrderInv
<1>2. CASE UNCHANGED <<sent, awaiting, jobs, posted, late, refused, losses, brokeOff>>
  <2>1. Aside(t)
    BY <1>2 DEF Aside
  <2>2. Own(t)' = Own(t) /\ \A i : JobAt(t, i)' = JobAt(t, i)
    BY <1>2 DEF Own, JobAt
  <2>3. Traced(t, {})
    BY <2>2, SameTraced
  <2>4. QED
    BY <1>1, <2>1, <2>3, AsideKeeps
<1>3. ASSUME NEW u \in Turns, TurnStep(u) \/ MediaWaitBreaks(u)
      PROVE  OrderOk(t)'
  <2>1. UNCHANGED <<sent, awaiting, jobs, posted, late, refused, losses, brokeOff>>
    BY <1>3 DEF TurnStep, Authorize, RequestMedia, SkipMedia, MediaReturns, MediaWaitBreaks, DecodeVoice,
                Route, AgentReads, AgentReplies, EndTurn, replyVars
  <2>2. QED
    BY <1>2, <2>1
<1>4. CASE (\E m \in Messages : MediaStep(m)) \/ UNCHANGED vars
  <2>1. UNCHANGED <<sent, awaiting, jobs, posted, late, refused, losses, brokeOff>>
    BY <1>4 DEF MediaStep, vars, replyVars
  <2>2. QED
    BY <1>2, <2>1
<1>5. ASSUME NEW u \in Turns, DeliverStep(u)
      PROVE  OrderOk(t)'
  BY <1>1, <1>5, DeliverOrder, PassedOrder DEF DeliverStep
<1>6. ASSUME NEW u \in Turns, Mishap(u)
      PROVE  OrderOk(t)'
  BY <1>1, <1>6, PassedOrder, LateOrder DEF Mishap
<1>7. ASSUME NEW c \in Chats, SendStepOf(c)
      PROVE  OrderOk(t)'
  BY <1>1, <1>7, SendOrder DEF SendStepOf
<1>8. CASE MiddlewareDies
  BY <1>1, <1>8, SendsDieOrder DEF MiddlewareDies
<1>9. QED
  BY <1>3, <1>4, <1>5, <1>6, <1>7, <1>8 DEF Next

\* As long as every attempt brought a verdict, and no wait broke off where no pacer
\* serialises the conversation, the conversation holds each call of the reply at most
\* once and in order, and none the upstream refused (maxApiCall, client.ts 1870-1922,
\* createSendHandler in wiring.ts, deliver in dispatch.ts).
THEOREM OrderAlways == Spec => []OnceAndInOrder
<1>1. Init => OrderInv
  BY OrderInit
<1>2. TurnInv /\ OrderInv /\ [Next]_vars => OrderInv'
  BY OrderStep DEF TurnInv
<1>3. TurnInv /\ OrderInv => OnceAndInOrder
  <2> SUFFICES ASSUME TurnInv, OrderInv, NEW t \in Turns, Orderly(t)
               PROVE  /\ \A j, k \in DOMAIN posted[t] : j < k => Before(posted[t][j], posted[t][k])
                      /\ Range(posted[t]) \cap refused[t] = {}
    BY DEF OnceAndInOrder, Orderly
  <2>1. HistoryOk(t) /\ DOMAIN posted[t] = 1..Len(posted[t])
    <3>1. posted[t] \in Seq(CallIds)
      BY VerdictTypes DEF TurnInv
    <3>2. QED
      BY <3>1, LenProperties DEF OrderInv, OrderOk
  <2>2. QED
    BY <2>1 DEF HistoryOk, Range
<1>4. QED
  BY <1>1, <1>2, <1>3, TurnInvAlways, PTL DEF Spec
=============================================================================
