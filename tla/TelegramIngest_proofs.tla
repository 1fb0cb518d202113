------------------------ MODULE TelegramIngest_proofs ------------------------
(***************************************************************************)
(* Proofs about the ingestion of the channel, for any number of processes, *)
(* messages, attempts and updates.  The inductive invariant is built in    *)
(* layers, each resting on those before it:                                *)
(*   Shape       types, and where a process has a message, a photo or an   *)
(*               update in hand;                                           *)
(*   ChannelInv  what a row and a post tell is an acknowledged update of   *)
(*               their message, an acknowledged update is in a row or was  *)
(*               seen published, and a photo that was left does not come   *)
(*               back;                                                     *)
(*   FileInv     a file a post, a row or a running job names is stored;    *)
(*   PayInv      what a job remembers agrees with its row as long as it    *)
(*               has the lease, and every paid submission but the first    *)
(*               was consented to.                                         *)
(***************************************************************************)
EXTENDS TelegramIngest, FiniteSetTheorems, TLAPS

(***************************************************************************)
(* The inductive invariants.                                               *)
(***************************************************************************)
Photo(p) == process[p].photo
Message(p) == process[p].message

JobPcs == {"looking", "removing", "submitting", "accepted", "refused", "waiting",
           "uploading", "uploaded", "ready", "failed"}
InJob(p) == process[p].pc \in JobPcs

\* Where a process is about a photo, a job's or a file to remove.
PhotoPcs == (JobPcs \ {"looking", "ready", "failed"}) \cup {"discarding", "retiring"}

\* A row that used its last attempt is blocked.
RetriesLeft == \A m \in Messages : row[m].attempts = MaxAttempts => row[m].stage = "blocked"
JobsAreWhole == \A p \in Processes :
    /\ InJob(p) => Message(p) \in Messages
    /\ process[p].pc \in PhotoPcs => Photo(p) # 0
    /\ process[p].pc \in {"fetched", "saving"} => process[p].update \in 1..Len(updates)
\* The row of a job under the lease is there and not blocked: nobody else
\* publishes or blocks it, and a new photo only starts it again.
HeldRowIsLive == \A p \in Processes :
    InJob(p) /\ Leases("media", p) => Stays(Message(p)) /\ row[Message(p)].stage # "blocked"
OffsetIsNear == offset <= Len(updates) + 1

Shape == TypeOK /\ RetriesLeft /\ JobsAreWhole /\ HeldRowIsLive /\ OffsetIsNear

\* The updates of a message from the one that brought a photo to one that has it
\* all have it: a photo does not come back.
PhotosStay == \A k \in 1..Len(updates) : updates[k].photo # 0 =>
    /\ updates[k].photo <= k
    /\ updates[updates[k].photo].message = updates[k].message
    /\ \A u \in updates[k].photo..k :
          updates[u].message = updates[k].message => updates[u].photo = updates[k].photo

\* An open transaction has the lease; who has the lease saves the next update.
SaversHold == \A p \in Processes :
    /\ At(p, "saving") => Leases("ingest", p)
    /\ process[p].pc \in {"fetched", "saving"} /\ Leases("ingest", p)
         => process[p].update = offset

IsOf(u, m, photo) == u < offset /\ updates[u].message = m /\ updates[u].photo = photo

\* A row is of the newest acknowledged update of its message, a post of an older
\* one than the row.
RowsTell == \A m \in Messages : Stays(m) =>
    /\ IsOf(row[m].update, m, row[m].photo)
    /\ row[m].update > post[m].update
    /\ \A u \in 1..(offset - 1) : updates[u].message = m => u <= row[m].update
PostsTell == \A m \in Messages :
    IF post[m].update = 0 THEN post[m].photo = 0 ELSE IsOf(post[m].update, m, post[m].photo)

\* A row that is gone has no file.
GoneHasNoFile == \A m \in Messages : ~Stays(m) => ~row[m].media

\* A row that was read, and is gone, was published.
SeenIsHeld == \A p \in Processes : At(p, "saving") /\ process[p].seen =>
    \/ Stays(updates[process[p].update].message)
    \/ post[updates[process[p].update].message].update # 0
\* The photo of a job, or of the row that was read, is an acknowledged one of the
\* same message.
PhotosAreKnown == \A p \in Processes : Photo(p) # 0 =>
    /\ At(p, "saving") =>
          Photo(p) < offset /\ updates[Photo(p)].message = updates[process[p].update].message
    /\ InJob(p) => Photo(p) < offset /\ updates[Photo(p)].message = Message(p)

\* The message of photo j has got another one since.
Past(j) == \E u \in j..(offset - 1) :
    updates[u].message = updates[j].message /\ updates[u].photo # j
GoneIsPast == \A p \in Processes :
    process[p].pc \in {"discarding", "retiring"} => Past(Photo(p))

ChannelInv == /\ PhotosStay /\ SaversHold /\ RowsTell /\ PostsTell /\ SeenIsHeld
              /\ AcknowledgedIsHeld /\ PhotosAreKnown /\ GoneIsPast /\ GoneHasNoFile

\* A job that may still write its row, about a photo.
OwnsPhoto(p) == InJob(p) /\ Owned(p) /\ Photo(p) # 0

MediaIsStored == \A m \in Messages : Stays(m) /\ row[m].media => row[m].photo \in files
UploadIsStored == \A p \in Processes :
    OwnsPhoto(p) /\ process[p].pc \in {"uploaded", "ready"} => Photo(p) \in files

FileInv == PublishedPhotoIsStored /\ MediaIsStored /\ UploadIsStored

\* What the stage of a row says of its other columns.
StageTells(r) ==
    /\ r.stage \in {"pending", "submitting"} => ~r.request
    /\ r.stage = "submitted" => r.request
    /\ r.stage = "uploaded" => r.media
    /\ r.uncertain => r.stage = "blocked"
StagesTell == \A m \in Messages : StageTells(row[m])

\* What a job that may still write its row knows of it.
JobsAgree == \A p \in Processes : OwnsPhoto(p) =>
    /\ process[p].pc \in {"looking", "removing"} =>
          /\ row[Message(p)].stage = process[p].stage
          /\ row[Message(p)].request = process[p].request
    /\ At(p, "removing") => ~row[Message(p)].media /\ post[Message(p)].photo # Photo(p)
    /\ process[p].pc \in {"submitting", "accepted", "refused"} =>
          row[Message(p)].stage = "submitting"
    /\ At(p, "waiting") => row[Message(p)].request
    /\ row[Message(p)].stage = "submitting" => Unanswered(process[p].stage, process[p].request)

\* The submissions of photo j under way, and those that were refused and not yet
\* recorded.
Submitters(j) ==
    {p \in Processes : process[p].pc \in {"submitting", "refused"} /\ Photo(p) = j}
\* A row a job may submit the photo of, at once or after a retry of an administrator
\* who did not agree to pay again.
Unsubmitted(r) ==
    ~r.media /\ ~r.request /\ ~r.uncertain /\ r.stage \in {"pending", "blocked"}
\* Photo j may be submitted though nobody agreed to pay again.
MayPay(j) ==
    /\ ~Past(j)
    /\ \A m \in Messages : /\ post[m].photo # j
                           /\ Stays(m) /\ row[m].photo = j => Unsubmitted(row[m])

\* Each submission that is still possible is paid for.
CreditIsKept == \A j \in Updates :
    credit[j] >= Cardinality(Submitters(j)) + (IF MayPay(j) THEN 1 ELSE 0)

PayInv == StagesTell /\ JobsAgree /\ CreditIsKept

(***************************************************************************)
(* What a step does to the one process or row it is about.                 *)
(***************************************************************************)
Only(p) == /\ process' \in [Processes -> Process]
           /\ \A q \in Processes \ {p} : process'[q] = process[q]

\* Process p goes on with what it is about.
GoesOn(p, pc, stage, request) ==
    /\ Only(p)
    /\ process'[p].pc = pc /\ process'[p].stage = stage /\ process'[p].request = request
    /\ process'[p].message = process[p].message /\ process'[p].photo = process[p].photo
    /\ process'[p].update = process[p].update /\ process'[p].seen = process[p].seen

\* Process p is about nothing any more, or about a file to remove.
Rests(p, pc, photo) == Only(p) /\ process'[p].pc = pc /\ process'[p].photo = photo

\* The row of message m keeps its update and photo.
RowIs(m, stage, request, uncertain, media) ==
    /\ row' \in [Messages -> Row]
    /\ \A n \in Messages \ {m} : row'[n] = row[n]
    /\ row'[m].update = row[m].update /\ row'[m].photo = row[m].photo
    /\ row'[m].stage = stage /\ row'[m].request = request
    /\ row'[m].uncertain = uncertain /\ row'[m].media = media
    /\ row'[m].attempts = MaxAttempts => stage = "blocked"

LEMMA Typing ==
  ASSUME Shape
  PROVE  /\ Len(updates) \in Nat /\ Len(updates) <= MaxUpdates
         /\ DOMAIN updates = 1..Len(updates)
         /\ \A u \in 1..Len(updates) :
               updates[u].message \in Messages /\ updates[u].photo \in 0..MaxUpdates
         /\ offset \in Nat /\ offset >= 1 /\ offset <= Len(updates) + 1
         /\ \A m \in Messages : row[m] \in Row /\ post[m] \in Post
         /\ \A p \in Processes : process[p] \in Process
<1>1. /\ updates \in Seq(Update) /\ Len(updates) <= MaxUpdates
      /\ offset \in 1..(MaxUpdates + 1) /\ offset <= Len(updates) + 1
      /\ row \in [Messages -> Row] /\ post \in [Messages -> Post]
      /\ process \in [Processes -> Process]
  BY Zenon DEF Shape, TypeOK, OffsetIsNear
<1>2. /\ Len(updates) \in Nat /\ DOMAIN updates = 1..Len(updates)
      /\ \A u \in 1..Len(updates) : updates[u] \in Update
  BY <1>1
<1>3. \A u \in 1..Len(updates) :
          updates[u].message \in Messages /\ updates[u].photo \in 0..MaxUpdates
  BY <1>2, SMT DEF Update, Photos
<1>4. offset \in Nat /\ offset >= 1
  BY <1>1, BoundAssumption
<1>5. QED
  BY <1>1, <1>2, <1>3, <1>4

LEMMA Moved ==
  ASSUME TypeOK, NEW p \in Processes, NEW j \in Process, Becomes(p, j)
  PROVE  Only(p) /\ process'[p] = j
  BY SMT DEF TypeOK, Becomes, Only

LEMMA Going ==
  ASSUME Shape, NEW p \in Processes,
         NEW pc \in JobPcs \cup {"idle", "polling", "polled", "media"}, Goes(p, pc)
  PROVE  GoesOn(p, pc, process[p].stage, process[p].request)
<1> DEFINE j == [process[p] EXCEPT !.pc = pc]
<1>1. process[p] \in Process /\ TypeOK
  BY DEF Shape, TypeOK
<1>2. pc \in {"idle", "polling", "fetched", "saving", "discarding", "polled",
              "media", "looking", "removing", "submitting", "accepted",
              "refused", "waiting", "uploading", "uploaded", "ready", "failed", "retiring"}
  BY Zenon DEF JobPcs
<1>3. /\ j \in Process /\ j.pc = pc /\ j.stage = process[p].stage
      /\ j.request = process[p].request /\ j.message = process[p].message
      /\ j.photo = process[p].photo /\ j.update = process[p].update
      /\ j.seen = process[p].seen
  BY <1>1, <1>2, Zenon DEF Process
<1>4. Becomes(p, j)
  BY Zenon DEF Goes
<1>5. Only(p) /\ process'[p] = j
  BY <1>1, <1>3, <1>4, Moved, Zenon
<1>6. QED
  BY <1>3, <1>5, Zenon DEF GoesOn

LEMMA GoingStaged ==
  ASSUME Shape, NEW p \in Processes, NEW pc \in JobPcs, NEW stage \in Stages,
         Becomes(p, [process[p] EXCEPT !.pc = pc, !.stage = stage])
  PROVE  GoesOn(p, pc, stage, process[p].request)
<1> DEFINE j == [process[p] EXCEPT !.pc = pc, !.stage = stage]
<1>1. process[p] \in Process /\ TypeOK
  BY DEF Shape, TypeOK
<1>2. pc \in {"idle", "polling", "fetched", "saving", "discarding", "polled",
              "media", "looking", "removing", "submitting", "accepted",
              "refused", "waiting", "uploading", "uploaded", "ready", "failed", "retiring"}
  BY Zenon DEF JobPcs
<1>3. /\ j \in Process /\ j.pc = pc /\ j.stage = stage
      /\ j.request = process[p].request /\ j.message = process[p].message
      /\ j.photo = process[p].photo /\ j.update = process[p].update
      /\ j.seen = process[p].seen
  BY <1>1, <1>2, Zenon DEF Process
<1>5. Only(p) /\ process'[p] = j
  BY <1>1, <1>3, Moved, Zenon
<1>6. QED
  BY <1>3, <1>5, Zenon DEF GoesOn

LEMMA IdleTyped == Idle \in Process /\ Idle.pc = "idle" /\ Idle.photo = 0
  BY BoundAssumption, SMT DEF Idle, Process, Stages, Photos

LEMMA Resting ==
  ASSUME Shape, NEW p \in Processes,
         NEW pc \in {"polling", "discarding", "polled", "media", "retiring"},
         NEW photo \in Photos,
         \/ Becomes(p, [Idle EXCEPT !.pc = pc, !.photo = photo])
         \/ photo = 0 /\ Becomes(p, [Idle EXCEPT !.pc = pc])
  PROVE  Rests(p, pc, photo)
<1>1. TypeOK
  BY DEF Shape
<1>2. CASE Becomes(p, [Idle EXCEPT !.pc = pc, !.photo = photo])
  <2> DEFINE j == [Idle EXCEPT !.pc = pc, !.photo = photo]
  <2>1. j \in Process /\ j.pc = pc /\ j.photo = photo
    BY IdleTyped, Zenon DEF Process
  <2>2. QED
    BY <1>1, <1>2, <2>1, Moved, Zenon DEF Rests
<1>3. CASE photo = 0 /\ Becomes(p, [Idle EXCEPT !.pc = pc])
  <2> DEFINE j == [Idle EXCEPT !.pc = pc]
  <2>1. j \in Process /\ j.pc = pc /\ j.photo = 0
    BY IdleTyped, Zenon DEF Process
  <2>2. QED
    BY <1>1, <1>3, <2>1, Moved, Zenon DEF Rests
<1>4. QED
  BY <1>2, <1>3

LEMMA Stopping ==
  ASSUME Shape, NEW p \in Processes, Becomes(p, Idle)
  PROVE  Rests(p, "idle", 0)
<1>1. TypeOK
  BY DEF Shape
<1>2. QED
  BY <1>1, IdleTyped, Moved, Zenon DEF Rests

LEMMA Rewritten ==
  ASSUME TypeOK, NEW m \in Messages, NEW r \in Row, RowBecomes(m, r),
         r.update = row[m].update, r.photo = row[m].photo,
         r.attempts = MaxAttempts => r.stage = "blocked"
  PROVE  RowIs(m, r.stage, r.request, r.uncertain, r.media)
<1>1. /\ row' \in [Messages -> Row] /\ row'[m] = r
      /\ \A n \in Messages \ {m} : row'[n] = row[n]
  BY SMT DEF TypeOK, RowBecomes
<1>2. QED
  BY <1>1, Zenon DEF RowIs

(***************************************************************************)
(* What every action does, in those terms.                                 *)
(***************************************************************************)
\* Process p ends what it does, and gives up no lease but its own.
Idles(p) ==
    /\ Only(p)
    /\ process'[p].pc \in {"idle", "polling", "polled", "media"}
    /\ lease' \in [{"ingest", "media"} -> Processes \cup {Nobody}]
    /\ \A q \in Processes \ {p}, work \in {"ingest", "media"} :
          lease'[work] = q <=> lease[work] = q

LEMMA LeaseTaken ==
  ASSUME TypeOK, NEW p \in Processes, NEW work \in {"ingest", "media"},
         Acquire(work, p) \/ Release(work, p) \/ UNCHANGED lease
  PROVE  /\ lease' \in [{"ingest", "media"} -> Processes \cup {Nobody}]
         /\ \A q \in Processes \ {p}, any \in {"ingest", "media"} :
               lease'[any] = q <=> lease[any] = q
  BY ProcessAssumption, SMT DEF TypeOK, Acquire, Release

LEMMA IdlingEffect ==
  ASSUME Shape, NEW p \in Processes,
         \/ BeginPoll(p) \/ EndPoll(p) \/ BeginMedia(p)
         \/ EndMedia(p) \/ BreaksOff(p) \/ Crash(p)
  PROVE  Idles(p) /\ UNCHANGED <<updates, retries, offset, row, post, files, credit>>
<1>0. TypeOK
  BY DEF Shape
<1>1. CASE BeginPoll(p)
  <2>1. /\ Acquire("ingest", p) /\ Goes(p, "polling")
        /\ UNCHANGED <<updates, retries, offset, row, post, files, credit>>
    BY <1>1, Zenon DEF BeginPoll, channel
  <2>2. GoesOn(p, "polling", process[p].stage, process[p].request)
    BY <2>1, Going, Zenon
  <2>3. QED
    BY <1>0, <2>1, <2>2, LeaseTaken, Zenon DEF Idles, GoesOn
<1>2. CASE EndPoll(p)
  <2>1. /\ Release("ingest", p) /\ Becomes(p, [Idle EXCEPT !.pc = "polled"])
        /\ UNCHANGED <<updates, retries, offset, row, post, files, credit>>
    BY <1>2, Zenon DEF EndPoll, channel
  <2>2. 0 \in Photos
    BY BoundAssumption DEF Photos
  <2>3. Rests(p, "polled", 0)
    BY <2>1, <2>2, Resting, Zenon
  <2>4. QED
    BY <1>0, <2>1, <2>3, LeaseTaken, Zenon DEF Idles, Rests
<1>3. CASE BeginMedia(p)
  <2>1. /\ \/ Acquire("media", p) /\ Goes(p, "media")
           \/ Becomes(p, Idle) /\ UNCHANGED lease
        /\ UNCHANGED <<updates, retries, offset, row, post, files, credit>>
    BY <1>3, Zenon DEF BeginMedia, channel
  <2>2. CASE Acquire("media", p) /\ Goes(p, "media")
    <3>1. GoesOn(p, "media", process[p].stage, process[p].request)
      BY <2>2, Going, Zenon
    <3>2. QED
      BY <1>0, <2>1, <2>2, <3>1, LeaseTaken, Zenon DEF Idles, GoesOn
  <2>3. CASE Becomes(p, Idle) /\ UNCHANGED lease
    BY <1>0, <2>1, <2>3, Stopping, LeaseTaken, Zenon DEF Idles, Rests
  <2>4. QED
    BY <2>1, <2>2, <2>3, Zenon
<1>4. CASE EndMedia(p) \/ BreaksOff(p)
  <2>1. /\ Release("media", p) /\ Becomes(p, Idle)
        /\ UNCHANGED <<updates, retries, offset, row, post, files, credit>>
    BY <1>4, Zenon DEF EndMedia, BreaksOff, channel
  <2>2. QED
    BY <1>0, <2>1, Stopping, LeaseTaken, Zenon DEF Idles, Rests
<1>5. CASE Crash(p)
  <2>1. /\ Becomes(p, Idle) /\ UNCHANGED lease
        /\ UNCHANGED <<updates, retries, offset, row, post, files, credit>>
    BY <1>5, Zenon DEF Crash, channel
  <2>2. QED
    BY <1>0, <2>1, Stopping, LeaseTaken, Zenon DEF Idles, Rests
<1>6. QED
  BY <1>1, <1>2, <1>3, <1>4, <1>5

\* The clean-ups and the job that is lost.
LEMMA RemovingEffect ==
  ASSUME Shape, NEW p \in Processes,
         CleanDiscarded(p) \/ SkipLost(p) \/ RemoveRetired(p)
  PROVE  /\ Idles(p) /\ UNCHANGED <<updates, retries, offset, row, post, lease, credit>>
         /\ files' \subseteq files
<1>0. TypeOK /\ 0 \in Photos
  BY BoundAssumption DEF Shape, Photos
<1>1. CASE CleanDiscarded(p)
  <2>1. /\ Becomes(p, [Idle EXCEPT !.pc = "polling"])
        /\ UNCHANGED <<updates, retries, offset, row, post, lease, credit>>
        /\ files' = IF Unused(process[p].photo) THEN files \ {process[p].photo} ELSE files
    BY <1>1, Zenon DEF CleanDiscarded, channel
  <2>2. Rests(p, "polling", 0)
    BY <1>0, <2>1, Resting, Zenon
  <2>3. Idles(p)
    BY <1>0, <2>1, <2>2, LeaseTaken, Zenon DEF Idles, Rests
  <2>4. QED
    BY <2>1, <2>3
<1>2. CASE SkipLost(p)
  <2> DEFINE discards == At(p, "uploaded") /\ Leases("media", p) /\ Unused(process[p].photo)
  <2>1. /\ Becomes(p, [Idle EXCEPT !.pc = "media"])
        /\ UNCHANGED <<updates, retries, offset, row, post, lease, credit>>
        /\ files' = IF discards THEN files \ {process[p].photo} ELSE files
    BY <1>2, Zenon DEF SkipLost, channel
  <2>2. Rests(p, "media", 0)
    BY <1>0, <2>1, Resting, Zenon
  <2>3. Idles(p)
    BY <1>0, <2>1, <2>2, LeaseTaken, Zenon DEF Idles, Rests
  <2> HIDE DEF discards
  <2>4. QED
    BY <2>1, <2>3
<1>3. CASE RemoveRetired(p)
  <2> DEFINE shown == \E m \in Messages : post[m].photo = process[p].photo
  <2>1. /\ Becomes(p, [Idle EXCEPT !.pc = "media"])
        /\ UNCHANGED <<updates, retries, offset, row, post, lease, credit>>
        /\ files' = IF shown THEN files ELSE files \ {process[p].photo}
    BY <1>3, Zenon DEF RemoveRetired, channel
  <2>2. Rests(p, "media", 0)
    BY <1>0, <2>1, Resting, Zenon
  <2>3. Idles(p)
    BY <1>0, <2>1, <2>2, LeaseTaken, Zenon DEF Idles, Rests
  <2> HIDE DEF shown
  <2>4. QED
    BY <2>1, <2>3
<1>4. QED
  BY <1>1, <1>2, <1>3

\* A job goes on and writes no row.
Proceeds(p, pc, stage, request) ==
    /\ InJob(p) /\ GoesOn(p, pc, stage, request)
    /\ UNCHANGED <<updates, retries, offset, row, post, lease>>

LEMMA LookUpEffect ==
  ASSUME Shape, NEW p \in Processes, LookUp(p)
  PROVE  \E pc \in {"ready", "removing"} :
            /\ Proceeds(p, pc, process[p].stage, process[p].request)
            /\ At(p, "looking") /\ UNCHANGED <<files, credit>>
            /\ pc = "ready" <=> \/ Photo(p) \in {0, post[Message(p)].photo}
                                \/ Photo(p) \in files
<1> DEFINE found == \/ process[p].photo \in {0, post[process[p].message].photo}
                    \/ process[p].photo \in files
           pc == IF found THEN "ready" ELSE "removing"
<1>1. /\ At(p, "looking") /\ Goes(p, pc)
      /\ UNCHANGED <<updates, retries, offset, row, post, lease, files, credit>>
  BY Zenon DEF LookUp, channel
<1>2. pc \in {"ready", "removing"} /\ (pc = "ready" <=> found)
  BY Zenon
<1>3. found <=> \/ Photo(p) \in {0, post[Message(p)].photo}
                \/ Photo(p) \in files
  BY Zenon DEF Photo, Message
<1> HIDE DEF found, pc
<1>4. GoesOn(p, pc, process[p].stage, process[p].request)
  BY <1>1, <1>2, Going, Zenon DEF JobPcs
<1>5. Proceeds(p, pc, process[p].stage, process[p].request)
  BY <1>1, <1>4, Zenon DEF Proceeds, InJob, JobPcs, At
<1>6. QED
  BY <1>1, <1>2, <1>3, <1>5, Zenon

LEMMA ResumeEffect ==
  ASSUME Shape, NEW p \in Processes, ResumeRemoval(p)
  PROVE  \E pc \in {"waiting", "failed"} :
            /\ Proceeds(p, pc, process[p].stage, process[p].request)
            /\ At(p, "removing") /\ UNCHANGED <<files, credit>>
            /\ pc = "waiting" => process[p].request
<1> DEFINE pc == IF process[p].request THEN "waiting" ELSE "failed"
<1>1. /\ At(p, "removing") /\ Goes(p, pc)
      /\ UNCHANGED <<updates, retries, offset, row, post, lease, files, credit>>
  BY Zenon DEF ResumeRemoval, channel
<1>2. pc \in {"waiting", "failed"} /\ (pc = "waiting" => process[p].request)
  BY Zenon
<1> HIDE DEF pc
<1>4. GoesOn(p, pc, process[p].stage, process[p].request)
  BY <1>1, <1>2, Going, Zenon DEF JobPcs
<1>5. Proceeds(p, pc, process[p].stage, process[p].request)
  BY <1>1, <1>4, Zenon DEF Proceeds, InJob, JobPcs, At
<1>6. QED
  BY <1>1, <1>2, <1>5, Zenon

LEMMA SubmitAcceptedEffect ==
  ASSUME Shape, NEW p \in Processes, SubmitAccepted(p)
  PROVE  \E pc \in {"accepted", "failed"} :
            /\ Proceeds(p, pc, process[p].stage, process[p].request)
            /\ At(p, "submitting") /\ UNCHANGED files
            /\ credit' = [credit EXCEPT ![Photo(p)] = @ - 1]
<1>1. PICK pc \in {"accepted", "failed"} : Goes(p, pc)
  BY Zenon DEF SubmitAccepted
<1>2. /\ At(p, "submitting")
      /\ UNCHANGED <<updates, retries, offset, row, post, lease, files>>
      /\ credit' = [credit EXCEPT ![Photo(p)] = @ - 1]
  BY Zenon DEF SubmitAccepted, channel, Photo
<1>4. GoesOn(p, pc, process[p].stage, process[p].request)
  BY <1>1, Going, Zenon DEF JobPcs
<1>5. Proceeds(p, pc, process[p].stage, process[p].request)
  BY <1>2, <1>4, Zenon DEF Proceeds, InJob, JobPcs, At
<1>6. QED
  BY <1>2, <1>5, Zenon

LEMMA SubmitFailsEffect ==
  ASSUME Shape, NEW p \in Processes, SubmitFails(p)
  PROVE  \E pc \in {"refused", "failed"} :
            /\ Proceeds(p, pc, process[p].stage, process[p].request)
            /\ At(p, "submitting") /\ UNCHANGED <<files, credit>>
<1>1. PICK pc \in {"refused", "failed"} : Goes(p, pc)
  BY Zenon DEF SubmitFails
<1>2. /\ At(p, "submitting")
      /\ UNCHANGED <<updates, retries, offset, row, post, lease, files, credit>>
  BY Zenon DEF SubmitFails, channel
<1>4. GoesOn(p, pc, process[p].stage, process[p].request)
  BY <1>1, Going, Zenon DEF JobPcs
<1>5. Proceeds(p, pc, process[p].stage, process[p].request)
  BY <1>2, <1>4, Zenon DEF Proceeds, InJob, JobPcs, At
<1>6. QED
  BY <1>2, <1>5, Zenon

LEMMA BeforeUploadEffect ==
  ASSUME Shape, NEW p \in Processes, BeforeUpload(p)
  PROVE  /\ Proceeds(p, "uploading", process[p].stage, process[p].request)
         /\ process[p].pc \in {"removing", "waiting"} /\ UNCHANGED <<files, credit>>
<1>1. /\ process[p].pc \in {"removing", "waiting"} /\ Goes(p, "uploading")
      /\ UNCHANGED <<updates, retries, offset, row, post, lease, files, credit>>
  BY Zenon DEF BeforeUpload, channel
<1>2. "uploading" \in JobPcs
  BY Zenon DEF JobPcs
<1>4. GoesOn(p, "uploading", process[p].stage, process[p].request)
  BY <1>1, <1>2, Going, Zenon
<1>5. QED
  BY <1>1, <1>4, Zenon DEF Proceeds, InJob, JobPcs

LEMMA UploadEffect ==
  ASSUME Shape, NEW p \in Processes, Upload(p)
  PROVE  /\ Proceeds(p, "uploaded", process[p].stage, process[p].request)
         /\ At(p, "uploading") /\ files' = files \cup {Photo(p)} /\ UNCHANGED credit
<1>1. /\ At(p, "uploading") /\ Goes(p, "uploaded")
      /\ UNCHANGED <<updates, retries, offset, row, post, lease, credit>>
      /\ files' = files \cup {Photo(p)}
  BY Zenon DEF Upload, channel, Photo
<1>2. "uploaded" \in JobPcs
  BY Zenon DEF JobPcs
<1>4. GoesOn(p, "uploaded", process[p].stage, process[p].request)
  BY <1>1, <1>2, Going, Zenon
<1>5. QED
  BY <1>1, <1>4, Zenon DEF Proceeds, InJob, JobPcs, At

LEMMA FailsEffect ==
  ASSUME Shape, NEW p \in Processes, Fails(p)
  PROVE  /\ Proceeds(p, "failed", process[p].stage, process[p].request)
         /\ UNCHANGED <<files, credit>>
<1>1. /\ InJob(p) /\ Goes(p, "failed")
      /\ UNCHANGED <<updates, retries, offset, row, post, lease, files, credit>>
  BY Zenon DEF Fails, channel, InJob, JobPcs
<1>2. "failed" \in JobPcs
  BY Zenon DEF JobPcs
<1>4. GoesOn(p, "failed", process[p].stage, process[p].request)
  BY <1>1, <1>2, Going, Zenon
<1>5. QED
  BY <1>1, <1>4, Zenon DEF Proceeds

\* A job that may write its row has one, with an attempt left.
LEMMA OwnedRow ==
  ASSUME Shape, NEW p \in Processes, InJob(p), Owned(p)
  PROVE  /\ Message(p) \in Messages /\ row[Message(p)] \in Row /\ Stays(Message(p))
         /\ row[Message(p)].stage # "blocked" /\ row[Message(p)].attempts # MaxAttempts
         /\ Leases("media", p) /\ row[Message(p)].photo = Photo(p)
<1>1. Message(p) \in Messages
  BY Zenon DEF Shape, JobsAreWhole
<1>2. Leases("media", p) /\ Stays(Message(p)) /\ row[Message(p)].photo = Photo(p)
  BY Zenon DEF Owned, Message, Photo
<1>3. row[Message(p)].stage # "blocked"
  BY <1>2, Zenon DEF Shape, HeldRowIsLive
<1>4. row[Message(p)].attempts # MaxAttempts
  BY <1>1, <1>3, Zenon DEF Shape, RetriesLeft
<1>5. QED
  BY <1>1, <1>2, <1>3, <1>4, Typing

LEMMA BeginSubmissionEffect ==
  ASSUME Shape, NEW p \in Processes, BeginSubmission(p)
  PROVE  /\ At(p, "removing") /\ Owned(p) /\ ~process[p].request
         /\ ~Unanswered(process[p].stage, process[p].request)
         /\ UNCHANGED <<updates, retries, offset, post, files, lease, credit>>
         /\ \E pc \in {"submitting", "failed"} :
               /\ GoesOn(p, pc, "submitting", process[p].request)
               /\ \/ RowIs(Message(p), "submitting", row[Message(p)].request,
                           row[Message(p)].uncertain, row[Message(p)].media)
                  \/ pc = "failed" /\ UNCHANGED row
<1> DEFINE m == process[p].message
           r == [row[m] EXCEPT !.stage = "submitting"]
<1>1. /\ At(p, "removing") /\ Owned(p) /\ ~process[p].request
      /\ ~Unanswered(process[p].stage, process[p].request)
      /\ UNCHANGED <<updates, retries, offset, post, files, lease, credit>>
  BY Zenon DEF BeginSubmission, channel
<1>2. \E pc \in {"submitting", "failed"} :
         /\ Becomes(p, [process[p] EXCEPT !.pc = pc, !.stage = "submitting"])
         /\ RowBecomes(m, r) \/ (pc = "failed" /\ UNCHANGED row)
  <2>1. \/ /\ RowBecomes(m, r)
           /\ Becomes(p, [process[p] EXCEPT !.pc = "submitting", !.stage = "submitting"])
        \/ /\ RowBecomes(m, r)
           /\ Becomes(p, [process[p] EXCEPT !.pc = "failed", !.stage = "submitting"])
        \/ /\ UNCHANGED row
           /\ Becomes(p, [process[p] EXCEPT !.pc = "failed", !.stage = "submitting"])
    BY Zenon DEF BeginSubmission
  <2> HIDE DEF r
  <2>2. QED
    BY <2>1, Zenon
<1>3. TypeOK /\ InJob(p) /\ m = Message(p)
  BY <1>1, Zenon DEF Shape, InJob, JobPcs, At, Message
<1>4. /\ m \in Messages /\ row[m] \in Row /\ row[m].attempts # MaxAttempts
  BY <1>1, <1>3, OwnedRow, Zenon
<1>5. /\ r \in Row /\ r.stage = "submitting" /\ r.request = row[m].request
      /\ r.uncertain = row[m].uncertain /\ r.media = row[m].media
      /\ r.update = row[m].update /\ r.photo = row[m].photo
      /\ r.attempts = row[m].attempts
  BY <1>4, Zenon DEF Row, Stages
<1>6. ASSUME RowBecomes(m, r)
      PROVE  RowIs(m, "submitting", row[m].request, row[m].uncertain, row[m].media)
  <2> HIDE DEF r
  <2>1. RowIs(m, r.stage, r.request, r.uncertain, r.media)
    BY <1>3, <1>4, <1>5, <1>6, Rewritten, Zenon
  <2>2. QED
    BY <1>5, <2>1, Zenon
<1> HIDE DEF r
<1>7. PICK pc \in {"submitting", "failed"} :
         /\ Becomes(p, [process[p] EXCEPT !.pc = pc, !.stage = "submitting"])
         /\ RowBecomes(m, r) \/ (pc = "failed" /\ UNCHANGED row)
  BY <1>2
<1>8. pc \in JobPcs /\ "submitting" \in Stages
  BY <1>7, Zenon DEF JobPcs, Stages
<1>9. GoesOn(p, pc, "submitting", process[p].request)
  BY <1>7, <1>8, GoingStaged, Zenon
<1>10. QED
  BY <1>1, <1>3, <1>6, <1>7, <1>9, Zenon

LEMMA RecordRequestEffect ==
  ASSUME Shape, NEW p \in Processes, RecordRequest(p)
  PROVE  /\ At(p, "accepted")
         /\ UNCHANGED <<updates, retries, offset, post, files, lease, credit>>
         /\ \/ /\ Owned(p)
               /\ RowIs(Message(p), "submitted", TRUE,
                        row[Message(p)].uncertain, row[Message(p)].media)
               /\ GoesOn(p, "waiting", "submitted", TRUE)
            \/ /\ Owned(p)
               /\ RowIs(Message(p), "submitted", TRUE,
                        row[Message(p)].uncertain, row[Message(p)].media)
               /\ GoesOn(p, "failed", process[p].stage, process[p].request)
            \/ UNCHANGED row /\ GoesOn(p, "failed", process[p].stage, process[p].request)
<1> DEFINE m == process[p].message
           r == [row[m] EXCEPT !.stage = "submitted", !.request = TRUE]
           j == [process[p] EXCEPT !.pc = "waiting", !.stage = "submitted", !.request = TRUE]
<1>1. /\ At(p, "accepted")
      /\ UNCHANGED <<updates, retries, offset, post, files, lease, credit>>
  BY Zenon DEF RecordRequest, channel
<1>2. \/ Owned(p) /\ RowBecomes(m, r) /\ (Becomes(p, j) \/ Goes(p, "failed"))
      \/ UNCHANGED row /\ Goes(p, "failed")
  BY Zenon DEF RecordRequest
<1>3. TypeOK /\ InJob(p) /\ m = Message(p) /\ process[p] \in Process
  BY <1>1, Typing, Zenon DEF Shape, InJob, JobPcs, At, Message
<1>4. ASSUME Owned(p), RowBecomes(m, r)
      PROVE  RowIs(m, "submitted", TRUE, row[m].uncertain, row[m].media)
  <2>1. /\ m \in Messages /\ row[m] \in Row /\ row[m].attempts # MaxAttempts
    BY <1>4, <1>3, OwnedRow, Zenon
  <2>2. /\ r \in Row /\ r.stage = "submitted" /\ r.request = TRUE
        /\ r.uncertain = row[m].uncertain /\ r.media = row[m].media
        /\ r.update = row[m].update /\ r.photo = row[m].photo
        /\ r.attempts = row[m].attempts
    BY <2>1, Zenon DEF Row, Stages
  <2> HIDE DEF r
  <2>3. RowIs(m, r.stage, r.request, r.uncertain, r.media)
    BY <1>3, <1>4, <2>1, <2>2, Rewritten, Zenon
  <2>4. QED
    BY <2>2, <2>3, Zenon
<1>5. ASSUME Becomes(p, j) PROVE GoesOn(p, "waiting", "submitted", TRUE)
  <2>1. /\ j \in Process /\ j.pc = "waiting" /\ j.stage = "submitted"
        /\ j.request = TRUE /\ j.message = process[p].message
        /\ j.photo = process[p].photo /\ j.update = process[p].update
        /\ j.seen = process[p].seen
    BY <1>3, Zenon DEF Process, Stages
  <2>2. Only(p) /\ process'[p] = j
    BY <1>3, <1>5, <2>1, Moved, Zenon
  <2>3. QED
    BY <2>1, <2>2, Zenon DEF GoesOn
<1>6. ASSUME Goes(p, "failed") PROVE GoesOn(p, "failed", process[p].stage, process[p].request)
  <2>1. "failed" \in JobPcs
    BY Zenon DEF JobPcs
  <2>2. QED
    BY <1>6, <2>1, Going, Zenon
<1> HIDE DEF r, j
<1>7. QED
  BY <1>1, <1>2, <1>3, <1>4, <1>5, <1>6, Zenon

LEMMA RecordRefusalEffect ==
  ASSUME Shape, NEW p \in Processes, RecordRefusal(p)
  PROVE  /\ At(p, "refused") /\ Owned(p)
         /\ UNCHANGED <<updates, retries, offset, post, files, lease, credit>>
         /\ RowIs(Message(p), "pending", row[Message(p)].request,
                  row[Message(p)].uncertain, row[Message(p)].media)
         /\ GoesOn(p, "failed", "pending", process[p].request)
<1> DEFINE m == process[p].message
           r == [row[m] EXCEPT !.stage = "pending"]
<1>1. /\ At(p, "refused") /\ Owned(p)
      /\ RowBecomes(m, r)
      /\ Becomes(p, [process[p] EXCEPT !.pc = "failed", !.stage = "pending"])
      /\ UNCHANGED <<updates, retries, offset, post, files, lease, credit>>
  BY Zenon DEF RecordRefusal, channel
<1>3. TypeOK /\ InJob(p) /\ m = Message(p)
  BY <1>1, Zenon DEF Shape, InJob, JobPcs, At, Message
<1>4. /\ m \in Messages /\ row[m] \in Row /\ row[m].attempts # MaxAttempts
  BY <1>1, <1>3, OwnedRow, Zenon
<1>5. /\ r \in Row /\ r.stage = "pending" /\ r.request = row[m].request
      /\ r.uncertain = row[m].uncertain /\ r.media = row[m].media
      /\ r.update = row[m].update /\ r.photo = row[m].photo
      /\ r.attempts = row[m].attempts
  BY <1>4, Zenon DEF Row, Stages
<1> HIDE DEF r
<1>6. RowIs(m, r.stage, r.request, r.uncertain, r.media)
  BY <1>1, <1>3, <1>4, <1>5, Rewritten, Zenon
<1>7. "failed" \in JobPcs /\ "pending" \in Stages
  BY Zenon DEF JobPcs, Stages
<1>8. GoesOn(p, "failed", "pending", process[p].request)
  BY <1>1, <1>7, GoingStaged, Zenon
<1>9. QED
  BY <1>1, <1>3, <1>5, <1>6, <1>8, Zenon

LEMMA OnUploadedEffect ==
  ASSUME Shape, NEW p \in Processes, OnUploaded(p)
  PROVE  /\ At(p, "uploaded") /\ Owned(p)
         /\ UNCHANGED <<updates, retries, offset, post, files, lease, credit>>
         /\ RowIs(Message(p), "uploaded", row[Message(p)].request, FALSE, TRUE)
         /\ GoesOn(p, "ready", "uploaded", process[p].request)
<1> DEFINE m == process[p].message
           r == [row[m] EXCEPT !.media = TRUE, !.stage = "uploaded", !.uncertain = FALSE]
<1>1. /\ At(p, "uploaded") /\ Owned(p)
      /\ RowBecomes(m, r)
      /\ Becomes(p, [process[p] EXCEPT !.pc = "ready", !.stage = "uploaded"])
      /\ UNCHANGED <<updates, retries, offset, post, files, lease, credit>>
  BY Zenon DEF OnUploaded, channel
<1>3. TypeOK /\ InJob(p) /\ m = Message(p)
  BY <1>1, Zenon DEF Shape, InJob, JobPcs, At, Message
<1>4. /\ m \in Messages /\ row[m] \in Row /\ row[m].attempts # MaxAttempts
  BY <1>1, <1>3, OwnedRow, Zenon
<1>5. /\ r \in Row /\ r.stage = "uploaded" /\ r.request = row[m].request
      /\ r.uncertain = FALSE /\ r.media = TRUE
      /\ r.update = row[m].update /\ r.photo = row[m].photo
      /\ r.attempts = row[m].attempts
  BY <1>4, Zenon DEF Row, Stages
<1> HIDE DEF r
<1>6. RowIs(m, r.stage, r.request, r.uncertain, r.media)
  BY <1>1, <1>3, <1>4, <1>5, Rewritten, Zenon
<1>7. "ready" \in JobPcs /\ "uploaded" \in Stages
  BY Zenon DEF JobPcs, Stages
<1>8. GoesOn(p, "ready", "uploaded", process[p].request)
  BY <1>1, <1>7, GoingStaged, Zenon
<1>9. QED
  BY <1>1, <1>3, <1>5, <1>6, <1>8, Zenon

LEMMA StillInQueueEffect ==
  ASSUME Shape, NEW p \in Processes, StillInQueue(p)
  PROVE  /\ At(p, "waiting") /\ Owned(p) /\ Idles(p)
         /\ UNCHANGED <<updates, retries, offset, post, files, lease, credit>>
         /\ RowIs(Message(p), row[Message(p)].stage, row[Message(p)].request,
                  FALSE, row[Message(p)].media)
<1> DEFINE m == process[p].message
           r == [row[m] EXCEPT !.due = FALSE, !.uncertain = FALSE]
<1>1. /\ At(p, "waiting") /\ Owned(p)
      /\ RowBecomes(m, r)
      /\ Becomes(p, [Idle EXCEPT !.pc = "media"])
      /\ UNCHANGED <<updates, retries, offset, post, files, lease, credit>>
  BY Zenon DEF StillInQueue, channel
<1>3. TypeOK /\ InJob(p) /\ m = Message(p) /\ 0 \in Photos
  BY <1>1, BoundAssumption DEF Shape, InJob, JobPcs, At, Message, Photos
<1>4. /\ m \in Messages /\ row[m] \in Row /\ row[m].attempts # MaxAttempts
  BY <1>1, <1>3, OwnedRow, Zenon
<1>5. /\ r \in Row /\ r.stage = row[m].stage /\ r.request = row[m].request
      /\ r.uncertain = FALSE /\ r.media = row[m].media
      /\ r.update = row[m].update /\ r.photo = row[m].photo
      /\ r.attempts = row[m].attempts
  BY <1>4, Zenon DEF Row
<1> HIDE DEF r
<1>6. RowIs(m, r.stage, r.request, r.uncertain, r.media)
  BY <1>1, <1>3, <1>4, <1>5, Rewritten, Zenon
<1>7. Rests(p, "media", 0)
  BY <1>1, <1>3, Resting, Zenon
<1>8. Idles(p)
  BY <1>1, <1>3, <1>7, LeaseTaken, Zenon DEF Idles, Rests
<1>9. QED
  BY <1>1, <1>3, <1>5, <1>6, <1>8, Zenon

LEMMA RecordFailureEffect ==
  ASSUME Shape, NEW p \in Processes, RecordFailure(p)
  PROVE  /\ At(p, "failed") /\ Owned(p) /\ Idles(p)
         /\ UNCHANGED <<updates, retries, offset, post, files, lease, credit>>
         /\ \E stage \in Stages, uncertain \in BOOLEAN :
               /\ RowIs(Message(p), stage, row[Message(p)].request, uncertain,
                        row[Message(p)].media)
               /\ stage \in {"blocked", row[Message(p)].stage}
               /\ uncertain <=> Unanswered(process[p].stage, process[p].request)
               /\ uncertain => stage = "blocked"
<1> DEFINE m == process[p].message
           uncertain == Unanswered(process[p].stage, process[p].request)
<1>1. /\ At(p, "failed") /\ Owned(p)
      /\ \E fatal \in BOOLEAN : RowBecomes(m, Retried(row[m], uncertain, uncertain \/ fatal))
      /\ Becomes(p, [Idle EXCEPT !.pc = "media"])
      /\ UNCHANGED <<updates, retries, offset, post, files, lease, credit>>
  BY Zenon DEF RecordFailure, channel
<1>2. uncertain \in BOOLEAN
  BY DEF Unanswered
<1>3. TypeOK /\ InJob(p) /\ m = Message(p) /\ 0 \in Photos
  BY <1>1, BoundAssumption DEF Shape, InJob, JobPcs, At, Message, Photos
<1>4. /\ m \in Messages /\ row[m] \in Row /\ row[m].attempts # MaxAttempts
      /\ row[m].stage \in Stages /\ row[m].attempts + 1 \in 0..MaxAttempts
  <2>1. /\ m \in Messages /\ row[m] \in Row /\ row[m].attempts # MaxAttempts
    BY <1>1, <1>3, OwnedRow, Zenon
  <2>2. QED
    BY <2>1, BoundAssumption, SMT DEF Row
<1> HIDE DEF uncertain
<1>5. PICK fatal \in BOOLEAN : RowBecomes(m, Retried(row[m], uncertain, uncertain \/ fatal))
  BY <1>1
<1> DEFINE blocks == (uncertain \/ fatal) \/ row[m].attempts + 1 = MaxAttempts
           stage == IF blocks THEN "blocked" ELSE row[m].stage
           n == row[m].attempts + 1
           r == [row[m] EXCEPT !.attempts = n, !.due = FALSE, !.uncertain = uncertain,
                               !.stage = stage]
<1>6. Retried(row[m], uncertain, uncertain \/ fatal) = r
  BY Zenon DEF Retried
<1>7. /\ stage \in Stages /\ stage \in {"blocked", row[m].stage}
      /\ (uncertain => stage = "blocked") /\ (n = MaxAttempts => stage = "blocked")
  BY <1>4, Zenon DEF Stages
<1>8. n \in 0..MaxAttempts
  BY <1>4
<1> HIDE DEF stage, n
<1>9. /\ r \in Row /\ r.stage = stage /\ r.request = row[m].request
      /\ r.uncertain = uncertain /\ r.media = row[m].media
      /\ r.update = row[m].update /\ r.photo = row[m].photo
      /\ r.attempts = n
  BY <1>2, <1>4, <1>7, <1>8, Zenon DEF Row
<1>10. RowBecomes(m, r)
  BY <1>5, <1>6, Zenon
<1> HIDE DEF r
<1>11. RowIs(m, r.stage, r.request, r.uncertain, r.media)
  BY <1>3, <1>4, <1>7, <1>9, <1>10, Rewritten, Zenon
<1>12. RowIs(m, stage, row[m].request, uncertain, row[m].media)
  BY <1>9, <1>11, Zenon
<1>13. Rests(p, "media", 0)
  BY <1>1, <1>3, Resting, Zenon
<1>14. Idles(p)
  BY <1>1, <1>3, <1>13, LeaseTaken, Zenon DEF Idles, Rests
<1>15. uncertain <=> Unanswered(process[p].stage, process[p].request)
  BY DEF uncertain
<1>16. QED
  BY <1>1, <1>2, <1>3, <1>7, <1>12, <1>14, <1>15, Zenon

LEMMA PickJobEffect ==
  ASSUME Shape, NEW p \in Processes, NEW m \in Messages, PickJob(p, m)
  PROVE  /\ At(p, "media") /\ Stays(m) /\ row[m].stage # "blocked" /\ Only(p)
         /\ process'[p].pc = "looking" /\ process'[p].message = m
         /\ process'[p].photo = row[m].photo /\ process'[p].stage = row[m].stage
         /\ process'[p].request = row[m].request
         /\ UNCHANGED <<updates, retries, offset, row, post, files, lease, credit>>
<1> DEFINE j == [Idle EXCEPT !.pc = "looking", !.message = m, !.photo = row[m].photo,
                             !.stage = row[m].stage, !.request = row[m].request]
<1>1. /\ At(p, "media") /\ Stays(m) /\ row[m].stage # "blocked" /\ Becomes(p, j)
      /\ UNCHANGED <<updates, retries, offset, row, post, files, lease, credit>>
  BY Zenon DEF PickJob, channel
<1>2. /\ row[m].photo \in Photos /\ row[m].stage \in Stages /\ row[m].request \in BOOLEAN
  BY Typing, SMT DEF Row
<1>3. /\ j \in Process /\ j.pc = "looking" /\ j.message = m /\ j.photo = row[m].photo
      /\ j.stage = row[m].stage /\ j.request = row[m].request
  BY <1>2, IdleTyped, Zenon DEF Process
<1>4. TypeOK
  BY DEF Shape
<1> HIDE DEF j
<1>5. Only(p) /\ process'[p] = j
  BY <1>1, <1>3, <1>4, Moved, Zenon
<1>6. QED
  BY <1>1, <1>3, <1>5, Zenon

LEMMA NoRowTyped ==
  /\ NoRow \in Row /\ NoRow.update = 0 /\ NoRow.photo = 0 /\ NoRow.stage = "pending"
  /\ NoRow.request = FALSE /\ NoRow.uncertain = FALSE /\ NoRow.media = FALSE
  /\ NoRow.attempts = 0
<1>1. /\ NoRow \in [update : 0..MaxUpdates, photo : 0..MaxUpdates, stage : Stages,
                    request : BOOLEAN, uncertain : BOOLEAN, media : BOOLEAN,
                    attempts : 0..MaxAttempts, due : BOOLEAN]
  BY BoundAssumption, SMT DEF NoRow, Stages
<1>2. QED
  BY <1>1, Zenon DEF NoRow, Row, Photos

LEMMA PublishEffect ==
  ASSUME Shape, NEW p \in Processes, Publish(p)
  PROVE  /\ At(p, "ready") /\ Owned(p)
         /\ post' \in [Messages -> Post]
         /\ \A n \in Messages \ {Message(p)} : post'[n] = post[n] /\ row'[n] = row[n]
         /\ post'[Message(p)].update = row[Message(p)].update
         /\ post'[Message(p)].photo = row[Message(p)].photo
         /\ row' \in [Messages -> Row] /\ row'[Message(p)] = NoRow
         /\ \/ /\ Rests(p, "retiring", post[Message(p)].photo)
               /\ post[Message(p)].photo \notin {0, row[Message(p)].photo}
            \/ Idles(p)
         /\ UNCHANGED <<updates, retries, offset, files, lease, credit>>
<1> DEFINE m == process[p].message
           new == [update |-> row[m].update, photo |-> row[m].photo]
           retires == post[m].photo \notin {0, row[m].photo}
<1>1. /\ At(p, "ready") /\ Owned(p) /\ post' = [post EXCEPT ![m] = new]
      /\ RowBecomes(m, NoRow)
      /\ UNCHANGED <<updates, retries, offset, files, lease, credit>>
      /\ Becomes(p, IF retires THEN [Idle EXCEPT !.pc = "retiring", !.photo = post[m].photo]
                               ELSE [Idle EXCEPT !.pc = "media"])
  BY Zenon DEF Publish, channel
<1>2. TypeOK /\ InJob(p) /\ m = Message(p) /\ 0 \in Photos
  BY <1>1, BoundAssumption DEF Shape, InJob, JobPcs, At, Message, Photos
<1>3. m \in Messages /\ row[m] \in Row
  BY <1>1, <1>2, OwnedRow, Zenon
<1>4. new \in Post /\ new.update = row[m].update /\ new.photo = row[m].photo
  BY <1>3, SMT DEF Row, Post
<1>5. post[m].photo \in Photos
  BY <1>3, Typing, SMT DEF Post
<1> HIDE DEF new
<1>6. /\ post' \in [Messages -> Post] /\ post'[m] = new
      /\ \A n \in Messages \ {m} : post'[n] = post[n]
  BY <1>1, <1>2, <1>3, <1>4, SMT DEF TypeOK
<1>7. /\ row' \in [Messages -> Row] /\ row'[m] = NoRow
      /\ \A n \in Messages \ {m} : row'[n] = row[n]
  BY <1>1, <1>2, <1>3, NoRowTyped, SMT DEF TypeOK, RowBecomes
<1>8. CASE retires
  <2>1. Becomes(p, [Idle EXCEPT !.pc = "retiring", !.photo = post[m].photo])
    BY <1>1, <1>8, Zenon
  <2>2. Rests(p, "retiring", post[m].photo)
    BY <1>5, <2>1, Resting, Zenon
  <2>3. QED
    BY <1>1, <1>2, <1>4, <1>6, <1>7, <1>8, <2>2, Zenon
<1>9. CASE ~retires
  <2>1. Becomes(p, [Idle EXCEPT !.pc = "media"])
    BY <1>1, <1>9, Zenon
  <2>2. Rests(p, "media", 0)
    BY <1>2, <2>1, Resting, Zenon
  <2>3. Idles(p)
    BY <1>1, <1>2, <2>2, LeaseTaken, Zenon DEF Idles, Rests
  <2>4. QED
    BY <1>1, <1>2, <1>4, <1>6, <1>7, <2>3, Zenon
<1>10. QED
  BY <1>8, <1>9

LEMMA BecomesDueEffect ==
  ASSUME Shape, NEW m \in Messages, BecomesDue(m)
  PROVE  /\ Stays(m)
         /\ RowIs(m, row[m].stage, row[m].request, row[m].uncertain, row[m].media)
         /\ UNCHANGED <<updates, retries, offset, post, files, lease, process, credit>>
<1> DEFINE r == [row[m] EXCEPT !.due = TRUE]
<1>1. /\ Stays(m) /\ RowBecomes(m, r)
      /\ UNCHANGED <<updates, retries, offset, post, files, lease, process, credit>>
  BY Zenon DEF BecomesDue, channel
<1>2. TypeOK /\ row[m] \in Row /\ (row[m].attempts = MaxAttempts => row[m].stage = "blocked")
  BY Typing, Zenon DEF Shape, RetriesLeft
<1>3. /\ r \in Row /\ r.stage = row[m].stage /\ r.request = row[m].request
      /\ r.uncertain = row[m].uncertain /\ r.media = row[m].media
      /\ r.update = row[m].update /\ r.photo = row[m].photo
      /\ r.attempts = row[m].attempts
  BY <1>2, Zenon DEF Row
<1> HIDE DEF r
<1>4. RowIs(m, r.stage, r.request, r.uncertain, r.media)
  BY <1>1, <1>2, <1>3, Rewritten, Zenon
<1>5. QED
  BY <1>1, <1>3, <1>4, Zenon

\* Whether an administrator's retry prepares the photo anew.
PaysAgain(m, new) == new /\ ~row[m].media

LEMMA AdminRetryEffect ==
  ASSUME Shape, NEW m \in Messages, NEW new \in BOOLEAN, AdminRetry(m, new)
  PROVE  /\ lease["media"] = Nobody /\ Stays(m)
         /\ row[m].stage = "submitting" \/ row[m].uncertain => new
         /\ UNCHANGED <<updates, offset, post, files, lease, process>>
         /\ retries' \in 0..MaxRetries
         /\ \E stage \in Stages, request \in BOOLEAN :
               /\ RowIs(m, stage, request, FALSE, row[m].media)
               /\ request <=> row[m].request /\ ~PaysAgain(m, new)
               /\ row[m].media => stage = "uploaded"
               /\ ~row[m].media => stage = IF ~new /\ row[m].request THEN "submitted"
                                            ELSE "pending"
         /\ IF /\ PaysAgain(m, new)
               /\ row[m].stage = "submitting" \/ row[m].uncertain \/ row[m].request
            THEN credit' = [credit EXCEPT ![row[m].photo] = @ + 1]
            ELSE UNCHANGED credit
<1> DEFINE again == new /\ ~row[m].media
           request == row[m].request /\ ~again
           stage == IF row[m].media THEN "uploaded"
                    ELSE IF ~new /\ row[m].request THEN "submitted" ELSE "pending"
           r == [row[m] EXCEPT !.attempts = 0, !.uncertain = FALSE, !.due = TRUE,
                               !.request = request, !.stage = stage]
           paid == /\ again
                   /\ row[m].stage = "submitting" \/ row[m].uncertain \/ row[m].request
<1>1. /\ lease["media"] = Nobody /\ Stays(m) /\ retries < MaxRetries
      /\ row[m].stage = "submitting" \/ row[m].uncertain => new
      /\ UNCHANGED <<updates, offset, post, files, lease, process>>
      /\ retries' = retries + 1
      /\ RowBecomes(m, r)
  BY Zenon DEF AdminRetry
<1>2. IF paid THEN credit' = [credit EXCEPT ![row[m].photo] = @ + 1] ELSE UNCHANGED credit
  BY Zenon DEF AdminRetry
<1>3. paid <=> /\ PaysAgain(m, new)
               /\ row[m].stage = "submitting" \/ row[m].uncertain \/ row[m].request
  BY Zenon DEF PaysAgain
<1>4. TypeOK /\ row[m] \in Row /\ retries' \in 0..MaxRetries
  BY <1>1, Typing, BoundAssumption DEF Shape, TypeOK
<1>5. row[m].request \in BOOLEAN /\ row[m].media \in BOOLEAN
  BY <1>4, SMT DEF Row
<1>6. /\ request \in BOOLEAN /\ stage \in Stages
      /\ request <=> row[m].request /\ ~PaysAgain(m, new)
      /\ row[m].media => stage = "uploaded"
      /\ ~row[m].media => stage = IF ~new /\ row[m].request THEN "submitted" ELSE "pending"
  BY <1>5, Zenon DEF Stages, PaysAgain
<1> HIDE DEF paid, again, request, stage
<1>7. 0 \in 0..MaxAttempts /\ 0 # MaxAttempts
  BY BoundAssumption
<1>8. /\ r \in Row /\ r.stage = stage /\ r.request = request
      /\ r.uncertain = FALSE /\ r.media = row[m].media
      /\ r.update = row[m].update /\ r.photo = row[m].photo
      /\ r.attempts = 0
  BY <1>4, <1>6, <1>7, Zenon DEF Row
<1> HIDE DEF r
<1>9. RowIs(m, r.stage, r.request, r.uncertain, r.media)
  BY <1>1, <1>4, <1>7, <1>8, Rewritten, Zenon
<1>10. RowIs(m, stage, request, FALSE, row[m].media)
  BY <1>8, <1>9, Zenon
<1>11. \E s \in Stages, q \in BOOLEAN :
          /\ RowIs(m, s, q, FALSE, row[m].media)
          /\ q <=> row[m].request /\ ~PaysAgain(m, new)
          /\ row[m].media => s = "uploaded"
          /\ ~row[m].media => s = IF ~new /\ row[m].request THEN "submitted" ELSE "pending"
  BY <1>6, <1>10, Zenon
<1>12. QED
  BY <1>1, <1>2, <1>3, <1>4, <1>11, Zenon

LEMMA LeaseLapsesEffect ==
  ASSUME Shape, NEW work \in {"ingest", "media"}, LeaseLapses(work)
  PROVE  /\ lease' \in [{"ingest", "media"} -> Processes \cup {Nobody}]
         /\ lease'[work] = Nobody
         /\ \A any \in {"ingest", "media"} \ {work} : lease'[any] = lease[any]
         /\ ~(work = "ingest" /\ At(lease[work], "saving"))
         /\ UNCHANGED <<updates, retries, offset, row, post, files, process, credit>>
<1>1. /\ ~(work = "ingest" /\ At(lease[work], "saving"))
      /\ lease' = [lease EXCEPT ![work] = Nobody]
      /\ UNCHANGED <<updates, retries, offset, row, post, files, process, credit>>
  BY Zenon DEF LeaseLapses, channel
<1>2. lease \in [{"ingest", "media"} -> Processes \cup {Nobody}]
  BY DEF Shape, TypeOK
<1>3. QED
  BY <1>1, <1>2

LEMMA FetchEffect ==
  ASSUME Shape, NEW p \in Processes, Fetch(p)
  PROVE  /\ At(p, "polling") /\ offset <= Len(updates) /\ Only(p)
         /\ process'[p].pc = "fetched" /\ process'[p].update = offset
         /\ UNCHANGED <<updates, retries, offset, row, post, files, lease, credit>>
<1> DEFINE j == [process[p] EXCEPT !.pc = "fetched", !.update = offset]
<1>1. /\ At(p, "polling") /\ offset <= Len(updates) /\ Becomes(p, j)
      /\ UNCHANGED <<updates, retries, offset, row, post, files, lease, credit>>
  BY Zenon DEF Fetch, channel
<1>2. process[p] \in Process /\ offset \in 0..MaxUpdates /\ TypeOK
  BY <1>1, Typing, BoundAssumption DEF Shape
<1>3. j \in Process /\ j.pc = "fetched" /\ j.update = offset
  BY <1>2, Zenon DEF Process
<1> HIDE DEF j
<1>4. Only(p) /\ process'[p] = j
  BY <1>1, <1>2, <1>3, Moved, Zenon
<1>5. QED
  BY <1>1, <1>3, <1>4, Zenon

\* The message process p saves an update of.
Saved(p) == updates[process[p].update].message

LEMMA SaveOpensEffect ==
  ASSUME Shape, NEW p \in Processes, SaveOpens(p)
  PROVE  /\ At(p, "fetched") /\ Leases("ingest", p) /\ Saved(p) \in Messages
         /\ Only(p) /\ process'[p].pc = "saving"
         /\ process'[p].update = process[p].update
         /\ process'[p].seen => Stays(Saved(p))
         /\ ~process'[p].seen => ~Stays(Saved(p))
         /\ process'[p].photo # 0 => /\ row[Saved(p)].media
                                     /\ process'[p].photo = row[Saved(p)].photo
         /\ UNCHANGED <<updates, retries, offset, row, post, files, lease, credit>>
<1> DEFINE m == updates[process[p].update].message
           seen == Stays(m)
           photo == IF row[m].media THEN row[m].photo ELSE 0
           j == [process[p] EXCEPT !.pc = "saving", !.seen = seen, !.photo = photo]
<1>1. /\ At(p, "fetched") /\ Leases("ingest", p) /\ Becomes(p, j)
      /\ UNCHANGED <<updates, retries, offset, row, post, files, lease, credit>>
  BY Zenon DEF SaveOpens, channel
<1>2. process[p].update \in 1..Len(updates)
  BY <1>1, Zenon DEF Shape, JobsAreWhole, At
<1>3. m \in Messages /\ process[p] \in Process /\ row[m] \in Row /\ TypeOK
  BY <1>2, Typing DEF Shape
<1>4. seen \in BOOLEAN /\ row[m].photo \in Photos /\ 0 \in Photos
  BY <1>3, BoundAssumption, SMT DEF Row, Stays, Photos
<1>5. photo \in Photos /\ (photo # 0 => row[m].media /\ photo = row[m].photo)
  BY <1>4, Zenon
<1>6. seen <=> Stays(m)
  BY Zenon
<1> HIDE DEF photo, seen
<1>7. /\ j \in Process /\ j.pc = "saving" /\ j.seen = seen /\ j.photo = photo
      /\ j.update = process[p].update
  BY <1>3, <1>4, <1>5, Zenon DEF Process
<1> HIDE DEF j
<1>8. Only(p) /\ process'[p] = j
  BY <1>1, <1>3, <1>7, Moved, Zenon
<1>9. m = Saved(p)
  BY Zenon DEF Saved
<1>10. QED
  BY <1>1, <1>3, <1>5, <1>6, <1>7, <1>8, <1>9, Zenon

LEMMA SaveCommitsEffect ==
  ASSUME Shape, NEW p \in Processes, SaveCommits(p)
  PROVE  /\ At(p, "saving") /\ Saved(p) \in Messages /\ process[p].update \in 1..Len(updates)
         /\ offset' = process[p].update + 1
         /\ row' \in [Messages -> Row]
         /\ \A n \in Messages \ {Saved(p)} : row'[n] = row[n]
         /\ \/ /\ UNCHANGED row
               /\ \/ process[p].seen /\ ~Stays(Saved(p))
                  \/ ~(row[Saved(p)].update < process[p].update)
            \/ /\ process[p].seen => Stays(Saved(p))
               /\ row[Saved(p)].update < process[p].update
               /\ row'[Saved(p)].update = process[p].update
               /\ row'[Saved(p)].photo = updates[process[p].update].photo
               /\ \/ /\ Stays(Saved(p))
                     /\ row[Saved(p)].photo = updates[process[p].update].photo
                     /\ row'[Saved(p)].stage = row[Saved(p)].stage
                     /\ row'[Saved(p)].request = row[Saved(p)].request
                     /\ row'[Saved(p)].uncertain = row[Saved(p)].uncertain
                     /\ row'[Saved(p)].media = row[Saved(p)].media
                     /\ row'[Saved(p)].attempts = row[Saved(p)].attempts
                  \/ /\ \/ ~Stays(Saved(p))
                        \/ row[Saved(p)].photo # updates[process[p].update].photo
                     /\ row'[Saved(p)].stage = "pending" /\ ~row'[Saved(p)].request
                     /\ ~row'[Saved(p)].uncertain /\ ~row'[Saved(p)].media
                     /\ row'[Saved(p)].attempts = 0
         /\ \/ /\ Rests(p, "discarding", Photo(p))
               /\ Photo(p) \notin {0, updates[process[p].update].photo}
            \/ Idles(p)
         /\ UNCHANGED <<updates, retries, post, files, lease, credit>>
<1> DEFINE k == process[p].update
           m == updates[k].message
           written == (process[p].seen => Stays(m)) /\ row[m].update < k
           discarded == process[p].photo \notin {0, updates[k].photo}
           kept == [row[m] EXCEPT !.update = k]
           fresh == [NoRow EXCEPT !.update = k, !.photo = updates[k].photo]
           same == Stays(m) /\ row[m].photo = updates[k].photo
           r == IF same THEN kept ELSE fresh
<1>1. /\ At(p, "saving") /\ offset' = k + 1
      /\ IF written THEN RowBecomes(m, Revised(m, k)) ELSE UNCHANGED row
      /\ Becomes(p, IF discarded
                    THEN [Idle EXCEPT !.pc = "discarding", !.photo = process[p].photo]
                    ELSE [Idle EXCEPT !.pc = "polling"])
      /\ UNCHANGED <<updates, retries, post, files, lease, credit>>
  BY Zenon DEF SaveCommits, channel
<1>2. k \in 1..Len(updates)
  BY <1>1, Zenon DEF Shape, JobsAreWhole, At
<1>3. /\ m \in Messages /\ row[m] \in Row /\ process[p] \in Process /\ TypeOK
      /\ updates[k].photo \in Photos /\ k \in 0..MaxUpdates
  <2>1. updates[k].photo \in 0..MaxUpdates /\ m \in Messages
    BY <1>2, Typing
  <2>2. k \in 0..MaxUpdates
    BY <1>2, Typing, BoundAssumption
  <2>3. QED
    BY <2>1, <2>2, Typing DEF Shape, Photos
<1>4. Revised(m, k) = r
  BY Zenon DEF Revised
<1>5. /\ kept \in Row /\ kept.update = k /\ kept.photo = row[m].photo
      /\ kept.stage = row[m].stage /\ kept.request = row[m].request
      /\ kept.uncertain = row[m].uncertain /\ kept.media = row[m].media
      /\ kept.attempts = row[m].attempts
  BY <1>3, Zenon DEF Row
<1>6. /\ fresh \in Row /\ fresh.update = k /\ fresh.photo = updates[k].photo
      /\ fresh.stage = "pending" /\ ~fresh.request
      /\ ~fresh.uncertain /\ ~fresh.media /\ fresh.attempts = 0
  BY <1>3, NoRowTyped, Zenon DEF Row
<1>7. m = Saved(p) /\ (same <=> Stays(m) /\ row[m].photo = updates[k].photo)
  BY Zenon DEF Saved
<1> HIDE DEF kept, fresh, same
<1>8. /\ r \in Row /\ r.update = k /\ r.photo = updates[k].photo
      /\ \/ /\ same /\ r.stage = row[m].stage /\ r.request = row[m].request
            /\ r.uncertain = row[m].uncertain /\ r.media = row[m].media
            /\ r.attempts = row[m].attempts
         \/ /\ ~same /\ r.stage = "pending" /\ ~r.request /\ ~r.uncertain /\ ~r.media
            /\ r.attempts = 0
  <2>1. CASE same
    <3>1. r = kept
      BY <2>1, Zenon
    <3>2. QED
      BY <1>5, <1>7, <2>1, <3>1, Zenon
  <2>2. CASE ~same
    <3>1. r = fresh
      BY <2>2, Zenon
    <3>2. QED
      BY <1>6, <2>2, <3>1, Zenon
  <2>3. QED
    BY <2>1, <2>2
<1> HIDE DEF r
<1>9. \/ UNCHANGED row /\ ~written
      \/ /\ written
         /\ row' \in [Messages -> Row] /\ row'[m] = r
         /\ \A n \in Messages \ {m} : row'[n] = row[n]
  <2>1. CASE written
    <3>1. row' = [row EXCEPT ![m] = r]
      BY <1>1, <1>4, <2>1, Zenon DEF RowBecomes
    <3> HIDE DEF written
    <3>2. /\ row' \in [Messages -> Row] /\ row'[m] = r
          /\ \A n \in Messages \ {m} : row'[n] = row[n]
      BY <1>3, <1>8, <3>1 DEF TypeOK
    <3>3. QED
      BY <2>1, <3>2
  <2>2. CASE ~written
    BY <1>1, <2>2, Zenon
  <2>3. QED
    BY <2>1, <2>2
<1>10. \/ Rests(p, "discarding", Photo(p)) /\ discarded
       \/ Idles(p)
  <2>1. CASE discarded
    <3>1. Becomes(p, [Idle EXCEPT !.pc = "discarding", !.photo = process[p].photo])
      BY <1>1, <2>1, Zenon
    <3>2. process[p].photo \in Photos
      BY <1>3, SMT DEF Process
    <3>3. Rests(p, "discarding", process[p].photo)
      BY <3>1, <3>2, Resting, Zenon
    <3>4. QED
      BY <2>1, <3>3, Zenon DEF Photo
  <2>2. CASE ~discarded
    <3>1. Becomes(p, [Idle EXCEPT !.pc = "polling"])
      BY <1>1, <2>2, Zenon
    <3>2. 0 \in Photos
      BY BoundAssumption DEF Photos
    <3>3. Rests(p, "polling", 0)
      BY <3>1, <3>2, Resting, Zenon
    <3>4. Idles(p)
      BY <1>1, <1>3, <3>3, LeaseTaken, Zenon DEF Idles, Rests
    <3>5. QED
      BY <3>4
  <2>3. QED
    BY <2>1, <2>2
<1>11. row' \in [Messages -> Row] /\ \A n \in Messages \ {m} : row'[n] = row[n]
  BY <1>3, <1>9, Zenon DEF TypeOK
<1>12. \/ UNCHANGED row /\ ((process[p].seen /\ ~Stays(m)) \/ ~(row[m].update < k))
       \/ /\ process[p].seen => Stays(m)
          /\ row[m].update < k
          /\ row'[m] = r
  BY <1>9, Zenon
<1>13. discarded => Photo(p) \notin {0, updates[k].photo}
  BY Zenon DEF Photo
<1> HIDE DEF written, discarded
<1>14. \/ UNCHANGED row /\ ((process[p].seen /\ ~Stays(m)) \/ ~(row[m].update < k))
       \/ /\ process[p].seen => Stays(m)
          /\ row[m].update < k
          /\ row'[m].update = k /\ row'[m].photo = updates[k].photo
          /\ \/ /\ Stays(m) /\ row[m].photo = updates[k].photo
                /\ row'[m].stage = row[m].stage /\ row'[m].request = row[m].request
                /\ row'[m].uncertain = row[m].uncertain /\ row'[m].media = row[m].media
                /\ row'[m].attempts = row[m].attempts
             \/ /\ ~Stays(m) \/ row[m].photo # updates[k].photo
                /\ row'[m].stage = "pending" /\ ~row'[m].request /\ ~row'[m].uncertain
                /\ ~row'[m].media /\ row'[m].attempts = 0
  BY <1>7, <1>8, <1>12, Zenon
<1>15. QED
  BY <1>1, <1>2, <1>3, <1>7, <1>10, <1>11, <1>13, <1>14, Zenon

LEMMA ChannelPostEffect ==
  ASSUME Shape, NEW m \in Messages, ChannelPost(m)
  PROVE  /\ updates' \in Seq(Update)
         /\ Len(updates') = Len(updates) + 1 /\ Len(updates') <= MaxUpdates
         /\ \A u \in 1..Len(updates) : updates'[u] = updates[u]
         /\ updates'[Len(updates) + 1].message = m
         /\ \/ updates'[Len(updates) + 1].photo \in {0, Len(updates) + 1}
            \/ \E k \in 1..Len(updates) :
                  /\ updates[k].message = m
                  /\ updates'[Len(updates) + 1].photo = updates[k].photo
                  /\ \A u \in 1..Len(updates) : updates[u].message = m => u <= k
         /\ UNCHANGED <<offset, row, post, files, lease, process, retries, credit>>
<1>1. /\ Len(updates) < MaxUpdates
      /\ UNCHANGED <<offset, row, post, files, lease, process, retries, credit>>
  BY Zenon DEF ChannelPost
<1>2. PICK photo \in {0, Len(updates) + 1} \cup {updates[k].photo : k \in Newest(m)} :
        updates' = Append(updates, [message |-> m, photo |-> photo])
  BY Zenon DEF ChannelPost
<1>3. \/ photo \in {0, Len(updates) + 1}
      \/ \E k \in 1..Len(updates) :
            /\ updates[k].message = m /\ photo = updates[k].photo
            /\ \A u \in 1..Len(updates) : updates[u].message = m => u <= k
  BY Typing, Zenon DEF Newest
<1>4. photo \in Photos
  BY <1>1, <1>3, Typing, BoundAssumption DEF Photos
<1> DEFINE new == [message |-> m, photo |-> photo]
<1>5. new \in Update /\ new.message = m /\ new.photo = photo
  BY <1>4, SMT DEF Update
<1>6. updates \in Seq(Update) /\ updates' = Append(updates, new)
  BY <1>2 DEF Shape, TypeOK
<1> HIDE DEF new
<1>7. /\ updates' \in Seq(Update) /\ Len(updates') = Len(updates) + 1
      /\ \A u \in 1..Len(updates) : updates'[u] = updates[u]
      /\ updates'[Len(updates) + 1] = new
  BY <1>5, <1>6
<1>8. Len(updates') <= MaxUpdates
  BY <1>1, <1>7, Typing, BoundAssumption
<1>9. QED
  BY <1>1, <1>3, <1>5, <1>7, <1>8, Zenon

(***************************************************************************)
(* Shape.                                                                  *)
(***************************************************************************)
LEMMA JobsStayWhole ==
  ASSUME Shape, NEW p \in Processes, Only(p), Len(updates') >= Len(updates),
         Len(updates') \in Nat,
         InJob(p)' => Message(p)' \in Messages,
         process'[p].pc \in PhotoPcs => Photo(p)' # 0,
         process'[p].pc \in {"fetched", "saving"} => process'[p].update \in 1..Len(updates')
  PROVE  JobsAreWhole'
<1>1. \A q \in Processes : process[q].update \in 1..Len(updates)
                             => process[q].update \in 1..Len(updates')
  BY Typing
<1>2. SUFFICES ASSUME NEW q \in Processes
               PROVE  /\ InJob(q)' => Message(q)' \in Messages
                      /\ process'[q].pc \in PhotoPcs => Photo(q)' # 0
                      /\ process'[q].pc \in {"fetched", "saving"}
                           => process'[q].update \in 1..Len(updates')
  BY Zenon DEF JobsAreWhole
<1>3. CASE q = p
  BY <1>3, Zenon
<1>4. CASE q # p
  <2>1. process'[q] = process[q]
    BY <1>4, Zenon DEF Only
  <2>2. /\ InJob(q) => Message(q) \in Messages
        /\ process[q].pc \in PhotoPcs => Photo(q) # 0
        /\ process[q].pc \in {"fetched", "saving"} => process[q].update \in 1..Len(updates)
    BY Zenon DEF Shape, JobsAreWhole
  <2>3. QED
    BY <1>1, <2>1, <2>2, Zenon DEF InJob, Message, Photo
<1>5. QED
  BY <1>3, <1>4

\* Nobody else's live row is blocked or published.
LEMMA HeldRowsStayLive ==
  ASSUME Shape, NEW p \in Processes, Only(p),
         \A q \in Processes \ {p} : lease'["media"] = q => lease["media"] = q,
         Leases("media", p) \/ \A m \in Messages :
            Stays(m) /\ row[m].stage # "blocked" => Stays(m)' /\ row'[m].stage # "blocked",
         InJob(p)' /\ Leases("media", p)'
            => Stays(Message(p))' /\ row'[Message(p)'].stage # "blocked"
  PROVE  HeldRowIsLive'
<1>1. SUFFICES ASSUME NEW q \in Processes, InJob(q)', Leases("media", q)'
               PROVE  Stays(Message(q))' /\ row'[Message(q)'].stage # "blocked"
  BY Zenon DEF HeldRowIsLive
<1>2. CASE q = p
  BY <1>1, <1>2, Zenon
<1>3. CASE q # p
  <2>1. process'[q] = process[q]
    BY <1>3, Zenon DEF Only
  <2>2. Leases("media", q) /\ ~Leases("media", p)
    <3>1. lease'["media"] = q
      BY <1>1, Zenon DEF Leases
    <3>2. lease["media"] = q
      BY <1>3, <3>1
    <3>3. QED
      BY <1>3, <3>2, Zenon DEF Leases
  <2>3. InJob(q) /\ Message(q)' = Message(q)
    BY <1>1, <2>1, Zenon DEF InJob, Message
  <2>4. /\ Stays(Message(q)) /\ row[Message(q)].stage # "blocked"
        /\ Message(q) \in Messages
    BY <2>2, <2>3, Zenon DEF Shape, HeldRowIsLive, JobsAreWhole
  <2>5. /\ row'[Message(q)].update # 0 /\ row'[Message(q)].stage # "blocked"
    BY <2>2, <2>4, Zenon DEF Stays
  <2>6. QED
    BY <2>3, <2>5, Zenon DEF Stays
<1>4. QED
  BY <1>2, <1>3

LEMMA IdlingKeepsShape ==
  ASSUME Shape, NEW p \in Processes, Idles(p), files' \subseteq files,
         UNCHANGED <<updates, retries, offset, row, post, credit>>
  PROVE  Shape'
<1>1. Only(p) /\ ~InJob(p)' /\ process'[p].pc \notin PhotoPcs
      /\ process'[p].pc \notin {"fetched", "saving"}
  BY Zenon DEF Idles, InJob, JobPcs, PhotoPcs
<1>2. JobsAreWhole'
  BY <1>1, Typing, JobsStayWhole
<1>3. \A q \in Processes \ {p} : lease'["media"] = q => lease["media"] = q
  BY Zenon DEF Idles
<1>4. \A m \in Messages : Stays(m) /\ row[m].stage # "blocked"
                            => Stays(m)' /\ row'[m].stage # "blocked"
  BY Zenon DEF Stays
<1>5. HeldRowIsLive'
  BY <1>1, <1>3, <1>4, HeldRowsStayLive, Zenon
<1>6. TypeOK' /\ RetriesLeft' /\ OffsetIsNear'
  BY <1>1, SMT DEF Shape, TypeOK, RetriesLeft, OffsetIsNear, Idles, Only
<1>7. QED
  BY <1>2, <1>5, <1>6 DEF Shape

LEMMA ProceedingKeepsShape ==
  ASSUME Shape, NEW p \in Processes, NEW pc \in JobPcs, NEW stage, NEW request,
         Proceeds(p, pc, stage, request), pc \in PhotoPcs => Photo(p) # 0,
         files' \subseteq Updates, credit' \in [Updates -> Int]
  PROVE  Shape'
<1>1. /\ InJob(p) /\ Only(p) /\ process'[p].pc = pc
      /\ Message(p)' = Message(p) /\ Photo(p)' = Photo(p)
      /\ UNCHANGED <<updates, retries, offset, row, post, lease>>
  BY Zenon DEF Proceeds, GoesOn, Message, Photo
<1>2. pc \notin {"fetched", "saving"}
  BY Zenon DEF JobPcs
<1>3. Message(p) \in Messages
  BY <1>1, Zenon DEF Shape, JobsAreWhole
<1>4. JobsAreWhole'
  BY <1>1, <1>2, <1>3, Typing, JobsStayWhole
<1>5. \A m \in Messages : Stays(m) /\ row[m].stage # "blocked"
                            => Stays(m)' /\ row'[m].stage # "blocked"
  BY <1>1, Zenon DEF Stays
<1>6. Leases("media", p)' => Stays(Message(p))' /\ row'[Message(p)'].stage # "blocked"
  BY <1>1, Zenon DEF Shape, HeldRowIsLive, Stays, Leases
<1>7. \A q \in Processes \ {p} : lease'["media"] = q => lease["media"] = q
  BY <1>1, Zenon
<1>8. HeldRowIsLive'
  BY <1>1, <1>5, <1>6, <1>7, HeldRowsStayLive, Zenon
<1>9. TypeOK' /\ RetriesLeft' /\ OffsetIsNear'
  BY <1>1, SMT DEF Shape, TypeOK, RetriesLeft, OffsetIsNear, Only
<1>10. QED
  BY <1>4, <1>8, <1>9 DEF Shape

LEMMA WrittenRow ==
  ASSUME Shape, NEW m \in Messages, NEW stage, NEW request, NEW uncertain, NEW media,
         RowIs(m, stage, request, uncertain, media)
  PROVE  /\ RetriesLeft' /\ row' \in [Messages -> Row]
         /\ \A n \in Messages : Stays(n) => Stays(n)'
         /\ stage # "blocked" => \A n \in Messages :
               row[n].stage # "blocked" => row'[n].stage # "blocked"
<1>1. \A n \in Messages \ {m} : row'[n] = row[n]
  BY Zenon DEF RowIs
<1>2. RetriesLeft'
  BY <1>1, Zenon DEF Shape, RetriesLeft, RowIs
<1>3. QED
  BY <1>1, <1>2, Zenon DEF RowIs, Stays

\* A job writes its row and goes on.
LEMMA WritingKeepsShape ==
  ASSUME Shape, NEW p \in Processes, InJob(p), Owned(p),
         NEW pc \in JobPcs, NEW stage, NEW request,
         GoesOn(p, pc, stage, request), pc \in PhotoPcs => Photo(p) # 0,
         NEW rstage, NEW rrequest, NEW uncertain, NEW media, rstage # "blocked",
         RowIs(Message(p), rstage, rrequest, uncertain, media),
         UNCHANGED <<updates, retries, offset, post, files, lease, credit>>
  PROVE  Shape'
<1>1. /\ Only(p) /\ process'[p].pc = pc
      /\ Message(p)' = Message(p) /\ Photo(p)' = Photo(p)
  BY Zenon DEF GoesOn, Message, Photo
<1>2. pc \notin {"fetched", "saving"}
  BY Zenon DEF JobPcs
<1>3. Message(p) \in Messages /\ Leases("media", p) /\ Stays(Message(p))
  BY OwnedRow
<1>4. JobsAreWhole'
  BY <1>1, <1>2, <1>3, Typing, JobsStayWhole
<1>5. RetriesLeft' /\ row' \in [Messages -> Row] /\ \A n \in Messages : Stays(n) => Stays(n)'
  BY <1>3, WrittenRow, Zenon
<1>6. row'[Message(p)].stage # "blocked"
  BY Zenon DEF RowIs
<1>7. Stays(Message(p))' /\ row'[Message(p)'].stage # "blocked"
  BY <1>1, <1>3, <1>6, Zenon DEF RowIs, Stays
<1>8. \A q \in Processes \ {p} : lease'["media"] = q => lease["media"] = q
  BY Zenon
<1>9. HeldRowIsLive'
  BY <1>1, <1>3, <1>7, <1>8, HeldRowsStayLive, Zenon
<1>10. TypeOK' /\ OffsetIsNear'
  BY <1>1, <1>5, SMT DEF Shape, TypeOK, OffsetIsNear, Only
<1>11. QED
  BY <1>4, <1>5, <1>9, <1>10 DEF Shape

\* A job writes its row and ends.
LEMMA EndingKeepsShape ==
  ASSUME Shape, NEW p \in Processes, InJob(p), Owned(p), Idles(p),
         NEW stage, NEW request, NEW uncertain, NEW media,
         RowIs(Message(p), stage, request, uncertain, media),
         UNCHANGED <<updates, retries, offset, post, files, lease, credit>>
  PROVE  Shape'
<1>1. Only(p) /\ ~InJob(p)' /\ process'[p].pc \notin PhotoPcs
      /\ process'[p].pc \notin {"fetched", "saving"}
  BY Zenon DEF Idles, InJob, JobPcs, PhotoPcs
<1>2. Message(p) \in Messages /\ Leases("media", p)
  BY OwnedRow
<1>3. JobsAreWhole'
  BY <1>1, Typing, JobsStayWhole
<1>4. RetriesLeft' /\ row' \in [Messages -> Row]
  BY <1>2, WrittenRow, Zenon
<1>5. \A q \in Processes \ {p} : lease'["media"] = q => lease["media"] = q
  BY Zenon
<1>6. HeldRowIsLive'
  BY <1>1, <1>2, <1>5, HeldRowsStayLive, Zenon
<1>7. TypeOK' /\ OffsetIsNear'
  BY <1>1, <1>4, SMT DEF Shape, TypeOK, OffsetIsNear, Only
<1>8. QED
  BY <1>3, <1>4, <1>6, <1>7 DEF Shape

\* A row is written while no process moves.
LEMMA AskingKeepsShape ==
  ASSUME Shape, NEW m \in Messages, NEW stage, NEW request, NEW uncertain, NEW media,
         RowIs(m, stage, request, uncertain, media),
         lease["media"] = Nobody \/ stage # "blocked" \/ row[m].stage = "blocked",
         UNCHANGED <<updates, offset, post, files, lease, process>>,
         retries' \in 0..MaxRetries, credit' \in [Updates -> Int]
  PROVE  Shape'
<1>1. RetriesLeft' /\ row' \in [Messages -> Row] /\ \A n \in Messages : Stays(n) => Stays(n)'
  BY WrittenRow, Zenon
<1>2. TypeOK' /\ OffsetIsNear'
  BY <1>1, SMT DEF Shape, TypeOK, OffsetIsNear
<1>3. JobsAreWhole'
  BY Zenon DEF Shape, JobsAreWhole, InJob, Message, Photo
<1>4. SUFFICES ASSUME NEW q \in Processes, InJob(q)', Leases("media", q)'
               PROVE  Stays(Message(q))' /\ row'[Message(q)'].stage # "blocked"
  BY <1>1, <1>2, <1>3, Zenon DEF Shape, HeldRowIsLive
<1>5. InJob(q) /\ Leases("media", q) /\ Message(q)' = Message(q)
  BY <1>4, Zenon DEF InJob, Leases, Message
<1>6. Message(q) \in Messages /\ Stays(Message(q)) /\ row[Message(q)].stage # "blocked"
  BY <1>5, Zenon DEF Shape, HeldRowIsLive, JobsAreWhole
<1>7. lease["media"] # Nobody
  BY <1>5, ProcessAssumption, Zenon DEF Leases
<1>8. row'[Message(q)].stage # "blocked"
  BY <1>6, <1>7, Zenon DEF RowIs
<1>9. QED
  BY <1>1, <1>5, <1>6, <1>8, Zenon DEF Stays

LEMMA PickJobKeepsShape ==
  ASSUME Shape, NEW p \in Processes, NEW m \in Messages, PickJob(p, m)
  PROVE  Shape'
<1>1. /\ At(p, "media") /\ Stays(m) /\ row[m].stage # "blocked" /\ Only(p)
      /\ process'[p].pc = "looking" /\ process'[p].message = m
      /\ UNCHANGED <<updates, retries, offset, row, post, files, lease, credit>>
  BY PickJobEffect, Zenon
<1>2. JobsAreWhole'
  <2>1. process'[p].pc \notin PhotoPcs /\ process'[p].pc \notin {"fetched", "saving"}
    BY <1>1, Zenon DEF PhotoPcs, JobPcs
  <2>2. Message(p)' \in Messages
    BY <1>1, Zenon DEF Message
  <2>3. QED
    BY <1>1, <2>1, <2>2, Typing, JobsStayWhole
<1>3. HeldRowIsLive'
  <2>1. Stays(Message(p))' /\ row'[Message(p)'].stage # "blocked"
    BY <1>1, Zenon DEF Message, Stays
  <2>2. \A n \in Messages : Stays(n) /\ row[n].stage # "blocked"
                              => Stays(n)' /\ row'[n].stage # "blocked"
    BY <1>1, Zenon DEF Stays
  <2>3. \A q \in Processes \ {p} : lease'["media"] = q => lease["media"] = q
    BY <1>1, Zenon
  <2>4. QED
    BY <1>1, <2>1, <2>2, <2>3, HeldRowsStayLive, Zenon
<1>4. TypeOK' /\ RetriesLeft' /\ OffsetIsNear'
  BY <1>1, SMT DEF Shape, TypeOK, RetriesLeft, OffsetIsNear, Only
<1>5. QED
  BY <1>2, <1>3, <1>4 DEF Shape

LEMMA PublishKeepsShape ==
  ASSUME Shape, NEW p \in Processes, Publish(p)
  PROVE  Shape'
<1> DEFINE m == Message(p)
<1>1. /\ At(p, "ready") /\ Owned(p)
      /\ post' \in [Messages -> Post] /\ row' \in [Messages -> Row] /\ row'[m] = NoRow
      /\ \A n \in Messages \ {m} : row'[n] = row[n]
      /\ \/ Rests(p, "retiring", post[m].photo) /\ post[m].photo # 0
         \/ Idles(p)
      /\ UNCHANGED <<updates, retries, offset, files, lease, credit>>
  BY PublishEffect, Zenon
<1>2. InJob(p)
  BY <1>1, Zenon DEF InJob, JobPcs, At
<1>3. m \in Messages /\ Leases("media", p)
  BY <1>1, <1>2, OwnedRow, Zenon
<1>4. /\ Only(p) /\ ~InJob(p)' /\ process'[p].pc \notin {"fetched", "saving"}
      /\ process'[p].pc \in PhotoPcs => Photo(p)' # 0
  <2>1. CASE Rests(p, "retiring", post[m].photo) /\ post[m].photo # 0
    BY <2>1, Zenon DEF Rests, InJob, JobPcs, Photo
  <2>2. CASE Idles(p)
    BY <2>2, Zenon DEF Idles, InJob, JobPcs, PhotoPcs
  <2>3. QED
    BY <1>1, <2>1, <2>2
<1>5. JobsAreWhole'
  BY <1>1, <1>4, Typing, JobsStayWhole
<1>6. HeldRowIsLive'
  <2>1. \A q \in Processes \ {p} : lease'["media"] = q => lease["media"] = q
    BY <1>1, Zenon
  <2>2. QED
    BY <1>3, <1>4, <2>1, HeldRowsStayLive, Zenon
<1>7. RetriesLeft'
  <2>1. 0 # MaxAttempts
    BY BoundAssumption
  <2>2. QED
    BY <1>1, <2>1, NoRowTyped, Zenon DEF Shape, RetriesLeft
<1>8. TypeOK' /\ OffsetIsNear'
  BY <1>1, <1>4, SMT DEF Shape, TypeOK, OffsetIsNear, Only
<1>9. QED
  BY <1>5, <1>6, <1>7, <1>8 DEF Shape

LEMMA LeaseLapsesKeepsShape ==
  ASSUME Shape, NEW work \in {"ingest", "media"}, LeaseLapses(work)
  PROVE  Shape'
<1>1. /\ lease' \in [{"ingest", "media"} -> Processes \cup {Nobody}]
      /\ lease'[work] = Nobody
      /\ \A any \in {"ingest", "media"} \ {work} : lease'[any] = lease[any]
      /\ UNCHANGED <<updates, retries, offset, row, post, files, process, credit>>
  BY LeaseLapsesEffect, Zenon
<1>2. \A q \in Processes : lease'["media"] = q => lease["media"] = q
  BY <1>1, ProcessAssumption
<1>3. HeldRowIsLive'
  BY <1>1, <1>2, Zenon DEF Shape, HeldRowIsLive, InJob, Leases, Message, Stays
<1>4. JobsAreWhole' /\ RetriesLeft'
  BY <1>1, Zenon DEF Shape, JobsAreWhole, RetriesLeft, InJob, Message, Photo
<1>5. TypeOK' /\ OffsetIsNear'
  BY <1>1, SMT DEF Shape, TypeOK, OffsetIsNear
<1>6. QED
  BY <1>3, <1>4, <1>5 DEF Shape

\* Polling, before the transaction commits.
LEMMA ReadingKeepsShape ==
  ASSUME Shape, NEW p \in Processes, Fetch(p) \/ SaveOpens(p)
  PROVE  Shape'
<1>1. /\ Only(p) /\ process'[p].pc \in {"fetched", "saving"}
      /\ process'[p].update \in 1..Len(updates)
      /\ UNCHANGED <<updates, retries, offset, row, post, files, lease, credit>>
  <2>1. CASE Fetch(p)
    BY <2>1, FetchEffect, Typing
  <2>2. CASE SaveOpens(p)
    <3>1. process[p].update \in 1..Len(updates)
      BY <2>2, SaveOpensEffect, Zenon DEF Shape, JobsAreWhole, At
    <3>2. QED
      BY <2>2, <3>1, SaveOpensEffect, Zenon
  <2>3. QED
    BY <2>1, <2>2
<1>2. ~InJob(p)' /\ process'[p].pc \notin PhotoPcs
  BY <1>1, Zenon DEF InJob, JobPcs, PhotoPcs
<1>3. JobsAreWhole'
  BY <1>1, <1>2, Typing, JobsStayWhole
<1>4. HeldRowIsLive'
  <2>1. \A n \in Messages : Stays(n) /\ row[n].stage # "blocked"
                              => Stays(n)' /\ row'[n].stage # "blocked"
    BY <1>1, Zenon DEF Stays
  <2>2. \A q \in Processes \ {p} : lease'["media"] = q => lease["media"] = q
    BY <1>1, Zenon
  <2>3. QED
    BY <1>1, <1>2, <2>1, <2>2, HeldRowsStayLive, Zenon
<1>5. TypeOK' /\ RetriesLeft' /\ OffsetIsNear'
  BY <1>1, SMT DEF Shape, TypeOK, RetriesLeft, OffsetIsNear, Only
<1>6. QED
  BY <1>3, <1>4, <1>5 DEF Shape

LEMMA SaveCommitsKeepsShape ==
  ASSUME Shape, NEW p \in Processes, SaveCommits(p)
  PROVE  Shape'
<1> DEFINE m == Saved(p)
           k == process[p].update
<1>1. /\ m \in Messages /\ k \in 1..Len(updates) /\ offset' = k + 1
      /\ row' \in [Messages -> Row] /\ \A n \in Messages \ {m} : row'[n] = row[n]
      /\ \/ UNCHANGED row
         \/ /\ row'[m].update = k
            /\ \/ /\ row'[m].stage = row[m].stage
                  /\ row'[m].attempts = row[m].attempts
               \/ /\ row'[m].stage = "pending"
                  /\ row'[m].attempts = 0
      /\ \/ Rests(p, "discarding", Photo(p)) /\ Photo(p) # 0
         \/ Idles(p)
      /\ UNCHANGED <<updates, retries, post, files, lease, credit>>
  BY SaveCommitsEffect, Zenon
<1>2. /\ Only(p) /\ ~InJob(p)' /\ process'[p].pc \notin {"fetched", "saving"}
      /\ process'[p].pc \in PhotoPcs => Photo(p)' # 0
  <2>1. CASE Rests(p, "discarding", Photo(p)) /\ Photo(p) # 0
    BY <2>1, Zenon DEF Rests, InJob, JobPcs, Photo
  <2>2. CASE Idles(p)
    BY <2>2, Zenon DEF Idles, InJob, JobPcs, PhotoPcs
  <2>3. QED
    BY <1>1, <2>1, <2>2
<1>3. JobsAreWhole'
  BY <1>1, <1>2, Typing, JobsStayWhole
<1>4. k # 0 /\ 0 # MaxAttempts
  BY <1>1, Typing, BoundAssumption
<1> HIDE DEF k, m
<1>5. HeldRowIsLive'
  <2>1. \A n \in Messages : Stays(n) /\ row[n].stage # "blocked"
                              => row'[n].update # 0 /\ row'[n].stage # "blocked"
    <3> SUFFICES ASSUME NEW n \in Messages, Stays(n) /\ row[n].stage # "blocked"
                 PROVE  row'[n].update # 0 /\ row'[n].stage # "blocked"
      OBVIOUS
    <3>1. CASE n = m
      BY <1>1, <1>4, <3>1, Zenon DEF Stays
    <3>2. CASE n # m
      BY <1>1, <3>2, Zenon DEF Stays
    <3>3. QED
      BY <3>1, <3>2
  <2>2. \A q \in Processes \ {p} : lease'["media"] = q => lease["media"] = q
    BY <1>1, Zenon
  <2>3. \A n \in Messages : Stays(n) /\ row[n].stage # "blocked"
                              => Stays(n)' /\ row'[n].stage # "blocked"
    BY <2>1, Zenon DEF Stays
  <2>4. QED
    BY <1>2, <2>2, <2>3, HeldRowsStayLive, Zenon
<1>6. RetriesLeft'
  <2>1. SUFFICES ASSUME NEW n \in Messages, row'[n].attempts = MaxAttempts
                 PROVE  row'[n].stage = "blocked"
    BY Zenon DEF RetriesLeft
  <2>2. row[n].attempts = MaxAttempts => row[n].stage = "blocked"
    BY Zenon DEF Shape, RetriesLeft
  <2>3. CASE n = m
    BY <1>1, <1>4, <2>1, <2>2, <2>3, Zenon
  <2>4. CASE n # m
    BY <1>1, <2>1, <2>2, <2>4, Zenon
  <2>5. QED
    BY <2>3, <2>4
<1>7. offset' \in 1..(MaxUpdates + 1) /\ OffsetIsNear'
  BY <1>1, Typing, BoundAssumption DEF OffsetIsNear
<1>8. TypeOK'
  BY <1>1, <1>2, <1>7, SMT DEF Shape, TypeOK, Only
<1>9. QED
  BY <1>3, <1>5, <1>6, <1>7, <1>8 DEF Shape

LEMMA ChannelPostKeepsShape ==
  ASSUME Shape, NEW m \in Messages, ChannelPost(m)
  PROVE  Shape'
<1>1. /\ updates' \in Seq(Update)
      /\ Len(updates') = Len(updates) + 1 /\ Len(updates') <= MaxUpdates
      /\ UNCHANGED <<offset, row, post, files, lease, process, retries, credit>>
  BY ChannelPostEffect, Zenon
<1>2. OffsetIsNear'
  BY <1>1, Typing DEF OffsetIsNear
<1>3. \A k : k \in 1..Len(updates) => k \in 1..Len(updates')
  BY <1>1, Typing
<1>4. JobsAreWhole' /\ HeldRowIsLive' /\ RetriesLeft'
  BY <1>1, <1>3, Zenon DEF Shape, JobsAreWhole, HeldRowIsLive, RetriesLeft, InJob, Message,
     Photo, Leases, Stays
<1>5. TypeOK'
  BY <1>1, Zenon DEF Shape, TypeOK
<1>6. QED
  BY <1>2, <1>4, <1>5 DEF Shape

LEMMA ShapeInit ==
  ASSUME Init
  PROVE  Shape
<1>1. updates = <<>> /\ offset = 1 /\ files = {} /\ retries = 0
  BY Zenon DEF Init
<1>2. /\ row = [m \in Messages |-> NoRow] /\ post = [m \in Messages |-> NoPost]
      /\ lease = [work \in {"ingest", "media"} |-> Nobody]
      /\ process = [p \in Processes |-> Idle] /\ credit = [k \in Updates |-> 1]
  BY Zenon DEF Init
<1>3. NoPost \in Post
  <2>1. NoPost \in [update : 0..MaxUpdates, photo : 0..MaxUpdates]
    BY BoundAssumption, SMT DEF NoPost
  <2>2. QED
    BY <2>1, Zenon DEF Post, Photos
<1>4. updates \in Seq(Update) /\ Len(updates) = 0
  BY <1>1
<1>5. TypeOK
  BY <1>1, <1>2, <1>3, <1>4, NoRowTyped, IdleTyped, BoundAssumption, SMT DEF TypeOK
<1>6. RetriesLeft
  <2>1. 0 # MaxAttempts
    BY BoundAssumption
  <2>2. QED
    BY <1>2, <2>1, NoRowTyped, Zenon DEF RetriesLeft
<1>7. JobsAreWhole /\ HeldRowIsLive
  <2>1. \A p \in Processes : process[p].pc = "idle"
    BY <1>2, IdleTyped, Zenon
  <2>2. QED
    BY <2>1, Zenon DEF JobsAreWhole, HeldRowIsLive, InJob, JobPcs, PhotoPcs
<1>8. OffsetIsNear
  BY <1>1, <1>4 DEF OffsetIsNear
<1>9. QED
  BY <1>5, <1>6, <1>7, <1>8 DEF Shape

LEMMA Spent ==
  ASSUME NEW f \in [Updates -> Int], NEW j, NEW g, g = [f EXCEPT ![j] = @ - 1]
  PROVE  g \in [Updates -> Int]
<1>1. DOMAIN g = Updates /\ \A k \in Updates : g[k] \in Int
  OBVIOUS
<1>2. g = [k \in Updates |-> g[k]]
  BY DEF Updates
<1>3. QED
  BY <1>1, <1>2

\* The steps of a job that go on and write no row, and those that do.
LEMMA JobKeepsShape ==
  ASSUME Shape, NEW p \in Processes,
         \/ LookUp(p) \/ ResumeRemoval(p) \/ SubmitAccepted(p) \/ SubmitFails(p)
         \/ BeforeUpload(p) \/ Upload(p) \/ Fails(p)
         \/ BeginSubmission(p) \/ RecordRequest(p) \/ RecordRefusal(p) \/ OnUploaded(p)
         \/ StillInQueue(p) \/ RecordFailure(p)
  PROVE  Shape'
<1>1. files \subseteq Updates /\ credit \in [Updates -> Int]
  BY DEF Shape, TypeOK
<1>2. process[p].pc \in PhotoPcs => Photo(p) # 0
  BY Zenon DEF Shape, JobsAreWhole
<1>3. CASE LookUp(p)
  <2>1. PICK pc \in {"ready", "removing"} :
          /\ Proceeds(p, pc, process[p].stage, process[p].request)
          /\ At(p, "looking") /\ UNCHANGED <<files, credit>>
          /\ pc = "ready" <=> \/ Photo(p) \in {0, post[Message(p)].photo}
                              \/ Photo(p) \in files
    BY <1>3, LookUpEffect
  <2>2. pc \in JobPcs /\ (pc \in PhotoPcs => Photo(p) # 0)
    BY <2>1, Zenon DEF JobPcs, PhotoPcs
  <2>3. QED
    BY <1>1, <2>1, <2>2, ProceedingKeepsShape, Zenon
<1>4. CASE ResumeRemoval(p)
  <2>1. PICK pc \in {"waiting", "failed"} :
          /\ Proceeds(p, pc, process[p].stage, process[p].request)
          /\ At(p, "removing") /\ UNCHANGED <<files, credit>>
    BY <1>4, ResumeEffect
  <2>2. pc \in JobPcs /\ Photo(p) # 0
    BY <1>2, <2>1, Zenon DEF JobPcs, PhotoPcs, At
  <2>3. QED
    BY <1>1, <2>1, <2>2, ProceedingKeepsShape, Zenon
<1>5. CASE SubmitAccepted(p)
  <2>1. PICK pc \in {"accepted", "failed"} :
          /\ Proceeds(p, pc, process[p].stage, process[p].request)
          /\ At(p, "submitting") /\ UNCHANGED files
          /\ credit' = [credit EXCEPT ![Photo(p)] = @ - 1]
    BY <1>5, SubmitAcceptedEffect
  <2>2. pc \in JobPcs /\ Photo(p) # 0
    BY <1>2, <2>1, Zenon DEF JobPcs, PhotoPcs, At
  <2>3. credit' \in [Updates -> Int]
    BY <1>1, <2>1, Spent, Zenon
  <2>4. QED
    BY <1>1, <2>1, <2>2, <2>3, ProceedingKeepsShape, Zenon
<1>6. CASE SubmitFails(p)
  <2>1. PICK pc \in {"refused", "failed"} :
          /\ Proceeds(p, pc, process[p].stage, process[p].request)
          /\ At(p, "submitting") /\ UNCHANGED <<files, credit>>
    BY <1>6, SubmitFailsEffect
  <2>2. pc \in JobPcs /\ Photo(p) # 0
    BY <1>2, <2>1, Zenon DEF JobPcs, PhotoPcs, At
  <2>3. QED
    BY <1>1, <2>1, <2>2, ProceedingKeepsShape, Zenon
<1>7. CASE BeforeUpload(p)
  <2>1. /\ Proceeds(p, "uploading", process[p].stage, process[p].request)
        /\ process[p].pc \in {"removing", "waiting"} /\ UNCHANGED <<files, credit>>
    BY <1>7, BeforeUploadEffect
  <2>2. "uploading" \in JobPcs /\ Photo(p) # 0
    BY <1>2, <2>1, Zenon DEF JobPcs, PhotoPcs
  <2>3. QED
    BY <1>1, <2>1, <2>2, ProceedingKeepsShape, Zenon
<1>8. CASE Upload(p)
  <2>1. /\ Proceeds(p, "uploaded", process[p].stage, process[p].request)
        /\ At(p, "uploading") /\ files' = files \cup {Photo(p)} /\ UNCHANGED credit
    BY <1>8, UploadEffect
  <2>2. "uploaded" \in JobPcs /\ Photo(p) # 0
    BY <1>2, <2>1, Zenon DEF JobPcs, PhotoPcs, At
  <2>3. Photo(p) \in Photos
    BY Typing, SMT DEF Process, Photo
  <2>4. Photo(p) \in Updates
    BY <2>2, <2>3, BoundAssumption DEF Photos, Updates
  <2>5. files' \subseteq Updates
    BY <1>1, <2>1, <2>4
  <2>6. QED
    BY <1>1, <2>1, <2>2, <2>5, ProceedingKeepsShape, Zenon
<1>9. CASE Fails(p)
  <2>1. /\ Proceeds(p, "failed", process[p].stage, process[p].request)
        /\ UNCHANGED <<files, credit>>
    BY <1>9, FailsEffect
  <2>2. "failed" \in JobPcs /\ "failed" \notin PhotoPcs
    BY Zenon DEF JobPcs, PhotoPcs
  <2>3. QED
    BY <1>1, <2>1, <2>2, ProceedingKeepsShape, Zenon
<1>10. CASE BeginSubmission(p)
  <2>1. /\ At(p, "removing") /\ Owned(p)
        /\ UNCHANGED <<updates, retries, offset, post, files, lease, credit>>
    BY <1>10, BeginSubmissionEffect
  <2>2. PICK pc \in {"submitting", "failed"} :
          /\ GoesOn(p, pc, "submitting", process[p].request)
          /\ \/ RowIs(Message(p), "submitting", row[Message(p)].request,
                      row[Message(p)].uncertain, row[Message(p)].media)
             \/ pc = "failed" /\ UNCHANGED row
    BY <1>10, BeginSubmissionEffect
  <2>3. pc \in JobPcs /\ Photo(p) # 0 /\ InJob(p) /\ "submitting" # "blocked"
    BY <1>2, <2>1, Zenon DEF JobPcs, PhotoPcs, At, InJob
  <2>4. CASE UNCHANGED row
    <3>1. Proceeds(p, pc, "submitting", process[p].request)
      BY <2>1, <2>2, <2>3, <2>4, Zenon DEF Proceeds
    <3>2. QED
      BY <1>1, <2>1, <2>3, <3>1, ProceedingKeepsShape, Zenon
  <2>5. CASE RowIs(Message(p), "submitting", row[Message(p)].request,
                   row[Message(p)].uncertain, row[Message(p)].media)
    BY <2>1, <2>2, <2>3, <2>5, WritingKeepsShape, Zenon
  <2>6. QED
    BY <2>2, <2>4, <2>5
<1>11. CASE RecordRequest(p)
  <2>1. /\ At(p, "accepted")
        /\ UNCHANGED <<updates, retries, offset, post, files, lease, credit>>
    BY <1>11, RecordRequestEffect
  <2>2. /\ Photo(p) # 0 /\ InJob(p) /\ "submitted" # "blocked"
        /\ "waiting" \in JobPcs /\ "failed" \in JobPcs
    BY <1>2, <2>1, Zenon DEF JobPcs, PhotoPcs, At, InJob
  <2>3. CASE /\ Owned(p)
             /\ RowIs(Message(p), "submitted", TRUE,
                      row[Message(p)].uncertain, row[Message(p)].media)
             /\ GoesOn(p, "waiting", "submitted", TRUE)
    BY <2>1, <2>2, <2>3, WritingKeepsShape, Zenon
  <2>4. CASE /\ Owned(p)
             /\ RowIs(Message(p), "submitted", TRUE,
                      row[Message(p)].uncertain, row[Message(p)].media)
             /\ GoesOn(p, "failed", process[p].stage, process[p].request)
    BY <2>1, <2>2, <2>4, WritingKeepsShape, Zenon
  <2>5. CASE UNCHANGED row /\ GoesOn(p, "failed", process[p].stage, process[p].request)
    <3>1. Proceeds(p, "failed", process[p].stage, process[p].request)
      BY <2>1, <2>2, <2>5, Zenon DEF Proceeds
    <3>2. QED
      BY <1>1, <2>1, <2>2, <3>1, ProceedingKeepsShape, Zenon
  <2>6. QED
    BY <1>11, <2>3, <2>4, <2>5, RecordRequestEffect, Zenon
<1>12. CASE RecordRefusal(p)
  <2>1. /\ At(p, "refused") /\ Owned(p)
        /\ UNCHANGED <<updates, retries, offset, post, files, lease, credit>>
        /\ RowIs(Message(p), "pending", row[Message(p)].request,
                 row[Message(p)].uncertain, row[Message(p)].media)
        /\ GoesOn(p, "failed", "pending", process[p].request)
    BY <1>12, RecordRefusalEffect
  <2>2. "failed" \in JobPcs /\ "failed" \notin PhotoPcs /\ InJob(p) /\ "pending" # "blocked"
    BY <2>1, Zenon DEF JobPcs, PhotoPcs, InJob, At
  <2>3. QED
    BY <2>1, <2>2, WritingKeepsShape, Zenon
<1>13. CASE OnUploaded(p)
  <2>1. /\ At(p, "uploaded") /\ Owned(p)
        /\ UNCHANGED <<updates, retries, offset, post, files, lease, credit>>
        /\ RowIs(Message(p), "uploaded", row[Message(p)].request, FALSE, TRUE)
        /\ GoesOn(p, "ready", "uploaded", process[p].request)
    BY <1>13, OnUploadedEffect
  <2>2. "ready" \in JobPcs /\ "ready" \notin PhotoPcs /\ InJob(p) /\ "uploaded" # "blocked"
    BY <2>1, Zenon DEF JobPcs, PhotoPcs, InJob, At
  <2>3. QED
    BY <2>1, <2>2, WritingKeepsShape, Zenon
<1>14. CASE StillInQueue(p)
  <2>1. /\ At(p, "waiting") /\ Owned(p) /\ Idles(p)
        /\ UNCHANGED <<updates, retries, offset, post, files, lease, credit>>
        /\ RowIs(Message(p), row[Message(p)].stage, row[Message(p)].request,
                 FALSE, row[Message(p)].media)
    BY <1>14, StillInQueueEffect
  <2>2. InJob(p)
    BY <2>1, Zenon DEF JobPcs, InJob, At
  <2>3. QED
    BY <2>1, <2>2, EndingKeepsShape, Zenon
<1>15. CASE RecordFailure(p)
  <2>1. /\ At(p, "failed") /\ Owned(p) /\ Idles(p)
        /\ UNCHANGED <<updates, retries, offset, post, files, lease, credit>>
    BY <1>15, RecordFailureEffect
  <2>2. PICK stage \in Stages, uncertain \in BOOLEAN :
          RowIs(Message(p), stage, row[Message(p)].request, uncertain, row[Message(p)].media)
    BY <1>15, RecordFailureEffect
  <2>3. InJob(p)
    BY <2>1, Zenon DEF JobPcs, InJob, At
  <2>4. QED
    BY <2>1, <2>2, <2>3, EndingKeepsShape, Zenon
<1>16. QED
  BY <1>3, <1>4, <1>5, <1>6, <1>7, <1>8, <1>9, <1>10, <1>11, <1>12, <1>13, <1>14, <1>15

LEMMA ShapeStep ==
  ASSUME Shape, [Next]_vars
  PROVE  Shape'
<1>1. CASE UNCHANGED vars
  BY <1>1, Zenon DEF vars, Shape, TypeOK, RetriesLeft, JobsAreWhole, HeldRowIsLive,
     OffsetIsNear, InJob, Photo, Message, Leases, Stays
<1>2. ASSUME NEW m \in Messages, ChannelPost(m) PROVE Shape'
  BY <1>2, ChannelPostKeepsShape
<1>3. ASSUME NEW p \in Processes,
             \/ BeginPoll(p) \/ EndPoll(p) \/ BeginMedia(p)
             \/ EndMedia(p) \/ BreaksOff(p) \/ Crash(p)
      PROVE  Shape'
  <2>1. Idles(p) /\ UNCHANGED <<updates, retries, offset, row, post, files, credit>>
    BY <1>3, IdlingEffect
  <2>2. files' \subseteq files
    BY <2>1
  <2>3. QED
    BY <2>1, <2>2, IdlingKeepsShape, Zenon
<1>4. ASSUME NEW p \in Processes, CleanDiscarded(p) \/ SkipLost(p) \/ RemoveRetired(p)
      PROVE  Shape'
  BY <1>4, RemovingEffect, IdlingKeepsShape, Zenon
<1>5. ASSUME NEW p \in Processes, Fetch(p) \/ SaveOpens(p) PROVE Shape'
  BY <1>5, ReadingKeepsShape
<1>6. ASSUME NEW p \in Processes, SaveCommits(p) PROVE Shape'
  BY <1>6, SaveCommitsKeepsShape
<1>7. ASSUME NEW p \in Processes, NEW m \in Messages, PickJob(p, m) PROVE Shape'
  BY <1>7, PickJobKeepsShape
<1>8. ASSUME NEW p \in Processes,
             \/ LookUp(p) \/ ResumeRemoval(p) \/ SubmitAccepted(p) \/ SubmitFails(p)
             \/ BeforeUpload(p) \/ Upload(p) \/ Fails(p)
             \/ BeginSubmission(p) \/ RecordRequest(p) \/ RecordRefusal(p) \/ OnUploaded(p)
             \/ StillInQueue(p) \/ RecordFailure(p)
      PROVE  Shape'
  BY <1>8, JobKeepsShape
<1>9. ASSUME NEW p \in Processes, Publish(p) PROVE Shape'
  BY <1>9, PublishKeepsShape
<1>10. ASSUME NEW work \in {"ingest", "media"}, LeaseLapses(work) PROVE Shape'
  BY <1>10, LeaseLapsesKeepsShape
<1>11. ASSUME NEW m \in Messages, BecomesDue(m) PROVE Shape'
  <2>1. /\ RowIs(m, row[m].stage, row[m].request, row[m].uncertain, row[m].media)
        /\ UNCHANGED <<updates, retries, offset, post, files, lease, process, credit>>
    BY <1>11, BecomesDueEffect
  <2>2. retries' \in 0..MaxRetries /\ credit' \in [Updates -> Int]
    BY <2>1 DEF Shape, TypeOK
  <2>3. row[m].stage # "blocked" \/ row[m].stage = "blocked"
    OBVIOUS
  <2>4. QED
    BY <2>1, <2>2, <2>3, AskingKeepsShape, Zenon
<1>12. ASSUME NEW m \in Messages, NEW new \in BOOLEAN, AdminRetry(m, new) PROVE Shape'
  <2>1. /\ lease["media"] = Nobody
        /\ UNCHANGED <<updates, offset, post, files, lease, process>>
        /\ retries' \in 0..MaxRetries
        /\ \E stage \in Stages, request \in BOOLEAN :
              RowIs(m, stage, request, FALSE, row[m].media)
        /\ \/ credit' = [credit EXCEPT ![row[m].photo] = @ + 1]
           \/ UNCHANGED credit
    BY <1>12, AdminRetryEffect, Zenon
  <2>2. credit' \in [Updates -> Int]
    BY <2>1 DEF Shape, TypeOK
  <2>3. PICK stage \in Stages, request \in BOOLEAN :
              RowIs(m, stage, request, FALSE, row[m].media)
    BY <2>1
  <2>4. QED
    BY <2>1, <2>2, <2>3, AskingKeepsShape, Zenon
<1>13. QED
  BY <1>1, <1>2, <1>3, <1>4, <1>5, <1>6, <1>7, <1>8, <1>9, <1>10, <1>11, <1>12 DEF Next

(***************************************************************************)
(* ChannelInv.                                                             *)
(***************************************************************************)
\* A process that is about no update and no file, or about a photo that is known.
Calm(q) ==
    /\ process'[q].pc \notin {"fetched", "saving", "discarding", "retiring"}
    /\ process'[q].pc \in JobPcs /\ process'[q].photo # 0 =>
          /\ process'[q].photo < offset
          /\ updates[process'[q].photo].message = process'[q].message

\* Rows keep their update and photo, and those that are not there stay as they are.
KeepsRows == \A m \in Messages :
    /\ row'[m].update = row[m].update /\ row'[m].photo = row[m].photo
    /\ ~Stays(m) => row'[m] = row[m]

\* Process q stays where it is, and so does its part of the ingest lease.
Unmoved(q) ==
    /\ process'[q] = process[q]
    /\ lease'["ingest"] = q => lease["ingest"] = q
    /\ At(q, "saving") /\ lease["ingest"] = q => lease'["ingest"] = q

LEMMA ChannelUnmoved ==
  ASSUME Shape, ChannelInv, UNCHANGED <<updates, offset, post>>,
         KeepsRows,
         \A q \in Processes : Unmoved(q) \/ Calm(q)
  PROVE  ChannelInv'
<1>1. PhotosStay' /\ PostsTell'
  BY Zenon DEF ChannelInv, PhotosStay, PostsTell, IsOf
<1>2. RowsTell'
  <2>1. SUFFICES ASSUME NEW m \in Messages, Stays(m)'
                 PROVE  /\ row'[m].update < offset
                        /\ updates[row'[m].update].message = m
                        /\ updates[row'[m].update].photo = row'[m].photo
                        /\ row'[m].update > post[m].update
                        /\ \A u \in 1..(offset - 1) :
                              updates[u].message = m => u <= row'[m].update
    BY Zenon DEF RowsTell, IsOf
  <2>2. Stays(m)
    BY <2>1, Zenon DEF Stays, KeepsRows
  <2>3. QED
    BY <2>2, Zenon DEF ChannelInv, RowsTell, IsOf, KeepsRows
<1>3. AcknowledgedIsHeld'
  <2>1. \A k \in DOMAIN updates : updates[k].message \in Messages
    BY Typing
  <2>2. SUFFICES ASSUME NEW k \in DOMAIN updates, k < offset
                 PROVE  \/ row'[updates[k].message].update # 0
                        \/ post[updates[k].message].update # 0
    BY Zenon DEF AcknowledgedIsHeld, Stays
  <2>3. QED
    BY <2>1, <2>2, Zenon DEF ChannelInv, AcknowledgedIsHeld, Stays, KeepsRows
<1>4. SaversHold'
  <2>1. SUFFICES ASSUME NEW q \in Processes
                 PROVE  /\ process'[q].pc = "saving" => lease'["ingest"] = q
                        /\ process'[q].pc \in {"fetched", "saving"} /\ lease'["ingest"] = q
                             => process'[q].update = offset
    BY Zenon DEF SaversHold, At, Leases
  <2>2. CASE Unmoved(q)
    BY <2>2, Zenon DEF Unmoved, ChannelInv, SaversHold, At, Leases
  <2>3. CASE Calm(q)
    BY <2>3, Zenon DEF Calm
  <2>4. QED
    BY <2>2, <2>3
<1>5. SeenIsHeld'
  <2>1. SUFFICES ASSUME NEW q \in Processes, process'[q].pc = "saving", process'[q].seen
                 PROVE  \/ row'[updates[process'[q].update].message].update # 0
                        \/ post[updates[process'[q].update].message].update # 0
    BY Zenon DEF SeenIsHeld, At, Stays
  <2>2. process'[q] = process[q]
    BY <2>1, Zenon DEF Unmoved, Calm
  <2>3. process[q].update \in 1..Len(updates)
    BY <2>1, <2>2, Zenon DEF Shape, JobsAreWhole
  <2>4. updates[process[q].update].message \in Messages
    BY <2>3, Typing, Zenon
  <2>5. process[q].pc = "saving" /\ process[q].seen
    BY <2>1, <2>2, Zenon
  <2>6. \/ row[updates[process[q].update].message].update # 0
        \/ post[updates[process[q].update].message].update # 0
    BY <2>5, Zenon DEF ChannelInv, SeenIsHeld, At, Stays
  <2>7. process'[q].update = process[q].update
    BY <2>2, Zenon
  <2>8. QED
    BY <2>4, <2>6, <2>7, Zenon DEF KeepsRows
<1>6. PhotosAreKnown'
  <2>1. SUFFICES ASSUME NEW q \in Processes, process'[q].photo # 0
                 PROVE  /\ process'[q].pc = "saving" =>
                             /\ process'[q].photo < offset
                             /\ updates[process'[q].photo].message
                                  = updates[process'[q].update].message
                        /\ process'[q].pc \in JobPcs =>
                             /\ process'[q].photo < offset
                             /\ updates[process'[q].photo].message = process'[q].message
    BY Zenon DEF PhotosAreKnown, Photo, Message, InJob, At
  <2>2. CASE Unmoved(q)
    BY <2>1, <2>2, Zenon DEF Unmoved, ChannelInv, PhotosAreKnown, Photo, Message, InJob, At
  <2>3. CASE Calm(q)
    BY <2>1, <2>3, Zenon DEF Calm
  <2>4. QED
    BY <2>2, <2>3
<1>7. GoneIsPast'
  <2>1. SUFFICES ASSUME NEW q \in Processes,
                        process'[q].pc \in {"discarding", "retiring"}
                 PROVE  \E u \in process'[q].photo..(offset - 1) :
                           /\ updates[u].message = updates[process'[q].photo].message
                           /\ updates[u].photo # process'[q].photo
    BY Zenon DEF GoneIsPast, Past, Photo
  <2>2. process'[q] = process[q]
    BY <2>1, Zenon DEF Unmoved, Calm
  <2>3. process[q].pc \in {"discarding", "retiring"} /\ process'[q].photo = process[q].photo
    BY <2>1, <2>2, Zenon
  <2>4. \E u \in process[q].photo..(offset - 1) :
           /\ updates[u].message = updates[process[q].photo].message
           /\ updates[u].photo # process[q].photo
    BY <2>3, Zenon DEF ChannelInv, GoneIsPast, Past, Photo
  <2>5. QED
    BY <2>3, <2>4, Zenon
<1>8. GoneHasNoFile'
  <2>1. SUFFICES ASSUME NEW m \in Messages, row'[m].update = 0
                 PROVE  ~row'[m].media
    BY Zenon DEF GoneHasNoFile, Stays
  <2>2. ~Stays(m) /\ row'[m] = row[m]
    BY <2>1, Zenon DEF KeepsRows, Stays
  <2>3. QED
    BY <2>2, Zenon DEF ChannelInv, GoneHasNoFile
<1>9. QED
  BY <1>1, <1>2, <1>3, <1>4, <1>5, <1>6, <1>7, <1>8 DEF ChannelInv

\* What holds of process p when it moves holds of all.
LEMMA ChannelKept ==
  ASSUME Shape, ChannelInv, UNCHANGED <<updates, offset, post>>,
         KeepsRows,
         NEW p \in Processes, Only(p), Calm(p),
         \A q \in Processes \ {p} : lease'["ingest"] = q <=> lease["ingest"] = q
  PROVE  ChannelInv'
<1>1. \A q \in Processes \ {p} : Unmoved(q)
  BY Zenon DEF Unmoved, Only
<1>2. QED
  BY <1>1, ChannelUnmoved, Zenon

\* A job that goes on is calm.
LEMMA JobIsCalm ==
  ASSUME ChannelInv, NEW p \in Processes, InJob(p),
         NEW pc \in JobPcs, NEW stage, NEW request, GoesOn(p, pc, stage, request)
  PROVE  Calm(p)
<1>1. pc \notin {"fetched", "saving", "discarding", "retiring"}
  BY Zenon DEF JobPcs
<1>2. /\ process'[p].pc = pc /\ process'[p].photo = process[p].photo
      /\ process'[p].message = process[p].message
  BY Zenon DEF GoesOn
<1>3. process[p].photo # 0 => /\ process[p].photo < offset
                              /\ updates[process[p].photo].message = process[p].message
  BY Zenon DEF ChannelInv, PhotosAreKnown, Photo, Message
<1>4. QED
  BY <1>1, <1>2, <1>3, Zenon DEF Calm

LEMMA IdleIsCalm ==
  ASSUME NEW p \in Processes, Idles(p)
  PROVE  Calm(p)
<1>1. process'[p].pc \in {"idle", "polling", "polled", "media"}
  BY Zenon DEF Idles
<1>2. QED
  BY <1>1, Zenon DEF Calm, JobPcs

LEMMA IdlingKeepsChannel ==
  ASSUME Shape, ChannelInv, NEW p \in Processes, Idles(p),
         KeepsRows,
         UNCHANGED <<updates, offset, post>>
  PROVE  ChannelInv'
<1>1. Only(p) /\ \A q \in Processes \ {p} : lease'["ingest"] = q <=> lease["ingest"] = q
  BY Zenon DEF Idles
<1>2. QED
  BY <1>1, IdleIsCalm, ChannelKept, Zenon

LEMMA GoingKeepsChannel ==
  ASSUME Shape, ChannelInv, NEW p \in Processes, InJob(p),
         NEW pc \in JobPcs, NEW stage, NEW request, GoesOn(p, pc, stage, request),
         KeepsRows,
         UNCHANGED <<updates, offset, post, lease>>
  PROVE  ChannelInv'
<1>1. Only(p) /\ Calm(p)
  BY JobIsCalm, Zenon DEF GoesOn
<1>2. \A q \in Processes \ {p} : lease'["ingest"] = q <=> lease["ingest"] = q
  BY Zenon
<1>3. QED
  BY <1>1, <1>2, ChannelKept, Zenon

LEMMA RowKeepsUpdate ==
  ASSUME NEW m \in Messages, NEW stage, NEW request, NEW uncertain, NEW media,
         RowIs(m, stage, request, uncertain, media), Stays(m)
  PROVE  KeepsRows
  BY Zenon DEF RowIs, KeepsRows

\* All a job does, but for its publication, is about its row's other columns.
LEMMA JobMoves ==
  ASSUME Shape, NEW p \in Processes,
         \/ LookUp(p) \/ ResumeRemoval(p) \/ SubmitAccepted(p) \/ SubmitFails(p)
         \/ BeforeUpload(p) \/ Upload(p) \/ Fails(p)
         \/ BeginSubmission(p) \/ RecordRequest(p) \/ RecordRefusal(p) \/ OnUploaded(p)
         \/ StillInQueue(p) \/ RecordFailure(p)
  PROVE  /\ UNCHANGED <<updates, offset, post, lease>> /\ InJob(p)
         /\ KeepsRows
         /\ \/ Idles(p)
            \/ \E pc \in JobPcs : \E stage, request : GoesOn(p, pc, stage, request)
<1>1. {"looking", "removing", "submitting", "accepted", "refused", "waiting",
       "uploading", "uploaded", "ready", "failed"} = JobPcs
  BY DEF JobPcs
<1>2. ASSUME NEW pc \in JobPcs, NEW stage, NEW request, Proceeds(p, pc, stage, request)
      PROVE  /\ UNCHANGED <<updates, offset, post, lease>> /\ InJob(p) /\ KeepsRows
             /\ \E any \in JobPcs : \E s, r : GoesOn(p, any, s, r)
  BY <1>2, Zenon DEF Proceeds, KeepsRows
<1>3. ASSUME InJob(p), Owned(p), NEW stage, NEW request, NEW uncertain, NEW media,
             RowIs(Message(p), stage, request, uncertain, media)
      PROVE  KeepsRows
  BY <1>3, OwnedRow, RowKeepsUpdate, Zenon
<1>4. CASE LookUp(p)
  BY <1>1, <1>2, <1>4, LookUpEffect, Zenon
<1>5. CASE ResumeRemoval(p)
  BY <1>1, <1>2, <1>5, ResumeEffect, Zenon
<1>6. CASE SubmitAccepted(p)
  BY <1>1, <1>2, <1>6, SubmitAcceptedEffect, Zenon
<1>7. CASE SubmitFails(p)
  BY <1>1, <1>2, <1>7, SubmitFailsEffect, Zenon
<1>8. CASE BeforeUpload(p)
  BY <1>1, <1>2, <1>8, BeforeUploadEffect, Zenon
<1>9. CASE Upload(p)
  BY <1>1, <1>2, <1>9, UploadEffect, Zenon
<1>10. CASE Fails(p)
  BY <1>1, <1>2, <1>10, FailsEffect, Zenon
<1>11. CASE BeginSubmission(p)
  <2>1. At(p, "removing") /\ Owned(p) /\ UNCHANGED <<updates, offset, post, lease>>
    BY <1>11, BeginSubmissionEffect, Zenon
  <2>2. InJob(p)
    BY <2>1, Zenon DEF At, InJob, JobPcs
  <2>3. \E pc \in {"submitting", "failed"} :
           /\ GoesOn(p, pc, "submitting", process[p].request)
           /\ \/ RowIs(Message(p), "submitting", row[Message(p)].request,
                       row[Message(p)].uncertain, row[Message(p)].media)
              \/ UNCHANGED row
    BY <1>11, BeginSubmissionEffect, Zenon
  <2>4. KeepsRows
    BY <1>3, <2>1, <2>2, <2>3, Zenon DEF KeepsRows
  <2>5. QED
    BY <1>1, <2>1, <2>2, <2>3, <2>4, Zenon
<1>12. CASE RecordRequest(p)
  <2>1. At(p, "accepted") /\ UNCHANGED <<updates, offset, post, lease>>
    BY <1>12, RecordRequestEffect, Zenon
  <2>2. InJob(p)
    BY <2>1, Zenon DEF At, InJob, JobPcs
  <2>3. /\ \/ GoesOn(p, "waiting", "submitted", TRUE)
           \/ GoesOn(p, "failed", process[p].stage, process[p].request)
        /\ \/ /\ Owned(p)
              /\ RowIs(Message(p), "submitted", TRUE,
                       row[Message(p)].uncertain, row[Message(p)].media)
           \/ UNCHANGED row
    BY <1>12, RecordRequestEffect, Zenon
  <2>4. KeepsRows
    BY <1>3, <2>1, <2>2, <2>3, Zenon DEF KeepsRows
  <2>5. QED
    BY <1>1, <2>1, <2>2, <2>3, <2>4, Zenon
<1>13. CASE RecordRefusal(p)
  <2>1. /\ At(p, "refused") /\ Owned(p) /\ UNCHANGED <<updates, offset, post, lease>>
        /\ RowIs(Message(p), "pending", row[Message(p)].request,
                 row[Message(p)].uncertain, row[Message(p)].media)
        /\ GoesOn(p, "failed", "pending", process[p].request)
    BY <1>13, RecordRefusalEffect, Zenon
  <2>2. InJob(p)
    BY <2>1, Zenon DEF At, InJob, JobPcs
  <2>3. QED
    BY <1>1, <1>3, <2>1, <2>2, Zenon
<1>14. CASE OnUploaded(p)
  <2>1. /\ At(p, "uploaded") /\ Owned(p) /\ UNCHANGED <<updates, offset, post, lease>>
        /\ RowIs(Message(p), "uploaded", row[Message(p)].request, FALSE, TRUE)
        /\ GoesOn(p, "ready", "uploaded", process[p].request)
    BY <1>14, OnUploadedEffect, Zenon
  <2>2. InJob(p)
    BY <2>1, Zenon DEF At, InJob, JobPcs
  <2>3. QED
    BY <1>1, <1>3, <2>1, <2>2, Zenon
<1>15. CASE StillInQueue(p)
  <2>1. /\ At(p, "waiting") /\ Owned(p) /\ UNCHANGED <<updates, offset, post, lease>> /\ Idles(p)
        /\ RowIs(Message(p), row[Message(p)].stage, row[Message(p)].request,
                 FALSE, row[Message(p)].media)
    BY <1>15, StillInQueueEffect, Zenon
  <2>2. InJob(p)
    BY <2>1, Zenon DEF At, InJob, JobPcs
  <2>3. QED
    BY <1>3, <2>1, <2>2, Zenon
<1>16. CASE RecordFailure(p)
  <2>1. At(p, "failed") /\ Owned(p) /\ UNCHANGED <<updates, offset, post, lease>> /\ Idles(p)
    BY <1>16, RecordFailureEffect, Zenon
  <2>2. PICK stage \in Stages, uncertain \in BOOLEAN :
          RowIs(Message(p), stage, row[Message(p)].request, uncertain, row[Message(p)].media)
    BY <1>16, RecordFailureEffect, Zenon
  <2>3. InJob(p)
    BY <2>1, Zenon DEF At, InJob, JobPcs
  <2>4. QED
    BY <1>3, <2>1, <2>2, <2>3, Zenon
<1>17. QED
  BY <1>4, <1>5, <1>6, <1>7, <1>8, <1>9, <1>10, <1>11, <1>12, <1>13, <1>14, <1>15, <1>16

LEMMA PickJobKeepsChannel ==
  ASSUME Shape, ChannelInv, NEW p \in Processes, NEW m \in Messages, PickJob(p, m)
  PROVE  ChannelInv'
<1>1. /\ Stays(m) /\ Only(p) /\ process'[p].pc = "looking" /\ process'[p].message = m
      /\ process'[p].photo = row[m].photo
      /\ UNCHANGED <<updates, offset, row, post, lease>>
  BY PickJobEffect, Zenon
<1>2. row[m].photo # 0 => row[m].photo < offset /\ updates[row[m].photo].message = m
  <2>1. IsOf(row[m].update, m, row[m].photo) /\ row[m].update # 0
    BY <1>1, Zenon DEF ChannelInv, RowsTell, Stays
  <2>2. row[m].update \in 1..Len(updates)
    <3>1. row[m].update \in 0..MaxUpdates /\ row[m].update < offset
      BY <2>1, Typing, SMT DEF Row, IsOf
    <3>2. QED
      BY <2>1, <3>1, Typing, BoundAssumption
  <2>3. row[m].photo # 0 => /\ row[m].photo <= row[m].update
                            /\ updates[row[m].photo].message = m
    BY <2>1, <2>2, Zenon DEF ChannelInv, PhotosStay, IsOf
  <2>4. row[m].photo \in 0..MaxUpdates
    BY Typing, SMT DEF Row, Photos
  <2>5. QED
    BY <2>1, <2>2, <2>3, <2>4, Typing, BoundAssumption, SMT DEF IsOf
<1>3. Calm(p)
  <2>1. process'[p].pc \notin {"fetched", "saving", "discarding", "retiring"}
    BY <1>1, Zenon
  <2>2. QED
    BY <1>1, <1>2, <2>1, Zenon DEF Calm
<1>4. KeepsRows
  BY <1>1, Zenon DEF KeepsRows
<1>5. QED
  BY <1>1, <1>3, <1>4, ChannelKept, Zenon

LEMMA LeaseLapsesKeepsChannel ==
  ASSUME Shape, ChannelInv, NEW work \in {"ingest", "media"}, LeaseLapses(work)
  PROVE  ChannelInv'
<1>1. /\ lease'[work] = Nobody
      /\ \A any \in {"ingest", "media"} \ {work} : lease'[any] = lease[any]
      /\ ~(work = "ingest" /\ At(lease[work], "saving"))
      /\ UNCHANGED <<updates, offset, row, post, process>>
  BY LeaseLapsesEffect, Zenon
<1>2. \A q \in Processes : Unmoved(q)
  <2>1. SUFFICES ASSUME NEW q \in Processes PROVE Unmoved(q)
    OBVIOUS
  <2>2. q # Nobody
    BY ProcessAssumption
  <2>3. CASE work = "ingest"
    BY <1>1, <2>2, <2>3, Zenon DEF Unmoved
  <2>4. CASE work = "media"
    <3>1. lease'["ingest"] = lease["ingest"]
      BY <1>1, <2>4
    <3>2. QED
      BY <1>1, <3>1, Zenon DEF Unmoved
  <2>5. QED
    BY <2>3, <2>4
<1>3. KeepsRows
  BY <1>1, Zenon DEF KeepsRows
<1>4. QED
  BY <1>1, <1>2, <1>3, ChannelUnmoved, Zenon

LEMMA AskingKeepsChannel ==
  ASSUME Shape, ChannelInv, NEW m \in Messages, NEW stage, NEW request, NEW uncertain, NEW media,
         RowIs(m, stage, request, uncertain, media), Stays(m),
         UNCHANGED <<updates, offset, post, lease, process>>
  PROVE  ChannelInv'
<1>1. KeepsRows
  BY RowKeepsUpdate, Zenon
<1>2. \A q \in Processes : Unmoved(q)
  BY Zenon DEF Unmoved
<1>3. QED
  BY <1>1, <1>2, ChannelUnmoved, Zenon

\* The rows of the invariant that say nothing of processes.
TableInv == PhotosStay /\ RowsTell /\ PostsTell /\ AcknowledgedIsHeld /\ GoneHasNoFile

LEMMA TableUnmoved ==
  ASSUME TableInv, UNCHANGED <<updates, offset, row, post>>
  PROVE  TableInv'
  BY Zenon DEF TableInv, PhotosStay, RowsTell, PostsTell, AcknowledgedIsHeld,
     GoneHasNoFile, IsOf, Stays

\* Once another photo is acknowledged, a photo stays past.
LEMMA PastStays ==
  ASSUME Shape, NEW j \in Photos, j # 0, Past(j), NEW L \in Nat, L >= offset - 1,
         \A u \in 1..L : updates'[u] = updates[u],
         offset' \in Nat, offset' >= offset
  PROVE  \E u \in j..(offset' - 1) :
            updates'[u].message = updates'[j].message /\ updates'[u].photo # j
<1>1. PICK u \in j..(offset - 1) :
        updates[u].message = updates[j].message /\ updates[u].photo # j
  BY Zenon DEF Past
<1>2. j \in Nat /\ j >= 1 /\ offset \in Nat
  BY BoundAssumption, Typing, SMT DEF Photos
<1>3. u \in Int /\ j <= u /\ u <= offset - 1
  BY <1>1, <1>2
<1>5. u \in 1..L /\ j \in 1..L
  BY <1>2, <1>3
<1>6. u \in j..(offset' - 1)
  <2> DEFINE next == offset'
  <2>1. next \in Nat /\ next >= offset
    OBVIOUS
  <2> HIDE DEF next
  <2>2. u \in j..(next - 1)
    BY <1>2, <1>3, <2>1
  <2>3. QED
    BY <2>2 DEF next
<1>7. QED
  BY <1>1, <1>5, <1>6, Zenon

LEMMA GoneStaysPast ==
  ASSUME Shape, ChannelInv, NEW L \in Nat, L >= offset - 1,
         \A u \in 1..L : updates'[u] = updates[u],
         offset' \in Nat, offset' >= offset,
         \A q \in Processes : process'[q].pc \in {"discarding", "retiring"} =>
            \/ process'[q] = process[q]
            \/ \E u \in process'[q].photo..(offset' - 1) :
                  /\ updates'[u].message = updates'[process'[q].photo].message
                  /\ updates'[u].photo # process'[q].photo
  PROVE  GoneIsPast'
<1>1. SUFFICES ASSUME NEW q \in Processes,
                      process'[q].pc \in {"discarding", "retiring"},
                      process'[q] = process[q]
               PROVE  \E u \in process'[q].photo..(offset' - 1) :
                         /\ updates'[u].message = updates'[process'[q].photo].message
                         /\ updates'[u].photo # process'[q].photo
  BY Zenon DEF GoneIsPast, Past, Photo
<1>2. process[q].pc \in {"discarding", "retiring"} /\ process'[q].photo = process[q].photo
  BY <1>1, Zenon
<1>3. process[q].photo \in Photos
  BY Typing, SMT DEF Process
<1>4. Past(process[q].photo)
  BY <1>2, Zenon DEF ChannelInv, GoneIsPast, Photo
<1>5. process[q].photo # 0
  <2>1. process[q].pc \in PhotoPcs
    BY <1>2, Zenon DEF PhotoPcs
  <2>2. QED
    BY <2>1, Zenon DEF Shape, JobsAreWhole, Photo
<1>6. \E u \in process[q].photo..(offset' - 1) :
         /\ updates'[u].message = updates'[process[q].photo].message
         /\ updates'[u].photo # process[q].photo
  BY <1>3, <1>4, <1>5, PastStays, Zenon
<1>7. QED
  BY <1>2, <1>6, Zenon

LEMMA FetchKeepsChannel ==
  ASSUME Shape, ChannelInv, NEW p \in Processes, Fetch(p)
  PROVE  ChannelInv'
<1>1. /\ Only(p) /\ process'[p].pc = "fetched" /\ process'[p].update = offset
      /\ UNCHANGED <<updates, offset, row, post, lease>>
  BY FetchEffect, Zenon
<1>2. TableInv'
  BY <1>1, TableUnmoved, Zenon DEF ChannelInv, TableInv
<1>3. "fetched" \notin JobPcs
  BY Zenon DEF JobPcs
<1>4. \A q \in Processes : q = p \/ process'[q] = process[q]
  BY <1>1, Zenon DEF Only
<1>5. SaversHold'
  BY <1>1, <1>4, Zenon DEF ChannelInv, SaversHold, At, Leases
<1>6. SeenIsHeld'
  BY <1>1, <1>4, Zenon DEF ChannelInv, SeenIsHeld, At, Stays
<1>7. PhotosAreKnown'
  BY <1>1, <1>3, <1>4, Zenon DEF ChannelInv, PhotosAreKnown, At, Photo, Message, InJob
<1>8. GoneIsPast'
  BY <1>1, <1>4, Typing, GoneStaysPast
<1>9. QED
  BY <1>2, <1>5, <1>6, <1>7, <1>8 DEF ChannelInv, TableInv

\* The photo of a row is one of its message, acknowledged before the row's update.
LEMMA RowPhotoIsOld ==
  ASSUME Shape, ChannelInv, NEW m \in Messages, Stays(m), row[m].photo # 0
  PROVE  /\ row[m].photo <= row[m].update /\ row[m].photo < offset
         /\ updates[row[m].photo].message = m
         /\ row[m].photo \in 1..Len(updates) /\ row[m].update \in 1..Len(updates)
<1>1. IsOf(row[m].update, m, row[m].photo) /\ row[m].update # 0
  BY Zenon DEF ChannelInv, RowsTell, Stays
<1>2. row[m].update \in 0..MaxUpdates /\ row[m].photo \in 0..MaxUpdates
  BY Typing, SMT DEF Row, Photos
<1>3. row[m].update \in 1..Len(updates)
  BY <1>1, <1>2, Typing, BoundAssumption, SMT DEF IsOf
<1>4. row[m].photo <= row[m].update /\ updates[row[m].photo].message = m
  BY <1>1, <1>3, Zenon DEF ChannelInv, PhotosStay, IsOf
<1>5. QED
  BY <1>1, <1>2, <1>3, <1>4, Typing, BoundAssumption, SMT DEF IsOf

LEMMA SaveOpensKeepsChannel ==
  ASSUME Shape, ChannelInv, NEW p \in Processes, SaveOpens(p)
  PROVE  ChannelInv'
<1>1. /\ At(p, "fetched") /\ Leases("ingest", p) /\ Saved(p) \in Messages
      /\ Only(p) /\ process'[p].pc = "saving"
      /\ process'[p].update = process[p].update
      /\ process'[p].seen => Stays(Saved(p))
      /\ process'[p].photo # 0 => /\ row[Saved(p)].media
                                  /\ process'[p].photo = row[Saved(p)].photo
      /\ UNCHANGED <<updates, offset, row, post, lease>>
  BY SaveOpensEffect, Zenon
<1>2. TableInv'
  BY <1>1, TableUnmoved, Zenon DEF ChannelInv, TableInv
<1>3. "saving" \notin JobPcs
  BY Zenon DEF JobPcs
<1>4. \A q \in Processes : q = p \/ process'[q] = process[q]
  BY <1>1, Zenon DEF Only
<1>5. SaversHold'
  BY <1>1, <1>4, Zenon DEF ChannelInv, SaversHold, At, Leases
<1>6. SeenIsHeld'
  BY <1>1, <1>4, Zenon DEF ChannelInv, SeenIsHeld, At, Stays, Saved
<1>7. process'[p].photo # 0 => /\ process'[p].photo < offset
                               /\ updates[process'[p].photo].message = Saved(p)
  <2>1. SUFFICES ASSUME process'[p].photo # 0
                 PROVE  /\ process'[p].photo < offset
                        /\ updates[process'[p].photo].message = Saved(p)
    OBVIOUS
  <2>2. row[Saved(p)].media /\ process'[p].photo = row[Saved(p)].photo
    BY <1>1, <2>1, Zenon
  <2>3. Stays(Saved(p))
    BY <1>1, <2>2, Zenon DEF ChannelInv, GoneHasNoFile
  <2>4. QED
    BY <1>1, <2>1, <2>2, <2>3, RowPhotoIsOld
<1>8. PhotosAreKnown'
  <2>1. SUFFICES ASSUME NEW q \in Processes, process'[q].photo # 0
                 PROVE  /\ process'[q].pc = "saving" =>
                              /\ process'[q].photo < offset
                              /\ updates[process'[q].photo].message
                                   = updates[process'[q].update].message
                        /\ process'[q].pc \in JobPcs =>
                              /\ process'[q].photo < offset
                              /\ updates[process'[q].photo].message = process'[q].message
    BY <1>1, Zenon DEF PhotosAreKnown, At, Photo, Message, InJob
  <2>2. CASE q = p
    BY <1>1, <1>3, <1>7, <2>1, <2>2, Zenon DEF Saved
  <2>3. CASE process'[q] = process[q]
    BY <2>1, <2>3, Zenon DEF ChannelInv, PhotosAreKnown, At, Photo, Message, InJob
  <2>4. QED
    BY <1>4, <2>2, <2>3, Zenon
<1>9. GoneIsPast'
  BY <1>1, <1>4, Typing, GoneStaysPast
<1>10. QED
  BY <1>2, <1>5, <1>6, <1>8, <1>9 DEF ChannelInv, TableInv

LEMMA SaveCommitsKeepsChannel ==
  ASSUME Shape, ChannelInv, NEW p \in Processes, SaveCommits(p)
  PROVE  ChannelInv'
<1>21. PICK m \in Messages : m = Saved(p)
  BY SaveCommitsEffect, Zenon
<1>22. PICK k \in 1..Len(updates) : k = process[p].update
  BY SaveCommitsEffect, Zenon
<1>1. /\ At(p, "saving") /\ m \in Messages /\ k \in 1..Len(updates)
      /\ offset' = k + 1 /\ m = updates[k].message
      /\ row' \in [Messages -> Row]
      /\ \A n \in Messages \ {m} : row'[n] = row[n]
      /\ UNCHANGED <<updates, post, lease>>
  BY <1>21, <1>22, SaveCommitsEffect, Zenon DEF Saved
<1>2. \/ /\ UNCHANGED row
         /\ (process[p].seen /\ ~Stays(m)) \/ ~(row[m].update < k)
      \/ /\ row[m].update < k /\ row'[m].update = k /\ row'[m].photo = updates[k].photo
  BY <1>21, <1>22, SaveCommitsEffect, Zenon
<1>3. \/ /\ Rests(p, "discarding", Photo(p))
         /\ Photo(p) \notin {0, updates[k].photo}
      \/ Idles(p)
  BY <1>22, SaveCommitsEffect, Zenon
<1>4. k = offset /\ \A q \in Processes : At(q, "saving") => q = p
  BY <1>1, <1>22, Zenon DEF ChannelInv, SaversHold, At, Leases
<1>5. Only(p) /\ process'[p].pc \notin {"fetched", "saving", "retiring"} \cup JobPcs
  BY <1>3, Zenon DEF Rests, Idles, JobPcs
<1>6. /\ offset \in Nat /\ offset >= 1 /\ offset' = offset + 1
      /\ offset <= Len(updates) /\ Len(updates) \in Nat
  BY <1>1, <1>4, Typing
<1>7. /\ row'[m] \in Row /\ row[m] \in Row /\ row[m].update \in Nat /\ post[m].update \in Nat
      /\ row'[m].update \in Nat
  BY <1>1, Typing, BoundAssumption, SMT DEF Row, Post
<1>8. Stays(m)' => row'[m].update = offset /\ row'[m].photo = updates[offset].photo
  <2>1. Stays(m) => row[m].update < offset
    BY <1>1, Zenon DEF ChannelInv, RowsTell, IsOf
  <2>2. QED
    BY <1>2, <1>4, <1>6, <1>7, <2>1 DEF Stays
<1>9. \A n \in Messages : Stays(n) => Stays(n)'
  <2>1. k # 0
    BY <1>4, <1>6
  <2>2. QED
    BY <1>1, <1>2, <2>1, Zenon DEF Stays
<1>10. PhotosStay'
  BY <1>1, Zenon DEF ChannelInv, PhotosStay
<1>11. PostsTell'
  <2>1. SUFFICES ASSUME NEW n \in Messages
                 PROVE  IF post[n].update = 0 THEN post[n].photo = 0
                        ELSE /\ post[n].update < offset'
                             /\ updates[post[n].update].message = n
                             /\ updates[post[n].update].photo = post[n].photo
    BY <1>1, Zenon DEF PostsTell, IsOf
  <2>2. post[n].update \in Nat
    BY Typing, BoundAssumption, SMT DEF Post
  <2>3. IF post[n].update = 0 THEN post[n].photo = 0
        ELSE /\ post[n].update < offset
             /\ updates[post[n].update].message = n
             /\ updates[post[n].update].photo = post[n].photo
    BY Zenon DEF ChannelInv, PostsTell, IsOf
  <2>4. QED
    BY <1>6, <2>2, <2>3
<1>12. RowsTell'
  <2>1. SUFFICES ASSUME NEW n \in Messages, row'[n].update # 0
                 PROVE  /\ row'[n].update < offset'
                        /\ updates[row'[n].update].message = n
                        /\ updates[row'[n].update].photo = row'[n].photo
                        /\ row'[n].update > post[n].update
                        /\ \A u \in 1..(offset' - 1) :
                              updates[u].message = n => u <= row'[n].update
    BY <1>1, Zenon DEF RowsTell, IsOf, Stays
  <2>2. CASE n = m
    <3>1. row'[m].update = offset /\ row'[m].photo = updates[offset].photo
      BY <1>8, <2>1, <2>2, Zenon DEF Stays
    <3>2. post[m].update # 0 => post[m].update < offset
      BY <1>1, Zenon DEF ChannelInv, PostsTell, IsOf
    <3>3. updates[offset].message = m
      BY <1>1, <1>4, Zenon
    <3>4. QED
      BY <1>6, <1>7, <2>2, <3>1, <3>2, <3>3
  <2>3. CASE n # m
    <3>1. row'[n] = row[n] /\ Stays(n)
      BY <1>1, <2>1, <2>3, Zenon DEF Stays
    <3>2. /\ row[n].update < offset
          /\ updates[row[n].update].message = n
          /\ updates[row[n].update].photo = row[n].photo
          /\ row[n].update > post[n].update
          /\ \A u \in 1..(offset - 1) :
                updates[u].message = n => u <= row[n].update
      BY <3>1, Zenon DEF ChannelInv, RowsTell, IsOf
    <3>3. row[n].update \in Nat
      BY Typing, BoundAssumption, SMT DEF Row
    <3>4. updates[offset].message # n
      BY <1>1, <1>4, <2>3, Zenon
    <3>5. QED
      BY <1>6, <3>1, <3>2, <3>3, <3>4
  <2>4. QED
    BY <2>2, <2>3
<1>13. AcknowledgedIsHeld'
  <2>1. SUFFICES ASSUME NEW u \in DOMAIN updates, u < offset'
                 PROVE  Stays(updates[u].message)' \/ post[updates[u].message].update # 0
    BY <1>1, Zenon DEF AcknowledgedIsHeld, Stays
  <2>2. u \in 1..Len(updates) /\ updates[u].message \in Messages
    BY <2>1, Typing
  <2>3. CASE u < offset
    <3>1. Stays(updates[u].message) \/ post[updates[u].message].update # 0
      BY <2>1, <2>3, Zenon DEF ChannelInv, AcknowledgedIsHeld
    <3>2. QED
      BY <1>1, <1>9, <2>2, <3>1, Zenon DEF Stays
  <2>4. CASE u = offset
    <3>1. updates[u].message = m
      BY <1>1, <1>4, <2>4, Zenon
    <3>2. Stays(m) \/ k # row[m].update
      BY <1>4, <1>6 DEF Stays
    <3>3. process[p].seen => Stays(m) \/ post[m].update # 0
      BY <1>1, <1>22, Zenon DEF ChannelInv, SeenIsHeld
    <3>4. Stays(m)' \/ post[m].update # 0
      <4>1. CASE row'[m].update = k
        BY <1>4, <1>6, <4>1 DEF Stays
      <4>2. CASE process[p].seen /\ ~Stays(m)
        BY <3>3, <4>2
      <4>3. CASE ~(row[m].update < k) /\ UNCHANGED row
        BY <1>4, <1>6, <1>7, <4>3 DEF Stays
      <4>4. QED
        BY <1>2, <4>1, <4>2, <4>3, Zenon
    <3>5. QED
      BY <1>1, <3>1, <3>4, Zenon DEF Stays
  <2>5. QED
    BY <1>6, <2>1, <2>2, <2>3, <2>4
<1>14. GoneHasNoFile'
  <2>1. k # 0
    BY <1>4, <1>6
  <2>2. QED
    BY <1>1, <1>2, <2>1, Zenon DEF ChannelInv, GoneHasNoFile, Stays
<1>15. \A q \in Processes : process'[q].pc \in {"fetched", "saving"} \cup JobPcs =>
          q # p /\ process'[q] = process[q] /\ ~At(q, "saving")
  BY <1>4, <1>5, Zenon DEF Only, At
<1>16. SaversHold'
  <2>1. Leases("ingest", p)
    BY <1>1, Zenon DEF ChannelInv, SaversHold
  <2>2. SUFFICES ASSUME NEW q \in Processes, process'[q].pc \in {"fetched", "saving"}
                 PROVE  lease["ingest"] # q /\ process'[q].pc # "saving"
    BY <1>1, Zenon DEF SaversHold, At, Leases
  <2>3. q # p /\ process'[q] = process[q] /\ ~At(q, "saving")
    BY <1>15, <2>2, Zenon
  <2>4. QED
    BY <2>1, <2>3, Zenon DEF Leases, At
<1>17. SeenIsHeld'
  <2>1. \A q \in Processes : process'[q].pc # "saving"
    BY <1>15, Zenon DEF At
  <2>2. QED
    BY <2>1, Zenon DEF SeenIsHeld, At
<1>18. PhotosAreKnown'
  <2>1. SUFFICES ASSUME NEW q \in Processes, process'[q].photo # 0,
                        process'[q].pc \in {"saving"} \cup JobPcs
                 PROVE  /\ process'[q].pc # "saving"
                        /\ process'[q].photo < offset'
                        /\ updates[process'[q].photo].message = process'[q].message
    BY <1>1, Zenon DEF PhotosAreKnown, Photo, Message, InJob, At
  <2>2. q # p /\ process'[q] = process[q] /\ ~At(q, "saving")
    BY <1>15, <2>1, Zenon
  <2>3. /\ process'[q].photo = process[q].photo /\ process'[q].message = process[q].message
        /\ process[q].pc \in JobPcs /\ process[q].photo # 0 /\ process'[q].pc # "saving"
    BY <2>1, <2>2, Zenon DEF At
  <2>4. process[q].photo < offset /\ updates[process[q].photo].message = process[q].message
    BY <2>3, Zenon DEF ChannelInv, PhotosAreKnown, Photo, Message, InJob
  <2>5. process[q].photo \in Nat
    BY Typing, BoundAssumption, SMT DEF Process, Photos
  <2>6. process[q].photo < offset'
    BY <1>6, <2>4, <2>5
  <2>7. QED
    BY <2>3, <2>4, <2>6, Zenon
<1>19. GoneIsPast'
  <2>1. process'[p].pc \in {"discarding", "retiring"} =>
           \E u \in process'[p].photo..(offset' - 1) :
              /\ updates'[u].message = updates'[process'[p].photo].message
              /\ updates'[u].photo # process'[p].photo
    <3>1. SUFFICES ASSUME process'[p].pc \in {"discarding", "retiring"}
                   PROVE  \E u \in process'[p].photo..(offset' - 1) :
                             /\ updates[u].message = updates[process'[p].photo].message
                             /\ updates[u].photo # process'[p].photo
      BY <1>1, Zenon
    <3>2. process'[p].photo = Photo(p) /\ Photo(p) # 0 /\ updates[k].photo # Photo(p)
      BY <1>3, <3>1, Zenon DEF Rests, Idles
    <3>3. Photo(p) < offset /\ updates[Photo(p)].message = m
      BY <1>1, <1>22, <3>2, Zenon DEF ChannelInv, PhotosAreKnown
    <3>4. Photo(p) \in Nat
      BY Typing, BoundAssumption, SMT DEF Process, Photos, Photo
    <3>5. offset \in Photo(p)..(offset' - 1)
      BY <1>6, <3>3, <3>4
    <3>6. updates[offset].message = m /\ updates[offset].photo # Photo(p)
      BY <1>1, <1>4, <3>2, Zenon
    <3>7. QED
      BY <3>2, <3>3, <3>5, <3>6, Zenon
  <2>2. \A q \in Processes \ {p} : process'[q] = process[q]
    BY <1>5, Zenon DEF Only
  <2>3. offset' \in Nat /\ offset' >= offset /\ Len(updates) >= offset - 1
    BY <1>6
  <2>4. \A q \in Processes : process'[q].pc \in {"discarding", "retiring"} =>
            \/ process'[q] = process[q]
            \/ \E u \in process'[q].photo..(offset' - 1) :
                  /\ updates'[u].message = updates'[process'[q].photo].message
                  /\ updates'[u].photo # process'[q].photo
    BY <2>1, <2>2, Zenon
  <2>5. QED
    BY <1>1, <1>6, <2>3, <2>4, GoneStaysPast, Zenon
<1>20. QED
  BY <1>10, <1>11, <1>12, <1>13, <1>14, <1>16, <1>17, <1>18, <1>19 DEF ChannelInv

LEMMA PublishKeepsChannel ==
  ASSUME Shape, ChannelInv, NEW p \in Processes, Publish(p)
  PROVE  ChannelInv'
<1>0. At(p, "ready") /\ Owned(p) /\ InJob(p)
  BY PublishEffect, Zenon DEF At, InJob, JobPcs
<1>21. PICK m \in Messages : m = Message(p)
  BY <1>0, OwnedRow, Zenon
<1>1. /\ \A n \in Messages \ {m} : post'[n] = post[n] /\ row'[n] = row[n]
      /\ post'[m].update = row[m].update /\ post'[m].photo = row[m].photo
      /\ row'[m] = NoRow /\ Stays(m)
      /\ UNCHANGED <<updates, offset, lease>>
  BY <1>0, <1>21, PublishEffect, OwnedRow, Zenon
<1>2. \/ /\ Rests(p, "retiring", post[m].photo)
         /\ post[m].photo \notin {0, row[m].photo}
      \/ Idles(p)
  BY <1>21, PublishEffect, Zenon
<1>3. /\ Only(p) /\ process'[p].pc \notin {"fetched", "saving", "discarding"} \cup JobPcs
      /\ \A q \in Processes : process'[q].pc \in {"fetched", "saving"} \cup JobPcs =>
            q # p /\ process'[q] = process[q]
  BY <1>2, Zenon DEF Rests, Idles, JobPcs, Only
<1>4. /\ row[m].update < offset /\ updates[row[m].update].message = m
      /\ updates[row[m].update].photo = row[m].photo /\ row[m].update > post[m].update
      /\ row[m].update # 0
  BY <1>1, Zenon DEF ChannelInv, RowsTell, IsOf, Stays
<1>5. row'[m].update = 0 /\ ~row'[m].media
  BY <1>1, NoRowTyped, Zenon
<1>6. PhotosStay'
  BY <1>1, Zenon DEF ChannelInv, PhotosStay
<1>7. PostsTell'
  <2>1. SUFFICES ASSUME NEW n \in Messages
                 PROVE  IF post'[n].update = 0 THEN post'[n].photo = 0
                        ELSE /\ post'[n].update < offset
                             /\ updates[post'[n].update].message = n
                             /\ updates[post'[n].update].photo = post'[n].photo
    BY <1>1, Zenon DEF PostsTell, IsOf
  <2>2. CASE n = m
    BY <1>1, <1>4, <2>2, Zenon
  <2>3. CASE n # m
    <3>1. post'[n] = post[n]
      BY <1>1, <2>3, Zenon
    <3>2. QED
      BY <3>1, Zenon DEF ChannelInv, PostsTell, IsOf
  <2>4. QED
    BY <2>2, <2>3
<1>8. RowsTell'
  <2>1. SUFFICES ASSUME NEW n \in Messages, row'[n].update # 0
                 PROVE  /\ row'[n].update < offset
                        /\ updates[row'[n].update].message = n
                        /\ updates[row'[n].update].photo = row'[n].photo
                        /\ row'[n].update > post'[n].update
                        /\ \A u \in 1..(offset - 1) :
                              updates[u].message = n => u <= row'[n].update
    BY <1>1, Zenon DEF RowsTell, IsOf, Stays
  <2>2. row'[n] = row[n] /\ post'[n] = post[n]
    BY <1>1, <1>5, <2>1, Zenon
  <2>3. QED
    BY <2>1, <2>2, Zenon DEF ChannelInv, RowsTell, IsOf, Stays
\* A message that has a row or a post keeps one of them.
<1>9. \A n \in Messages : row[n].update # 0 \/ post[n].update # 0
                            => row'[n].update # 0 \/ post'[n].update # 0
  BY <1>1, <1>4, Zenon
<1>10. AcknowledgedIsHeld'
  <2>1. SUFFICES ASSUME NEW u \in DOMAIN updates, u < offset
                 PROVE  \/ row'[updates[u].message].update # 0
                        \/ post'[updates[u].message].update # 0
    BY <1>1, Zenon DEF AcknowledgedIsHeld, Stays
  <2>2. updates[u].message \in Messages
    BY <2>1, Typing
  <2>3. row[updates[u].message].update # 0 \/ post[updates[u].message].update # 0
    BY <2>1, Zenon DEF ChannelInv, AcknowledgedIsHeld, Stays
  <2>4. QED
    BY <1>9, <2>2, <2>3, Zenon
<1>11. SeenIsHeld'
  <2>1. SUFFICES ASSUME NEW q \in Processes, process'[q].pc = "saving", process'[q].seen
                 PROVE  \/ row'[updates[process'[q].update].message].update # 0
                        \/ post'[updates[process'[q].update].message].update # 0
    BY <1>1, Zenon DEF SeenIsHeld, At, Stays
  <2>2. process'[q] = process[q]
    BY <1>3, <2>1, Zenon
  <2>3. process[q].pc = "saving" /\ process[q].seen /\ process'[q].update = process[q].update
    BY <2>1, <2>2, Zenon
  <2>4. updates[process[q].update].message \in Messages
    BY <2>3, Typing, Zenon DEF Shape, JobsAreWhole
  <2>5. \/ row[updates[process[q].update].message].update # 0
        \/ post[updates[process[q].update].message].update # 0
    BY <2>3, Zenon DEF ChannelInv, SeenIsHeld, At, Stays
  <2>6. QED
    BY <1>9, <2>3, <2>4, <2>5, Zenon
<1>12. GoneHasNoFile'
  BY <1>1, <1>5, Zenon DEF ChannelInv, GoneHasNoFile, Stays
<1>13. SaversHold'
  BY <1>1, <1>3, Zenon DEF ChannelInv, SaversHold, At, Leases
<1>14. PhotosAreKnown'
  <2>1. SUFFICES ASSUME NEW q \in Processes, process'[q].photo # 0,
                        process'[q].pc \in {"saving"} \cup JobPcs
                 PROVE  /\ process'[q].pc = "saving" =>
                             /\ process'[q].photo < offset
                             /\ updates[process'[q].photo].message
                                  = updates[process'[q].update].message
                        /\ process'[q].pc \in JobPcs =>
                             /\ process'[q].photo < offset
                             /\ updates[process'[q].photo].message = process'[q].message
    BY <1>1, Zenon DEF PhotosAreKnown, Photo, Message, InJob, At
  <2>2. process'[q] = process[q]
    BY <1>3, <2>1, Zenon
  <2>3. QED
    BY <2>1, <2>2, Zenon DEF ChannelInv, PhotosAreKnown, Photo, Message, InJob, At
<1>15. GoneIsPast'
  <2>1. process'[p].pc \in {"discarding", "retiring"} =>
           \E u \in process'[p].photo..(offset' - 1) :
              /\ updates'[u].message = updates'[process'[p].photo].message
              /\ updates'[u].photo # process'[p].photo
    <3>1. SUFFICES ASSUME process'[p].pc \in {"discarding", "retiring"}
                   PROVE  \E u \in process'[p].photo..(offset - 1) :
                             /\ updates[u].message = updates[process'[p].photo].message
                             /\ updates[u].photo # process'[p].photo
      BY <1>1, Zenon
    <3>2. /\ process'[p].photo = post[m].photo
          /\ post[m].photo # 0 /\ post[m].photo # row[m].photo
      BY <1>2, <3>1, Zenon DEF Rests, Idles
    <3>3. IsOf(post[m].update, m, post[m].photo) /\ post[m].update # 0
      BY <3>2, Zenon DEF ChannelInv, PostsTell
    <3>4. /\ post[m].update \in 0..MaxUpdates /\ post[m].photo \in 0..MaxUpdates
          /\ row[m].update \in 0..MaxUpdates
      BY Typing, SMT DEF Post, Row, Photos
    <3>5. post[m].update \in 1..Len(updates)
      BY <3>3, <3>4, Typing, BoundAssumption, SMT DEF IsOf
    <3>6. post[m].photo <= post[m].update /\ updates[post[m].photo].message = m
      BY <3>2, <3>3, <3>5, Zenon DEF ChannelInv, PhotosStay, IsOf
    <3>7. row[m].update \in post[m].photo..(offset - 1)
      BY <1>4, <3>4, <3>6, Typing, BoundAssumption
    <3>8. QED
      BY <1>4, <3>2, <3>6, <3>7, Zenon
  <2>2. \A q \in Processes \ {p} : process'[q] = process[q]
    BY <1>3, Zenon DEF Only
  <2>3. offset' \in Nat /\ offset' >= offset /\ Len(updates) >= offset - 1 /\ Len(updates) \in Nat
    BY <1>1, Typing
  <2>4. \A q \in Processes : process'[q].pc \in {"discarding", "retiring"} =>
            \/ process'[q] = process[q]
            \/ \E u \in process'[q].photo..(offset' - 1) :
                  /\ updates'[u].message = updates'[process'[q].photo].message
                  /\ updates'[u].photo # process'[q].photo
    BY <2>1, <2>2, Zenon
  <2>5. QED
    BY <1>1, <2>3, <2>4, GoneStaysPast, Zenon
<1>16. QED
  BY <1>6, <1>7, <1>8, <1>10, <1>11, <1>12, <1>13, <1>14, <1>15 DEF ChannelInv

LEMMA ChannelPostKeepsChannel ==
  ASSUME Shape, ChannelInv, NEW m \in Messages, ChannelPost(m)
  PROVE  ChannelInv'
<1>11. PICK L \in Nat : L = Len(updates)
  BY Typing
<1>1. /\ Len(updates') = L + 1
      /\ \A u \in 1..L : updates'[u] = updates[u]
      /\ updates'[L + 1].message = m
      /\ DOMAIN updates' = 1..(L + 1)
      /\ UNCHANGED <<offset, row, post, lease, process>>
  BY <1>11, ChannelPostEffect
<1>2. \/ updates'[L + 1].photo \in {0, L + 1}
      \/ \E k \in 1..L : /\ updates[k].message = m
                         /\ updates'[L + 1].photo = updates[k].photo
                         /\ \A u \in 1..L : updates[u].message = m => u <= k
  BY <1>11, ChannelPostEffect, Zenon
<1>3. /\ offset \in Nat /\ offset >= 1 /\ offset - 1 <= L
      /\ \A u \in 1..L : updates[u].photo \in Nat
  BY <1>11, Typing
<1>4. \A u \in Nat : u # 0 /\ u < offset => u \in 1..L
  BY <1>3
<1>5. PhotosStay'
  <2>1. SUFFICES ASSUME NEW k \in 1..(L + 1), updates'[k].photo # 0
                 PROVE  /\ updates'[k].photo <= k
                        /\ updates'[updates'[k].photo].message = updates'[k].message
                        /\ \A u \in updates'[k].photo..k :
                              updates'[u].message = updates'[k].message =>
                                 updates'[u].photo = updates'[k].photo
    BY <1>1, Zenon DEF PhotosStay
  <2>2. CASE k \in 1..L
    <3>1. updates'[k] = updates[k] /\ updates[k].photo # 0 /\ updates[k].photo \in Nat
      BY <1>1, <1>3, <2>1, <2>2, Zenon
    <3>2. /\ updates[k].photo <= k
          /\ updates[updates[k].photo].message = updates[k].message
          /\ \A u \in updates[k].photo..k :
                updates[u].message = updates[k].message => updates[u].photo = updates[k].photo
      BY <1>11, <2>2, <3>1, Zenon DEF ChannelInv, PhotosStay
    <3>3. updates[k].photo \in 1..L /\ \A u \in updates[k].photo..k : u \in 1..L
      BY <2>2, <3>1, <3>2
    <3>4. updates'[updates[k].photo] = updates[updates[k].photo]
      BY <1>1, <3>3, Zenon
    <3>5. \A u \in updates[k].photo..k : updates'[u] = updates[u]
      BY <1>1, <3>3, Zenon
    <3>6. QED
      BY <3>1, <3>2, <3>4, <3>5, Zenon
  <2>3. CASE k = L + 1 /\ updates'[L + 1].photo = L + 1
    <3>1. \A u \in (L + 1)..(L + 1) : u = L + 1
      OBVIOUS
    <3>2. QED
      BY <2>3, <3>1
  <2>4. CASE k = L + 1 /\ updates'[L + 1].photo # L + 1
    <3>1. PICK n \in 1..L : /\ updates[n].message = m
                            /\ updates'[L + 1].photo = updates[n].photo
                            /\ \A u \in 1..L : updates[u].message = m => u <= n
      BY <1>2, <2>1, <2>4, Zenon
    <3>2. updates[n].photo # 0 /\ updates[n].photo \in Nat
      BY <1>3, <2>1, <2>4, <3>1, Zenon
    <3>3. /\ updates[n].photo <= n /\ updates[updates[n].photo].message = m
          /\ \A u \in updates[n].photo..n :
                updates[u].message = m => updates[u].photo = updates[n].photo
      BY <1>11, <3>1, <3>2, Zenon DEF ChannelInv, PhotosStay
    <3>4. PICK j \in Nat : j = updates[n].photo
      BY <3>2
    <3>5. j \in 1..L /\ j <= n
      BY <3>2, <3>3, <3>4
    <3>6. updates'[j].message = m
      BY <1>1, <3>3, <3>4, <3>5, Zenon
    <3>7. ASSUME NEW u \in j..(L + 1), updates'[u].message = m
          PROVE  updates'[u].photo = j
      <4>1. CASE u = L + 1
        BY <3>1, <3>4, <4>1, Zenon
      <4>2. CASE u # L + 1
        <5>1. u \in 1..L /\ u \in j..L
          BY <3>5, <4>2
        <5>2. updates[u].message = m /\ updates'[u].photo = updates[u].photo
          BY <1>1, <3>7, <5>1, Zenon
        <5>3. u <= n
          BY <3>1, <5>1, <5>2, Zenon
        <5>4. u \in j..n
          BY <5>1, <5>3
        <5>5. QED
          BY <3>3, <3>4, <5>2, <5>4, Zenon
      <4>3. QED
        BY <4>1, <4>2
    <3>8. j <= L + 1
      BY <3>5
    <3>9. QED
      BY <1>1, <2>4, <3>1, <3>4, <3>6, <3>7, <3>8, Zenon
  <2>5. QED
    BY <2>1, <2>2, <2>3, <2>4
<1>6. PostsTell'
  <2>1. \A n \in Messages : post[n].update \in Nat
    BY Typing, BoundAssumption, SMT DEF Post
  <2>2. \A n \in Messages : post[n].update # 0 /\ IsOf(post[n].update, n, post[n].photo)
                               => IsOf(post[n].update, n, post[n].photo)'
    BY <1>1, <1>4, <2>1, Zenon DEF IsOf
  <2>3. SUFFICES ASSUME NEW n \in Messages
                 PROVE  IF post[n].update = 0 THEN post[n].photo = 0
                        ELSE IsOf(post[n].update, n, post[n].photo)'
    BY <1>1, Zenon DEF PostsTell, IsOf
  <2>4. QED
    BY <2>2, Zenon DEF ChannelInv, PostsTell
<1>7. RowsTell'
  <2>1. SUFFICES ASSUME NEW n \in Messages, row[n].update # 0
                 PROVE  /\ row[n].update < offset
                        /\ updates'[row[n].update].message = n
                        /\ updates'[row[n].update].photo = row[n].photo
                        /\ row[n].update > post[n].update
                        /\ \A u \in 1..(offset - 1) :
                              updates'[u].message = n => u <= row[n].update
    BY <1>1, Zenon DEF RowsTell, IsOf, Stays
  <2>2. /\ row[n].update < offset
        /\ updates[row[n].update].message = n
        /\ updates[row[n].update].photo = row[n].photo
        /\ row[n].update > post[n].update
        /\ \A u \in 1..(offset - 1) : updates[u].message = n => u <= row[n].update
    BY <2>1, Zenon DEF ChannelInv, RowsTell, IsOf, Stays
  <2>3. row[n].update \in Nat
    BY Typing, BoundAssumption, SMT DEF Row
  <2>4. updates'[row[n].update] = updates[row[n].update]
    BY <1>1, <1>4, <2>1, <2>2, <2>3, Zenon
  <2>5. \A u \in 1..(offset - 1) : u \in 1..L
    BY <1>3
  <2>6. QED
    BY <1>1, <2>2, <2>4, <2>5, Zenon
<1>8. AcknowledgedIsHeld'
  <2>1. SUFFICES ASSUME NEW u \in 1..(L + 1), u < offset
                 PROVE  \/ row[updates'[u].message].update # 0
                        \/ post[updates'[u].message].update # 0
    BY <1>1, Zenon DEF AcknowledgedIsHeld, Stays
  <2>2. u \in 1..L
    BY <1>3, <2>1
  <2>3. u \in DOMAIN updates /\ updates'[u] = updates[u]
    BY <1>1, <1>11, <2>2, Typing
  <2>4. row[updates[u].message].update # 0 \/ post[updates[u].message].update # 0
    BY <2>1, <2>3, Zenon DEF ChannelInv, AcknowledgedIsHeld, Stays
  <2>5. QED
    BY <2>3, <2>4, Zenon
<1>9. SaversHold' /\ GoneHasNoFile'
  BY <1>1, Zenon DEF ChannelInv, SaversHold, GoneHasNoFile, At, Leases, Stays
<1>10. SeenIsHeld'
  <2>1. SUFFICES ASSUME NEW q \in Processes, process[q].pc = "saving", process[q].seen
                 PROVE  \/ row[updates'[process[q].update].message].update # 0
                        \/ post[updates'[process[q].update].message].update # 0
    BY <1>1, Zenon DEF SeenIsHeld, At, Stays
  <2>2. process[q].update \in 1..L
    BY <1>11, <2>1, Zenon DEF Shape, JobsAreWhole
  <2>3. updates'[process[q].update] = updates[process[q].update]
    BY <1>1, <2>2, Zenon
  <2>4. \/ row[updates[process[q].update].message].update # 0
        \/ post[updates[process[q].update].message].update # 0
    BY <2>1, Zenon DEF ChannelInv, SeenIsHeld, At, Stays
  <2>5. QED
    BY <2>3, <2>4, Zenon
<1>12. PhotosAreKnown'
  <2>1. SUFFICES ASSUME NEW q \in Processes, process[q].photo # 0
                 PROVE  /\ process[q].pc = "saving" =>
                             /\ process[q].photo < offset
                             /\ updates'[process[q].photo].message
                                  = updates'[process[q].update].message
                        /\ process[q].pc \in JobPcs =>
                             /\ process[q].photo < offset
                             /\ updates'[process[q].photo].message = process[q].message
    BY <1>1, Zenon DEF PhotosAreKnown, Photo, Message, InJob, At
  <2>2. process[q].photo \in Nat
    BY Typing, BoundAssumption, SMT DEF Process, Photos
  <2>3. process[q].photo < offset => updates'[process[q].photo] = updates[process[q].photo]
    BY <1>1, <1>4, <2>1, <2>2, Zenon
  <2>4. process[q].pc = "saving" => updates'[process[q].update] = updates[process[q].update]
    BY <1>1, <1>11, Zenon DEF Shape, JobsAreWhole
  <2>5. QED
    BY <2>1, <2>3, <2>4, Zenon DEF ChannelInv, PhotosAreKnown, Photo, Message, InJob, At
<1>13. GoneIsPast'
  <2>1. offset' \in Nat /\ offset' >= offset /\ L >= offset - 1
    BY <1>1, <1>3
  <2>2. \A q \in Processes : process'[q] = process[q]
    BY <1>1, Zenon
  <2>3. QED
    BY <1>1, <2>1, <2>2, GoneStaysPast, Zenon
<1>14. QED
  BY <1>5, <1>6, <1>7, <1>8, <1>9, <1>10, <1>12, <1>13 DEF ChannelInv

LEMMA ChannelInit ==
  ASSUME Init
  PROVE  ChannelInv
<1>1. /\ updates = <<>> /\ offset = 1
      /\ \A m \in Messages : row[m] = NoRow /\ post[m] = NoPost
      /\ \A p \in Processes : process[p].pc = "idle" /\ process[p].photo = 0
  BY IdleTyped, Zenon DEF Init
<1>2. \A k \in 1..Len(updates) : FALSE
  BY <1>1
<1>3. DOMAIN updates = {}
  BY <1>1
<1>4. NoPost.update = 0 /\ NoPost.photo = 0
  BY Zenon DEF NoPost
<1>5. PhotosStay /\ AcknowledgedIsHeld
  BY <1>2, <1>3, Zenon DEF PhotosStay, AcknowledgedIsHeld
<1>6. "idle" \notin JobPcs
  BY Zenon DEF JobPcs
<1>7. SaversHold /\ SeenIsHeld /\ PhotosAreKnown /\ GoneIsPast
  BY <1>1, <1>6, Zenon DEF SaversHold, SeenIsHeld, PhotosAreKnown, GoneIsPast, At, Photo, InJob
<1>8. RowsTell /\ PostsTell /\ GoneHasNoFile
  BY <1>1, <1>4, NoRowTyped, Zenon DEF RowsTell, PostsTell, GoneHasNoFile, Stays
<1>9. QED
  BY <1>5, <1>7, <1>8 DEF ChannelInv

LEMMA ChannelStep ==
  ASSUME Shape, ChannelInv, [Next]_vars
  PROVE  ChannelInv'
<1>1. CASE UNCHANGED vars
  <2>1. UNCHANGED <<updates, offset, row, post, lease, process>>
    BY <1>1, Zenon DEF vars
  <2>2. KeepsRows /\ \A q \in Processes : Unmoved(q)
    BY <2>1, Zenon DEF KeepsRows, Unmoved
  <2>3. QED
    BY <2>1, <2>2, ChannelUnmoved, Zenon
<1>2. ASSUME NEW m \in Messages, ChannelPost(m) PROVE ChannelInv'
  BY <1>2, ChannelPostKeepsChannel
<1>3. ASSUME NEW p \in Processes,
             \/ BeginPoll(p) \/ EndPoll(p) \/ BeginMedia(p)
             \/ EndMedia(p) \/ BreaksOff(p) \/ Crash(p)
      PROVE  ChannelInv'
  <2>1. Idles(p) /\ UNCHANGED <<updates, offset, row, post>>
    BY <1>3, IdlingEffect, Zenon
  <2>2. KeepsRows
    BY <2>1, Zenon DEF KeepsRows
  <2>3. QED
    BY <2>1, <2>2, IdlingKeepsChannel, Zenon
<1>4. ASSUME NEW p \in Processes, CleanDiscarded(p) \/ SkipLost(p) \/ RemoveRetired(p)
      PROVE  ChannelInv'
  <2>1. Idles(p) /\ UNCHANGED <<updates, offset, row, post>>
    BY <1>4, RemovingEffect, Zenon
  <2>2. KeepsRows
    BY <2>1, Zenon DEF KeepsRows
  <2>3. QED
    BY <2>1, <2>2, IdlingKeepsChannel, Zenon
<1>5. ASSUME NEW p \in Processes, Fetch(p) PROVE ChannelInv'
  BY <1>5, FetchKeepsChannel
<1>6. ASSUME NEW p \in Processes, SaveOpens(p) PROVE ChannelInv'
  BY <1>6, SaveOpensKeepsChannel
<1>7. ASSUME NEW p \in Processes, SaveCommits(p) PROVE ChannelInv'
  BY <1>7, SaveCommitsKeepsChannel
<1>8. ASSUME NEW p \in Processes, NEW m \in Messages, PickJob(p, m) PROVE ChannelInv'
  BY <1>8, PickJobKeepsChannel
<1>9. ASSUME NEW p \in Processes,
             \/ LookUp(p) \/ ResumeRemoval(p) \/ SubmitAccepted(p) \/ SubmitFails(p)
             \/ BeforeUpload(p) \/ Upload(p) \/ Fails(p)
             \/ BeginSubmission(p) \/ RecordRequest(p) \/ RecordRefusal(p) \/ OnUploaded(p)
             \/ StillInQueue(p) \/ RecordFailure(p)
      PROVE  ChannelInv'
  BY <1>9, JobMoves, GoingKeepsChannel, IdlingKeepsChannel, Zenon
<1>10. ASSUME NEW p \in Processes, Publish(p) PROVE ChannelInv'
  BY <1>10, PublishKeepsChannel
<1>11. ASSUME NEW work \in {"ingest", "media"}, LeaseLapses(work) PROVE ChannelInv'
  BY <1>11, LeaseLapsesKeepsChannel
<1>12. ASSUME NEW m \in Messages, BecomesDue(m) PROVE ChannelInv'
  BY <1>12, BecomesDueEffect, AskingKeepsChannel, Zenon
<1>13. ASSUME NEW m \in Messages, NEW new \in BOOLEAN, AdminRetry(m, new) PROVE ChannelInv'
  BY <1>13, AdminRetryEffect, AskingKeepsChannel, Zenon
<1>14. QED
  BY <1>1, <1>2, <1>3, <1>4, <1>5, <1>6, <1>7, <1>8, <1>9, <1>10, <1>11, <1>12, <1>13 DEF Next

(***************************************************************************)
(* FileInv.                                                                *)
(***************************************************************************)
\* A photo a row still has is not past.
LEMMA CurrentIsNotPast ==
  ASSUME Shape, ChannelInv, NEW m \in Messages, Stays(m), row[m].photo # 0
  PROVE  ~Past(row[m].photo)
<1>1. /\ row[m].photo <= row[m].update /\ updates[row[m].photo].message = m
      /\ row[m].photo \in 1..Len(updates) /\ row[m].update \in 1..Len(updates)
  BY RowPhotoIsOld
<1>2. /\ updates[row[m].update].message = m /\ updates[row[m].update].photo = row[m].photo
      /\ \A u \in 1..(offset - 1) : updates[u].message = m => u <= row[m].update
  BY Zenon DEF ChannelInv, RowsTell, IsOf
<1>3. \A u \in row[m].photo..row[m].update :
         updates[u].message = m => updates[u].photo = row[m].photo
  BY <1>1, <1>2, Zenon DEF ChannelInv, PhotosStay
<1>4. SUFFICES ASSUME NEW u \in row[m].photo..(offset - 1), updates[u].message = m,
                      updates[u].photo # row[m].photo
               PROVE  FALSE
  BY <1>1, Zenon DEF Past
<1>5. u \in 1..(offset - 1)
  BY <1>1, Typing
<1>6. u <= row[m].update
  BY <1>2, <1>4, <1>5, Zenon
<1>7. u \in row[m].photo..row[m].update
  BY <1>1, <1>6
<1>8. QED
  BY <1>3, <1>4, <1>7, Zenon

\* A job that may write its row now could before, if neither moved.
LEMMA OwnedBefore ==
  ASSUME Shape, KeepsRows, NEW q \in Processes, process'[q] = process[q],
         lease'["media"] = q => lease["media"] = q, OwnsPhoto(q)'
  PROVE  OwnsPhoto(q)
<1>1. /\ process'[q].pc \in JobPcs /\ lease'["media"] = q /\ process'[q].photo # 0
      /\ row'[process'[q].message].update # 0
      /\ row'[process'[q].message].photo = process'[q].photo
  BY Zenon DEF OwnsPhoto, InJob, Owned, Leases, Stays, Photo
<1>2. /\ process'[q].pc = process[q].pc /\ process'[q].message = process[q].message
      /\ process'[q].photo = process[q].photo
  BY Zenon
<1>3. process[q].message \in Messages
  BY <1>1, <1>2, Zenon DEF Shape, JobsAreWhole, InJob, Message
<1>4. /\ process[q].pc \in JobPcs /\ lease["media"] = q /\ process[q].photo # 0
      /\ row[process[q].message].update # 0
      /\ row[process[q].message].photo = process[q].photo
  BY <1>1, <1>2, <1>3, Zenon DEF KeepsRows
<1>5. QED
  BY <1>4, Zenon DEF OwnsPhoto, InJob, Owned, Leases, Stays, Photo

\* Files are added, and each process stays where it is or has its photo stored.
LEMMA FilesUnmoved ==
  ASSUME Shape, FileInv, files \subseteq files', UNCHANGED post, KeepsRows,
         \A m \in Messages : row'[m].media => row[m].media \/ row'[m].photo \in files',
         \A q \in Processes :
            \/ process'[q] = process[q] /\ (lease'["media"] = q => lease["media"] = q)
            \/ process'[q].pc \notin {"uploaded", "ready"}
            \/ process'[q].photo = 0
            \/ process'[q].photo \in files'
  PROVE  FileInv'
<1>1. PublishedPhotoIsStored'
  BY Zenon DEF FileInv, PublishedPhotoIsStored
<1>2. MediaIsStored'
  BY Zenon DEF FileInv, MediaIsStored, KeepsRows, Stays
<1>3. UploadIsStored'
  <2>1. SUFFICES ASSUME NEW q \in Processes, OwnsPhoto(q)',
                        process'[q].pc \in {"uploaded", "ready"},
                        process'[q] = process[q], lease'["media"] = q => lease["media"] = q
                 PROVE  process'[q].photo \in files'
    BY Zenon DEF UploadIsStored, OwnsPhoto, Photo
  <2>2. OwnsPhoto(q)
    BY <2>1, OwnedBefore, Zenon
  <2>3. process[q].pc \in {"uploaded", "ready"} /\ process'[q].photo = process[q].photo
    BY <2>1, Zenon
  <2>4. process[q].photo \in files
    BY <2>2, <2>3, Zenon DEF FileInv, UploadIsStored, Photo
  <2>5. QED
    BY <2>3, <2>4, Zenon
<1>4. QED
  BY <1>1, <1>2, <1>3 DEF FileInv

\* What holds of process p when it moves holds of all.
LEMMA FilesKept ==
  ASSUME Shape, FileInv, files \subseteq files', UNCHANGED post, KeepsRows,
         \A m \in Messages : row'[m].media => row[m].media \/ row'[m].photo \in files',
         NEW p \in Processes, Only(p),
         \A q \in Processes \ {p} : lease'["media"] = q => lease["media"] = q,
         \/ process'[p].pc \notin {"uploaded", "ready"}
         \/ process'[p].photo = 0
         \/ process'[p].photo \in files'
  PROVE  FileInv'
<1>1. \A q \in Processes :
            \/ process'[q] = process[q] /\ (lease'["media"] = q => lease["media"] = q)
            \/ process'[q].pc \notin {"uploaded", "ready"}
            \/ process'[q].photo = 0
            \/ process'[q].photo \in files'
  BY Zenon DEF Only
<1>2. QED
  BY <1>1, FilesUnmoved, Zenon

LEMMA IdlingKeepsFiles ==
  ASSUME Shape, FileInv, NEW p \in Processes, Idles(p), UNCHANGED <<post, files>>,
         KeepsRows, \A m \in Messages : row'[m].media => row[m].media
  PROVE  FileInv'
<1>1. /\ Only(p) /\ process'[p].pc \notin {"uploaded", "ready"}
      /\ \A q \in Processes \ {p} : lease'["media"] = q => lease["media"] = q
  BY Zenon DEF Idles
<1>2. files \subseteq files'
  OBVIOUS
<1>3. QED
  BY <1>1, <1>2, FilesKept, Zenon

\* The photo a process removes is of no post, of no row, and not one that another
\* process has just uploaded.
LEMMA RemovingKeepsFiles ==
  ASSUME Shape, ChannelInv, FileInv, NEW p \in Processes,
         CleanDiscarded(p) \/ SkipLost(p) \/ RemoveRetired(p)
  PROVE  FileInv'
<1>1. Idles(p) /\ UNCHANGED <<row, post, lease>>
  BY RemovingEffect, Zenon
<1>2. /\ Only(p) /\ process'[p].pc \notin {"uploaded", "ready"} /\ KeepsRows
      /\ \A q \in Processes \ {p} : process'[q] = process[q]
  BY <1>1, Zenon DEF Idles, KeepsRows, Only
<1>3. CASE files' = files
  <2>1. \A m \in Messages : row'[m].media => row[m].media
    BY <1>1, Zenon
  <2>2. QED
    BY <1>1, <1>2, <1>3, <2>1, IdlingKeepsFiles, Zenon
<1>4. CASE files' # files
  <2>1. files' = files \ {Photo(p)} /\ \A m \in Messages : post[m].photo # Photo(p)
    BY <1>4, Zenon DEF CleanDiscarded, SkipLost, RemoveRetired, Unused, Photo
  <2>2. \/ /\ Leases("media", p) /\ At(p, "uploaded")
           /\ \A m \in Messages : ~(Stays(m) /\ row[m].media /\ row[m].photo = Photo(p))
        \/ process[p].pc \in {"discarding", "retiring"}
    BY <1>4, Zenon DEF CleanDiscarded, SkipLost, RemoveRetired, Unused, Photo, At
  <2>3. Photo(p) # 0
    <3>1. process[p].pc \in PhotoPcs
      BY <2>2, Zenon DEF PhotoPcs, JobPcs, At
    <3>2. QED
      BY <3>1, Zenon DEF Shape, JobsAreWhole
  <2>4. process[p].pc \in {"discarding", "retiring"} =>
           \A m \in Messages : Stays(m) => row[m].photo # Photo(p)
    BY <2>3, CurrentIsNotPast, Zenon DEF ChannelInv, GoneIsPast
  <2>5. PublishedPhotoIsStored'
    BY <1>1, <2>1, Zenon DEF FileInv, PublishedPhotoIsStored
  <2>6. MediaIsStored'
    BY <1>1, <2>1, <2>2, <2>4, Zenon DEF FileInv, MediaIsStored, Stays
  <2>7. UploadIsStored'
    <3>1. SUFFICES ASSUME NEW q \in Processes, OwnsPhoto(q)',
                          process'[q].pc \in {"uploaded", "ready"}
                   PROVE  process'[q].photo \in files \ {Photo(p)}
      BY <2>1, Zenon DEF UploadIsStored, Photo
    <3>2. q # p /\ process'[q] = process[q]
      BY <1>2, <3>1, Zenon
    <3>3. OwnsPhoto(q)
      BY <1>1, <1>2, <3>1, <3>2, OwnedBefore, Zenon
    <3>4. /\ process[q].pc \in {"uploaded", "ready"} /\ process'[q].photo = process[q].photo
      BY <3>1, <3>2, Zenon
    <3>5. process[q].photo \in files
      BY <3>3, <3>4, Zenon DEF FileInv, UploadIsStored, Photo
    <3>6. ~Leases("media", p)
      BY <3>2, <3>3, Zenon DEF OwnsPhoto, Owned, Leases
    <3>7. /\ Message(q) \in Messages /\ Stays(Message(q))
          /\ row[Message(q)].photo = process[q].photo
      BY <3>3, OwnedRow, Zenon DEF OwnsPhoto, Photo
    <3>8. process[q].photo # Photo(p)
      BY <2>2, <2>4, <3>6, <3>7, Zenon
    <3>9. QED
      BY <3>4, <3>5, <3>8
  <2>8. QED
    BY <2>5, <2>6, <2>7 DEF FileInv
<1>5. QED
  BY <1>3, <1>4

\* A photo of a job that a save gives the row is the one it had.
LEMMA SavedJobIsOwned ==
  ASSUME Shape, ChannelInv, NEW p \in Processes, SaveCommits(p),
         NEW q \in Processes, OwnsPhoto(q)'
  PROVE  /\ process'[q] = process[q] /\ OwnsPhoto(q) /\ Message(q) \in Messages
         /\ row'[Message(q)].stage = row[Message(q)].stage
         /\ row'[Message(q)].request = row[Message(q)].request
         /\ row'[Message(q)].media = row[Message(q)].media
<1>1. PICK m \in Messages : m = Saved(p)
  BY SaveCommitsEffect, Zenon
<1>2. PICK k \in 1..Len(updates) : k = process[p].update
  BY SaveCommitsEffect, Zenon
<1>3. /\ At(p, "saving") /\ m = updates[k].message
      /\ \A n \in Messages \ {m} : row'[n] = row[n]
      /\ UNCHANGED <<updates, post, lease>>
  BY <1>1, <1>2, SaveCommitsEffect, Zenon DEF Saved
<1>4. \/ UNCHANGED row
      \/ /\ row'[m].photo = row[m].photo /\ row'[m].stage = row[m].stage
         /\ row'[m].request = row[m].request /\ row'[m].media = row[m].media
      \/ /\ ~Stays(m) \/ row[m].photo # updates[k].photo
         /\ row'[m].photo = updates[k].photo
  BY <1>1, <1>2, SaveCommitsEffect, Zenon
<1>5. k = offset
  BY <1>2, <1>3, Zenon DEF ChannelInv, SaversHold, At, Leases
<1>6. /\ process'[q].pc \in JobPcs /\ lease["media"] = q /\ process'[q].photo # 0
      /\ row'[process'[q].message].update # 0
      /\ row'[process'[q].message].photo = process'[q].photo
  BY <1>3, Zenon DEF OwnsPhoto, InJob, Owned, Leases, Stays, Photo
<1>7. process'[q] = process[q]
  <2>1. Only(p) /\ process'[p].pc \notin JobPcs
    BY SaveCommitsEffect, Zenon DEF Rests, Idles, JobPcs
  <2>2. QED
    BY <1>6, <2>1, Zenon DEF Only
<1>8. PICK n \in Messages : n = process[q].message
  BY <1>6, <1>7, Zenon DEF Shape, JobsAreWhole, InJob, Message
<1>9. PICK j \in Photos : j = process[q].photo
  BY Typing, SMT DEF Process
<1>10. process[q].pc \in JobPcs /\ j # 0 /\ row'[n].photo = j
  BY <1>6, <1>7, <1>8, <1>9, Zenon
<1>11. Stays(n)
  BY <1>6, <1>8, <1>10, Zenon DEF Shape, HeldRowIsLive, InJob, Leases, Message
<1>12. \/ row'[n] = row[n]
       \/ /\ row'[n].photo = row[n].photo /\ row'[n].stage = row[n].stage
          /\ row'[n].request = row[n].request /\ row'[n].media = row[n].media
  <2>1. CASE n = m /\ row[m].photo # updates[k].photo /\ row'[m].photo = updates[k].photo
    <3>1. updates[k].photo = j /\ updates[k].message = m
      BY <1>3, <1>10, <2>1, Zenon
    <3>2. j < offset /\ updates[j].message = m
      BY <1>8, <1>9, <1>10, <2>1, Zenon DEF ChannelInv, PhotosAreKnown, Photo, Message, InJob
    <3>3. /\ row[m].update < offset /\ updates[row[m].update].message = m
          /\ updates[row[m].update].photo = row[m].photo
          /\ \A u \in 1..(offset - 1) : updates[u].message = m => u <= row[m].update
      BY <1>11, <2>1, Zenon DEF ChannelInv, RowsTell, IsOf
    <3>4. row[m].update \in Nat /\ j \in Nat
      BY Typing, BoundAssumption, SMT DEF Row, Photos
    <3>5. j \in 1..(offset - 1)
      BY <1>10, <3>2, <3>4, Typing
    <3>6. j <= row[m].update
      BY <3>2, <3>3, <3>5, Zenon
    <3>7. row[m].update \in j..k
      BY <1>5, <3>3, <3>4, <3>6, Typing
    <3>8. updates[row[m].update].photo = j
      BY <1>10, <3>1, <3>3, <3>7, Zenon DEF ChannelInv, PhotosStay
    <3>9. QED
      BY <2>1, <3>1, <3>3, <3>8, Zenon
  <2>2. CASE n # m
    BY <1>3, <2>2, Zenon
  <2>3. QED
    BY <1>4, <1>11, <2>1, <2>2, Zenon
<1>13. row[n].photo = j
  BY <1>10, <1>12, Zenon
<1>14. OwnsPhoto(q)
  BY <1>6, <1>8, <1>9, <1>10, <1>11, <1>13, Zenon DEF OwnsPhoto, InJob, Owned, Leases, Photo
<1>15. QED
  BY <1>7, <1>8, <1>12, <1>14, Zenon DEF Message

LEMMA SaveCommitsKeepsFiles ==
  ASSUME Shape, ChannelInv, FileInv, NEW p \in Processes, SaveCommits(p)
  PROVE  FileInv'
<1>1. PICK m \in Messages : m = Saved(p)
  BY SaveCommitsEffect, Zenon
<1>2. /\ \A n \in Messages \ {m} : row'[n] = row[n]
      /\ UNCHANGED <<post, files, lease>>
  BY <1>1, SaveCommitsEffect, Zenon
<1>3. \/ UNCHANGED row
      \/ Stays(m) /\ row'[m].photo = row[m].photo /\ row'[m].media = row[m].media
      \/ ~row'[m].media
  BY <1>1, SaveCommitsEffect, Zenon
<1>4. PublishedPhotoIsStored'
  BY <1>2, Zenon DEF FileInv, PublishedPhotoIsStored
<1>5. MediaIsStored'
  BY <1>2, <1>3, Zenon DEF FileInv, MediaIsStored, Stays
<1>6. UploadIsStored'
  BY <1>2, SavedJobIsOwned, Zenon DEF FileInv, UploadIsStored, Photo
<1>7. QED
  BY <1>4, <1>5, <1>6 DEF FileInv

LEMMA PublishKeepsFiles ==
  ASSUME Shape, ChannelInv, FileInv, NEW p \in Processes, Publish(p)
  PROVE  FileInv'
<1>1. At(p, "ready") /\ Owned(p) /\ InJob(p)
  BY PublishEffect, Zenon DEF At, InJob, JobPcs
<1>2. PICK m \in Messages : m = Message(p)
  BY <1>1, OwnedRow, Zenon
<1>3. /\ \A n \in Messages \ {m} : post'[n] = post[n] /\ row'[n] = row[n]
      /\ post'[m].photo = row[m].photo
      /\ row'[m] = NoRow /\ row[m].photo = Photo(p) /\ Leases("media", p)
      /\ UNCHANGED <<files, lease>>
  BY <1>1, <1>2, PublishEffect, OwnedRow, Zenon
<1>4. Only(p) /\ process'[p].pc \notin JobPcs
  BY PublishEffect, Zenon DEF Rests, Idles, JobPcs
<1>5. row[m].photo # 0 => row[m].photo \in files
  BY <1>1, <1>3, Zenon DEF FileInv, UploadIsStored, OwnsPhoto, At
<1>6. PublishedPhotoIsStored'
  BY <1>3, <1>5, Zenon DEF FileInv, PublishedPhotoIsStored
<1>7. MediaIsStored'
  BY <1>3, NoRowTyped, Zenon DEF FileInv, MediaIsStored, Stays
<1>8. UploadIsStored'
  BY <1>3, <1>4, Zenon DEF UploadIsStored, OwnsPhoto, Owned, Leases, InJob
<1>9. QED
  BY <1>6, <1>7, <1>8 DEF FileInv

\* A job that proceeds to a step where its photo is not stored yet, or is.
LEMMA ProceedingKeepsFiles ==
  ASSUME Shape, FileInv, NEW p \in Processes,
         NEW pc, NEW stage, NEW request, Proceeds(p, pc, stage, request),
         files \subseteq files',
         \/ pc \notin {"uploaded", "ready"}
         \/ Photo(p) = 0
         \/ Photo(p) \in files'
  PROVE  FileInv'
<1>1. /\ Only(p) /\ process'[p].pc = pc /\ process'[p].photo = Photo(p)
      /\ UNCHANGED <<row, post, lease>>
  BY Zenon DEF Proceeds, GoesOn, Photo
<1>2. /\ KeepsRows /\ \A m \in Messages : row'[m].media => row[m].media
      /\ \A q \in Processes \ {p} : lease'["media"] = q => lease["media"] = q
  BY <1>1, Zenon DEF KeepsRows
<1>3. \/ process'[p].pc \notin {"uploaded", "ready"}
      \/ process'[p].photo = 0
      \/ process'[p].photo \in files'
  BY <1>1, Zenon
<1>4. QED
  BY <1>1, <1>2, <1>3, FilesKept, Zenon

LEMMA WritingKeepsFiles ==
  ASSUME Shape, FileInv, NEW p \in Processes, InJob(p), Owned(p),
         NEW pc, NEW stage, NEW request, GoesOn(p, pc, stage, request),
         pc \notin {"uploaded", "ready"} \/ Photo(p) \in files,
         NEW rstage, NEW rrequest, NEW uncertain, NEW media,
         media => row[Message(p)].media \/ Photo(p) \in files,
         RowIs(Message(p), rstage, rrequest, uncertain, media),
         UNCHANGED <<post, files, lease>>
  PROVE  FileInv'
<1>1. PICK m \in Messages : m = Message(p)
  BY OwnedRow, Zenon
<1>2. /\ Stays(m) /\ row[m].photo = Photo(p) /\ row'[m].photo = row[m].photo
      /\ row'[m].media = media /\ \A n \in Messages \ {m} : row'[n] = row[n]
  BY <1>1, OwnedRow, Zenon DEF RowIs
<1>3. Only(p) /\ process'[p].pc = pc /\ process'[p].photo = Photo(p)
  BY Zenon DEF GoesOn, Photo
<1>4. KeepsRows
  BY <1>1, <1>2, RowKeepsUpdate, Zenon
<1>5. \A n \in Messages : row'[n].media => row[n].media \/ row'[n].photo \in files'
  BY <1>1, <1>2, Zenon
<1>6. files \subseteq files' /\ \A q \in Processes \ {p} : lease'["media"] = q => lease["media"] = q
  OBVIOUS
<1>7. \/ process'[p].pc \notin {"uploaded", "ready"}
      \/ process'[p].photo = 0
      \/ process'[p].photo \in files'
  BY <1>3, Zenon
<1>8. QED
  BY <1>3, <1>4, <1>5, <1>6, <1>7, FilesKept, Zenon

LEMMA EndingKeepsFiles ==
  ASSUME Shape, FileInv, NEW p \in Processes, InJob(p), Owned(p), Idles(p),
         NEW stage, NEW request, NEW uncertain,
         RowIs(Message(p), stage, request, uncertain, row[Message(p)].media),
         UNCHANGED <<post, files>>
  PROVE  FileInv'
<1>1. PICK m \in Messages : m = Message(p)
  BY OwnedRow, Zenon
<1>2. Stays(m) /\ row'[m].media = row[m].media /\ \A n \in Messages \ {m} : row'[n] = row[n]
  BY <1>1, OwnedRow, Zenon DEF RowIs
<1>3. KeepsRows
  BY <1>1, <1>2, RowKeepsUpdate, Zenon
<1>4. \A n \in Messages : row'[n].media => row[n].media
  BY <1>2, Zenon
<1>5. QED
  BY <1>3, <1>4, IdlingKeepsFiles, Zenon

LEMMA AskingKeepsFiles ==
  ASSUME Shape, FileInv, NEW m \in Messages, Stays(m),
         NEW stage, NEW request, NEW uncertain,
         RowIs(m, stage, request, uncertain, row[m].media),
         UNCHANGED <<post, files, lease, process>>
  PROVE  FileInv'
<1>1. KeepsRows
  BY RowKeepsUpdate, Zenon
<1>2. \A n \in Messages : row'[n].media => row[n].media
  BY Zenon DEF RowIs
<1>3. files \subseteq files'
  OBVIOUS
<1>4. QED
  BY <1>1, <1>2, <1>3, FilesUnmoved, Zenon

LEMMA JobKeepsFiles ==
  ASSUME Shape, FileInv, NEW p \in Processes,
         \/ LookUp(p) \/ ResumeRemoval(p) \/ SubmitAccepted(p) \/ SubmitFails(p)
         \/ BeforeUpload(p) \/ Upload(p) \/ Fails(p)
         \/ BeginSubmission(p) \/ RecordRequest(p) \/ RecordRefusal(p) \/ OnUploaded(p)
         \/ StillInQueue(p) \/ RecordFailure(p)
  PROVE  FileInv'
<1>1. ASSUME NEW pc \in JobPcs \ {"uploaded", "ready"}, NEW stage, NEW request,
             Proceeds(p, pc, stage, request), UNCHANGED files
      PROVE  FileInv'
  <2>1. pc \notin {"uploaded", "ready"} /\ files \subseteq files'
    BY <1>1
  <2>2. QED
    BY <1>1, <2>1, ProceedingKeepsFiles, Zenon
<1>2. /\ "waiting" \in JobPcs \ {"uploaded", "ready"}
      /\ "failed" \in JobPcs \ {"uploaded", "ready"}
      /\ "accepted" \in JobPcs \ {"uploaded", "ready"}
      /\ "refused" \in JobPcs \ {"uploaded", "ready"}
      /\ "uploading" \in JobPcs \ {"uploaded", "ready"}
      /\ "removing" \in JobPcs \ {"uploaded", "ready"}
  BY Zenon DEF JobPcs
<1>3. CASE LookUp(p)
  <2>1. PICK pc \in {"ready", "removing"} :
          /\ Proceeds(p, pc, process[p].stage, process[p].request)
          /\ At(p, "looking") /\ UNCHANGED <<files, credit>>
          /\ pc = "ready" <=> \/ Photo(p) \in {0, post[Message(p)].photo}
                              \/ Photo(p) \in files
    BY <1>3, LookUpEffect, Zenon
  <2>2. CASE pc = "removing"
    BY <1>1, <1>2, <2>1, <2>2, Zenon
  <2>3. CASE pc = "ready"
    <3>1. Message(p) \in Messages
      BY <2>1, Zenon DEF Shape, JobsAreWhole, InJob, JobPcs, At
    <3>2. Photo(p) = 0 \/ Photo(p) \in files
      BY <2>1, <2>3, <3>1, Zenon DEF FileInv, PublishedPhotoIsStored
    <3>3. files \subseteq files' /\ (Photo(p) = 0 \/ Photo(p) \in files')
      BY <2>1, <3>2
    <3>4. QED
      BY <2>1, <3>3, ProceedingKeepsFiles, Zenon
  <2>4. QED
    BY <2>2, <2>3
<1>4. CASE ResumeRemoval(p)
  BY <1>1, <1>2, <1>4, ResumeEffect, Zenon
<1>5. CASE SubmitAccepted(p)
  BY <1>1, <1>2, <1>5, SubmitAcceptedEffect, Zenon
<1>6. CASE SubmitFails(p)
  BY <1>1, <1>2, <1>6, SubmitFailsEffect, Zenon
<1>7. CASE BeforeUpload(p)
  BY <1>1, <1>2, <1>7, BeforeUploadEffect, Zenon
<1>8. CASE Fails(p)
  BY <1>1, <1>2, <1>8, FailsEffect, Zenon
<1>9. CASE Upload(p)
  <2>1. /\ Proceeds(p, "uploaded", process[p].stage, process[p].request)
        /\ files' = files \cup {Photo(p)}
    BY <1>9, UploadEffect, Zenon
  <2>2. files \subseteq files' /\ Photo(p) \in files'
    BY <2>1
  <2>3. QED
    BY <2>1, <2>2, ProceedingKeepsFiles, Zenon
<1>10. ASSUME NEW pc \in JobPcs \ {"uploaded", "ready"}, NEW stage, NEW request,
              GoesOn(p, pc, stage, request), InJob(p),
              UNCHANGED <<post, files, lease>>,
              NEW rstage, NEW rrequest,
              \/ Owned(p) /\ RowIs(Message(p), rstage, rrequest,
                                   row[Message(p)].uncertain, row[Message(p)].media)
              \/ UNCHANGED row
       PROVE  FileInv'
  <2>1. pc \notin {"uploaded", "ready"}
    BY <1>10
  <2>2. CASE UNCHANGED row
    <3>1. Only(p) /\ process'[p].pc = pc
      BY <1>10, Zenon DEF GoesOn
    <3>2. /\ KeepsRows /\ \A m \in Messages : row'[m].media => row[m].media
          /\ \A q \in Processes \ {p} : lease'["media"] = q => lease["media"] = q
      BY <1>10, <2>2, Zenon DEF KeepsRows
    <3>3. files \subseteq files' /\ process'[p].pc \notin {"uploaded", "ready"}
      BY <1>10, <2>1, <3>1
    <3>4. QED
      BY <1>10, <3>1, <3>2, <3>3, FilesKept, Zenon
  <2>3. CASE Owned(p) /\ RowIs(Message(p), rstage, rrequest,
                               row[Message(p)].uncertain, row[Message(p)].media)
    BY <1>10, <2>1, <2>3, WritingKeepsFiles, Zenon
  <2>4. QED
    BY <1>10, <2>2, <2>3
<1>11. CASE BeginSubmission(p)
  <2>1. /\ At(p, "removing") /\ Owned(p) /\ UNCHANGED <<post, files, lease>>
        /\ \E pc \in {"submitting", "failed"} :
              /\ GoesOn(p, pc, "submitting", process[p].request)
              /\ \/ RowIs(Message(p), "submitting", row[Message(p)].request,
                           row[Message(p)].uncertain, row[Message(p)].media)
                 \/ UNCHANGED row
    BY <1>11, BeginSubmissionEffect, Zenon
  <2>2. InJob(p) /\ "submitting" \in JobPcs \ {"uploaded", "ready"}
    BY <2>1, Zenon DEF At, InJob, JobPcs
  <2>3. QED
    BY <1>2, <1>10, <2>1, <2>2, Zenon
<1>12. CASE RecordRequest(p)
  <2>1. /\ At(p, "accepted") /\ UNCHANGED <<post, files, lease>>
        /\ \E pc \in {"waiting", "failed"} : \E stage, request : GoesOn(p, pc, stage, request)
        /\ \/ Owned(p) /\ RowIs(Message(p), "submitted", TRUE,
                                row[Message(p)].uncertain, row[Message(p)].media)
           \/ UNCHANGED row
    BY <1>12, RecordRequestEffect, Zenon
  <2>2. InJob(p)
    BY <2>1, Zenon DEF At, InJob, JobPcs
  <2>3. QED
    BY <1>2, <1>10, <2>1, <2>2, Zenon
<1>13. CASE RecordRefusal(p)
  <2>1. /\ At(p, "refused") /\ Owned(p) /\ UNCHANGED <<post, files, lease>>
        /\ RowIs(Message(p), "pending", row[Message(p)].request,
                 row[Message(p)].uncertain, row[Message(p)].media)
        /\ GoesOn(p, "failed", "pending", process[p].request)
    BY <1>13, RecordRefusalEffect, Zenon
  <2>2. InJob(p)
    BY <2>1, Zenon DEF At, InJob, JobPcs
  <2>3. QED
    BY <1>2, <1>10, <2>1, <2>2, Zenon
<1>14. CASE OnUploaded(p)
  <2>1. /\ At(p, "uploaded") /\ Owned(p) /\ UNCHANGED <<post, files, lease>>
        /\ RowIs(Message(p), "uploaded", row[Message(p)].request, FALSE, TRUE)
        /\ GoesOn(p, "ready", "uploaded", process[p].request)
    BY <1>14, OnUploadedEffect, Zenon
  <2>2. InJob(p) /\ process[p].pc \in PhotoPcs
    BY <2>1, Zenon DEF At, InJob, JobPcs, PhotoPcs
  <2>3. Photo(p) # 0
    BY <2>2, Zenon DEF Shape, JobsAreWhole
  <2>4. Photo(p) \in files
    BY <2>1, <2>2, <2>3, Zenon DEF FileInv, UploadIsStored, OwnsPhoto, At
  <2>5. QED
    BY <2>1, <2>2, <2>4, WritingKeepsFiles, Zenon
<1>15. CASE StillInQueue(p)
  <2>1. /\ At(p, "waiting") /\ Owned(p) /\ Idles(p) /\ UNCHANGED <<post, files>>
        /\ RowIs(Message(p), row[Message(p)].stage, row[Message(p)].request,
                 FALSE, row[Message(p)].media)
    BY <1>15, StillInQueueEffect, Zenon
  <2>2. InJob(p)
    BY <2>1, Zenon DEF At, InJob, JobPcs
  <2>3. QED
    BY <2>1, <2>2, EndingKeepsFiles, Zenon
<1>16. CASE RecordFailure(p)
  <2>1. /\ At(p, "failed") /\ Owned(p) /\ Idles(p) /\ UNCHANGED <<post, files>>
        /\ \E stage \in Stages, uncertain \in BOOLEAN :
              RowIs(Message(p), stage, row[Message(p)].request, uncertain,
                    row[Message(p)].media)
    BY <1>16, RecordFailureEffect, Zenon
  <2>2. InJob(p)
    BY <2>1, Zenon DEF At, InJob, JobPcs
  <2>3. QED
    BY <2>1, <2>2, EndingKeepsFiles, Zenon
<1>17. QED
  BY <1>3, <1>4, <1>5, <1>6, <1>7, <1>8, <1>9, <1>11, <1>12, <1>13, <1>14, <1>15, <1>16

LEMMA FilesInit ==
  ASSUME Init
  PROVE  FileInv
<1>1. /\ \A m \in Messages : row[m] = NoRow /\ post[m] = NoPost
      /\ \A p \in Processes : process[p].pc = "idle"
  BY IdleTyped, Zenon DEF Init
<1>2. NoPost.photo = 0
  BY Zenon DEF NoPost
<1>3. QED
  BY <1>1, <1>2, NoRowTyped, Zenon DEF FileInv, PublishedPhotoIsStored, MediaIsStored,
     UploadIsStored, Stays

LEMMA FilesStep ==
  ASSUME Shape, ChannelInv, FileInv, [Next]_vars
  PROVE  FileInv'
<1>1. ASSUME UNCHANGED <<row, post, files, process>>,
             \A q \in Processes : lease'["media"] = q => lease["media"] = q
      PROVE  FileInv'
  <2>1. KeepsRows /\ \A m \in Messages : row'[m].media => row[m].media
    BY <1>1, Zenon DEF KeepsRows
  <2>2. files \subseteq files' /\ \A q \in Processes : process'[q] = process[q]
    BY <1>1
  <2>3. QED
    BY <1>1, <2>1, <2>2, FilesUnmoved, Zenon
<1>2. CASE UNCHANGED vars
  <2>1. /\ UNCHANGED <<row, post, files, process>>
        /\ \A q \in Processes : lease'["media"] = q => lease["media"] = q
    BY <1>2, Zenon DEF vars
  <2>2. QED
    BY <1>1, <2>1
<1>3. ASSUME NEW m \in Messages, ChannelPost(m) PROVE FileInv'
  <2>1. /\ UNCHANGED <<row, post, files, process>>
        /\ \A q \in Processes : lease'["media"] = q => lease["media"] = q
    BY <1>3, ChannelPostEffect, Zenon
  <2>2. QED
    BY <1>1, <2>1
<1>4. ASSUME NEW p \in Processes, Idles(p), UNCHANGED <<row, post, files>> PROVE FileInv'
  <2>1. KeepsRows /\ \A m \in Messages : row'[m].media => row[m].media
    BY <1>4, Zenon DEF KeepsRows
  <2>2. QED
    BY <1>4, <2>1, IdlingKeepsFiles, Zenon
<1>5. ASSUME NEW p \in Processes,
             \/ BeginPoll(p) \/ EndPoll(p) \/ BeginMedia(p)
             \/ EndMedia(p) \/ BreaksOff(p) \/ Crash(p)
      PROVE  FileInv'
  BY <1>4, <1>5, IdlingEffect, Zenon
<1>6. ASSUME NEW p \in Processes, CleanDiscarded(p) \/ SkipLost(p) \/ RemoveRetired(p)
      PROVE  FileInv'
  BY <1>6, RemovingKeepsFiles
<1>7. ASSUME NEW p \in Processes, Only(p), process'[p].pc \notin {"uploaded", "ready"},
             UNCHANGED <<row, post, files, lease>>
      PROVE  FileInv'
  <2>1. KeepsRows /\ \A m \in Messages : row'[m].media => row[m].media
    BY <1>7, Zenon DEF KeepsRows
  <2>2. files \subseteq files' /\ \A q \in Processes \ {p} : lease'["media"] = q => lease["media"] = q
    BY <1>7
  <2>3. QED
    BY <1>7, <2>1, <2>2, FilesKept, Zenon
<1>8. ASSUME NEW p \in Processes, Fetch(p) PROVE FileInv'
  <2>1. Only(p) /\ process'[p].pc = "fetched" /\ UNCHANGED <<row, post, files, lease>>
    BY <1>8, FetchEffect, Zenon
  <2>2. QED
    BY <1>7, <2>1, Zenon
<1>9. ASSUME NEW p \in Processes, SaveOpens(p) PROVE FileInv'
  <2>1. Only(p) /\ process'[p].pc = "saving" /\ UNCHANGED <<row, post, files, lease>>
    BY <1>9, SaveOpensEffect, Zenon
  <2>2. QED
    BY <1>7, <2>1, Zenon
<1>10. ASSUME NEW p \in Processes, SaveCommits(p) PROVE FileInv'
  BY <1>10, SaveCommitsKeepsFiles
<1>11. ASSUME NEW p \in Processes, NEW m \in Messages, PickJob(p, m) PROVE FileInv'
  <2>1. /\ Only(p) /\ process'[p].pc = "looking" /\ UNCHANGED <<row, post, files, lease>>
    BY <1>11, PickJobEffect, Zenon
  <2>2. QED
    BY <1>7, <2>1, Zenon
<1>12. ASSUME NEW p \in Processes,
             \/ LookUp(p) \/ ResumeRemoval(p) \/ SubmitAccepted(p) \/ SubmitFails(p)
             \/ BeforeUpload(p) \/ Upload(p) \/ Fails(p)
             \/ BeginSubmission(p) \/ RecordRequest(p) \/ RecordRefusal(p) \/ OnUploaded(p)
             \/ StillInQueue(p) \/ RecordFailure(p)
      PROVE  FileInv'
  BY <1>12, JobKeepsFiles
<1>13. ASSUME NEW p \in Processes, Publish(p) PROVE FileInv'
  BY <1>13, PublishKeepsFiles
<1>14. ASSUME NEW work \in {"ingest", "media"}, LeaseLapses(work) PROVE FileInv'
  <2>1. /\ lease'[work] = Nobody
        /\ \A any \in {"ingest", "media"} \ {work} : lease'[any] = lease[any]
        /\ UNCHANGED <<row, post, files, process>>
    BY <1>14, LeaseLapsesEffect, Zenon
  <2>2. \A q \in Processes : lease'["media"] = q => lease["media"] = q
    <3>1. lease'["media"] = Nobody \/ lease'["media"] = lease["media"]
      BY <2>1
    <3>2. QED
      BY <3>1, ProcessAssumption
  <2>3. QED
    BY <1>1, <2>1, <2>2
<1>15. ASSUME NEW m \in Messages, BecomesDue(m) PROVE FileInv'
  BY <1>15, BecomesDueEffect, AskingKeepsFiles, Zenon
<1>16. ASSUME NEW m \in Messages, NEW new \in BOOLEAN, AdminRetry(m, new) PROVE FileInv'
  BY <1>16, AdminRetryEffect, AskingKeepsFiles, Zenon
<1>17. QED
  BY <1>2, <1>3, <1>5, <1>6, <1>8, <1>9, <1>10, <1>11, <1>12, <1>13, <1>14, <1>15, <1>16 DEF Next

(***************************************************************************)
(* PayInv: the rows.                                                       *)
(***************************************************************************)
\* A job's row is as its step needs it.
LEMMA AgreedRow ==
  ASSUME Shape, PayInv, NEW p \in Processes, OwnsPhoto(p)
  PROVE  /\ process[p].pc \in {"looking", "removing"} =>
              /\ row[Message(p)].stage = process[p].stage
              /\ row[Message(p)].request = process[p].request
         /\ At(p, "removing") => ~row[Message(p)].media /\ post[Message(p)].photo # Photo(p)
         /\ process[p].pc \in {"submitting", "accepted", "refused"} =>
               row[Message(p)].stage = "submitting"
         /\ At(p, "waiting") => row[Message(p)].request
         /\ row[Message(p)].stage = "submitting" =>
               Unanswered(process[p].stage, process[p].request)
         /\ StageTells(row[Message(p)]) /\ ~row[Message(p)].uncertain
<1>1. Message(p) \in Messages /\ row[Message(p)].stage # "blocked"
  BY OwnedRow, Zenon DEF OwnsPhoto
<1>2. StageTells(row[Message(p)])
  BY <1>1, Zenon DEF PayInv, StagesTell
<1>3. ~row[Message(p)].uncertain
  BY <1>1, <1>2, Zenon DEF StageTells
<1>4. QED
  BY <1>2, <1>3, Zenon DEF PayInv, JobsAgree

\* Where a job may be about no photo it does not write.
LEMMA WriterOwnsPhoto ==
  ASSUME Shape, NEW p \in Processes, Owned(p),
         process[p].pc \in {"removing", "submitting", "accepted", "refused", "waiting",
                            "uploading", "uploaded"}
  PROVE  InJob(p) /\ OwnsPhoto(p)
<1>1. InJob(p) /\ process[p].pc \in PhotoPcs
  BY Zenon DEF InJob, JobPcs, PhotoPcs
<1>2. QED
  BY <1>1, Zenon DEF OwnsPhoto, Shape, JobsAreWhole

\* What the invariant asks of rows is what it asks of the one that is written.
LEMMA StagesKept ==
  ASSUME PayInv, NEW m \in Messages, \A n \in Messages \ {m} : row'[n] = row[n],
         \/ /\ row'[m].stage \in {"pending", "submitting"} => ~row'[m].request
            /\ row'[m].stage = "submitted" => row'[m].request
            /\ row'[m].stage = "uploaded" => row'[m].media
            /\ row'[m].uncertain => row'[m].stage = "blocked"
         \/ /\ row'[m].stage = row[m].stage /\ row'[m].request = row[m].request
            /\ row'[m].media = row[m].media
            /\ row'[m].uncertain => row[m].uncertain
  PROVE  StagesTell'
<1>1. SUFFICES ASSUME NEW n \in Messages
               PROVE  /\ row'[n].stage \in {"pending", "submitting"} => ~row'[n].request
                      /\ row'[n].stage = "submitted" => row'[n].request
                      /\ row'[n].stage = "uploaded" => row'[n].media
                      /\ row'[n].uncertain => row'[n].stage = "blocked"
  BY Zenon DEF StagesTell, StageTells
<1>2. /\ row[n].stage \in {"pending", "submitting"} => ~row[n].request
      /\ row[n].stage = "submitted" => row[n].request
      /\ row[n].stage = "uploaded" => row[n].media
      /\ row[n].uncertain => row[n].stage = "blocked"
  BY Zenon DEF PayInv, StagesTell, StageTells
<1>3. CASE n # m
  BY <1>2, <1>3, Zenon
<1>4. CASE n = m
  BY <1>2, <1>4, Zenon
<1>5. QED
  BY <1>3, <1>4

LEMMA StagesUnchanged ==
  ASSUME PayInv, UNCHANGED row
  PROVE  StagesTell'
  BY Zenon DEF PayInv, StagesTell

LEMMA WrittenStage ==
  ASSUME PayInv, NEW m \in Messages, NEW stage, NEW request, NEW uncertain, NEW media,
         RowIs(m, stage, request, uncertain, media),
         /\ stage \in {"pending", "submitting"} => ~request
         /\ stage = "submitted" => request
         /\ stage = "uploaded" => media
         /\ uncertain => stage = "blocked"
  PROVE  StagesTell'
<1>1. /\ \A n \in Messages \ {m} : row'[n] = row[n]
      /\ row'[m].stage = stage /\ row'[m].request = request
      /\ row'[m].uncertain = uncertain /\ row'[m].media = media
  BY Zenon DEF RowIs
<1>2. QED
  BY <1>1, StagesKept, Zenon

LEMMA JobKeepsStages ==
  ASSUME Shape, PayInv, NEW p \in Processes,
         \/ LookUp(p) \/ ResumeRemoval(p) \/ SubmitAccepted(p) \/ SubmitFails(p)
         \/ BeforeUpload(p) \/ Upload(p) \/ Fails(p)
         \/ BeginSubmission(p) \/ RecordRequest(p) \/ RecordRefusal(p) \/ OnUploaded(p)
         \/ StillInQueue(p) \/ RecordFailure(p)
  PROVE  StagesTell'
<1>1. CASE \/ LookUp(p) \/ ResumeRemoval(p) \/ SubmitAccepted(p) \/ SubmitFails(p)
           \/ BeforeUpload(p) \/ Upload(p) \/ Fails(p)
  <2>1. UNCHANGED row
    BY <1>1, LookUpEffect, ResumeEffect, SubmitAcceptedEffect, SubmitFailsEffect,
       BeforeUploadEffect, UploadEffect, FailsEffect, Zenon DEF Proceeds
  <2>2. QED
    BY <2>1, StagesUnchanged
<1>2. CASE BeginSubmission(p)
  <2>1. /\ At(p, "removing") /\ Owned(p) /\ ~process[p].request
        /\ \/ RowIs(Message(p), "submitting", row[Message(p)].request,
                    row[Message(p)].uncertain, row[Message(p)].media)
           \/ UNCHANGED row
    BY <1>2, BeginSubmissionEffect, Zenon
  <2>2. InJob(p) /\ OwnsPhoto(p)
    BY <2>1, WriterOwnsPhoto, Zenon DEF At
  <2>3. ~row[Message(p)].request /\ ~row[Message(p)].uncertain
    BY <2>1, <2>2, AgreedRow, Zenon DEF At
  <2>4. Message(p) \in Messages
    BY <2>1, <2>2, OwnedRow
  <2>5. PICK m \in Messages : m = Message(p)
    BY <2>4
  <2>6. \/ UNCHANGED row
        \/ /\ \A n \in Messages \ {m} : row'[n] = row[n]
           /\ row'[m].stage = "submitting" /\ ~row'[m].request /\ ~row'[m].uncertain
    BY <2>1, <2>3, <2>5, Zenon DEF RowIs
  <2>7. QED
    BY <2>6, StagesKept, StagesUnchanged, Zenon
<1>3. CASE RecordRequest(p)
  <2>1. /\ At(p, "accepted")
        /\ \/ /\ Owned(p)
              /\ RowIs(Message(p), "submitted", TRUE,
                       row[Message(p)].uncertain, row[Message(p)].media)
           \/ UNCHANGED row
    BY <1>3, RecordRequestEffect, Zenon
  <2>2. CASE UNCHANGED row
    BY <2>2, StagesUnchanged
  <2>3. CASE /\ Owned(p)
             /\ RowIs(Message(p), "submitted", TRUE,
                      row[Message(p)].uncertain, row[Message(p)].media)
    <3>1. InJob(p) /\ OwnsPhoto(p)
      BY <2>1, <2>3, WriterOwnsPhoto, Zenon DEF At
    <3>2. ~row[Message(p)].uncertain
      BY <3>1, AgreedRow, Zenon
    <3>3. Message(p) \in Messages
      BY <2>3, <3>1, OwnedRow
    <3>4. PICK m \in Messages : m = Message(p)
      BY <3>3
    <3>5. /\ \A n \in Messages \ {m} : row'[n] = row[n]
          /\ row'[m].stage = "submitted" /\ row'[m].request /\ ~row'[m].uncertain
      BY <2>3, <3>2, <3>4, Zenon DEF RowIs
    <3>6. QED
      BY <3>5, StagesKept, Zenon
  <2>4. QED
    BY <2>1, <2>2, <2>3, Zenon
<1>4. CASE RecordRefusal(p)
  <2>1. /\ At(p, "refused") /\ Owned(p)
        /\ RowIs(Message(p), "pending", row[Message(p)].request,
                 row[Message(p)].uncertain, row[Message(p)].media)
    BY <1>4, RecordRefusalEffect, Zenon
  <2>2. InJob(p) /\ OwnsPhoto(p)
    BY <2>1, WriterOwnsPhoto, Zenon DEF At
  <2>3. ~row[Message(p)].request /\ ~row[Message(p)].uncertain
    BY <2>1, <2>2, AgreedRow, Zenon DEF At, StageTells
  <2>4. Message(p) \in Messages
    BY <2>1, <2>2, OwnedRow
  <2>5. PICK m \in Messages : m = Message(p)
    BY <2>4
  <2>6. /\ \A n \in Messages \ {m} : row'[n] = row[n]
        /\ row'[m].stage = "pending" /\ ~row'[m].request /\ ~row'[m].uncertain
    BY <2>1, <2>3, <2>5, Zenon DEF RowIs
  <2>7. QED
    BY <2>6, StagesKept, Zenon
<1>5. CASE OnUploaded(p)
  <2>1. /\ At(p, "uploaded") /\ Owned(p)
        /\ RowIs(Message(p), "uploaded", row[Message(p)].request, FALSE, TRUE)
    BY <1>5, OnUploadedEffect, Zenon
  <2>2. Message(p) \in Messages
    BY <2>1, WriterOwnsPhoto, OwnedRow, Zenon DEF At
  <2>3. "uploaded" \notin {"pending", "submitting"} /\ "uploaded" # "submitted"
    BY Zenon
  <2>4. QED
    BY <2>1, <2>2, <2>3, WrittenStage, Zenon
<1>6. CASE StillInQueue(p)
  <2>1. /\ At(p, "waiting") /\ Owned(p)
        /\ RowIs(Message(p), row[Message(p)].stage, row[Message(p)].request,
                 FALSE, row[Message(p)].media)
    BY <1>6, StillInQueueEffect, Zenon
  <2>2. InJob(p) /\ OwnsPhoto(p)
    BY <2>1, WriterOwnsPhoto, Zenon DEF At
  <2>3. StageTells(row[Message(p)]) /\ Message(p) \in Messages
    BY <2>1, <2>2, AgreedRow, OwnedRow, Zenon
  <2>4. QED
    BY <2>1, <2>3, WrittenStage, Zenon DEF StageTells
<1>7. CASE RecordFailure(p)
  <2>1. /\ At(p, "failed") /\ Owned(p)
        /\ \E stage \in Stages, uncertain \in BOOLEAN :
               /\ RowIs(Message(p), stage, row[Message(p)].request, uncertain,
                        row[Message(p)].media)
               /\ stage \in {"blocked", row[Message(p)].stage}
               /\ uncertain => stage = "blocked"
    BY <1>7, RecordFailureEffect, Zenon
  <2>2. InJob(p)
    BY <2>1, Zenon DEF At, InJob, JobPcs
  <2>3. Message(p) \in Messages
    BY <2>1, <2>2, OwnedRow
  <2>4. StageTells(row[Message(p)])
    BY <2>3, Zenon DEF PayInv, StagesTell
  <2>5. QED
    BY <2>1, <2>3, <2>4, WrittenStage, Zenon DEF StageTells
<1>8. QED
  BY <1>1, <1>2, <1>3, <1>4, <1>5, <1>6, <1>7

LEMMA SaveCommitsKeepsStages ==
  ASSUME Shape, PayInv, NEW p \in Processes, SaveCommits(p)
  PROVE  StagesTell'
<1>1. PICK m \in Messages : m = Saved(p)
  BY SaveCommitsEffect, Zenon
<1>2. \A n \in Messages \ {m} : row'[n] = row[n]
  BY <1>1, SaveCommitsEffect, Zenon
<1>3. \/ UNCHANGED row
      \/ /\ row'[m].stage = row[m].stage /\ row'[m].request = row[m].request
         /\ row'[m].uncertain = row[m].uncertain /\ row'[m].media = row[m].media
      \/ row'[m].stage = "pending" /\ ~row'[m].request /\ ~row'[m].uncertain
  BY <1>1, SaveCommitsEffect, Zenon
<1>4. QED
  BY <1>2, <1>3, StagesKept, StagesUnchanged, Zenon

LEMMA PublishKeepsStages ==
  ASSUME Shape, PayInv, NEW p \in Processes, Publish(p)
  PROVE  StagesTell'
<1>1. At(p, "ready") /\ Owned(p) /\ InJob(p)
  BY PublishEffect, Zenon DEF At, InJob, JobPcs
<1>2. Message(p) \in Messages
  BY <1>1, OwnedRow
<1>3. PICK m \in Messages : m = Message(p)
  BY <1>2
<1>4. (\A n \in Messages \ {m} : row'[n] = row[n]) /\ row'[m] = NoRow
  BY <1>3, PublishEffect, Zenon
<1>5. row'[m].stage = "pending" /\ ~row'[m].request /\ ~row'[m].uncertain
  BY <1>4, NoRowTyped, Zenon
<1>6. QED
  BY <1>4, <1>5, StagesKept, Zenon

LEMMA AdminRetryKeepsStages ==
  ASSUME Shape, PayInv, NEW m \in Messages, NEW new \in BOOLEAN, AdminRetry(m, new)
  PROVE  StagesTell'
<1>1. PICK stage \in Stages, request \in BOOLEAN :
        /\ RowIs(m, stage, request, FALSE, row[m].media)
        /\ request <=> row[m].request /\ ~PaysAgain(m, new)
        /\ row[m].media => stage = "uploaded"
        /\ ~row[m].media => stage = IF ~new /\ row[m].request THEN "submitted"
                                    ELSE "pending"
  BY AdminRetryEffect, Zenon
<1>2. /\ stage \in {"pending", "submitting"} => ~request
      /\ stage = "submitted" => request
      /\ stage = "uploaded" => row[m].media
  <2>1. CASE row[m].media
    BY <1>1, <2>1, Zenon
  <2>2. CASE ~row[m].media /\ ~new /\ row[m].request
    BY <1>1, <2>2, Zenon DEF PaysAgain
  <2>3. CASE ~row[m].media /\ ~(~new /\ row[m].request)
    BY <1>1, <2>3, Zenon DEF PaysAgain
  <2>4. QED
    BY <2>1, <2>2, <2>3
<1>3. QED
  BY <1>1, <1>2, WrittenStage, Zenon

(***************************************************************************)
(* PayInv: the jobs.                                                       *)
(***************************************************************************)
\* What the invariant asks of process q after a step.
Agreed(q) ==
    /\ process'[q].pc \in {"looking", "removing"} =>
          /\ row'[process'[q].message].stage = process'[q].stage
          /\ row'[process'[q].message].request = process'[q].request
    /\ process'[q].pc = "removing" =>
          /\ ~row'[process'[q].message].media
          /\ post'[process'[q].message].photo # process'[q].photo
    /\ process'[q].pc \in {"submitting", "accepted", "refused"} =>
          row'[process'[q].message].stage = "submitting"
    /\ process'[q].pc = "waiting" => row'[process'[q].message].request
    /\ row'[process'[q].message].stage = "submitting" =>
          process'[q].stage = "submitting" /\ ~process'[q].request

LEMMA AllAgreed ==
  ASSUME \A q \in Processes : OwnsPhoto(q)' => Agreed(q)
  PROVE  JobsAgree'
<1>1. SUFFICES ASSUME NEW q \in Processes, OwnsPhoto(q)', Agreed(q)
      PROVE  /\ process'[q].pc \in {"looking", "removing"} =>
                  /\ row'[Message(q)'].stage = process'[q].stage
                  /\ row'[Message(q)'].request = process'[q].request
             /\ process'[q].pc = "removing" =>
                  /\ ~row'[Message(q)'].media
                  /\ post'[Message(q)'].photo # Photo(q)'
             /\ process'[q].pc \in {"submitting", "accepted", "refused"} =>
                  row'[Message(q)'].stage = "submitting"
             /\ process'[q].pc = "waiting" => row'[Message(q)'].request
             /\ row'[Message(q)'].stage = "submitting" =>
                  process'[q].stage = "submitting" /\ ~process'[q].request
  BY Zenon DEF JobsAgree, At, Unanswered
<1>2. QED
  BY <1>1, Zenon DEF Agreed, Message, Photo

\* A job stays right while it and what it reads of its row stay as they are.
LEMMA AgreedStill ==
  ASSUME Shape, PayInv, NEW q \in Processes, process'[q] = process[q], OwnsPhoto(q),
         post'[Message(q)] = post[Message(q)],
         row'[Message(q)].stage = row[Message(q)].stage,
         row'[Message(q)].request = row[Message(q)].request,
         row'[Message(q)].media = row[Message(q)].media
  PROVE  Agreed(q)
<1>1. PICK m \in Messages : m = Message(q)
  BY OwnedRow, Zenon DEF OwnsPhoto
<1>2. /\ process'[q].pc = process[q].pc /\ process'[q].message = m
      /\ process'[q].stage = process[q].stage /\ process'[q].request = process[q].request
      /\ process'[q].photo = process[q].photo
  BY <1>1, Zenon DEF Message
<1>3. /\ process[q].pc \in {"looking", "removing"} =>
              /\ row[m].stage = process[q].stage
              /\ row[m].request = process[q].request
      /\ process[q].pc = "removing" => ~row[m].media /\ post[m].photo # process[q].photo
      /\ process[q].pc \in {"submitting", "accepted", "refused"} =>
            row[m].stage = "submitting"
      /\ process[q].pc = "waiting" => row[m].request
      /\ row[m].stage = "submitting" =>
            process[q].stage = "submitting" /\ ~process[q].request
  BY <1>1, AgreedRow, Zenon DEF At, Unanswered, Photo
<1>4. /\ row'[m].stage = row[m].stage /\ row'[m].request = row[m].request
      /\ row'[m].media = row[m].media /\ post'[m] = post[m]
  BY <1>1, Zenon
<1>5. QED
  BY <1>2, <1>3, <1>4, Zenon DEF Agreed

\* Nobody's row changes but that of process p, if it has the lease, and p is right.
LEMMA JobsKept ==
  ASSUME Shape, PayInv, KeepsRows, UNCHANGED post, NEW p \in Processes, Only(p),
         \A q \in Processes \ {p} : lease'["media"] = q => lease["media"] = q,
         \/ lease'["media"] = p
         \/ \A m \in Messages : Stays(m) => /\ row'[m].stage = row[m].stage
                                            /\ row'[m].request = row[m].request
                                            /\ row'[m].media = row[m].media,
         OwnsPhoto(p)' => Agreed(p)
  PROVE  JobsAgree'
<1>1. SUFFICES ASSUME NEW q \in Processes, OwnsPhoto(q)'
               PROVE  Agreed(q)
  BY AllAgreed, Zenon
<1>2. CASE q = p
  BY <1>1, <1>2, Zenon
<1>3. CASE q # p
  <2>1. process'[q] = process[q] /\ (lease'["media"] = q => lease["media"] = q)
    BY <1>3, Zenon DEF Only
  <2>2. OwnsPhoto(q)
    BY <1>1, <2>1, OwnedBefore, Zenon
  <2>3. lease'["media"] = q
    BY <1>1, Zenon DEF OwnsPhoto, Owned, Leases
  <2>4. Message(q) \in Messages /\ Stays(Message(q))
    BY <2>2, OwnedRow, Zenon DEF OwnsPhoto
  <2>5. /\ row'[Message(q)].stage = row[Message(q)].stage
        /\ row'[Message(q)].request = row[Message(q)].request
        /\ row'[Message(q)].media = row[Message(q)].media
    BY <1>3, <2>3, <2>4, Zenon
  <2>6. post'[Message(q)] = post[Message(q)]
    BY Zenon
  <2>7. QED
    BY <2>1, <2>2, <2>5, <2>6, AgreedStill, Zenon
<1>4. QED
  BY <1>2, <1>3

LEMMA RestingKeepsJobs ==
  ASSUME Shape, PayInv, UNCHANGED <<row, post>>, NEW p \in Processes, Only(p),
         \A q \in Processes \ {p} : lease'["media"] = q => lease["media"] = q,
         process'[p].pc \notin JobPcs
  PROVE  JobsAgree'
<1>1. KeepsRows
  BY Zenon DEF KeepsRows
<1>2. ~OwnsPhoto(p)'
  BY Zenon DEF OwnsPhoto, InJob
<1>3. \A m \in Messages : Stays(m) => /\ row'[m].stage = row[m].stage
                                      /\ row'[m].request = row[m].request
                                      /\ row'[m].media = row[m].media
  BY Zenon
<1>4. QED
  BY <1>1, <1>2, <1>3, JobsKept, Zenon

LEMMA StandingKeepsJobs ==
  ASSUME Shape, PayInv, KeepsRows, UNCHANGED <<post, process>>,
         \A q \in Processes : lease'["media"] = q =>
            /\ lease["media"] = q
            /\ \A m \in Messages : Stays(m) => /\ row'[m].stage = row[m].stage
                                               /\ row'[m].request = row[m].request
                                               /\ row'[m].media = row[m].media
  PROVE  JobsAgree'
<1>1. SUFFICES ASSUME NEW q \in Processes, OwnsPhoto(q)'
               PROVE  Agreed(q)
  BY AllAgreed, Zenon
<1>2. process'[q] = process[q] /\ lease'["media"] = q /\ lease["media"] = q
  BY <1>1, Zenon DEF OwnsPhoto, Owned, Leases
<1>3. OwnsPhoto(q)
  BY <1>1, <1>2, OwnedBefore, Zenon
<1>4. Message(q) \in Messages /\ Stays(Message(q))
  BY <1>3, OwnedRow, Zenon DEF OwnsPhoto
<1>5. /\ row'[Message(q)].stage = row[Message(q)].stage
      /\ row'[Message(q)].request = row[Message(q)].request
      /\ row'[Message(q)].media = row[Message(q)].media
      /\ post'[Message(q)] = post[Message(q)]
  BY <1>2, <1>4, Zenon
<1>6. QED
  BY <1>2, <1>3, <1>5, AgreedStill, Zenon

\* A job that proceeds, and finds what its next step needs.
LEMMA ProceedingKeepsJobs ==
  ASSUME Shape, PayInv, NEW p \in Processes, NEW pc \in JobPcs \ {"looking", "submitting"},
         Proceeds(p, pc, process[p].stage, process[p].request),
         OwnsPhoto(p) /\ pc = "removing" =>
            /\ row[Message(p)].stage = process[p].stage
            /\ row[Message(p)].request = process[p].request
            /\ ~row[Message(p)].media /\ post[Message(p)].photo # Photo(p),
         OwnsPhoto(p) /\ pc \in {"accepted", "refused"} =>
            row[Message(p)].stage = "submitting",
         OwnsPhoto(p) /\ pc = "waiting" => row[Message(p)].request
  PROVE  JobsAgree'
<1>1. /\ Only(p) /\ UNCHANGED <<row, post, lease>> /\ InJob(p)
      /\ process'[p].pc = pc /\ process'[p].message = Message(p)
      /\ process'[p].photo = Photo(p) /\ process'[p].stage = process[p].stage
      /\ process'[p].request = process[p].request
  BY Zenon DEF Proceeds, GoesOn, Message, Photo
<1>2. ASSUME OwnsPhoto(p)'
      PROVE  Agreed(p)
  <2>1. /\ lease'["media"] = p /\ row'[process'[p].message].update # 0
        /\ row'[process'[p].message].photo = process'[p].photo /\ process'[p].photo # 0
    BY <1>2, Zenon DEF OwnsPhoto, Owned, Leases, Stays, Photo
  <2>2. /\ lease["media"] = p /\ row[Message(p)].update # 0
        /\ row[Message(p)].photo = Photo(p) /\ Photo(p) # 0
    BY <1>1, <2>1, Zenon
  <2>3. OwnsPhoto(p)
    BY <1>1, <2>2, Zenon DEF OwnsPhoto, Owned, Leases, Stays, Photo, Message
  <2>4. row[Message(p)].stage = "submitting" =>
           process[p].stage = "submitting" /\ ~process[p].request
    BY <2>3, AgreedRow, Zenon DEF Unanswered
  <2>5. pc # "looking" /\ pc # "submitting"
    OBVIOUS
  <2>6. QED
    BY <1>1, <2>3, <2>4, <2>5, Zenon DEF Agreed
<1>3. KeepsRows
  BY <1>1, Zenon DEF KeepsRows
<1>4. /\ \A q \in Processes \ {p} : lease'["media"] = q => lease["media"] = q
      /\ \A m \in Messages : Stays(m) => /\ row'[m].stage = row[m].stage
                                         /\ row'[m].request = row[m].request
                                         /\ row'[m].media = row[m].media
  BY <1>1, Zenon
<1>5. QED
  BY <1>1, <1>2, <1>3, <1>4, JobsKept, Zenon

\* A job that writes its row and goes on.
LEMMA WritingKeepsJobs ==
  ASSUME Shape, PayInv, NEW p \in Processes, InJob(p), Owned(p),
         NEW pc, NEW stage, NEW request, GoesOn(p, pc, stage, request),
         NEW rstage, NEW rrequest, NEW uncertain, NEW media,
         RowIs(Message(p), rstage, rrequest, uncertain, media),
         UNCHANGED <<post, lease>>, Agreed(p)
  PROVE  JobsAgree'
<1>1. PICK m \in Messages : m = Message(p)
  BY OwnedRow, Zenon
<1>2. Stays(m) /\ lease["media"] = p
  BY <1>1, OwnedRow, Zenon DEF Leases
<1>3. Only(p)
  BY Zenon DEF GoesOn
<1>4. KeepsRows
  BY <1>1, <1>2, RowKeepsUpdate, Zenon
<1>7. lease'["media"] = p /\ \A q \in Processes \ {p} : lease'["media"] = q => lease["media"] = q
  BY <1>2, Zenon
<1>8. QED
  BY <1>3, <1>4, <1>7, JobsKept, Zenon

LEMMA EndingKeepsJobs ==
  ASSUME Shape, PayInv, NEW p \in Processes, InJob(p), Owned(p), Idles(p),
         NEW stage, NEW request, NEW uncertain, NEW media,
         RowIs(Message(p), stage, request, uncertain, media),
         UNCHANGED <<post, lease>>
  PROVE  JobsAgree'
<1>1. PICK m \in Messages : m = Message(p)
  BY OwnedRow, Zenon
<1>2. Stays(m) /\ lease["media"] = p
  BY <1>1, OwnedRow, Zenon DEF Leases
<1>3. Only(p) /\ process'[p].pc \notin JobPcs
  BY Zenon DEF Idles, JobPcs
<1>4. KeepsRows
  BY <1>1, <1>2, RowKeepsUpdate, Zenon
<1>5. ~OwnsPhoto(p)'
  BY <1>3, Zenon DEF OwnsPhoto, InJob
<1>6. lease'["media"] = p /\ \A q \in Processes \ {p} : lease'["media"] = q => lease["media"] = q
  BY <1>2, Zenon
<1>7. QED
  BY <1>3, <1>4, <1>5, <1>6, JobsKept, Zenon

LEMMA PickJobKeepsJobs ==
  ASSUME Shape, PayInv, NEW p \in Processes, NEW m \in Messages, PickJob(p, m)
  PROVE  JobsAgree'
<1>1. /\ Only(p) /\ process'[p].pc = "looking" /\ process'[p].message = m
      /\ process'[p].stage = row[m].stage /\ process'[p].request = row[m].request
      /\ UNCHANGED <<row, post, lease>>
  BY PickJobEffect, Zenon
<1>2. row[m].stage = "submitting" => ~row[m].request
  BY Zenon DEF PayInv, StagesTell, StageTells
<1>3. Agreed(p)
  BY <1>1, <1>2, Zenon DEF Agreed
<1>4. KeepsRows
  BY <1>1, Zenon DEF KeepsRows
<1>5. /\ \A q \in Processes \ {p} : lease'["media"] = q => lease["media"] = q
      /\ \A n \in Messages : Stays(n) => /\ row'[n].stage = row[n].stage
                                         /\ row'[n].request = row[n].request
                                         /\ row'[n].media = row[n].media
  BY <1>1, Zenon
<1>6. QED
  BY <1>1, <1>3, <1>4, <1>5, JobsKept, Zenon

\* Nobody has the media lease after the rows of one who had it is published.
LEMMA PublishKeepsJobs ==
  ASSUME Shape, PayInv, NEW p \in Processes, Publish(p)
  PROVE  JobsAgree'
<1>1. At(p, "ready") /\ Owned(p) /\ UNCHANGED lease
  BY PublishEffect, Zenon
<1>2. Only(p) /\ process'[p].pc \notin JobPcs
  BY PublishEffect, Zenon DEF Rests, Idles, JobPcs
<1>3. \A q \in Processes : ~OwnsPhoto(q)'
  BY <1>1, <1>2, Zenon DEF OwnsPhoto, Owned, Leases, InJob
<1>4. QED
  BY <1>3, AllAgreed, Zenon

LEMMA SaveCommitsKeepsJobs ==
  ASSUME Shape, ChannelInv, PayInv, NEW p \in Processes, SaveCommits(p)
  PROVE  JobsAgree'
<1>1. UNCHANGED post
  BY SaveCommitsEffect, Zenon
<1>2. SUFFICES ASSUME NEW q \in Processes, OwnsPhoto(q)'
               PROVE  Agreed(q)
  BY AllAgreed, Zenon
<1>3. QED
  BY <1>1, <1>2, SavedJobIsOwned, AgreedStill, Zenon

LEMMA JobKeepsJobs ==
  ASSUME Shape, ChannelInv, FileInv, PayInv, NEW p \in Processes,
         \/ LookUp(p) \/ ResumeRemoval(p) \/ SubmitAccepted(p) \/ SubmitFails(p)
         \/ BeforeUpload(p) \/ Upload(p) \/ Fails(p)
         \/ BeginSubmission(p) \/ RecordRequest(p) \/ RecordRefusal(p) \/ OnUploaded(p)
         \/ StillInQueue(p) \/ RecordFailure(p)
  PROVE  JobsAgree'
<1>1. /\ "waiting" \in JobPcs \ {"looking", "submitting"}
      /\ "failed" \in JobPcs \ {"looking", "submitting"}
      /\ "accepted" \in JobPcs \ {"looking", "submitting"}
      /\ "refused" \in JobPcs \ {"looking", "submitting"}
      /\ "uploading" \in JobPcs \ {"looking", "submitting"}
      /\ "uploaded" \in JobPcs \ {"looking", "submitting"}
      /\ "removing" \in JobPcs \ {"looking", "submitting"}
      /\ "ready" \in JobPcs \ {"looking", "submitting"}
  BY Zenon DEF JobPcs
<1>2. ASSUME NEW pc \in {"failed", "uploading", "uploaded", "ready"},
             Proceeds(p, pc, process[p].stage, process[p].request)
      PROVE  JobsAgree'
  <2>1. /\ pc \in JobPcs \ {"looking", "submitting"}
        /\ pc # "removing" /\ pc # "waiting" /\ pc \notin {"accepted", "refused"}
    BY <1>1, <1>2, Zenon
  <2>2. QED
    BY <1>2, <2>1, ProceedingKeepsJobs, Zenon
<1>3. CASE LookUp(p)
  <2>1. PICK pc \in {"ready", "removing"} :
          /\ Proceeds(p, pc, process[p].stage, process[p].request)
          /\ At(p, "looking")
          /\ pc = "ready" <=> \/ Photo(p) \in {0, post[Message(p)].photo}
                              \/ Photo(p) \in files
    BY <1>3, LookUpEffect, Zenon
  <2>2. CASE pc = "ready"
    BY <1>2, <2>1, <2>2, Zenon
  <2>3. CASE pc = "removing"
    <3>1. post[Message(p)].photo # Photo(p) /\ Photo(p) \notin files
      BY <2>1, <2>3, Zenon
    <3>2. OwnsPhoto(p) => /\ Message(p) \in Messages /\ Stays(Message(p))
                          /\ row[Message(p)].photo = Photo(p)
      BY OwnedRow, Zenon DEF OwnsPhoto
    <3>3. OwnsPhoto(p) => ~row[Message(p)].media
      BY <3>1, <3>2, Zenon DEF FileInv, MediaIsStored
    <3>4. OwnsPhoto(p) => /\ row[Message(p)].stage = process[p].stage
                          /\ row[Message(p)].request = process[p].request
      BY <2>1, AgreedRow, Zenon DEF At
    <3>5. "removing" # "waiting" /\ "removing" \notin {"accepted", "refused"}
      OBVIOUS
    <3>6. QED
      BY <1>1, <2>1, <2>3, <3>1, <3>3, <3>4, <3>5, ProceedingKeepsJobs, Zenon
  <2>4. QED
    BY <2>2, <2>3
<1>4. CASE ResumeRemoval(p)
  <2>1. PICK pc \in {"waiting", "failed"} :
            /\ Proceeds(p, pc, process[p].stage, process[p].request)
            /\ At(p, "removing")
            /\ pc = "waiting" => process[p].request
    BY <1>4, ResumeEffect, Zenon
  <2>2. CASE pc = "failed"
    BY <1>2, <2>1, <2>2, Zenon
  <2>3. CASE pc = "waiting"
    <3>1. OwnsPhoto(p) => row[Message(p)].request
      BY <2>1, <2>3, AgreedRow, Zenon DEF At
    <3>2. "waiting" # "removing" /\ "waiting" \notin {"accepted", "refused"}
      OBVIOUS
    <3>3. QED
      BY <1>1, <2>1, <2>3, <3>1, <3>2, ProceedingKeepsJobs, Zenon
  <2>4. QED
    BY <2>2, <2>3
<1>5. ASSUME NEW pc \in {"accepted", "refused", "failed"},
             Proceeds(p, pc, process[p].stage, process[p].request), At(p, "submitting")
      PROVE  JobsAgree'
  <2>1. OwnsPhoto(p) => row[Message(p)].stage = "submitting"
    BY <1>5, AgreedRow, Zenon DEF At
  <2>2. pc \in JobPcs \ {"looking", "submitting"} /\ pc # "removing" /\ pc # "waiting"
    BY <1>1, <1>5, Zenon
  <2>3. QED
    BY <1>5, <2>1, <2>2, ProceedingKeepsJobs, Zenon
<1>6. CASE SubmitAccepted(p)
  BY <1>5, <1>6, SubmitAcceptedEffect, Zenon
<1>7. CASE SubmitFails(p)
  BY <1>5, <1>7, SubmitFailsEffect, Zenon
<1>8. CASE BeforeUpload(p) \/ Upload(p) \/ Fails(p)
  BY <1>2, <1>8, BeforeUploadEffect, UploadEffect, FailsEffect, Zenon
<1>9. CASE BeginSubmission(p)
  <2>1. /\ At(p, "removing") /\ Owned(p) /\ ~process[p].request
        /\ UNCHANGED <<post, lease>>
    BY <1>9, BeginSubmissionEffect, Zenon
  <2>2. PICK pc \in {"submitting", "failed"} :
               /\ GoesOn(p, pc, "submitting", process[p].request)
               /\ \/ RowIs(Message(p), "submitting", row[Message(p)].request,
                           row[Message(p)].uncertain, row[Message(p)].media)
                  \/ pc = "failed" /\ UNCHANGED row
    BY <1>9, BeginSubmissionEffect, Zenon
  <2>3. InJob(p)
    BY <2>1, WriterOwnsPhoto, Zenon DEF At
  <2>4. PICK m \in Messages : m = Message(p)
    BY <2>1, <2>3, OwnedRow
  <2>5. CASE RowIs(Message(p), "submitting", row[Message(p)].request,
                   row[Message(p)].uncertain, row[Message(p)].media)
    <3>1. /\ process'[p].pc \in {"submitting", "failed"} /\ process'[p].message = m
          /\ process'[p].stage = "submitting" /\ ~process'[p].request
          /\ row'[m].stage = "submitting"
      BY <2>1, <2>2, <2>4, <2>5, Zenon DEF GoesOn, RowIs, Message
    <3>2. Agreed(p)
      BY <3>1, Zenon DEF Agreed
    <3>3. QED
      BY <2>1, <2>2, <2>3, <2>5, <3>2, WritingKeepsJobs, Zenon
  <2>6. CASE pc = "failed" /\ UNCHANGED row
    <3>1. /\ Only(p) /\ process'[p].pc = "failed" /\ process'[p].stage = "submitting"
          /\ ~process'[p].request
      BY <2>1, <2>2, <2>6, Zenon DEF GoesOn
    <3>2. Agreed(p)
      BY <3>1, Zenon DEF Agreed
    <3>3. KeepsRows
      BY <2>6, Zenon DEF KeepsRows
    <3>4. /\ \A q \in Processes \ {p} : lease'["media"] = q => lease["media"] = q
          /\ \A n \in Messages : Stays(n) => /\ row'[n].stage = row[n].stage
                                             /\ row'[n].request = row[n].request
                                             /\ row'[n].media = row[n].media
      BY <2>1, <2>6, Zenon
    <3>5. QED
      BY <2>1, <3>1, <3>2, <3>3, <3>4, JobsKept, Zenon
  <2>7. QED
    BY <2>2, <2>5, <2>6
<1>10. CASE RecordRequest(p)
  <2>1. At(p, "accepted") /\ UNCHANGED <<post, lease>>
    BY <1>10, RecordRequestEffect, Zenon
  <2>2. \/ /\ Owned(p)
           /\ RowIs(Message(p), "submitted", TRUE,
                    row[Message(p)].uncertain, row[Message(p)].media)
           /\ \/ GoesOn(p, "waiting", "submitted", TRUE)
              \/ GoesOn(p, "failed", process[p].stage, process[p].request)
        \/ UNCHANGED row /\ GoesOn(p, "failed", process[p].stage, process[p].request)
    BY <1>10, RecordRequestEffect, Zenon
  <2>3. InJob(p)
    BY <2>1, Zenon DEF At, InJob, JobPcs
  <2>4. CASE /\ Owned(p)
             /\ RowIs(Message(p), "submitted", TRUE,
                      row[Message(p)].uncertain, row[Message(p)].media)
             /\ \/ GoesOn(p, "waiting", "submitted", TRUE)
                \/ GoesOn(p, "failed", process[p].stage, process[p].request)
    <3>1. PICK m \in Messages : m = Message(p)
      BY <2>3, <2>4, OwnedRow
    <3>2. /\ process'[p].pc \in {"waiting", "failed"} /\ process'[p].message = m
          /\ row'[m].stage = "submitted" /\ row'[m].request
      BY <2>4, <3>1, Zenon DEF GoesOn, RowIs, Message
    <3>3. Agreed(p)
      BY <3>2, Zenon DEF Agreed
    <3>4. QED
      BY <2>1, <2>3, <2>4, <3>3, WritingKeepsJobs, Zenon
  <2>5. CASE UNCHANGED row /\ GoesOn(p, "failed", process[p].stage, process[p].request)
    <3>1. Proceeds(p, "failed", process[p].stage, process[p].request)
      BY <1>10, <2>3, <2>5, RecordRequestEffect, Zenon DEF Proceeds
    <3>2. QED
      BY <1>2, <3>1, Zenon
  <2>6. QED
    BY <2>2, <2>4, <2>5
<1>11. CASE RecordRefusal(p)
  <2>1. /\ At(p, "refused") /\ Owned(p) /\ UNCHANGED <<post, lease>>
        /\ RowIs(Message(p), "pending", row[Message(p)].request,
                 row[Message(p)].uncertain, row[Message(p)].media)
        /\ GoesOn(p, "failed", "pending", process[p].request)
    BY <1>11, RecordRefusalEffect, Zenon
  <2>2. InJob(p)
    BY <2>1, Zenon DEF At, InJob, JobPcs
  <2>3. PICK m \in Messages : m = Message(p)
    BY <2>1, <2>2, OwnedRow
  <2>4. process'[p].pc = "failed" /\ process'[p].message = m /\ row'[m].stage = "pending"
    BY <2>1, <2>3, Zenon DEF GoesOn, RowIs, Message
  <2>5. Agreed(p)
    BY <2>4, Zenon DEF Agreed
  <2>6. QED
    BY <2>1, <2>2, <2>5, WritingKeepsJobs, Zenon
<1>12. CASE OnUploaded(p)
  <2>1. /\ At(p, "uploaded") /\ Owned(p) /\ UNCHANGED <<post, lease>>
        /\ RowIs(Message(p), "uploaded", row[Message(p)].request, FALSE, TRUE)
        /\ GoesOn(p, "ready", "uploaded", process[p].request)
    BY <1>12, OnUploadedEffect, Zenon
  <2>2. InJob(p)
    BY <2>1, Zenon DEF At, InJob, JobPcs
  <2>3. PICK m \in Messages : m = Message(p)
    BY <2>1, <2>2, OwnedRow
  <2>4. process'[p].pc = "ready" /\ process'[p].message = m /\ row'[m].stage = "uploaded"
    BY <2>1, <2>3, Zenon DEF GoesOn, RowIs, Message
  <2>5. Agreed(p)
    BY <2>4, Zenon DEF Agreed
  <2>6. QED
    BY <2>1, <2>2, <2>5, WritingKeepsJobs, Zenon
<1>13. CASE StillInQueue(p)
  <2>1. /\ At(p, "waiting") /\ Owned(p) /\ Idles(p) /\ UNCHANGED <<post, lease>>
        /\ RowIs(Message(p), row[Message(p)].stage, row[Message(p)].request,
                 FALSE, row[Message(p)].media)
    BY <1>13, StillInQueueEffect, Zenon
  <2>2. InJob(p)
    BY <2>1, Zenon DEF At, InJob, JobPcs
  <2>3. QED
    BY <2>1, <2>2, EndingKeepsJobs, Zenon
<1>14. CASE RecordFailure(p)
  <2>1. /\ At(p, "failed") /\ Owned(p) /\ Idles(p) /\ UNCHANGED <<post, lease>>
        /\ \E stage \in Stages, uncertain \in BOOLEAN :
              RowIs(Message(p), stage, row[Message(p)].request, uncertain,
                    row[Message(p)].media)
    BY <1>14, RecordFailureEffect, Zenon
  <2>2. InJob(p)
    BY <2>1, Zenon DEF At, InJob, JobPcs
  <2>3. QED
    BY <2>1, <2>2, EndingKeepsJobs, Zenon
<1>15. QED
  BY <1>3, <1>4, <1>6, <1>7, <1>8, <1>9, <1>10, <1>11, <1>12, <1>13, <1>14

(***************************************************************************)
(* PayInv: the credit.                                                     *)
(***************************************************************************)
LEMMA SubmittersFinite ==
  ASSUME NEW j
  PROVE  IsFiniteSet(Submitters(j)) /\ Cardinality(Submitters(j)) \in Nat
<1>1. Submitters(j) \subseteq Processes
  BY DEF Submitters
<1>2. QED
  BY <1>1, ProcessAssumption, FS_Subset, FS_CardinalityType

LEMMA SubmittersFiniteNext ==
  ASSUME NEW j
  PROVE  IsFiniteSet(Submitters(j)') /\ Cardinality(Submitters(j)') \in Nat
<1>1. Submitters(j)' \subseteq Processes
  BY DEF Submitters
<1>2. QED
  BY <1>1, ProcessAssumption, FS_Subset, FS_CardinalityType

\* Photo j is paid for after the step: nobody starts to submit it, and it may be
\* submitted only if it could be before.
LEMMA CreditStill ==
  ASSUME Shape, Shape', PayInv, NEW j \in Updates,
         Submitters(j)' \subseteq Submitters(j), MayPay(j)' => MayPay(j),
         credit'[j] >= credit[j]
  PROVE  credit'[j] >= Cardinality(Submitters(j)') + (IF MayPay(j)' THEN 1 ELSE 0)
<1>1. Cardinality(Submitters(j)') <= Cardinality(Submitters(j))
  BY SubmittersFinite, FS_Subset
<1>2. credit[j] >= Cardinality(Submitters(j)) + (IF MayPay(j) THEN 1 ELSE 0)
  BY Zenon DEF PayInv, CreditIsKept
<1>3. credit[j] \in Int /\ credit'[j] \in Int
  BY DEF Shape, TypeOK
<1>4. PICK a \in {0, 1} : a = (IF MayPay(j) THEN 1 ELSE 0)
  BY Zenon
<1>5. PICK b \in {0, 1} : b = (IF MayPay(j)' THEN 1 ELSE 0)
  BY Zenon
<1>6. b <= a
  BY <1>4, <1>5
<1>7. QED
  BY <1>1, <1>2, <1>3, <1>4, <1>5, <1>6, SubmittersFinite, SubmittersFiniteNext

\* Each process but p submits what it did.
LEMMA SubmittersKept ==
  ASSUME NEW p \in Processes, Only(p), NEW j,
         \/ process'[p].pc \notin {"submitting", "refused"}
         \/ process'[p].photo # j
         \/ process[p].pc \in {"submitting", "refused"} /\ process[p].photo = j
  PROVE  Submitters(j)' \subseteq Submitters(j)
<1>1. SUFFICES ASSUME NEW q \in Processes, process'[q].pc \in {"submitting", "refused"},
                      process'[q].photo = j
               PROVE  process[q].pc \in {"submitting", "refused"} /\ process[q].photo = j
  BY Zenon DEF Submitters, Photo
<1>2. CASE q = p
  BY <1>1, <1>2, Zenon
<1>3. CASE q # p
  BY <1>1, <1>3, Zenon DEF Only
<1>4. QED
  BY <1>2, <1>3

\* Photo j may be submitted only if it could be before: rows keep their photos, and
\* one that has j and is not submitted was not.
LEMMA MayPayKept ==
  ASSUME KeepsRows, UNCHANGED <<updates, offset, post>>, NEW j,
         \A m \in Messages : Stays(m) /\ row[m].photo = j /\ Unsubmitted(row'[m])
                                => Unsubmitted(row[m]),
         MayPay(j)'
  PROVE  MayPay(j)
<1>1. /\ ~Past(j)' /\ \A m \in Messages : post'[m].photo # j
      /\ \A m \in Messages : row'[m].update # 0 /\ row'[m].photo = j => Unsubmitted(row'[m])
  BY Zenon DEF MayPay, Stays, Unsubmitted
<1>2. ~Past(j)
  BY <1>1, Zenon DEF Past
<1>3. \A m \in Messages : post[m].photo # j
  BY <1>1, Zenon
<1>4. \A m \in Messages : Stays(m) /\ row[m].photo = j => Unsubmitted(row[m])
  BY <1>1, Zenon DEF KeepsRows, Stays
<1>5. QED
  BY <1>2, <1>3, <1>4, Zenon DEF MayPay

LEMMA MayPayUnmoved ==
  ASSUME UNCHANGED <<updates, offset, row, post>>, NEW j, MayPay(j)'
  PROVE  MayPay(j)
<1>1. KeepsRows /\ \A m \in Messages : row'[m] = row[m]
  BY Zenon DEF KeepsRows
<1>2. QED
  BY <1>1, MayPayKept, Zenon

LEMMA AllPaid ==
  ASSUME \A j \in Updates :
            credit'[j] >= Cardinality(Submitters(j)') + (IF MayPay(j)' THEN 1 ELSE 0)
  PROVE  CreditIsKept'
  BY Zenon DEF CreditIsKept

\* Process p submits nothing new, and rows that are not submitted were not.
LEMMA CreditKept ==
  ASSUME Shape, Shape', PayInv, NEW p \in Processes, Only(p),
         \/ process'[p].pc \notin {"submitting", "refused"}
         \/ process[p].pc = "submitting" /\ process'[p].photo = process[p].photo,
         KeepsRows, UNCHANGED <<updates, offset, post, credit>>,
         \A m \in Messages : Stays(m) /\ row[m].photo # 0 /\ Unsubmitted(row'[m])
                                => Unsubmitted(row[m])
  PROVE  CreditIsKept'
<1>1. SUFFICES ASSUME NEW j \in Updates
               PROVE  credit'[j] >= Cardinality(Submitters(j)') + (IF MayPay(j)' THEN 1 ELSE 0)
  BY AllPaid, Zenon
<1>2. Submitters(j)' \subseteq Submitters(j)
  BY SubmittersKept, Zenon
<1>3. j # 0
  BY BoundAssumption DEF Updates
<1>4. MayPay(j)' => MayPay(j)
  BY <1>3, MayPayKept, Zenon
<1>5. credit'[j] >= credit[j]
  BY DEF Shape, TypeOK
<1>6. QED
  BY <1>2, <1>4, <1>5, CreditStill, Zenon

\* The photo of a post is one of its message.
LEMMA PostPhotoIsOld ==
  ASSUME Shape, ChannelInv, NEW m \in Messages, post[m].photo # 0
  PROVE  /\ post[m].update \in 1..Len(updates) /\ post[m].photo \in 1..Len(updates)
         /\ post[m].photo <= post[m].update /\ updates[post[m].photo].message = m
<1>1. IsOf(post[m].update, m, post[m].photo) /\ post[m].update # 0
  BY Zenon DEF ChannelInv, PostsTell
<1>2. post[m].update \in 0..MaxUpdates /\ post[m].photo \in 0..MaxUpdates
  BY Typing, SMT DEF Post, Photos
<1>3. post[m].update \in 1..Len(updates)
  BY <1>1, <1>2, Typing, BoundAssumption, SMT DEF IsOf
<1>4. post[m].photo <= post[m].update /\ updates[post[m].photo].message = m
  BY <1>1, <1>3, Zenon DEF ChannelInv, PhotosStay, IsOf
<1>5. QED
  BY <1>2, <1>3, <1>4, Typing, BoundAssumption

\* A photo the post had before the row's is past.
LEMMA RetiredIsPast ==
  ASSUME Shape, ChannelInv, NEW m \in Messages, Stays(m),
         post[m].photo # 0, post[m].photo # row[m].photo
  PROVE  Past(post[m].photo)
<1>1. /\ row[m].update < offset /\ updates[row[m].update].message = m
      /\ updates[row[m].update].photo = row[m].photo /\ row[m].update > post[m].update
  BY Zenon DEF ChannelInv, RowsTell, IsOf
<1>2. row[m].update \in Nat
  BY Typing, BoundAssumption, SMT DEF Row
<1>3. row[m].update \in post[m].photo..(offset - 1)
  BY <1>1, <1>2, PostPhotoIsOld, Typing
<1>4. updates[post[m].photo].message = m
  BY PostPhotoIsOld
<1>5. QED
  BY <1>1, <1>3, <1>4, Zenon DEF Past

\* The submission of process p is over.
LEMMA SubmissionEnds ==
  ASSUME NEW p \in Processes, Only(p), process'[p].pc \notin {"submitting", "refused"},
         process[p].pc \in {"submitting", "refused"}, NEW j, j = Photo(p)
  PROVE  Cardinality(Submitters(j)') <= Cardinality(Submitters(j)) - 1
<1>1. p \in Submitters(j)
  BY Zenon DEF Submitters
<1>2. Submitters(j)' \subseteq Submitters(j)
  BY SubmittersKept, Zenon
<1>3. p \notin Submitters(j)'
  BY Zenon DEF Submitters
<1>4. Submitters(j)' \subseteq Submitters(j) \ {p}
  BY <1>2, <1>3
<1>5. /\ IsFiniteSet(Submitters(j) \ {p})
      /\ Cardinality(Submitters(j) \ {p}) = Cardinality(Submitters(j)) - 1
  BY <1>1, SubmittersFinite, FS_RemoveElement
<1>6. QED
  BY <1>4, <1>5, FS_Subset, SubmittersFinite, SubmittersFiniteNext

LEMMA SubmitAcceptedKeepsCredit ==
  ASSUME Shape, Shape', PayInv, NEW p \in Processes, SubmitAccepted(p)
  PROVE  CreditIsKept'
<1>1. PICK pc \in {"accepted", "failed"} :
            /\ Proceeds(p, pc, process[p].stage, process[p].request)
            /\ At(p, "submitting")
            /\ credit' = [credit EXCEPT ![Photo(p)] = @ - 1]
  BY SubmitAcceptedEffect, Zenon
<1>2. /\ Only(p) /\ process'[p].pc \notin {"submitting", "refused"}
      /\ UNCHANGED <<updates, offset, row, post>>
  BY <1>1, Zenon DEF Proceeds, GoesOn
<1>3. credit \in [Updates -> Int] /\ credit' \in [Updates -> Int]
  BY DEF Shape, TypeOK
<1>4. SUFFICES ASSUME NEW j \in Updates
               PROVE  credit'[j] >= Cardinality(Submitters(j)') + (IF MayPay(j)' THEN 1 ELSE 0)
  BY AllPaid, Zenon
<1>5. MayPay(j)' => MayPay(j)
  BY <1>2, MayPayUnmoved, Zenon
<1>6. CASE j = Photo(p)
  <2>1. Cardinality(Submitters(j)') <= Cardinality(Submitters(j)) - 1
    BY <1>1, <1>2, <1>6, SubmissionEnds, Zenon DEF At
  <2>2. credit'[j] = credit[j] - 1
    BY <1>1, <1>3, <1>6
  <2>3. credit[j] >= Cardinality(Submitters(j)) + (IF MayPay(j) THEN 1 ELSE 0)
    BY Zenon DEF PayInv, CreditIsKept
  <2>4. PICK a \in {0, 1} : a = (IF MayPay(j) THEN 1 ELSE 0)
    BY Zenon
  <2>5. PICK b \in {0, 1} : b = (IF MayPay(j)' THEN 1 ELSE 0)
    BY Zenon
  <2>6. b <= a
    BY <1>5, <2>4, <2>5
  <2>7. QED
    BY <1>3, <2>1, <2>2, <2>3, <2>4, <2>5, <2>6, SubmittersFinite, SubmittersFiniteNext
<1>7. CASE j # Photo(p)
  <2>1. credit'[j] >= credit[j]
    BY <1>1, <1>3, <1>7
  <2>2. Submitters(j)' \subseteq Submitters(j)
    BY <1>2, SubmittersKept, Zenon
  <2>3. QED
    BY <1>5, <2>1, <2>2, CreditStill, Zenon
<1>8. QED
  BY <1>6, <1>7

\* A refused submission costs nothing: its photo may be submitted again.
LEMMA RecordRefusalKeepsCredit ==
  ASSUME Shape, Shape', PayInv, NEW p \in Processes, RecordRefusal(p)
  PROVE  CreditIsKept'
<1>1. /\ At(p, "refused") /\ Owned(p)
      /\ UNCHANGED <<updates, offset, post, credit>>
      /\ RowIs(Message(p), "pending", row[Message(p)].request,
                  row[Message(p)].uncertain, row[Message(p)].media)
      /\ GoesOn(p, "failed", "pending", process[p].request)
  BY RecordRefusalEffect, Zenon
<1>2. /\ Only(p) /\ process'[p].pc \notin {"submitting", "refused"}
  BY <1>1, Zenon DEF GoesOn
<1>3. InJob(p)
  BY <1>1, Zenon DEF At, InJob, JobPcs
<1>4. PICK m \in Messages : m = Message(p)
  BY <1>1, <1>3, OwnedRow
<1>5. /\ Stays(m) /\ row[m].photo = Photo(p) /\ \A n \in Messages \ {m} : row'[n] = row[n]
  BY <1>1, <1>3, <1>4, OwnedRow, Zenon DEF RowIs
<1>6. KeepsRows
  BY <1>1, <1>4, <1>5, RowKeepsUpdate, Zenon
<1>7. credit \in [Updates -> Int] /\ credit' = credit
  BY <1>1 DEF Shape, TypeOK
<1>8. SUFFICES ASSUME NEW j \in Updates
               PROVE  credit'[j] >= Cardinality(Submitters(j)') + (IF MayPay(j)' THEN 1 ELSE 0)
  BY AllPaid, Zenon
<1>9. CASE j = Photo(p)
  <2>1. Cardinality(Submitters(j)') <= Cardinality(Submitters(j)) - 1
    BY <1>1, <1>2, <1>9, SubmissionEnds, Zenon DEF At
  <2>2. credit[j] >= Cardinality(Submitters(j)) + (IF MayPay(j) THEN 1 ELSE 0)
    BY Zenon DEF PayInv, CreditIsKept
  <2>3. PICK a \in {0, 1} : a = (IF MayPay(j) THEN 1 ELSE 0)
    BY Zenon
  <2>4. PICK b \in {0, 1} : b = (IF MayPay(j)' THEN 1 ELSE 0)
    BY Zenon
  <2>5. QED
    BY <1>7, <2>1, <2>2, <2>3, <2>4, SubmittersFinite, SubmittersFiniteNext
<1>10. CASE j # Photo(p)
  <2>1. credit'[j] >= credit[j]
    BY <1>7
  <2>2. Submitters(j)' \subseteq Submitters(j)
    BY <1>2, SubmittersKept, Zenon
  <2>3. MayPay(j)' => MayPay(j)
    <3>1. \A n \in Messages : Stays(n) /\ row[n].photo = j /\ Unsubmitted(row'[n])
                                => Unsubmitted(row[n])
      BY <1>5, <1>10, Zenon
    <3>2. QED
      BY <1>1, <1>6, <3>1, MayPayKept, Zenon
  <2>4. QED
    BY <2>1, <2>2, <2>3, CreditStill, Zenon
<1>11. QED
  BY <1>9, <1>10

\* The photo of a job that is about to submit it may be submitted: it is current, no
\* other message has it, and its row tells that it is not submitted.
LEMMA SubmissionIsPaid ==
  ASSUME Shape, ChannelInv, PayInv, NEW p \in Processes, At(p, "removing"), Owned(p),
         ~process[p].request, ~Unanswered(process[p].stage, process[p].request)
  PROVE  MayPay(Photo(p))
<1>1. OwnsPhoto(p) /\ InJob(p)
  BY WriterOwnsPhoto, Zenon DEF At
<1>2. PICK m \in Messages : m = Message(p)
  BY <1>1, OwnedRow
<1>3. PICK j \in Photos : j = Photo(p)
  BY Typing, SMT DEF Process, Photo
<1>4. /\ Stays(m) /\ row[m].photo = j /\ j # 0 /\ row[m] \in Row /\ row[m].stage # "blocked"
  BY <1>1, <1>2, <1>3, OwnedRow, Zenon DEF OwnsPhoto
<1>5. ~Past(j) /\ updates[j].message = m
  BY <1>4, CurrentIsNotPast, RowPhotoIsOld, Zenon
<1>6. \A n \in Messages : post[n].photo = j \/ (Stays(n) /\ row[n].photo = j) => n = m
  BY <1>4, <1>5, PostPhotoIsOld, RowPhotoIsOld, Zenon
<1>7. post[m].photo # j /\ ~row[m].media
  BY <1>1, <1>2, <1>3, AgreedRow, Zenon
<1>8. Unsubmitted(row[m])
  <2>1. /\ row[m].stage = process[p].stage /\ row[m].request = process[p].request
        /\ StageTells(row[m]) /\ ~row[m].uncertain
    BY <1>1, <1>2, AgreedRow, Zenon DEF At
  <2>2. row[m].stage \in Stages
    BY <1>4, SMT DEF Row
  <2>3. /\ row[m].stage # "submitting" /\ row[m].stage # "submitted"
        /\ row[m].stage # "uploaded" /\ ~row[m].request
    BY <1>7, <2>1, Zenon DEF StageTells, Unanswered
  <2>4. QED
    BY <1>4, <1>7, <2>1, <2>2, <2>3, Zenon DEF Unsubmitted, Stages
<1>9. QED
  BY <1>3, <1>5, <1>6, <1>7, <1>8, Zenon DEF MayPay

LEMMA BeginSubmissionKeepsCredit ==
  ASSUME Shape, Shape', ChannelInv, PayInv, NEW p \in Processes, BeginSubmission(p)
  PROVE  CreditIsKept'
<1>1. /\ At(p, "removing") /\ Owned(p) /\ ~process[p].request
      /\ ~Unanswered(process[p].stage, process[p].request)
      /\ UNCHANGED <<updates, offset, post, credit>>
  BY BeginSubmissionEffect, Zenon
<1>2. PICK pc \in {"submitting", "failed"} :
        /\ GoesOn(p, pc, "submitting", process[p].request)
        /\ \/ RowIs(Message(p), "submitting", row[Message(p)].request,
                    row[Message(p)].uncertain, row[Message(p)].media)
           \/ pc = "failed" /\ UNCHANGED row
  BY BeginSubmissionEffect, Zenon
<1>3. OwnsPhoto(p) /\ InJob(p)
  BY <1>1, WriterOwnsPhoto, Zenon DEF At
<1>4. PICK m \in Messages : m = Message(p)
  BY <1>1, <1>3, OwnedRow
<1>5. /\ Stays(m) /\ row[m].photo = Photo(p)
      /\ \A n \in Messages \ {m} : row'[n] = row[n]
      /\ row'[m].update = row[m].update /\ row'[m].photo = row[m].photo
      /\ UNCHANGED row \/ row'[m].stage = "submitting"
      /\ pc = "submitting" => row'[m].stage = "submitting"
  BY <1>1, <1>2, <1>3, <1>4, OwnedRow, Zenon DEF RowIs
<1>6. KeepsRows
  BY <1>4, <1>5, Zenon DEF KeepsRows
<1>7. Only(p) /\ process'[p].pc = pc /\ process'[p].photo = Photo(p)
  BY <1>2, Zenon DEF GoesOn, Photo
<1>8. \A n \in Messages : Stays(n) /\ Unsubmitted(row'[n]) => Unsubmitted(row[n])
  BY <1>4, <1>5, Zenon DEF Unsubmitted
<1>9. SUFFICES ASSUME NEW j \in Updates
               PROVE  credit'[j] >= Cardinality(Submitters(j)') + (IF MayPay(j)' THEN 1 ELSE 0)
  BY AllPaid, Zenon
<1>10. MayPay(j)' => MayPay(j)
  BY <1>1, <1>6, <1>8, MayPayKept, Zenon
<1>11. credit'[j] >= credit[j] /\ credit'[j] = credit[j] /\ credit[j] \in Int
  BY <1>1 DEF Shape, TypeOK
<1>12. CASE pc = "failed" \/ j # Photo(p)
  <2>1. Submitters(j)' \subseteq Submitters(j)
    BY <1>7, <1>12, SubmittersKept, Zenon
  <2>2. QED
    BY <1>10, <1>11, <2>1, CreditStill, Zenon
<1>13. CASE pc = "submitting" /\ j = Photo(p)
  <2>1. MayPay(j)
    BY <1>1, <1>13, SubmissionIsPaid, Zenon
  <2>2. ~MayPay(j)'
    <3>1. row'[m].update # 0 /\ row'[m].photo = j /\ row'[m].stage = "submitting"
      BY <1>5, <1>13, Zenon DEF Stays
    <3>2. QED
      BY <3>1, Zenon DEF MayPay, Stays, Unsubmitted
  <2>3. Submitters(j)' = Submitters(j) \cup {p}
    BY <1>7, <1>13, Zenon DEF Submitters, Only, Photo
  <2>4. p \notin Submitters(j)
    BY <1>1, Zenon DEF Submitters, At
  <2>5. Cardinality(Submitters(j)') = Cardinality(Submitters(j)) + 1
    BY <2>3, <2>4, SubmittersFinite, FS_AddElement
  <2>6. credit[j] >= Cardinality(Submitters(j)) + (IF MayPay(j) THEN 1 ELSE 0)
    BY Zenon DEF PayInv, CreditIsKept
  <2>7. PICK b \in Int : b = (IF MayPay(j)' THEN 1 ELSE 0) /\ b = 0
    BY <2>2
  <2>8. PICK a \in Int : a = (IF MayPay(j) THEN 1 ELSE 0) /\ a = 1
    BY <2>1
  <2>9. QED
    BY <1>11, <2>5, <2>6, <2>7, <2>8, SubmittersFinite
<1>14. QED
  BY <1>2, <1>12, <1>13

\* What process p wrote leaves its row no more submittable than it was.
LEMMA WritingKeepsCredit ==
  ASSUME Shape, Shape', PayInv, NEW p \in Processes, InJob(p), Owned(p),
         NEW stage, NEW request, NEW uncertain, NEW media,
         RowIs(Message(p), stage, request, uncertain, media),
         Only(p), process'[p].pc \notin {"submitting", "refused"},
         UNCHANGED <<updates, offset, post, credit>>,
         Photo(p) # 0 /\ Unsubmitted(row'[Message(p)]) => Unsubmitted(row[Message(p)])
  PROVE  CreditIsKept'
<1>1. PICK m \in Messages : m = Message(p)
  BY OwnedRow
<1>2. /\ Stays(m) /\ row[m].photo = Photo(p) /\ \A n \in Messages \ {m} : row'[n] = row[n]
  BY <1>1, OwnedRow, Zenon DEF RowIs
<1>3. KeepsRows
  BY <1>1, <1>2, RowKeepsUpdate, Zenon
<1>4. \A n \in Messages : Stays(n) /\ row[n].photo # 0 /\ Unsubmitted(row'[n])
                             => Unsubmitted(row[n])
  BY <1>1, <1>2, Zenon
<1>5. QED
  BY <1>3, <1>4, CreditKept, Zenon

LEMMA ProceedingKeepsCredit ==
  ASSUME Shape, Shape', PayInv, NEW p \in Processes, NEW pc, NEW stage, NEW request,
         Proceeds(p, pc, stage, request), UNCHANGED credit,
         pc \notin {"submitting", "refused"} \/ At(p, "submitting")
  PROVE  CreditIsKept'
<1>1. /\ Only(p) /\ process'[p].pc = pc /\ process'[p].photo = process[p].photo
      /\ UNCHANGED <<updates, offset, row, post>>
  BY Zenon DEF Proceeds, GoesOn
<1>2. /\ KeepsRows
      /\ \A n \in Messages : Stays(n) /\ row[n].photo # 0 /\ Unsubmitted(row'[n])
                                => Unsubmitted(row[n])
  BY <1>1, Zenon DEF KeepsRows
<1>3. \/ process'[p].pc \notin {"submitting", "refused"}
      \/ process[p].pc = "submitting" /\ process'[p].photo = process[p].photo
  BY <1>1, Zenon DEF At
<1>4. QED
  BY <1>1, <1>2, <1>3, CreditKept, Zenon

LEMMA RestingKeepsCredit ==
  ASSUME Shape, Shape', PayInv, NEW p \in Processes, Only(p),
         process'[p].pc \notin {"submitting", "refused"},
         UNCHANGED <<updates, offset, row, post, credit>>
  PROVE  CreditIsKept'
<1>1. /\ KeepsRows
      /\ \A n \in Messages : Stays(n) /\ row[n].photo # 0 /\ Unsubmitted(row'[n])
                                => Unsubmitted(row[n])
  BY Zenon DEF KeepsRows
<1>2. QED
  BY <1>1, CreditKept, Zenon

LEMMA JobKeepsCredit ==
  ASSUME Shape, Shape', ChannelInv, PayInv, NEW p \in Processes,
         \/ LookUp(p) \/ ResumeRemoval(p) \/ SubmitAccepted(p) \/ SubmitFails(p)
         \/ BeforeUpload(p) \/ Upload(p) \/ Fails(p)
         \/ BeginSubmission(p) \/ RecordRequest(p) \/ RecordRefusal(p) \/ OnUploaded(p)
         \/ StillInQueue(p) \/ RecordFailure(p)
  PROVE  CreditIsKept'
<1>1. ASSUME NEW pc \in {"ready", "removing", "waiting", "failed", "uploading", "uploaded"},
             NEW stage, NEW request, Proceeds(p, pc, stage, request), UNCHANGED credit
      PROVE  CreditIsKept'
  <2>1. pc \notin {"submitting", "refused"}
    BY <1>1
  <2>2. QED
    BY <1>1, <2>1, ProceedingKeepsCredit, Zenon
<1>2. CASE LookUp(p)
  BY <1>1, <1>2, LookUpEffect, Zenon
<1>3. CASE ResumeRemoval(p)
  BY <1>1, <1>3, ResumeEffect, Zenon
<1>4. CASE SubmitFails(p)
  BY <1>4, SubmitFailsEffect, ProceedingKeepsCredit, Zenon
<1>5. CASE BeforeUpload(p) \/ Upload(p) \/ Fails(p)
  BY <1>1, <1>5, BeforeUploadEffect, UploadEffect, FailsEffect, Zenon
<1>6. CASE RecordRequest(p)
  <2>1. At(p, "accepted") /\ UNCHANGED <<updates, offset, post, credit>>
    BY <1>6, RecordRequestEffect, Zenon
  <2>2. /\ Only(p) /\ process'[p].pc \in {"waiting", "failed"}
        /\ \/ /\ Owned(p)
              /\ RowIs(Message(p), "submitted", TRUE,
                       row[Message(p)].uncertain, row[Message(p)].media)
           \/ UNCHANGED row
    BY <1>6, RecordRequestEffect, Zenon DEF GoesOn
  <2>3. InJob(p) /\ process'[p].pc \notin {"submitting", "refused"}
    BY <2>1, <2>2, Zenon DEF At, InJob, JobPcs
  <2>4. CASE UNCHANGED row
    BY <2>1, <2>2, <2>3, <2>4, RestingKeepsCredit, Zenon
  <2>5. CASE /\ Owned(p)
             /\ RowIs(Message(p), "submitted", TRUE,
                      row[Message(p)].uncertain, row[Message(p)].media)
    <3>1. ~Unsubmitted(row'[Message(p)])
      BY <2>5, Zenon DEF RowIs, Unsubmitted
    <3>2. QED
      BY <2>1, <2>2, <2>3, <2>5, <3>1, WritingKeepsCredit, Zenon
  <2>6. QED
    BY <2>2, <2>4, <2>5
<1>7. CASE OnUploaded(p)
  <2>1. /\ At(p, "uploaded") /\ Owned(p) /\ UNCHANGED <<updates, offset, post, credit>>
        /\ RowIs(Message(p), "uploaded", row[Message(p)].request, FALSE, TRUE)
        /\ Only(p) /\ process'[p].pc = "ready"
    BY <1>7, OnUploadedEffect, Zenon DEF GoesOn
  <2>2. InJob(p) /\ process'[p].pc \notin {"submitting", "refused"}
    BY <2>1, Zenon DEF At, InJob, JobPcs
  <2>3. ~Unsubmitted(row'[Message(p)])
    BY <2>1, Zenon DEF RowIs, Unsubmitted
  <2>4. QED
    BY <2>1, <2>2, <2>3, WritingKeepsCredit, Zenon
<1>8. CASE StillInQueue(p)
  <2>1. /\ At(p, "waiting") /\ Owned(p) /\ UNCHANGED <<updates, offset, post, credit>>
        /\ RowIs(Message(p), row[Message(p)].stage, row[Message(p)].request,
                 FALSE, row[Message(p)].media)
        /\ Only(p) /\ process'[p].pc \notin {"submitting", "refused"}
    BY <1>8, StillInQueueEffect, Zenon DEF Idles
  <2>2. InJob(p) /\ OwnsPhoto(p)
    BY <2>1, WriterOwnsPhoto, Zenon DEF At
  <2>3. row[Message(p)].request
    BY <2>1, <2>2, AgreedRow, Zenon
  <2>4. ~Unsubmitted(row'[Message(p)])
    BY <2>1, <2>3, Zenon DEF RowIs, Unsubmitted
  <2>5. QED
    BY <2>1, <2>2, <2>4, WritingKeepsCredit, Zenon
<1>9. CASE RecordFailure(p)
  <2>1. /\ At(p, "failed") /\ Owned(p) /\ UNCHANGED <<updates, offset, post, credit>>
        /\ Only(p) /\ process'[p].pc \notin {"submitting", "refused"}
    BY <1>9, RecordFailureEffect, Zenon DEF Idles
  <2>2. PICK stage \in Stages, uncertain \in BOOLEAN :
               /\ RowIs(Message(p), stage, row[Message(p)].request, uncertain,
                        row[Message(p)].media)
               /\ stage \in {"blocked", row[Message(p)].stage}
               /\ uncertain <=> Unanswered(process[p].stage, process[p].request)
    BY <1>9, RecordFailureEffect, Zenon
  <2>3. InJob(p)
    BY <2>1, Zenon DEF At, InJob, JobPcs
  <2>4. PICK m \in Messages : m = Message(p)
    BY <2>1, <2>3, OwnedRow
  <2>5. ASSUME Photo(p) # 0, Unsubmitted(row'[m])
        PROVE  Unsubmitted(row[m])
    <3>1. OwnsPhoto(p)
      BY <2>1, <2>3, <2>5, Zenon DEF OwnsPhoto
    <3>2. /\ row[m].stage = "submitting" =>
                Unanswered(process[p].stage, process[p].request)
          /\ StageTells(row[m]) /\ ~row[m].uncertain
      BY <2>4, <3>1, AgreedRow, Zenon
    <3>3. ~row[m].media /\ ~row[m].request /\ ~uncertain
      BY <2>2, <2>4, <2>5, Zenon DEF RowIs, Unsubmitted
    <3>4. row[m].stage # "submitting" /\ row[m].stage # "submitted" /\ row[m].stage # "uploaded"
      BY <2>2, <3>2, <3>3, Zenon DEF StageTells
    <3>5. row[m].stage \in Stages
      BY Typing, SMT DEF Row
    <3>6. QED
      BY <3>2, <3>3, <3>4, <3>5, Zenon DEF Unsubmitted, Stages
  <2>6. Photo(p) # 0 /\ Unsubmitted(row'[Message(p)]) => Unsubmitted(row[Message(p)])
    BY <2>4, <2>5, Zenon
  <2>7. QED
    BY <2>1, <2>2, <2>3, <2>6, WritingKeepsCredit, Zenon
<1>10. QED
  BY <1>2, <1>3, <1>4, <1>5, <1>6, <1>7, <1>8, <1>9, SubmitAcceptedKeepsCredit,
     RecordRefusalKeepsCredit, BeginSubmissionKeepsCredit

LEMMA PublishKeepsCredit ==
  ASSUME Shape, Shape', ChannelInv, PayInv, NEW p \in Processes, Publish(p)
  PROVE  CreditIsKept'
<1>1. At(p, "ready") /\ Owned(p) /\ InJob(p)
  BY PublishEffect, Zenon DEF At, InJob, JobPcs
<1>2. PICK m \in Messages : m = Message(p)
  BY <1>1, OwnedRow, Zenon
<1>3. /\ \A n \in Messages \ {m} : post'[n] = post[n] /\ row'[n] = row[n]
      /\ post'[m].photo = row[m].photo /\ Stays(m)
      /\ UNCHANGED <<updates, offset, credit>>
  BY <1>1, <1>2, PublishEffect, OwnedRow, Zenon
<1>4. Only(p) /\ process'[p].pc \notin {"submitting", "refused"}
  BY PublishEffect, Zenon DEF Rests, Idles
<1>5. SUFFICES ASSUME NEW j \in Updates
               PROVE  credit'[j] >= Cardinality(Submitters(j)') + (IF MayPay(j)' THEN 1 ELSE 0)
  BY AllPaid, Zenon
<1>6. credit'[j] >= credit[j] /\ j # 0
  BY <1>3, BoundAssumption DEF Shape, TypeOK, Updates
<1>7. Submitters(j)' \subseteq Submitters(j)
  BY <1>4, SubmittersKept, Zenon
<1>8. ASSUME MayPay(j)' PROVE MayPay(j)
  <2>1. /\ ~Past(j)' /\ \A n \in Messages : post'[n].photo # j
        /\ \A n \in Messages : row'[n].update # 0 /\ row'[n].photo = j => Unsubmitted(row'[n])
    BY <1>8, Zenon DEF MayPay, Stays, Unsubmitted
  <2>2. ~Past(j)
    BY <1>3, <2>1, Zenon DEF Past
  <2>3. row[m].photo # j
    BY <1>3, <2>1, Zenon
  <2>4. post[m].photo # j
    BY <1>3, <1>6, <2>2, <2>3, RetiredIsPast, Zenon
  <2>5. \A n \in Messages : post[n].photo # j
    BY <1>3, <2>1, <2>4, Zenon
  <2>6. \A n \in Messages : Stays(n) /\ row[n].photo = j => Unsubmitted(row[n])
    BY <1>3, <2>1, <2>3, Zenon DEF Stays
  <2>7. QED
    BY <2>2, <2>5, <2>6, Zenon DEF MayPay
<1>9. QED
  BY <1>6, <1>7, <1>8, CreditStill, Zenon

LEMMA SaveCommitsKeepsCredit ==
  ASSUME Shape, Shape', ChannelInv, PayInv, NEW p \in Processes, SaveCommits(p)
  PROVE  CreditIsKept'
<1>1. PICK m \in Messages : m = Saved(p)
  BY SaveCommitsEffect, Zenon
<1>2. PICK k \in 1..Len(updates) : k = process[p].update
  BY SaveCommitsEffect, Zenon
<1>3. /\ At(p, "saving") /\ m = updates[k].message /\ offset' = k + 1
      /\ \A n \in Messages \ {m} : row'[n] = row[n]
      /\ UNCHANGED <<updates, post, credit>>
  BY <1>1, <1>2, SaveCommitsEffect, Zenon DEF Saved
<1>4. \/ UNCHANGED row
      \/ /\ row'[m].update = k /\ row'[m].photo = updates[k].photo
         /\ \/ /\ row[m].photo = updates[k].photo
               /\ row'[m].stage = row[m].stage
               /\ row'[m].request = row[m].request
               /\ row'[m].uncertain = row[m].uncertain
               /\ row'[m].media = row[m].media
            \/ ~Stays(m) \/ row[m].photo # updates[k].photo
  BY <1>1, <1>2, SaveCommitsEffect, Zenon
<1>5. Only(p) /\ process'[p].pc \notin {"submitting", "refused"}
  BY SaveCommitsEffect, Zenon DEF Rests, Idles
<1>6. k = offset
  BY <1>2, <1>3, Zenon DEF ChannelInv, SaversHold, At, Leases
<1>7. /\ offset' \in Nat /\ offset' >= offset /\ offset \in Nat /\ offset >= 1
      /\ offset' = offset + 1 /\ Len(updates) \in Nat /\ Len(updates) >= offset - 1
  BY <1>3, <1>6, Typing
<1>8. SUFFICES ASSUME NEW j \in Updates
               PROVE  credit'[j] >= Cardinality(Submitters(j)') + (IF MayPay(j)' THEN 1 ELSE 0)
  BY AllPaid, Zenon
<1>9. credit'[j] >= credit[j] /\ j # 0 /\ j \in Photos
  BY <1>3, BoundAssumption DEF Shape, TypeOK, Updates, Photos
<1>10. Submitters(j)' \subseteq Submitters(j)
  BY <1>5, SubmittersKept, Zenon
<1>11. ASSUME MayPay(j)' PROVE MayPay(j)
  <2>1. /\ ~Past(j)' /\ \A n \in Messages : post[n].photo # j
        /\ \A n \in Messages : row'[n].update # 0 /\ row'[n].photo = j => Unsubmitted(row'[n])
    BY <1>3, <1>11, Zenon DEF MayPay, Stays, Unsubmitted
  <2>2. ~\E u \in j..(offset' - 1) :
            updates[u].message = updates[j].message /\ updates[u].photo # j
    BY <1>3, <2>1, Zenon DEF Past
  <2>3. ~Past(j)
    <3>1. \A u \in j..(offset - 1) : u \in j..(offset' - 1)
      BY <1>7
    <3>2. QED
      BY <2>2, <3>1, Zenon DEF Past
  <2>4. ASSUME NEW n \in Messages, Stays(n), row[n].photo = j
        PROVE  Unsubmitted(row[n])
    <3>1. CASE n # m \/ UNCHANGED row
      <4>1. row'[n] = row[n]
        BY <1>3, <3>1, Zenon
      <4>2. QED
        BY <2>1, <2>4, <4>1, Zenon DEF Stays
    <3>2. CASE n = m /\ row[m].photo # updates[k].photo
      <4>1. updates[j].message = m /\ j < offset
        BY <1>9, <2>4, <3>2, RowPhotoIsOld, Zenon
      <4>2. offset \in j..(offset' - 1)
        BY <1>7, <1>9, <4>1, BoundAssumption DEF Photos
      <4>3. updates[offset].message = m /\ updates[offset].photo # j
        BY <1>3, <1>6, <2>4, <3>2, Zenon
      <4>4. QED
        BY <2>2, <4>1, <4>2, <4>3, Zenon
    <3>3. CASE /\ n = m /\ row[m].photo = updates[k].photo
               /\ row'[m].update = k /\ row'[m].photo = updates[k].photo
               /\ row'[m].stage = row[m].stage
               /\ row'[m].request = row[m].request
               /\ row'[m].uncertain = row[m].uncertain
               /\ row'[m].media = row[m].media
      <4>1. k # 0
        BY <1>6, <1>7
      <4>2. Unsubmitted(row'[m])
        BY <2>1, <2>4, <3>3, <4>1, Zenon
      <4>3. QED
        BY <3>3, <4>2, Zenon DEF Unsubmitted
    <3>4. QED
      BY <1>4, <2>4, <3>1, <3>2, <3>3, Zenon
  <2>5. QED
    BY <2>1, <2>3, <2>4, Zenon DEF MayPay
<1>12. QED
  BY <1>9, <1>10, <1>11, CreditStill, Zenon

\* New processing of what may have been submitted is paid for by the administrator's
\* consent; other rows that may be submitted after a retry could be before.
LEMMA AdminRetryKeepsCredit ==
  ASSUME Shape, Shape', PayInv, NEW m \in Messages, NEW new \in BOOLEAN, AdminRetry(m, new)
  PROVE  CreditIsKept'
<1>1. /\ Stays(m) /\ UNCHANGED <<updates, offset, post, process>>
      /\ row[m].stage = "submitting" \/ row[m].uncertain => new
  BY AdminRetryEffect, Zenon
<1>2. PICK stage \in Stages, request \in BOOLEAN :
        /\ RowIs(m, stage, request, FALSE, row[m].media)
        /\ request <=> row[m].request /\ ~PaysAgain(m, new)
  BY AdminRetryEffect, Zenon
<1>3. IF /\ PaysAgain(m, new)
         /\ row[m].stage = "submitting" \/ row[m].uncertain \/ row[m].request
      THEN credit' = [credit EXCEPT ![row[m].photo] = @ + 1]
      ELSE UNCHANGED credit
  BY AdminRetryEffect, Zenon
<1>4. KeepsRows
  BY <1>1, <1>2, RowKeepsUpdate, Zenon
<1>5. /\ \A n \in Messages \ {m} : row'[n] = row[n]
      /\ row'[m].media = row[m].media /\ row'[m].request = request
  BY <1>2, Zenon DEF RowIs
<1>6. credit \in [Updates -> Int] /\ credit' \in [Updates -> Int]
  BY DEF Shape, TypeOK
<1>7. SUFFICES ASSUME NEW j \in Updates
               PROVE  credit'[j] >= Cardinality(Submitters(j)') + (IF MayPay(j)' THEN 1 ELSE 0)
  BY AllPaid, Zenon
<1>8. Submitters(j)' = Submitters(j)
  BY <1>1, Zenon DEF Submitters, Photo
<1>9. credit'[j] >= credit[j]
  <2>1. CASE credit' = [credit EXCEPT ![row[m].photo] = @ + 1]
    BY <1>6, <2>1
  <2>2. CASE credit' = credit
    BY <1>6, <2>2
  <2>3. QED
    BY <1>3, <2>1, <2>2, Zenon
<1>10. CASE /\ j = row[m].photo /\ PaysAgain(m, new)
            /\ row[m].stage = "submitting" \/ row[m].uncertain \/ row[m].request
  <2>1. credit'[j] = credit[j] + 1
    BY <1>3, <1>6, <1>10
  <2>2. credit[j] >= Cardinality(Submitters(j)) + (IF MayPay(j) THEN 1 ELSE 0)
    BY Zenon DEF PayInv, CreditIsKept
  <2>3. PICK a \in {0, 1} : a = (IF MayPay(j) THEN 1 ELSE 0)
    BY Zenon
  <2>4. PICK b \in {0, 1} : b = (IF MayPay(j)' THEN 1 ELSE 0)
    BY Zenon
  <2>5. QED
    BY <1>6, <1>8, <2>1, <2>2, <2>3, <2>4, SubmittersFinite
<1>11. CASE ~(/\ j = row[m].photo /\ PaysAgain(m, new)
              /\ row[m].stage = "submitting" \/ row[m].uncertain \/ row[m].request)
  <2>1. ASSUME row[m].photo = j, Unsubmitted(row'[m])
        PROVE  Unsubmitted(row[m])
    <3>1. ~row[m].media /\ ~request
      BY <1>5, <2>1, Zenon DEF Unsubmitted
    <3>2. /\ ~(row[m].stage = "submitting") /\ ~row[m].uncertain /\ ~row[m].request
      BY <1>1, <1>2, <1>11, <2>1, <3>1, Zenon DEF PaysAgain
    <3>3. StageTells(row[m])
      BY Zenon DEF PayInv, StagesTell
    <3>4. row[m].stage # "submitted" /\ row[m].stage # "uploaded"
      BY <3>1, <3>2, <3>3, Zenon DEF StageTells
    <3>5. row[m].stage \in Stages
      BY Typing, SMT DEF Row
    <3>6. QED
      BY <3>1, <3>2, <3>4, <3>5, Zenon DEF Unsubmitted, Stages
  <2>2. \A n \in Messages : Stays(n) /\ row[n].photo = j /\ Unsubmitted(row'[n])
                              => Unsubmitted(row[n])
    BY <1>5, <2>1, Zenon
  <2>3. MayPay(j)' => MayPay(j)
    BY <1>1, <1>4, <2>2, MayPayKept, Zenon
  <2>4. Submitters(j)' \subseteq Submitters(j)
    BY <1>8
  <2>5. QED
    BY <1>9, <2>3, <2>4, CreditStill, Zenon
<1>12. QED
  BY <1>10, <1>11

\* No process and no photo of a row changes.
LEMMA StandingKeepsCredit ==
  ASSUME Shape, Shape', PayInv, KeepsRows,
         UNCHANGED <<updates, offset, post, process, credit>>,
         \A m \in Messages : Stays(m) /\ Unsubmitted(row'[m]) => Unsubmitted(row[m])
  PROVE  CreditIsKept'
<1>1. SUFFICES ASSUME NEW j \in Updates
               PROVE  credit'[j] >= Cardinality(Submitters(j)') + (IF MayPay(j)' THEN 1 ELSE 0)
  BY AllPaid, Zenon
<1>2. Submitters(j)' = Submitters(j)
  BY Zenon DEF Submitters, Photo
<1>3. Submitters(j)' \subseteq Submitters(j)
  BY <1>2
<1>4. MayPay(j)' => MayPay(j)
  BY MayPayKept, Zenon
<1>5. credit'[j] >= credit[j]
  BY DEF Shape, TypeOK
<1>6. QED
  BY <1>3, <1>4, <1>5, CreditStill, Zenon

LEMMA ChannelPostKeepsCredit ==
  ASSUME Shape, Shape', PayInv, NEW m \in Messages, ChannelPost(m)
  PROVE  CreditIsKept'
<1>1. /\ \A u \in 1..Len(updates) : updates'[u] = updates[u]
      /\ UNCHANGED <<offset, row, post, process, credit>>
  BY ChannelPostEffect, Zenon
<1>2. SUFFICES ASSUME NEW j \in Updates
               PROVE  credit'[j] >= Cardinality(Submitters(j)') + (IF MayPay(j)' THEN 1 ELSE 0)
  BY AllPaid, Zenon
<1>3. Submitters(j)' = Submitters(j)
  BY <1>1, Zenon DEF Submitters, Photo
<1>4. j # 0 /\ j \in Photos /\ credit'[j] >= credit[j] /\ Submitters(j)' \subseteq Submitters(j)
  BY <1>1, <1>3, BoundAssumption DEF Shape, TypeOK, Updates, Photos
<1>5. ASSUME MayPay(j)' PROVE MayPay(j)
  <2>1. /\ ~Past(j)' /\ \A n \in Messages : post[n].photo # j
        /\ \A n \in Messages : Stays(n) /\ row[n].photo = j => Unsubmitted(row[n])
    BY <1>1, <1>5, Zenon DEF MayPay, Stays, Unsubmitted
  <2>2. /\ offset' \in Nat /\ offset' >= offset /\ Len(updates) \in Nat
        /\ Len(updates) >= offset - 1
    BY <1>1, Typing
  <2>3. Past(j) => Past(j)'
    BY <1>1, <1>4, <2>2, PastStays, Zenon DEF Past
  <2>4. QED
    BY <2>1, <2>3, Zenon DEF MayPay
<1>6. QED
  BY <1>4, <1>5, CreditStill, Zenon

LEMMA PayInit ==
  ASSUME Init
  PROVE  PayInv
<1>1. /\ \A m \in Messages : row[m] = NoRow
      /\ \A p \in Processes : process[p].pc = "idle"
      /\ \A j \in Updates : credit[j] = 1
  BY IdleTyped, Zenon DEF Init
<1>2. StagesTell
  BY <1>1, NoRowTyped, Zenon DEF StagesTell, StageTells
<1>3. JobsAgree
  BY <1>1, Zenon DEF JobsAgree, OwnsPhoto, InJob, JobPcs
<1>4. CreditIsKept
  <2>1. SUFFICES ASSUME NEW j \in Updates
                 PROVE  credit[j] >= Cardinality(Submitters(j)) + (IF MayPay(j) THEN 1 ELSE 0)
    BY Zenon DEF CreditIsKept
  <2>2. Submitters(j) = {}
    BY <1>1, Zenon DEF Submitters
  <2>3. Cardinality(Submitters(j)) = 0
    BY <2>2, FS_EmptySet
  <2>4. PICK a \in {0, 1} : a = (IF MayPay(j) THEN 1 ELSE 0)
    BY Zenon
  <2>5. QED
    BY <1>1, <2>3, <2>4
<1>5. QED
  BY <1>2, <1>3, <1>4 DEF PayInv

LEMMA PayStep ==
  ASSUME Shape, Shape', ChannelInv, FileInv, PayInv, [Next]_vars
  PROVE  PayInv'
<1>1. ASSUME UNCHANGED <<updates, offset, row, post, credit, process>>,
             \A q \in Processes : lease'["media"] = q => lease["media"] = q
      PROVE  PayInv'
  <2>1. /\ KeepsRows
        /\ \A m \in Messages : Stays(m) /\ Unsubmitted(row'[m]) => Unsubmitted(row[m])
        /\ \A m \in Messages : Stays(m) => /\ row'[m].stage = row[m].stage
                                           /\ row'[m].request = row[m].request
                                           /\ row'[m].media = row[m].media
    BY <1>1, Zenon DEF KeepsRows
  <2>2. JobsAgree'
    BY <1>1, <2>1, StandingKeepsJobs, Zenon
  <2>3. CreditIsKept'
    BY <1>1, <2>1, StandingKeepsCredit, Zenon
  <2>4. QED
    BY <1>1, <2>2, <2>3, StagesUnchanged DEF PayInv
<1>2. CASE UNCHANGED vars
  BY <1>1, <1>2, Zenon DEF vars
<1>3. ASSUME NEW m \in Messages, ChannelPost(m) PROVE PayInv'
  <2>1. UNCHANGED <<row, post, lease, process>>
    BY <1>3, ChannelPostEffect, Zenon
  <2>2. /\ KeepsRows
        /\ \A q \in Processes : lease'["media"] = q =>
            /\ lease["media"] = q
            /\ \A n \in Messages : Stays(n) => /\ row'[n].stage = row[n].stage
                                               /\ row'[n].request = row[n].request
                                               /\ row'[n].media = row[n].media
    BY <2>1, Zenon DEF KeepsRows
  <2>3. JobsAgree'
    BY <2>1, <2>2, StandingKeepsJobs, Zenon
  <2>4. QED
    BY <1>3, <2>1, <2>3, ChannelPostKeepsCredit, StagesUnchanged DEF PayInv
<1>4. ASSUME NEW p \in Processes, Only(p),
             process'[p].pc \notin {"submitting", "refused"} \cup JobPcs,
             \A q \in Processes \ {p} : lease'["media"] = q => lease["media"] = q,
             UNCHANGED <<updates, offset, row, post, credit>>
      PROVE  PayInv'
  <2>1. process'[p].pc \notin {"submitting", "refused"} /\ process'[p].pc \notin JobPcs
    BY <1>4
  <2>2. JobsAgree' /\ CreditIsKept'
    BY <1>4, <2>1, RestingKeepsJobs, RestingKeepsCredit, Zenon
  <2>3. QED
    BY <1>4, <2>2, StagesUnchanged DEF PayInv
<1>5. ASSUME NEW p \in Processes, Idles(p), UNCHANGED <<updates, offset, row, post, credit>>
      PROVE  PayInv'
  <2>1. process'[p].pc \in {"idle", "polling", "polled", "media"} /\ Only(p)
    BY <1>5, Zenon DEF Idles
  <2>2. process'[p].pc \notin {"submitting", "refused"} \cup JobPcs
    BY <2>1, Zenon DEF JobPcs
  <2>3. \A q \in Processes \ {p} : lease'["media"] = q => lease["media"] = q
    BY <1>5, Zenon DEF Idles
  <2>4. QED
    BY <1>4, <1>5, <2>1, <2>2, <2>3, Zenon
<1>6. ASSUME NEW p \in Processes,
             \/ BeginPoll(p) \/ EndPoll(p) \/ BeginMedia(p)
             \/ EndMedia(p) \/ BreaksOff(p) \/ Crash(p)
      PROVE  PayInv'
  BY <1>5, <1>6, IdlingEffect, Zenon
<1>7. ASSUME NEW p \in Processes, CleanDiscarded(p) \/ SkipLost(p) \/ RemoveRetired(p)
      PROVE  PayInv'
  BY <1>5, <1>7, RemovingEffect, Zenon
<1>8. ASSUME NEW p \in Processes, NEW pc \in {"fetched", "saving"}, Only(p),
             process'[p].pc = pc, UNCHANGED <<updates, offset, row, post, lease, credit>>
      PROVE  PayInv'
  <2>1. process'[p].pc \notin {"submitting", "refused"} \cup JobPcs
    BY <1>8, Zenon DEF JobPcs
  <2>2. \A q \in Processes \ {p} : lease'["media"] = q => lease["media"] = q
    BY <1>8, Zenon
  <2>3. QED
    BY <1>4, <1>8, <2>1, <2>2, Zenon
<1>9. ASSUME NEW p \in Processes, Fetch(p) PROVE PayInv'
  BY <1>8, <1>9, FetchEffect, Zenon
<1>10. ASSUME NEW p \in Processes, SaveOpens(p) PROVE PayInv'
  BY <1>8, <1>10, SaveOpensEffect, Zenon
<1>11. ASSUME NEW p \in Processes, SaveCommits(p) PROVE PayInv'
  BY <1>11, SaveCommitsKeepsStages, SaveCommitsKeepsJobs, SaveCommitsKeepsCredit DEF PayInv
<1>12. ASSUME NEW p \in Processes, NEW m \in Messages, PickJob(p, m) PROVE PayInv'
  <2>1. /\ Only(p) /\ process'[p].pc = "looking"
        /\ UNCHANGED <<updates, offset, row, post, credit>>
    BY <1>12, PickJobEffect, Zenon
  <2>2. process'[p].pc \notin {"submitting", "refused"}
    BY <2>1, Zenon
  <2>3. CreditIsKept'
    BY <2>1, <2>2, RestingKeepsCredit, Zenon
  <2>4. QED
    BY <1>12, <2>1, <2>3, PickJobKeepsJobs, StagesUnchanged DEF PayInv
<1>13. ASSUME NEW p \in Processes,
             \/ LookUp(p) \/ ResumeRemoval(p) \/ SubmitAccepted(p) \/ SubmitFails(p)
             \/ BeforeUpload(p) \/ Upload(p) \/ Fails(p)
             \/ BeginSubmission(p) \/ RecordRequest(p) \/ RecordRefusal(p) \/ OnUploaded(p)
             \/ StillInQueue(p) \/ RecordFailure(p)
      PROVE  PayInv'
  BY <1>13, JobKeepsStages, JobKeepsJobs, JobKeepsCredit DEF PayInv
<1>14. ASSUME NEW p \in Processes, Publish(p) PROVE PayInv'
  BY <1>14, PublishKeepsStages, PublishKeepsJobs, PublishKeepsCredit DEF PayInv
<1>15. ASSUME NEW work \in {"ingest", "media"}, LeaseLapses(work) PROVE PayInv'
  <2>1. /\ lease'[work] = Nobody
        /\ \A any \in {"ingest", "media"} \ {work} : lease'[any] = lease[any]
        /\ UNCHANGED <<updates, offset, row, post, credit, process>>
    BY <1>15, LeaseLapsesEffect, Zenon
  <2>2. \A q \in Processes : lease'["media"] = q => lease["media"] = q
    <3>1. lease'["media"] = Nobody \/ lease'["media"] = lease["media"]
      BY <2>1
    <3>2. QED
      BY <3>1, ProcessAssumption
  <2>3. QED
    BY <1>1, <2>1, <2>2
<1>16. ASSUME NEW m \in Messages, BecomesDue(m) PROVE PayInv'
  <2>1. /\ Stays(m)
        /\ RowIs(m, row[m].stage, row[m].request, row[m].uncertain, row[m].media)
        /\ UNCHANGED <<updates, offset, post, lease, process, credit>>
    BY <1>16, BecomesDueEffect, Zenon
  <2>2. KeepsRows
    BY <2>1, RowKeepsUpdate, Zenon
  <2>3. /\ \A n \in Messages \ {m} : row'[n] = row[n]
        /\ row'[m].stage = row[m].stage /\ row'[m].request = row[m].request
        /\ row'[m].media = row[m].media /\ row'[m].uncertain = row[m].uncertain
    BY <2>1, Zenon DEF RowIs
  <2>4. /\ \A n \in Messages : Stays(n) /\ Unsubmitted(row'[n]) => Unsubmitted(row[n])
        /\ \A n \in Messages : Stays(n) => /\ row'[n].stage = row[n].stage
                                           /\ row'[n].request = row[n].request
                                           /\ row'[n].media = row[n].media
    BY <2>3, Zenon DEF Unsubmitted
  <2>5. StagesTell'
    BY <2>3, StagesKept, Zenon
  <2>6. JobsAgree'
    BY <2>1, <2>2, <2>4, StandingKeepsJobs, Zenon
  <2>7. CreditIsKept'
    BY <2>1, <2>2, <2>4, StandingKeepsCredit, Zenon
  <2>8. QED
    BY <2>5, <2>6, <2>7 DEF PayInv
<1>17. ASSUME NEW m \in Messages, NEW new \in BOOLEAN, AdminRetry(m, new) PROVE PayInv'
  <2>1. /\ lease["media"] = Nobody /\ Stays(m) /\ UNCHANGED <<post, lease, process>>
        /\ \E stage \in Stages, request \in BOOLEAN :
              RowIs(m, stage, request, FALSE, row[m].media)
    BY <1>17, AdminRetryEffect, Zenon
  <2>2. KeepsRows
    BY <2>1, RowKeepsUpdate, Zenon
  <2>3. \A q \in Processes : lease'["media"] # q
    BY <2>1, ProcessAssumption
  <2>4. JobsAgree'
    BY <2>1, <2>2, <2>3, StandingKeepsJobs, Zenon
  <2>5. QED
    BY <1>17, <2>4, AdminRetryKeepsStages, AdminRetryKeepsCredit DEF PayInv
<1>18. QED
  BY <1>2, <1>3, <1>6, <1>7, <1>9, <1>10, <1>11, <1>12, <1>13, <1>14, <1>15, <1>16, <1>17 DEF Next

(***************************************************************************)
(* The theorems.                                                           *)
(***************************************************************************)
IInv == Shape /\ ChannelInv /\ FileInv /\ PayInv

\* The four layers together hold of every reachable state, whatever the channel
\* posts and whichever process crashes or loses a lease.
THEOREM Inductive == Spec => []IInv
<1>1. Init => IInv
  BY ShapeInit, ChannelInit, FilesInit, PayInit DEF IInv
<1>2. IInv /\ [Next]_vars => IInv'
  <2>1. SUFFICES ASSUME IInv, [Next]_vars PROVE IInv'
    OBVIOUS
  <2>2. Shape /\ ChannelInv /\ FileInv /\ PayInv
    BY <2>1 DEF IInv
  <2>3. Shape'
    BY <2>1, <2>2, ShapeStep
  <2>4. ChannelInv'
    BY <2>1, <2>2, ChannelStep
  <2>5. FileInv'
    BY <2>1, <2>2, FilesStep
  <2>6. PayInv'
    BY <2>1, <2>2, <2>3, PayStep
  <2>7. QED
    BY <2>3, <2>4, <2>5, <2>6 DEF IInv
<1>3. QED
  BY <1>1, <1>2, PTL DEF Spec

\* Rows, posts, processes and the channel keep the shapes the tables and the worker
\* give them.
THEOREM TypeCorrect == Spec => []TypeOK
<1>1. IInv => TypeOK
  BY DEF IInv, Shape
<1>2. QED
  BY <1>1, Inductive, PTL

\* resumableBackgroundRemoval pays for a photo once, and once more only for each time
\* an administrator consents to it.
THEOREM PaidAtMostOnce == Spec => []PaidOnce
<1>1. IInv => PaidOnce
  <2>1. SUFFICES ASSUME IInv, NEW j \in Updates PROVE credit[j] >= 0
    BY Zenon DEF PaidOnce
  <2>2. credit[j] >= Cardinality(Submitters(j)) + (IF MayPay(j) THEN 1 ELSE 0)
    BY <2>1, Zenon DEF IInv, PayInv, CreditIsKept
  <2>3. credit[j] \in Int
    BY <2>1 DEF IInv, Shape, TypeOK
  <2>4. PICK a \in {0, 1} : a = (IF MayPay(j) THEN 1 ELSE 0)
    BY Zenon
  <2>5. QED
    BY <2>2, <2>3, <2>4, SubmittersFinite
<1>2. QED
  BY <1>1, Inductive, PTL

\* No clean-up of a discarded, skipped or retired photo removes the file a public
\* post shows.
THEOREM PublishedPhotosAreStored == Spec => []PublishedPhotoIsStored
<1>1. IInv => PublishedPhotoIsStored
  BY DEF IInv, FileInv
<1>2. QED
  BY <1>1, Inductive, PTL

\* What pollUpdates acknowledged to Telegram is in the table of pending messages, or
\* its message is public.
THEOREM NothingAcknowledgedIsLost == Spec => []AcknowledgedIsHeld
<1>1. IInv => AcknowledgedIsHeld
  BY DEF IInv, ChannelInv
<1>2. QED
  BY <1>1, Inductive, PTL

\* Neither a late save of a former lease holder sets updateOffset back, nor a late
\* publication a post.
THEOREM NothingRegresses == Spec => NeverRegresses
<1>1. ASSUME IInv, Next
      PROVE  /\ offset' >= offset
             /\ \A m \in Messages : post'[m].update >= post[m].update
  <2>1. Shape /\ ChannelInv
    BY <1>1 DEF IInv
  <2>2. offset \in Nat /\ \A m \in Messages : post[m].update \in Nat
    BY <2>1, Typing, BoundAssumption, SMT DEF Post
  <2>3. ASSUME NEW p \in Processes, SaveCommits(p)
        PROVE  offset' >= offset /\ UNCHANGED post
    <3>1. /\ At(p, "saving") /\ offset' = process[p].update + 1 /\ UNCHANGED post
      BY <2>1, <2>3, SaveCommitsEffect, Zenon
    <3>2. process[p].update = offset
      BY <2>1, <3>1, Zenon DEF ChannelInv, SaversHold, At
    <3>3. QED
      BY <2>2, <3>1, <3>2
  <2>4. ASSUME NEW p \in Processes, Publish(p)
        PROVE  /\ UNCHANGED offset
               /\ \A m \in Messages : post'[m].update >= post[m].update
    <3>1. At(p, "ready") /\ Owned(p) /\ InJob(p) /\ UNCHANGED offset
      BY <2>1, <2>4, PublishEffect, Zenon DEF At, InJob, JobPcs
    <3>2. PICK m \in Messages : m = Message(p)
      BY <2>1, <3>1, OwnedRow, Zenon
    <3>3. /\ Stays(m) /\ post'[m].update = row[m].update
          /\ \A n \in Messages \ {m} : post'[n] = post[n]
      BY <2>1, <2>4, <3>1, <3>2, PublishEffect, OwnedRow, Zenon
    <3>4. row[m].update > post[m].update /\ row[m].update \in Nat
      <4>1. row[m].update > post[m].update
        BY <2>1, <3>3, Zenon DEF ChannelInv, RowsTell
      <4>2. row[m].update \in Nat
        BY <2>1, Typing, BoundAssumption, SMT DEF Row
      <4>3. QED
        BY <4>1, <4>2
    <3>5. ASSUME NEW n \in Messages PROVE post'[n].update >= post[n].update
      <4>1. CASE n = m
        BY <2>2, <3>3, <3>4, <4>1
      <4>2. CASE n # m
        <5>1. post'[n].update = post[n].update
          BY <3>3, <4>2, Zenon
        <5>2. QED
          BY <2>2, <5>1
      <4>3. QED
        BY <4>1, <4>2
    <3>6. QED
      BY <3>1, <3>5
  <2>5. ASSUME NEW p \in Processes,
               \/ BeginPoll(p) \/ EndPoll(p) \/ BeginMedia(p)
               \/ EndMedia(p) \/ BreaksOff(p) \/ Crash(p)
               \/ CleanDiscarded(p) \/ SkipLost(p) \/ RemoveRetired(p)
               \/ Fetch(p) \/ SaveOpens(p)
               \/ LookUp(p) \/ ResumeRemoval(p) \/ SubmitAccepted(p) \/ SubmitFails(p)
               \/ BeforeUpload(p) \/ Upload(p) \/ Fails(p)
               \/ BeginSubmission(p) \/ RecordRequest(p) \/ RecordRefusal(p)
               \/ OnUploaded(p) \/ StillInQueue(p) \/ RecordFailure(p)
        PROVE  UNCHANGED <<offset, post>>
    BY <2>1, <2>5, IdlingEffect, RemovingEffect, FetchEffect, SaveOpensEffect, JobMoves, Zenon
  <2>6. \/ \E p \in Processes :
              \/ BeginPoll(p) \/ EndPoll(p) \/ BeginMedia(p)
              \/ EndMedia(p) \/ BreaksOff(p) \/ Crash(p)
              \/ CleanDiscarded(p) \/ SkipLost(p) \/ RemoveRetired(p)
              \/ Fetch(p) \/ SaveOpens(p)
              \/ LookUp(p) \/ ResumeRemoval(p) \/ SubmitAccepted(p) \/ SubmitFails(p)
              \/ BeforeUpload(p) \/ Upload(p) \/ Fails(p)
              \/ BeginSubmission(p) \/ RecordRequest(p) \/ RecordRefusal(p)
              \/ OnUploaded(p) \/ StillInQueue(p) \/ RecordFailure(p)
        \/ \E p \in Processes : SaveCommits(p)
        \/ \E p \in Processes : Publish(p)
        \/ \E m \in Messages : ChannelPost(m)
        \/ \E p \in Processes, m \in Messages : PickJob(p, m)
        \/ \E work \in {"ingest", "media"} : LeaseLapses(work)
        \/ \E m \in Messages : BecomesDue(m)
        \/ \E m \in Messages, new \in BOOLEAN : AdminRetry(m, new)
    BY <1>1, Zenon DEF Next
  <2>7. ASSUME UNCHANGED <<offset, post>>
        PROVE  /\ offset' >= offset
               /\ \A m \in Messages : post'[m].update >= post[m].update
    BY <2>2, <2>7
  <2>8. CASE \E m \in Messages : ChannelPost(m)
    BY <2>1, <2>7, <2>8, ChannelPostEffect, Zenon
  <2>9. CASE \E p \in Processes, m \in Messages : PickJob(p, m)
    BY <2>1, <2>7, <2>9, PickJobEffect, Zenon
  <2>10. CASE \E work \in {"ingest", "media"} : LeaseLapses(work)
    BY <2>1, <2>7, <2>10, LeaseLapsesEffect, Zenon
  <2>11. CASE \E m \in Messages : BecomesDue(m)
    BY <2>1, <2>7, <2>11, BecomesDueEffect, Zenon
  <2>12. CASE \E m \in Messages, new \in BOOLEAN : AdminRetry(m, new)
    BY <2>1, <2>7, <2>12, AdminRetryEffect, Zenon
  <2>13. CASE \E p \in Processes : SaveCommits(p)
    <3>1. offset' >= offset /\ UNCHANGED post
      BY <2>3, <2>13
    <3>2. QED
      BY <2>2, <3>1
  <2>14. CASE \E p \in Processes : Publish(p)
    <3>1. /\ UNCHANGED offset
          /\ \A m \in Messages : post'[m].update >= post[m].update
      BY <2>4, <2>14
    <3>2. QED
      BY <2>2, <3>1
  <2>15. QED
    BY <2>5, <2>6, <2>7, <2>8, <2>9, <2>10, <2>11, <2>12, <2>13, <2>14
<1>2. IInv /\ [Next]_vars =>
         [/\ offset' >= offset
          /\ \A m \in Messages : post'[m].update >= post[m].update]_vars
  BY <1>1
<1>3. QED
  BY <1>2, Inductive, PTL DEF Spec, NeverRegresses

(***************************************************************************)
(* The refinement of ChannelMirror: what each step is there.               *)
(***************************************************************************)
MirrorStep == Mirror!Next \/ UNCHANGED Mirror!vars

\* A step of the worker that changes no update, post, file or credit is not seen.
LEMMA NotSeen ==
  ASSUME UNCHANGED <<updates, offset, post, files, credit>>,
         \A m \in Messages : row'[m].update = row[m].update
  PROVE  MirrorStep
<1>1. [m \in Messages |-> row[m].update]' = [m \in Messages |-> row[m].update]
  BY Zenon
<1>2. UNCHANGED Mirror!vars
  BY <1>1, Zenon DEF Mirror!vars
<1>3. QED
  BY <1>2, Zenon DEF MirrorStep

\* The row that changes keeps its update.
LEMMA RowNotSeen ==
  ASSUME NEW m \in Messages, NEW stage, NEW request, NEW uncertain, NEW media,
         RowIs(m, stage, request, uncertain, media),
         UNCHANGED <<updates, offset, post, files, credit>>
  PROVE  MirrorStep
<1>1. \A n \in Messages : row'[n].update = row[n].update
  BY Zenon DEF RowIs
<1>2. QED
  BY <1>1, NotSeen, Zenon

LEMMA PostIsSeen ==
  ASSUME IInv, NEW m \in Messages, ChannelPost(m)
  PROVE  MirrorStep
<1>1. Shape /\ PhotosStay
  BY DEF IInv, ChannelInv
<1>2. PICK photo \in {0, Len(updates) + 1} \cup {updates[k].photo : k \in Newest(m)} :
         updates' = Append(updates, [message |-> m, photo |-> photo])
  BY Zenon DEF ChannelPost
<1>3. photo \in 0..(Len(updates) + 1)
  <2>1. CASE photo \in {0, Len(updates) + 1}
    BY <1>1, <2>1, Typing
  <2>2. ASSUME NEW k \in Newest(m), photo = updates[k].photo
        PROVE  photo \in 0..(Len(updates) + 1)
    <3>1. k \in 1..Len(updates)
      BY <1>1, <2>2, Typing, Zenon DEF Newest
    <3>2. updates[k].photo # 0 => updates[k].photo <= k
      BY <1>1, <3>1, Zenon DEF PhotosStay
    <3>3. QED
      BY <1>1, <2>2, <3>1, <3>2, Typing, BoundAssumption
  <2>3. QED
    BY <2>1, <2>2
<1>4. UNCHANGED <<offset, row, post, files, credit>>
  BY Zenon DEF ChannelPost
<1>5. Mirror!ChannelPost(m)
  BY <1>2, <1>3, <1>4, Zenon DEF Mirror!ChannelPost
<1>6. QED
  BY <1>5, Zenon DEF MirrorStep, Mirror!Next

\* An update that is not written is of a message published since its row was read.
LEMMA SaveIsSeen ==
  ASSUME IInv, NEW p \in Processes, SaveCommits(p)
  PROVE  MirrorStep
<1>1. Shape /\ ChannelInv
  BY DEF IInv
<1>2. PICK m \in Messages : m = Saved(p)
  BY <1>1, SaveCommitsEffect, Zenon
<1>3. /\ At(p, "saving") /\ process[p].update \in 1..Len(updates)
      /\ offset' = process[p].update + 1
      /\ row' \in [Messages -> Row] /\ \A n \in Messages \ {m} : row'[n] = row[n]
      /\ UNCHANGED <<updates, post, files, credit>>
  <2>1. UNCHANGED <<updates, post, files, credit>>
    BY Zenon DEF SaveCommits, channel
  <2>2. QED
    BY <1>1, <1>2, <2>1, SaveCommitsEffect, Zenon
<1>4. process[p].update = offset
  BY <1>1, <1>3, Zenon DEF ChannelInv, SaversHold, At
<1>5. m = updates[offset].message /\ offset <= Len(updates) /\ offset' = offset + 1
  <2>1. offset <= Len(updates)
    BY <1>1, <1>3, <1>4, Typing
  <2>2. QED
    BY <1>2, <1>3, <1>4, <2>1, Zenon DEF Saved
<1>6. \/ row'[m].update = offset
      \/ row[m].update = 0 /\ post[m].update # 0 /\ UNCHANGED row
  <2>1. CASE row'[m].update = process[p].update
    BY <1>4, <2>1, Zenon
  <2>2. CASE UNCHANGED row /\ process[p].seen /\ ~Stays(m)
    <3>1. post[m].update # 0
      BY <1>1, <1>2, <1>3, <2>2, Zenon DEF ChannelInv, SeenIsHeld, Saved
    <3>2. QED
      BY <2>2, <3>1, Zenon DEF Stays
  <2>3. ASSUME UNCHANGED row, ~(row[m].update < process[p].update) PROVE FALSE
    <3>1. row[m].update \in Nat /\ offset \in Nat /\ offset >= 1
      BY <1>1, Typing, BoundAssumption, SMT DEF Row
    <3>2. Stays(m) => row[m].update < offset
      BY <1>1, Zenon DEF ChannelInv, RowsTell, IsOf
    <3>3. QED
      BY <1>4, <2>3, <3>1, <3>2 DEF Stays
  <2>4. QED
    BY <1>1, <1>2, <2>1, <2>2, <2>3, SaveCommitsEffect, Zenon
<1>7. \/ [n \in Messages |-> row[n].update]'
            = [[n \in Messages |-> row[n].update] EXCEPT ![m] = offset]
      \/ /\ [n \in Messages |-> row[n].update][m] = 0 /\ post[m].update # 0
         /\ UNCHANGED [n \in Messages |-> row[n].update]
  <2>1. CASE row'[m].update = offset
    BY <1>3, <2>1
  <2>2. CASE row[m].update = 0 /\ post[m].update # 0 /\ UNCHANGED row
    BY <2>2, Zenon
  <2>3. QED
    BY <1>6, <2>1, <2>2
<1>8. Mirror!Read
  BY <1>3, <1>5, <1>7, Zenon DEF Mirror!Read
<1>9. QED
  BY <1>8, Zenon DEF MirrorStep, Mirror!Next

LEMMA PublicationIsSeen ==
  ASSUME IInv, NEW p \in Processes, Publish(p)
  PROVE  MirrorStep
<1>1. Shape /\ ChannelInv /\ FileInv
  BY DEF IInv
<1>2. At(p, "ready") /\ Owned(p) /\ InJob(p)
  BY <1>1, PublishEffect, Zenon DEF At, InJob, JobPcs
<1>3. PICK m \in Messages : m = Message(p)
  BY <1>1, <1>2, OwnedRow, Zenon
<1>4. /\ post' = [post EXCEPT ![m] = [update |-> row[m].update, photo |-> row[m].photo]]
      /\ row' = [row EXCEPT ![m] = NoRow]
      /\ UNCHANGED <<updates, offset, files, credit>>
  BY <1>3, Zenon DEF Publish, RowBecomes, Message, channel
<1>5. Stays(m) /\ row[m].photo = Photo(p) /\ row \in [Messages -> Row]
  BY <1>1, <1>2, <1>3, OwnedRow, Zenon DEF Shape, TypeOK
<1>6. updates[row[m].update].photo = row[m].photo
  BY <1>1, <1>5, Zenon DEF ChannelInv, RowsTell, IsOf
<1>7. row[m].photo \in files \cup {0}
  <2>1. row[m].photo # 0 => row[m].photo \in files
    BY <1>1, <1>2, <1>5, Zenon DEF FileInv, UploadIsStored, OwnsPhoto, At
  <2>2. QED
    BY <2>1
<1>8. [n \in Messages |-> row[n].update]'
         = [[n \in Messages |-> row[n].update] EXCEPT ![m] = 0]
  <2>1. row'[m] = NoRow /\ \A n \in Messages \ {m} : row'[n] = row[n]
    BY <1>4, <1>5
  <2>2. QED
    BY <2>1, NoRowTyped
<1>9. [n \in Messages |-> row[n].update][m] = row[m].update /\ row[m].update # 0
  BY <1>5, Zenon DEF Stays
<1>10. Mirror!Show(m)
  BY <1>4, <1>6, <1>7, <1>8, <1>9, Zenon DEF Mirror!Show
<1>11. QED
  BY <1>10, Zenon DEF MirrorStep, Mirror!Next

LEMMA UploadIsSeen ==
  ASSUME IInv, NEW p \in Processes, Upload(p)
  PROVE  MirrorStep
<1>1. Shape /\ ChannelInv /\ At(p, "uploading") /\ InJob(p)
  BY UploadEffect, Zenon DEF IInv, Proceeds
<1>2. Photo(p) # 0
  BY <1>1, Zenon DEF Shape, JobsAreWhole, PhotoPcs, JobPcs, At
<1>3. Photo(p) < offset
  BY <1>1, <1>2, Zenon DEF ChannelInv, PhotosAreKnown
<1>4. Photo(p) \in 1..MaxUpdates
  BY <1>1, <1>2, Typing, BoundAssumption, SMT DEF Process, Photos, Photo
<1>5. files' = files \cup {Photo(p)} /\ UNCHANGED <<updates, offset, row, post, credit>>
  BY Zenon DEF Upload, Photo, channel
<1>6. Mirror!Store(Photo(p))
  BY <1>3, <1>5, Zenon DEF Mirror!Store
<1>7. QED
  BY <1>4, <1>6, Zenon DEF MirrorStep, Mirror!Next

\* A photo that is removed is past, and no post shows it.
LEMMA RemovalIsSeen ==
  ASSUME NEW k \in 1..MaxUpdates, Past(k), \A m \in Messages : post[m].photo # k,
         files' = files \ {k}, UNCHANGED <<updates, offset, row, post, credit>>
  PROVE  MirrorStep
<1>1. Mirror!Replaced(k)
  BY Zenon DEF Past, Mirror!Replaced
<1>2. Mirror!Remove(k)
  BY <1>1, Zenon DEF Mirror!Remove
<1>3. QED
  BY <1>2, Zenon DEF MirrorStep, Mirror!Next

\* What is discarded or retired is a replaced photo.
LEMMA CleanUpIsSeen ==
  ASSUME IInv, NEW p \in Processes, CleanDiscarded(p) \/ RemoveRetired(p)
  PROVE  MirrorStep
<1>1. Shape /\ ChannelInv /\ process[p].pc \in {"discarding", "retiring"}
  BY Zenon DEF IInv, CleanDiscarded, RemoveRetired, At
<1>2. Past(Photo(p)) /\ Photo(p) # 0
  BY <1>1, Zenon DEF ChannelInv, GoneIsPast, Shape, JobsAreWhole, PhotoPcs
<1>3. Photo(p) \in 1..MaxUpdates
  BY <1>1, <1>2, Typing, BoundAssumption, SMT DEF Process, Photos, Photo
<1>4. UNCHANGED <<updates, offset, row, post, credit>>
  BY Zenon DEF CleanDiscarded, RemoveRetired, channel
<1>5. \/ UNCHANGED files
      \/ files' = files \ {Photo(p)} /\ \A m \in Messages : post[m].photo # Photo(p)
  BY Zenon DEF CleanDiscarded, RemoveRetired, Unused, Photo
<1>6. QED
  BY <1>2, <1>3, <1>4, <1>5, RemovalIsSeen, NotSeen, Zenon

\* The photo of a job whose message changed meanwhile is a replaced one.
LEMMA LossIsSeen ==
  ASSUME IInv, NEW p \in Processes, SkipLost(p)
  PROVE  MirrorStep
<1>1. Shape /\ ChannelInv
  BY DEF IInv
<1>2. ~Owned(p) /\ UNCHANGED <<updates, offset, row, post, credit>>
  BY Zenon DEF SkipLost, channel
<1>3. CASE UNCHANGED files
  BY <1>2, <1>3, NotSeen, Zenon
<1>4. CASE At(p, "uploaded") /\ Leases("media", p) /\ Unused(Photo(p))
           /\ files' = files \ {Photo(p)}
  <2>1. PICK m \in Messages : m = Message(p)
    BY <1>1, <1>4, Zenon DEF Shape, JobsAreWhole, InJob, JobPcs, At
  <2>2. Stays(m) /\ row[m].photo # Photo(p) /\ Photo(p) # 0
    BY <1>1, <1>2, <1>4, <2>1, Zenon DEF Shape, HeldRowIsLive, JobsAreWhole, PhotoPcs, InJob,
       JobPcs, At, Owned, Message, Photo
  <2>3. Photo(p) < offset /\ updates[Photo(p)].message = m
    BY <1>1, <1>4, <2>1, <2>2, Zenon DEF ChannelInv, PhotosAreKnown, InJob, JobPcs, At
  <2>4. Photo(p) \in 1..MaxUpdates /\ offset \in Nat /\ row[m].update \in Nat
    BY <1>1, <2>2, Typing, BoundAssumption, SMT DEF Process, Photos, Photo, Row
  <2>5. /\ row[m].update < offset /\ updates[row[m].update].message = m
        /\ updates[row[m].update].photo = row[m].photo
        /\ \A u \in 1..(offset - 1) : updates[u].message = m => u <= row[m].update
    BY <1>1, <2>2, Zenon DEF ChannelInv, RowsTell, IsOf
  <2>6. row[m].update \in Photo(p)..(offset - 1)
    BY <2>3, <2>4, <2>5
  <2>7. Past(Photo(p))
    BY <2>2, <2>3, <2>5, <2>6, Zenon DEF Past
  <2>8. \A n \in Messages : post[n].photo # Photo(p)
    BY <1>4, Zenon DEF Unused
  <2>9. QED
    BY <1>2, <1>4, <2>4, <2>7, <2>8, RemovalIsSeen, Zenon
<1>5. QED
  BY <1>3, <1>4, Zenon DEF SkipLost, Photo

\* A submission that is under way is paid for.
LEMMA PaymentIsSeen ==
  ASSUME IInv, NEW p \in Processes, SubmitAccepted(p)
  PROVE  MirrorStep
<1>1. Shape /\ PayInv /\ At(p, "submitting")
  BY Zenon DEF IInv, SubmitAccepted
<1>2. Photo(p) # 0
  BY <1>1, Zenon DEF Shape, JobsAreWhole, PhotoPcs, JobPcs, At
<1>3. Photo(p) \in 1..MaxUpdates
  BY <1>1, <1>2, Typing, BoundAssumption, SMT DEF Process, Photos, Photo
<1>4. credit[Photo(p)] > 0
  <2>1. p \in Submitters(Photo(p))
    BY <1>1, Zenon DEF Submitters, At
  <2>2. Cardinality(Submitters(Photo(p))) \in Nat /\ Cardinality(Submitters(Photo(p))) >= 1
    <3>1. /\ IsFiniteSet(Submitters(Photo(p)) \ {p})
          /\ Cardinality(Submitters(Photo(p)) \ {p}) = Cardinality(Submitters(Photo(p))) - 1
      BY <2>1, SubmittersFinite, FS_RemoveElement
    <3>2. Cardinality(Submitters(Photo(p)) \ {p}) \in Nat
      BY <3>1, FS_CardinalityType
    <3>3. QED
      BY <3>1, <3>2, SubmittersFinite
  <2>3. credit[Photo(p)] >= Cardinality(Submitters(Photo(p)))
                              + (IF MayPay(Photo(p)) THEN 1 ELSE 0)
    BY <1>1, <1>3, Zenon DEF PayInv, CreditIsKept, Updates
  <2>4. PICK a \in {0, 1} : a = (IF MayPay(Photo(p)) THEN 1 ELSE 0)
    BY Zenon
  <2>5. credit[Photo(p)] \in Int
    BY <1>1, <1>3 DEF Shape, TypeOK, Updates
  <2>6. QED
    BY <2>2, <2>3, <2>4, <2>5
<1>5. /\ credit' = [credit EXCEPT ![Photo(p)] = @ - 1]
      /\ UNCHANGED <<updates, offset, row, post, files>>
  BY Zenon DEF SubmitAccepted, Photo, channel
<1>6. Mirror!Pay(Photo(p))
  BY <1>4, <1>5, Zenon DEF Mirror!Pay
<1>7. QED
  BY <1>3, <1>6, Zenon DEF MirrorStep, Mirror!Next

\* Who asks for new processing of what may have been paid for agrees to pay again.
LEMMA RetryIsSeen ==
  ASSUME IInv, NEW m \in Messages, NEW new \in BOOLEAN, AdminRetry(m, new)
  PROVE  MirrorStep
<1>1. Shape /\ ChannelInv
  BY DEF IInv
<1>2. Stays(m) /\ UNCHANGED <<updates, offset, post, files>>
  BY <1>1, AdminRetryEffect, Zenon
<1>3. \A n \in Messages : row'[n].update = row[n].update
  BY <1>1, AdminRetryEffect, Zenon DEF RowIs
<1>4. CASE UNCHANGED credit
  BY <1>2, <1>3, <1>4, NotSeen, Zenon
<1>5. CASE credit' = [credit EXCEPT ![row[m].photo] = @ + 1]
  <2>1. updates[row[m].update].photo = row[m].photo /\ row[m].update # 0
    BY <1>1, <1>2, Zenon DEF ChannelInv, RowsTell, IsOf, Stays
  <2>2. [n \in Messages |-> row[n].update]' = [n \in Messages |-> row[n].update]
    BY <1>3, Zenon
  <2>3. [n \in Messages |-> row[n].update][m] = row[m].update
    BY Zenon
  <2>4. Mirror!Consent(m)
    BY <1>2, <1>5, <2>1, <2>2, <2>3, Zenon DEF Mirror!Consent
  <2>5. QED
    BY <2>4, Zenon DEF MirrorStep, Mirror!Next
<1>6. QED
  BY <1>1, <1>4, <1>5, AdminRetryEffect, Zenon

\* The other steps of a job.
LEMMA WorkIsNotSeen ==
  ASSUME Shape, NEW p \in Processes,
         \/ LookUp(p) \/ ResumeRemoval(p) \/ SubmitFails(p) \/ BeforeUpload(p) \/ Fails(p)
         \/ BeginSubmission(p) \/ RecordRequest(p) \/ RecordRefusal(p)
         \/ OnUploaded(p) \/ StillInQueue(p) \/ RecordFailure(p)
  PROVE  MirrorStep
<1>1. CASE LookUp(p) \/ ResumeRemoval(p) \/ SubmitFails(p) \/ BeforeUpload(p) \/ Fails(p)
  <2>1. UNCHANGED <<updates, offset, row, post, files, credit>>
    BY <1>1, Zenon DEF LookUp, ResumeRemoval, SubmitFails, BeforeUpload, Fails, channel
  <2>2. QED
    BY <2>1, NotSeen, Zenon
<1>2. CASE BeginSubmission(p) \/ RecordRequest(p)
  <2>1. UNCHANGED <<updates, offset, post, files, credit>>
    BY <1>2, Zenon DEF BeginSubmission, RecordRequest, channel
  <2>2. CASE UNCHANGED row
    BY <2>1, <2>2, NotSeen, Zenon
  <2>3. CASE ~UNCHANGED row
    <3>1. /\ Owned(p) /\ InJob(p)
          /\ \E stage, request : RowIs(Message(p), stage, request, row[Message(p)].uncertain,
                                       row[Message(p)].media)
      BY <1>2, <2>3, BeginSubmissionEffect, RecordRequestEffect, Zenon DEF InJob, JobPcs, At
    <3>2. Message(p) \in Messages
      BY <3>1, OwnedRow, Zenon
    <3>3. QED
      BY <2>1, <3>1, <3>2, RowNotSeen, Zenon
  <2>4. QED
    BY <2>2, <2>3
<1>3. CASE RecordRefusal(p) \/ OnUploaded(p) \/ StillInQueue(p) \/ RecordFailure(p)
  <2>1. UNCHANGED <<updates, offset, post, files, credit>>
    BY <1>3, Zenon DEF RecordRefusal, OnUploaded, StillInQueue, RecordFailure, channel
  <2>2. /\ Owned(p) /\ InJob(p)
        /\ \E stage, request, uncertain, media :
              RowIs(Message(p), stage, request, uncertain, media)
    BY <1>3, RecordRefusalEffect, OnUploadedEffect, StillInQueueEffect, RecordFailureEffect,
       Zenon DEF InJob, JobPcs, At
  <2>3. Message(p) \in Messages
    BY <2>2, OwnedRow, Zenon
  <2>4. QED
    BY <2>1, <2>2, <2>3, RowNotSeen, Zenon
<1>4. QED
  BY <1>1, <1>2, <1>3

LEMMA MirrorInit == Init => Mirror!Init
<1>1. SUFFICES ASSUME Init PROVE Mirror!Init
  OBVIOUS
<1>2. [m \in Messages |-> row[m].update] = [m \in Messages |-> 0]
  <2>1. \A m \in Messages : row[m].update = 0
    BY <1>1, NoRowTyped DEF Init
  <2>2. QED
    BY <2>1, Zenon
<1>3. QED
  BY <1>1, <1>2, Zenon DEF Init, Mirror!Init, NoPost, Updates

LEMMA MirrorNext ==
  ASSUME IInv, Next
  PROVE  MirrorStep
<1>1. Shape
  BY DEF IInv
<1>2. CASE \E m \in Messages : ChannelPost(m)
  BY <1>2, PostIsSeen, Zenon
<1>3. CASE \E p \in Processes : SaveCommits(p) \/ Publish(p) \/ Upload(p)
  BY <1>3, SaveIsSeen, PublicationIsSeen, UploadIsSeen, Zenon
<1>4. CASE \E p \in Processes : CleanDiscarded(p) \/ RemoveRetired(p) \/ SkipLost(p)
  BY <1>4, CleanUpIsSeen, LossIsSeen, Zenon
<1>5. CASE \E p \in Processes : SubmitAccepted(p)
  BY <1>5, PaymentIsSeen, Zenon
<1>6. CASE \E m \in Messages, new \in BOOLEAN : AdminRetry(m, new)
  BY <1>6, RetryIsSeen, Zenon
<1>7. CASE \E p \in Processes :
              \/ LookUp(p) \/ ResumeRemoval(p) \/ SubmitFails(p) \/ BeforeUpload(p) \/ Fails(p)
              \/ BeginSubmission(p) \/ RecordRequest(p) \/ RecordRefusal(p)
              \/ OnUploaded(p) \/ StillInQueue(p) \/ RecordFailure(p)
  BY <1>1, <1>7, WorkIsNotSeen, Zenon
<1>8. CASE \/ \E p \in Processes :
                 \/ BeginPoll(p) \/ EndPoll(p) \/ BeginMedia(p)
                 \/ EndMedia(p) \/ BreaksOff(p) \/ Crash(p) \/ Fetch(p) \/ SaveOpens(p)
           \/ \E p \in Processes, m \in Messages : PickJob(p, m)
           \/ \E work \in {"ingest", "media"} : LeaseLapses(work)
  <2>1. UNCHANGED <<updates, offset, row, post, files, credit>>
    BY <1>1, <1>8, IdlingEffect, FetchEffect, SaveOpensEffect, PickJobEffect, LeaseLapsesEffect,
       Zenon
  <2>2. QED
    BY <2>1, NotSeen, Zenon
<1>9. CASE \E m \in Messages : BecomesDue(m)
  BY <1>1, <1>9, BecomesDueEffect, RowNotSeen, Zenon
<1>10. QED
  BY <1>2, <1>3, <1>4, <1>5, <1>6, <1>7, <1>8, <1>9, Zenon DEF Next

\* However many processes poll and prepare photos, whichever of them die, lose a lease
\* or are answered late, what the site holds, shows, stores and pays for is what one
\* reader of the channel would: pollUpdates, runTelegramMediaWorker and
\* retryTelegramProcessing implement ChannelMirror.
THEOREM ChannelIsMirrored == Spec => ImplementsMirror
<1>1. Init => Mirror!Init
  BY MirrorInit
<1>2. IInv /\ [Next]_vars => [Mirror!Next]_(Mirror!vars)
  <2>1. SUFFICES ASSUME IInv, [Next]_vars PROVE MirrorStep
    BY DEF MirrorStep
  <2>2. CASE Next
    BY <2>1, <2>2, MirrorNext
  <2>3. CASE UNCHANGED vars
    BY <2>3, NotSeen, Zenon DEF vars
  <2>4. QED
    BY <2>1, <2>2, <2>3
<1>3. QED
  BY <1>1, <1>2, Inductive, PTL DEF Spec, ImplementsMirror, Mirror!Spec
=============================================================================
