--------------------------- MODULE TelegramIngest ---------------------------
(***************************************************************************)
(* Telegram ingestion: processes poll a bot for the posts and edits of a    *)
(* channel, keep each message in a table until its photo is prepared by a   *)
(* paid service, and publish it.                                            *)
(*                                                                          *)
(* Polling and media work are each done under a lease of their own, which   *)
(* runs out while its holder waits for a request; every write of a holder   *)
(* checks the lease in its own transaction.  A transaction is one action,   *)
(* but for the one that saves an update: it reads the message's row without *)
(* locking it before it writes.  A page of updates is saved in one          *)
(* transaction, here update by update.                                      *)
(*                                                                          *)
(* An update is known by its number, its text too; a photo by the number of *)
(* the update that brought it: a photo once replaced does not come back.    *)
(***************************************************************************)
EXTENDS Integers, FiniteSets, Sequences

CONSTANTS
    Messages,     \* messages of the configured channel
    Processes,    \* server processes; an overlapping restart is one more
    Nobody,       \* holder of a free lease
    NoMessage,
    MaxUpdates,   \* bound: updates the channel ever has
    MaxAttempts,  \* attempts of a photo before its row is blocked
    MaxRetries    \* bound: retries an administrator asks for

ASSUME ProcessAssumption == IsFiniteSet(Processes) /\ Nobody \notin Processes
ASSUME MessageAssumption == NoMessage \notin Messages
ASSUME BoundAssumption == /\ MaxUpdates \in Nat
                          /\ MaxAttempts \in Nat \ {0}
                          /\ MaxRetries \in Nat

VARIABLES
    updates,  \* the channel's updates, in order
    offset,   \* updateOffset: the next update to fetch
    row,      \* row[m]: the pending row of message m
    post,     \* post[m]: the public post of message m
    files,    \* photos in the media library
    lease,    \* holder of the ingest and of the media lease
    process,  \* process[p]: where process p stands and what it read
    retries,  \* retries administrators have asked for
    credit    \* history: paid submissions of a photo still allowed

vars == <<updates, offset, row, post, files, lease, process, retries, credit>>

Updates == 1..MaxUpdates
Photos == 0..MaxUpdates  \* 0: a message without a photo

Update == [message : Messages, photo : Photos]

Stages == {"pending", "submitting", "submitted", "uploaded", "blocked"}

Row == [update    : 0..MaxUpdates,  \* update_id; 0: no row
        photo     : Photos,
        stage     : Stages,
        request   : BOOLEAN,        \* request_id is known
        uncertain : BOOLEAN,        \* error_code is FAL_SUBMISSION_UNCERTAIN
        media     : BOOLEAN,        \* media_id is known
        attempts  : 0..MaxAttempts,
        due       : BOOLEAN]        \* next_attempt_at has passed

Post == [update : 0..MaxUpdates, photo : Photos]

Process == [pc      : {"idle", "polling", "fetched", "saving", "discarding", "polled",
                       "media", "looking", "removing", "submitting", "accepted",
                       "refused", "waiting", "uploading", "uploaded",
                       "ready", "failed", "retiring"},
            update  : 0..MaxUpdates,              \* the update being saved
            seen    : BOOLEAN,                    \* its row existed when read
            message : Messages \cup {NoMessage},  \* the job's
            photo   : Photos,                     \* the job's, or a file to remove
            stage   : Stages,
            request : BOOLEAN]

NoPost == [update |-> 0, photo |-> 0]
NoRow == [update |-> 0, photo |-> 0, stage |-> "pending", request |-> FALSE,
          uncertain |-> FALSE, media |-> FALSE, attempts |-> 0, due |-> TRUE]
Idle == [pc |-> "idle", update |-> 0, seen |-> FALSE, message |-> NoMessage, photo |-> 0,
         stage |-> "pending", request |-> FALSE]

Init ==
    /\ updates = <<>>
    /\ offset = 1
    /\ row = [m \in Messages |-> NoRow]
    /\ post = [m \in Messages |-> NoPost]
    /\ files = {}
    /\ lease = [work \in {"ingest", "media"} |-> Nobody]
    /\ process = [p \in Processes |-> Idle]
    /\ retries = 0
    /\ credit = [k \in Updates |-> 1]

channel == <<updates, retries>>

Stays(m) == row[m].update # 0
At(p, pc) == process[p].pc = pc
Becomes(p, state) == process' = [process EXCEPT ![p] = state]
Goes(p, pc) == Becomes(p, [process[p] EXCEPT !.pc = pc])
RowBecomes(m, r) == row' = [row EXCEPT ![m] = r]

Leases(work, p) == lease[work] = p
Acquire(work, p) == lease[work] = Nobody /\ lease' = [lease EXCEPT ![work] = p]
\* A holder gives up what is still its own.
Release(work, p) == lease' = [lease EXCEPT ![work] = IF @ = p THEN Nobody ELSE @]

(***************************************************************************)
(* The channel: a message is posted or edited, and its photo replaced.     *)
(***************************************************************************)
Newest(m) ==
    LET posted == {k \in DOMAIN updates : updates[k].message = m}
    IN {k \in posted : \A l \in posted : l <= k}

ChannelPost(m) ==
    /\ Len(updates) < MaxUpdates
    /\ \E photo \in {0, Len(updates) + 1} \cup {updates[k].photo : k \in Newest(m)} :
          updates' = Append(updates, [message |-> m, photo |-> photo])
    /\ UNCHANGED <<offset, row, post, files, lease, process, retries, credit>>

(***************************************************************************)
(* pollUpdates, under the ingest lease.                                    *)
(***************************************************************************)
BeginPoll(p) ==
    /\ At(p, "idle")
    /\ Acquire("ingest", p)
    /\ Goes(p, "polling")
    /\ UNCHANGED <<channel, offset, row, post, files, credit>>

\* Deviation: an update is acknowledged before it is saved.
AcknowledgesFirst(p) ==
    /\ At(p, "polling")
    /\ offset <= Len(updates)
    /\ Becomes(p, [process[p] EXCEPT !.pc = "fetched", !.update = offset])
    /\ offset' = offset + 1
    /\ UNCHANGED <<channel, row, post, files, lease, credit>>

\* getUpdates answers.
Fetch(p) ==
    /\ At(p, "polling")
    /\ offset <= Len(updates)
    /\ Becomes(p, [process[p] EXCEPT !.pc = "fetched", !.update = offset])
    /\ UNCHANGED <<channel, offset, row, post, files, lease, credit>>

\* Deviation: the transaction of a page does not check the lease.
SavesUnleased(p) ==
    LET k == process[p].update
        m == updates[k].message
    IN /\ At(p, "fetched")
       /\ Becomes(p, [process[p] EXCEPT !.pc = "saving", !.seen = Stays(m),
                                        !.photo = IF row[m].media THEN row[m].photo ELSE 0])
       /\ UNCHANGED <<channel, offset, row, post, files, lease, credit>>

\* The transaction opens: the lease is checked and locked, the row is read.
SaveOpens(p) ==
    LET k == process[p].update
        m == updates[k].message
    IN /\ At(p, "fetched")
       /\ Leases("ingest", p)
       /\ Becomes(p, [process[p] EXCEPT !.pc = "saving", !.seen = Stays(m),
                                        !.photo = IF row[m].media THEN row[m].photo ELSE 0])
       /\ UNCHANGED <<channel, offset, row, post, files, lease, credit>>

\* Deviation: the row of an edited message keeps its photo.
RevisedTextOnly(m, k) ==
    IF Stays(m) THEN [row[m] EXCEPT !.update = k]
    ELSE [NoRow EXCEPT !.update = k, !.photo = updates[k].photo]

\* A row of a message with another photo starts again.
Revised(m, k) ==
    IF Stays(m) /\ row[m].photo = updates[k].photo THEN [row[m] EXCEPT !.update = k]
    ELSE [NoRow EXCEPT !.update = k, !.photo = updates[k].photo]

\* savePendingMessages, with the next offset.  A row that was read and has been
\* published since is updated in vain.
SaveCommits(p) ==
    LET k == process[p].update
        m == updates[k].message
        written == (process[p].seen => Stays(m)) /\ row[m].update < k
        discarded == process[p].photo \notin {0, updates[k].photo}
    IN /\ At(p, "saving")
       /\ IF written THEN RowBecomes(m, Revised(m, k)) ELSE UNCHANGED row
       /\ offset' = k + 1
       /\ Becomes(p, IF discarded
                     THEN [Idle EXCEPT !.pc = "discarding", !.photo = process[p].photo]
                     ELSE [Idle EXCEPT !.pc = "polling"])
       /\ UNCHANGED <<channel, post, files, lease, credit>>

\* Deviation: public posts are not looked at.
UnusedByRows(photo) ==
    \A m \in Messages : ~(Stays(m) /\ row[m].media /\ row[m].photo = photo)

\* The photo of no pending row and of no public post.
Unused(photo) ==
    /\ \A m \in Messages : ~(Stays(m) /\ row[m].media /\ row[m].photo = photo)
    /\ \A m \in Messages : post[m].photo # photo

\* cleanDiscardedMessages after the save.
CleanDiscarded(p) ==
    /\ At(p, "discarding")
    /\ files' = IF Unused(process[p].photo) THEN files \ {process[p].photo} ELSE files
    /\ Becomes(p, [Idle EXCEPT !.pc = "polling"])
    /\ UNCHANGED <<channel, offset, row, post, lease, credit>>

\* Nothing more to fetch, the poll is not due, or it fails: the media worker is
\* next in any case.
EndPoll(p) ==
    /\ process[p].pc \in {"polling", "fetched", "saving", "discarding"}
    /\ Release("ingest", p)
    /\ Becomes(p, [Idle EXCEPT !.pc = "polled"])
    /\ UNCHANGED <<channel, offset, row, post, files, credit>>

(***************************************************************************)
(* runTelegramMediaWorker, under the media lease.                          *)
(***************************************************************************)
BeginMedia(p) ==
    /\ At(p, "polled")
    /\ \/ Acquire("media", p) /\ Goes(p, "media")
       \/ /\ lease["media"] # Nobody
          /\ Becomes(p, Idle)
          /\ UNCHANGED lease
    /\ UNCHANGED <<channel, offset, row, post, files, credit>>

PickJob(p, m) ==
    /\ At(p, "media")
    /\ Stays(m)
    /\ row[m].stage # "blocked"
    /\ row[m].due
    /\ Becomes(p, [Idle EXCEPT !.pc = "looking", !.message = m, !.photo = row[m].photo,
                               !.stage = row[m].stage, !.request = row[m].request])
    /\ UNCHANGED <<channel, offset, row, post, files, lease, credit>>

\* No job is left, or the minute of a run is over.
EndMedia(p) ==
    /\ At(p, "media")
    /\ Release("media", p)
    /\ Becomes(p, Idle)
    /\ UNCHANGED <<channel, offset, row, post, files, credit>>

\* ownedJob: the lease is held, and the row still is about the job's photo.  Its
\* text may be newer.
Owned(p) ==
    LET m == process[p].message
    IN Leases("media", p) /\ Stays(m) /\ row[m].photo = process[p].photo

\* processJob: the post may have the photo already, or the media library.
LookUp(p) ==
    LET job == process[p]
    IN /\ At(p, "looking")
       /\ Goes(p, IF \/ job.photo \in {0, post[job.message].photo}
                     \/ job.photo \in files
                  THEN "ready" ELSE "removing")
       /\ UNCHANGED <<channel, offset, row, post, files, lease, credit>>

(***************************************************************************)
(* resumableBackgroundRemoval: the paid preparation.  A checkpoint that     *)
(* throws as it commits may have been written or not, and the job has it.   *)
(***************************************************************************)
\* Deviation: a submission whose answer never came is made again.
NeverUncertain(stage, request) == FALSE

Unanswered(stage, request) == stage = "submitting" /\ ~request

\* An earlier submission is fetched, one without an answer given up.
ResumeRemoval(p) ==
    LET job == process[p]
    IN /\ At(p, "removing")
       /\ job.request \/ Unanswered(job.stage, job.request)
       /\ Goes(p, IF job.request THEN "waiting" ELSE "failed")
       /\ UNCHANGED <<channel, offset, row, post, files, lease, credit>>

BeginSubmission(p) ==
    LET job == process[p]
        m == job.message
        submitting == [row[m] EXCEPT !.stage = "submitting"]
    IN /\ At(p, "removing")
       /\ ~job.request
       /\ ~Unanswered(job.stage, job.request)
       /\ Owned(p)
       /\ \/ RowBecomes(m, submitting) /\ Becomes(p, [job EXCEPT !.pc = "submitting", !.stage = "submitting"])
          \/ RowBecomes(m, submitting) /\ Becomes(p, [job EXCEPT !.pc = "failed", !.stage = "submitting"])
          \/ UNCHANGED row /\ Becomes(p, [job EXCEPT !.pc = "failed", !.stage = "submitting"])
       /\ UNCHANGED <<channel, offset, post, files, lease, credit>>

\* The service accepts, and its answer arrives or is lost.
SubmitAccepted(p) ==
    /\ At(p, "submitting")
    /\ credit' = [credit EXCEPT ![process[p].photo] = @ - 1]
    /\ Goes(p, "accepted") \/ Goes(p, "failed")
    /\ UNCHANGED <<channel, offset, row, post, files, lease>>

\* The service refuses, or is not reached.
SubmitFails(p) ==
    /\ At(p, "submitting")
    /\ Goes(p, "refused") \/ Goes(p, "failed")
    /\ UNCHANGED <<channel, offset, row, post, files, lease, credit>>

\* The request is recorded; whatever throws here leaves the answer uncertain.
RecordRequest(p) ==
    LET job == process[p]
        m == job.message
        submitted == [row[m] EXCEPT !.stage = "submitted", !.request = TRUE]
    IN /\ At(p, "accepted")
       /\ \/ /\ Owned(p)
             /\ RowBecomes(m, submitted)
             /\ \/ Becomes(p, [job EXCEPT !.pc = "waiting", !.stage = "submitted", !.request = TRUE])
                \/ Goes(p, "failed")
          \/ UNCHANGED row /\ Goes(p, "failed")
       /\ UNCHANGED <<channel, offset, post, files, lease, credit>>

RecordRefusal(p) ==
    LET m == process[p].message
    IN /\ At(p, "refused")
       /\ Owned(p)
       /\ RowBecomes(m, [row[m] EXCEPT !.stage = "pending"])
       /\ Becomes(p, [process[p] EXCEPT !.pc = "failed", !.stage = "pending"])
       /\ UNCHANGED <<channel, offset, post, files, lease, credit>>

\* PhotoPending: the row waits, no attempt is counted.
StillInQueue(p) ==
    LET m == process[p].message
    IN /\ At(p, "waiting")
       /\ Owned(p)
       /\ RowBecomes(m, [row[m] EXCEPT !.due = FALSE, !.uncertain = FALSE])
       /\ Becomes(p, [Idle EXCEPT !.pc = "media"])
       /\ UNCHANGED <<channel, offset, post, files, lease, credit>>

(***************************************************************************)
(* uploadTelegramPhoto, and what processJob does around it.                *)
(***************************************************************************)
\* The photo is prepared, or transparent from the start, and beforeUpload finds the job still owned.
BeforeUpload(p) ==
    /\ process[p].pc \in {"removing", "waiting"}
    /\ Owned(p)
    /\ Goes(p, "uploading")
    /\ UNCHANGED <<channel, offset, row, post, files, lease, credit>>

Upload(p) ==
    /\ At(p, "uploading")
    /\ files' = files \cup {process[p].photo}
    /\ Goes(p, "uploaded")
    /\ UNCHANGED <<channel, offset, row, post, lease, credit>>

OnUploaded(p) ==
    LET m == process[p].message
    IN /\ At(p, "uploaded")
       /\ Owned(p)
       /\ RowBecomes(m, [row[m] EXCEPT !.media = TRUE, !.stage = "uploaded",
                                       !.uncertain = FALSE])
       /\ Becomes(p, [process[p] EXCEPT !.pc = "ready", !.stage = "uploaded"])
       /\ UNCHANGED <<channel, offset, post, files, lease, credit>>

\* The lease is lost, or the message has another photo now: the job is skipped,
\* and a photo just uploaded for it removed if it is the message that changed.
SkipLost(p) ==
    LET photo == process[p].photo
        discards == At(p, "uploaded") /\ Leases("media", p) /\ Unused(photo)
    IN /\ process[p].pc \in {"removing", "refused", "waiting", "uploaded", "ready"}
       /\ ~Owned(p)
       /\ files' = IF discards THEN files \ {photo} ELSE files
       /\ Becomes(p, [Idle EXCEPT !.pc = "media"])
       /\ UNCHANGED <<channel, offset, row, post, lease, credit>>

\* upsertPost and the end of the row; a photo the post had before is retired.
Publish(p) ==
    LET m == process[p].message
        retires == post[m].photo \notin {0, row[m].photo}
    IN /\ At(p, "ready")
       /\ Owned(p)
       /\ post' = [post EXCEPT ![m] = [update |-> row[m].update, photo |-> row[m].photo]]
       /\ RowBecomes(m, NoRow)
       /\ Becomes(p, IF retires THEN [Idle EXCEPT !.pc = "retiring", !.photo = post[m].photo]
                                ELSE [Idle EXCEPT !.pc = "media"])
       /\ UNCHANGED <<channel, offset, files, lease, credit>>

\* removeUploadedFile looks for posts that have the photo.
RemoveRetired(p) ==
    LET photo == process[p].photo
    IN /\ At(p, "retiring")
       /\ files' = IF \E m \in Messages : post[m].photo = photo THEN files ELSE files \ {photo}
       /\ Becomes(p, [Idle EXCEPT !.pc = "media"])
       /\ UNCHANGED <<channel, offset, row, post, lease, credit>>

(***************************************************************************)
(* Failures.                                                               *)
(***************************************************************************)
Fails(p) ==
    /\ process[p].pc \in {"looking", "removing", "refused", "waiting", "uploading",
                          "uploaded", "ready"}
    /\ Goes(p, "failed")
    /\ UNCHANGED <<channel, offset, row, post, files, lease, credit>>

\* retryPatch
Retried(r, uncertain, blocked) ==
    [r EXCEPT !.attempts = @ + 1, !.due = FALSE, !.uncertain = uncertain,
              !.stage = IF blocked \/ r.attempts + 1 = MaxAttempts THEN "blocked" ELSE @]

\* A failure that is not retryable blocks the row, as does an unanswered submission.
RecordFailure(p) ==
    LET job == process[p]
        m == job.message
        uncertain == Unanswered(job.stage, job.request)
    IN /\ At(p, "failed")
       /\ Owned(p)
       /\ \E fatal \in BOOLEAN : RowBecomes(m, Retried(row[m], uncertain, uncertain \/ fatal))
       /\ Becomes(p, [Idle EXCEPT !.pc = "media"])
       /\ UNCHANGED <<channel, offset, post, files, lease, credit>>

\* For a lost job neither a failure nor a wait can be recorded: the run ends.
BreaksOff(p) ==
    /\ process[p].pc \in {"failed", "waiting"}
    /\ ~Owned(p)
    /\ Release("media", p)
    /\ Becomes(p, Idle)
    /\ UNCHANGED <<channel, offset, row, post, files, credit>>

(***************************************************************************)
(* The process dies, or its run throws: a lease may be left behind.        *)
(***************************************************************************)
Crash(p) ==
    /\ ~At(p, "idle")
    /\ Becomes(p, Idle)
    /\ UNCHANGED <<channel, offset, row, post, files, lease, credit>>

\* A lease runs out, but while an open transaction has it locked.
LeaseLapses(work) ==
    /\ lease[work] # Nobody
    /\ ~(work = "ingest" /\ At(lease[work], "saving"))
    /\ lease' = [lease EXCEPT ![work] = Nobody]
    /\ UNCHANGED <<channel, offset, row, post, files, process, credit>>

BecomesDue(m) ==
    /\ Stays(m)
    /\ ~row[m].due
    /\ RowBecomes(m, [row[m] EXCEPT !.due = TRUE])
    /\ UNCHANGED <<channel, offset, post, files, lease, process, credit>>

(***************************************************************************)
(* retryTelegramProcessing, under the media lease: new processing may pay  *)
(* a second time for what was submitted before.                            *)
(***************************************************************************)
AdminRetry(m, new) ==
    LET r == row[m]
        unanswered == r.stage = "submitting" \/ r.uncertain
    IN /\ retries < MaxRetries
       /\ lease["media"] = Nobody
       /\ Stays(m)
       /\ unanswered => new
       /\ RowBecomes(m, [r EXCEPT !.attempts = 0, !.uncertain = FALSE, !.due = TRUE,
                                  !.request = @ /\ ~(new /\ ~r.media),
                                  !.stage = IF r.media THEN "uploaded"
                                            ELSE IF ~new /\ r.request THEN "submitted"
                                            ELSE "pending"])
       /\ retries' = retries + 1
       /\ credit' = IF new /\ ~r.media /\ (unanswered \/ r.request)
                    THEN [credit EXCEPT ![r.photo] = @ + 1] ELSE credit
       /\ UNCHANGED <<updates, offset, post, files, lease, process>>

Next ==
    \/ \E m \in Messages : ChannelPost(m)
    \/ \E p \in Processes : BeginPoll(p)
    \/ \E p \in Processes : Fetch(p)
    \/ \E p \in Processes : SaveOpens(p)
    \/ \E p \in Processes : SaveCommits(p)
    \/ \E p \in Processes : CleanDiscarded(p)
    \/ \E p \in Processes : EndPoll(p)
    \/ \E p \in Processes : BeginMedia(p)
    \/ \E p \in Processes, m \in Messages : PickJob(p, m)
    \/ \E p \in Processes : EndMedia(p)
    \/ \E p \in Processes : LookUp(p)
    \/ \E p \in Processes : ResumeRemoval(p)
    \/ \E p \in Processes : BeginSubmission(p)
    \/ \E p \in Processes : SubmitAccepted(p)
    \/ \E p \in Processes : SubmitFails(p)
    \/ \E p \in Processes : RecordRequest(p)
    \/ \E p \in Processes : RecordRefusal(p)
    \/ \E p \in Processes : StillInQueue(p)
    \/ \E p \in Processes : BeforeUpload(p)
    \/ \E p \in Processes : Upload(p)
    \/ \E p \in Processes : OnUploaded(p)
    \/ \E p \in Processes : SkipLost(p)
    \/ \E p \in Processes : Publish(p)
    \/ \E p \in Processes : RemoveRetired(p)
    \/ \E p \in Processes : Fails(p)
    \/ \E p \in Processes : RecordFailure(p)
    \/ \E p \in Processes : BreaksOff(p)
    \/ \E p \in Processes : Crash(p)
    \/ \E work \in {"ingest", "media"} : LeaseLapses(work)
    \/ \E m \in Messages : BecomesDue(m)
    \/ \E m \in Messages, new \in BOOLEAN : AdminRetry(m, new)

Spec == Init /\ [][Next]_vars

(***************************************************************************)
(* Properties.                                                             *)
(***************************************************************************)
TypeOK ==
    /\ updates \in Seq(Update)
    /\ Len(updates) <= MaxUpdates
    /\ offset \in 1..(MaxUpdates + 1)
    /\ row \in [Messages -> Row]
    /\ post \in [Messages -> Post]
    /\ files \subseteq Updates
    /\ lease \in [{"ingest", "media"} -> Processes \cup {Nobody}]
    /\ process \in [Processes -> Process]
    /\ retries \in 0..MaxRetries
    /\ credit \in [Updates -> Int]

\* No photo is submitted to the paid service more often than once, and once more
\* each time an administrator asks for new processing of what may have been
\* submitted: not by a retry, a restart, or a second worker after a lost lease.
PaidOnce == \A k \in Updates : credit[k] >= 0

\* The photo a public post shows is in the media library, whoever cleans up
\* photos of replaced, discarded or retired messages meanwhile.
PublishedPhotoIsStored == \A m \in Messages : post[m].photo # 0 => post[m].photo \in files

\* A message with an update that was acknowledged to Telegram, which will not send
\* it again, has a pending row or a post.
AcknowledgedIsHeld ==
    \A k \in DOMAIN updates :
        k < offset => Stays(updates[k].message) \/ post[updates[k].message].update # 0

\* Neither the next update to fetch nor what a post shows goes back to an older
\* one, though two processes may both believe they hold a lease.
NeverRegresses ==
    [][/\ offset' >= offset
       /\ \A m \in Messages : post'[m].update >= post[m].update]_vars

\* What the code says: updates are persisted before they are acknowledged, so the
\* newest acknowledged update of a message is in its row or its post.
NewestIsKept ==
    \A k \in DOMAIN updates :
        LET m == updates[k].message
        IN k < offset => row[m].update >= k \/ post[m].update >= k

\* What is shown of a channel, however many processes read it and prepare photos,
\* whichever of them die, lose their lease or are answered late.
Mirror == INSTANCE ChannelMirror
          WITH channel <- updates, read <- offset, held <- [m \in Messages |-> row[m].update],
               shown <- post, library <- files

ImplementsMirror == Mirror!Spec
=============================================================================
