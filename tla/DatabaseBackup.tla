--------------------------- MODULE DatabaseBackup ---------------------------
(***************************************************************************)
(* Database backups: a table of runs, runner processes that claim a run     *)
(* under a lease, dump and upload it, verify archives, reclaim the runs of  *)
(* dead workers after inspecting the bucket, and delete old archives.       *)
(*                                                                          *)
(* Every guarded UPDATE of the store is one action.  The awaits between     *)
(* them are where leases lapse, processes die and others act: a worker and  *)
(* the tick of each runner keep what they read in records of their own.     *)
(*                                                                          *)
(* A lock token is fresh at every claim, as is the object key a worker      *)
(* derives from its start: both are represented by the attempt number, so   *)
(* the token of a running row is its attempt and the key of run i minted by *)
(* attempt n is <<i, n>>.  The checksum beside an archive is part of it.    *)
(* Heartbeats are not timed: any running row may be found stale.            *)
(***************************************************************************)
EXTENDS FiniteSets, Integers

CONSTANTS
    Runs,         \* row slots of database_backup_runs
    Workers,      \* runner processes; an overlapping restart is one more
    Tickers,      \* their ticks, which go on beside the job
    NoRun,        \* an idle job or tick has no run
    MaxAttempts,  \* MAX_RUN_ATTEMPTS
    MinimumKept   \* BACKUP_MINIMUM_KEPT

ASSUME RunAssumption == IsFiniteSet(Runs) /\ NoRun \notin Runs
ASSUME BoundAssumption == MaxAttempts \in Nat \ {0} /\ MinimumKept \in Nat

VARIABLES
    row,       \* row[i]: the row in slot i
    older,     \* older[i]: the successes started before i (started_at)
    stored,    \* archives in the bucket
    job,       \* job[w]: the backup or verification worker w runs
    tick,      \* tick[t]: the stale run tick t is reclaiming
    deletion,  \* deletion[i]: a deletion of i has been decided, by whom
    forsaken,  \* history: archives somebody entitled to has decided to erase
    stranded   \* history: archives whose worker died past being looked for

vars == <<row, older, stored, job, tick, deletion, forsaken, stranded>>

Attempts == 1..MaxAttempts
Archives == Runs \X Attempts

Row == [status   : {"absent", "pending", "running", "succeeded", "failed",
                    "cancelled", "deleted"},
        reason   : {"none", "retention", "manual"},    \* deleted_reason
        attempts : 0..MaxAttempts,
        key      : 0..MaxAttempts,                     \* 0: no key stamped
        cancel   : BOOLEAN,
        verify   : {"done", "pending", "running"}]     \* done: null, ok, failed

Job == [pc      : {"idle", "claimed", "dumping", "uploaded", "discarding",
                   "erasing", "settling", "verifying"},
        run     : Runs \cup {NoRun},
        attempt : 0..MaxAttempts,
        outcome : {"none", "cancel", "shutdown", "lease"}]

Tick == [pc      : {"idle", "found", "absent", "present"},
         run     : Runs \cup {NoRun},
         attempt : 0..MaxAttempts,
         key     : 0..MaxAttempts]

\* A row that only its status is read of.
Bare(status) == [status |-> status, reason |-> "none", attempts |-> 0, key |-> 0,
                 cancel |-> FALSE, verify |-> "done"]

NoJob == [pc |-> "idle", run |-> NoRun, attempt |-> 0, outcome |-> "none"]
NoTick == [pc |-> "idle", run |-> NoRun, attempt |-> 0, key |-> 0]

Active(i) == row[i].status \in {"pending", "running"}

\* The archive a row names.
ArchiveOf(i) == <<i, row[i].key>>
\* The archive a worker uploads.
Target(w) == <<job[w].run, job[w].attempt>>

\* The guard of every update of a running row: status and lock_token match.
Holds(i, attempt) == row[i].status = "running" /\ row[i].attempts = attempt
Owns(w) == Holds(job[w].run, job[w].attempt)

Init ==
    /\ row = [i \in Runs |-> Bare("absent")]
    /\ older = [i \in Runs |-> {}]
    /\ stored = {}
    /\ job = [w \in Workers |-> NoJob]
    /\ tick = [t \in Tickers |-> NoTick]
    /\ deletion = [i \in Runs |-> "none"]
    /\ forsaken = {}
    /\ stranded = {}

Becomes(i, r) == row' = [row EXCEPT ![i] = r]
JobBecomes(w, j) == job' = [job EXCEPT ![w] = j]
Goes(w, pc) == JobBecomes(w, [job[w] EXCEPT !.pc = pc])
TickBecomes(t, k) == tick' = [tick EXCEPT ![t] = k]

(***************************************************************************)
(* The queue.                                                              *)
(***************************************************************************)
\* A manual or due scheduled run; the partial unique index allows one active.
Enqueue(i) ==
    /\ row[i].status = "absent"
    /\ \A j \in Runs : ~Active(j)
    /\ Becomes(i, Bare("pending"))
    /\ UNCHANGED <<older, stored, job, tick, deletion, forsaken, stranded>>

\* requestCancel: a pending run is cancelled, a running one flagged.
RequestCancel(i) ==
    /\ \/ row[i].status = "pending" /\ Becomes(i, Bare("cancelled"))
       \/ /\ row[i].status = "running"
          /\ ~row[i].cancel
          /\ Becomes(i, [row[i] EXCEPT !.cancel = TRUE])
    /\ UNCHANGED <<older, stored, job, tick, deletion, forsaken, stranded>>

\* claimNextRun.  The flag of a cancel and the key of an earlier attempt stay.
Claim(w, i) ==
    /\ job[w].pc = "idle"
    /\ row[i].status = "pending"
    /\ Becomes(i, [row[i] EXCEPT !.status = "running", !.attempts = @ + 1])
    /\ older' = [j \in Runs |-> IF j = i
                                THEN {k \in Runs \ {i} : row[k].status = "succeeded"}
                                ELSE older[j] \ {i}]
    /\ JobBecomes(w, [NoJob EXCEPT !.pc = "claimed", !.run = i,
                                   !.attempt = row[i].attempts + 1])
    /\ UNCHANGED <<stored, tick, deletion, forsaken, stranded>>

(***************************************************************************)
(* launchBackup: stamp, dump and upload, record.                           *)
(***************************************************************************)
StampTarget(w) ==
    LET i == job[w].run
    IN /\ job[w].pc = "claimed"
       /\ IF Owns(w)
          THEN /\ Becomes(i, [row[i] EXCEPT !.key = job[w].attempt])
               /\ Goes(w, "dumping")
          ELSE JobBecomes(w, NoJob) /\ UNCHANGED row
       /\ UNCHANGED <<older, stored, tick, deletion, forsaken, stranded>>

\* The update throws, and may have been made: the outer catch settles the run.
StampThrows(w) ==
    LET i == job[w].run
    IN /\ job[w].pc = "claimed"
       /\ \/ Owns(w) /\ Becomes(i, [row[i] EXCEPT !.key = job[w].attempt])
          \/ UNCHANGED row
       /\ Goes(w, "settling")
       /\ UNCHANGED <<older, stored, tick, deletion, forsaken, stranded>>

\* heartbeatRun reports the loss of the lease or a requested cancel.
Heartbeat(w) ==
    LET i == job[w].run
    IN /\ job[w].pc = "dumping"
       /\ job[w].outcome = "none"
       /\ ~Owns(w) \/ row[i].cancel
       /\ JobBecomes(w, [job[w] EXCEPT !.outcome = IF Owns(w) THEN "cancel" ELSE "lease"])
       /\ UNCHANGED <<row, older, stored, tick, deletion, forsaken, stranded>>

\* stopDatabaseBackupRunner stops the job; the first outcome counts.
Stop(w) ==
    /\ job[w].pc \in {"claimed", "dumping", "verifying"}
    /\ job[w].outcome = "none"
    /\ JobBecomes(w, [job[w] EXCEPT !.outcome = "shutdown"])
    /\ UNCHANGED <<row, older, stored, tick, deletion, forsaken, stranded>>

\* The bucket commits the object.
ObjectCommits(w) ==
    /\ job[w].pc = "dumping"
    /\ Target(w) \notin stored
    /\ stored' = stored \cup {Target(w)}
    /\ UNCHANGED <<row, older, job, tick, deletion, forsaken, stranded>>

\* Size check and checksum are done; the heartbeat ends.
UploadReturns(w) ==
    /\ job[w].pc = "dumping"
    /\ Target(w) \in stored
    /\ job[w].outcome = "none"
    /\ Goes(w, "uploaded")
    /\ UNCHANGED <<row, older, stored, tick, deletion, forsaken, stranded>>

\* The dump, the upload, or a check after the commit fails, times out or was
\* aborted.  The heartbeat ends here too.
UploadThrows(w) ==
    /\ job[w].pc = "dumping"
    /\ Goes(w, "discarding")
    /\ UNCHANGED <<row, older, stored, tick, deletion, forsaken, stranded>>

\* Row i succeeds with the archive of an attempt; verify may be due at once.
Succeeds(i, key) ==
    \E verify \in {"done", "pending"} :
        Becomes(i, [row[i] EXCEPT !.status = "succeeded", !.key = key, !.attempts = 0,
                                  !.cancel = FALSE, !.verify = verify])

\* finishRun, or its discovery that another worker owns the row.
FinishRun(w) ==
    /\ job[w].pc = "uploaded"
    /\ IF Owns(w)
       THEN Succeeds(job[w].run, job[w].attempt) /\ JobBecomes(w, NoJob)
       ELSE Goes(w, "discarding") /\ UNCHANGED row
    /\ UNCHANGED <<older, stored, tick, deletion, forsaken, stranded>>

\* finishRun throws; its update may have been made all the same.
FinishThrows(w) ==
    /\ job[w].pc = "uploaded"
    /\ \/ Owns(w) /\ Succeeds(job[w].run, job[w].attempt)
       \/ UNCHANGED row
    /\ Goes(w, "discarding")
    /\ UNCHANGED <<older, stored, tick, deletion, forsaken, stranded>>

(***************************************************************************)
(* discardRunObjects and settleFailure.                                    *)
(***************************************************************************)
Recorded(w) == /\ row[job[w].run].status = "succeeded"
               /\ row[job[w].run].key = job[w].attempt

\* Deviation: the row is not re-read.
KeepsNothing(w) == FALSE
\* An archive reconciled as succeeded is kept.
Keeps(w) == Recorded(w)

Reread(w) ==
    /\ job[w].pc = "discarding"
    /\ Goes(w, IF Keeps(w) THEN "settling" ELSE "erasing")
    /\ forsaken' = IF Recorded(w) THEN forsaken ELSE forsaken \cup {Target(w)}
    /\ UNCHANGED <<row, older, stored, tick, deletion, stranded>>

\* The row cannot be read: the code goes on as if it had not succeeded.
RereadThrows(w) ==
    /\ job[w].pc = "discarding"
    /\ Goes(w, "erasing")
    /\ forsaken' = forsaken \cup {Target(w)}
    /\ UNCHANGED <<row, older, stored, tick, deletion, stranded>>

Erase(w) ==
    /\ job[w].pc = "erasing"
    /\ stored' = stored \ {Target(w)}
    /\ Goes(w, "settling")
    /\ UNCHANGED <<row, older, tick, deletion, forsaken, stranded>>

EraseFails(w) ==
    /\ job[w].pc = "erasing"
    /\ Goes(w, "settling")
    /\ UNCHANGED <<row, older, stored, tick, deletion, forsaken, stranded>>

\* releaseForRetry and handBackStaleRun: one retry.
AfterInterruption(attempt) == IF attempt < MaxAttempts THEN "pending" ELSE "failed"

\* An interrupted row keeps its key and a requested cancel until the retry.
HandedBack(i, attempt) ==
    IF AfterInterruption(attempt) = "failed" THEN Bare("failed")
    ELSE [row[i] EXCEPT !.status = "pending"]

\* settleFailure.  After a lost lease it does nothing, and so does its guard.
SettleFailure(w) ==
    LET i == job[w].run
        n == job[w].attempt
    IN /\ job[w].pc = "settling"
       /\ IF Owns(w) /\ job[w].outcome # "lease"
          THEN Becomes(i, CASE job[w].outcome = "cancel"   -> Bare("cancelled")
                            [] job[w].outcome = "shutdown" -> HandedBack(i, n)
                            [] OTHER                       -> Bare("failed"))
          ELSE UNCHANGED row
       /\ JobBecomes(w, NoJob)
       /\ UNCHANGED <<older, stored, tick, deletion, forsaken, stranded>>

\* A tick is about to settle the run without finding the worker's archive: it has
\* looked in vain, or read the row before the worker stamped its key.
LookedPast(w) ==
    \E t \in Tickers : /\ tick[t].run = job[w].run
                       /\ tick[t].attempt = job[w].attempt
                       /\ tick[t].pc = "absent" \/ tick[t].key # job[w].attempt

\* The job crashes on a settlement that throws, or dies with its process: the
\* tick of the process then fails too.
JobDies(w) ==
    /\ job[w].pc # "idle"
    /\ JobBecomes(w, NoJob)
    /\ stranded' = IF Recorded(w) \/ (Owns(w) /\ ~LookedPast(w)) THEN stranded
                   ELSE stranded \cup ({Target(w)} \cap stored)
    /\ UNCHANGED <<row, older, stored, tick, deletion, forsaken>>

(***************************************************************************)
(* reconcileStaleRun: the bucket first, the row second, never a deletion.   *)
(***************************************************************************)
\* Deviation: a row whose worker died before the stamp is passed over.
FindStamped(t, i) ==
    /\ tick[t].pc = "idle"
    /\ row[i].status = "running"
    /\ row[i].key # 0
    /\ TickBecomes(t, [pc |-> "found", run |-> i, attempt |-> row[i].attempts,
                       key |-> row[i].key])
    /\ UNCHANGED <<row, older, stored, job, deletion, forsaken, stranded>>

\* findStaleRuns: a running row with an old heartbeat.
FindStale(t, i) ==
    /\ tick[t].pc = "idle"
    /\ row[i].status = "running"
    /\ TickBecomes(t, [pc |-> "found", run |-> i, attempt |-> row[i].attempts,
                       key |-> row[i].key])
    /\ UNCHANGED <<row, older, stored, job, deletion, forsaken, stranded>>

\* Deviation: the bucket is not asked.
FoundNothing(stale) == "absent"
\* What the bucket holds of the row as it was read; without a key, nothing.
Found(stale) ==
    IF stale.key # 0 /\ <<stale.run, stale.key>> \in stored THEN "present" ELSE "absent"

Inspect(t) ==
    /\ tick[t].pc = "found"
    /\ TickBecomes(t, [tick[t] EXCEPT !.pc = Found(tick[t])])
    /\ UNCHANGED <<row, older, stored, job, deletion, forsaken, stranded>>

\* handBackStaleRun and reconcileRunSucceeded, guarded by the dead lease.
HandBack(t) ==
    LET i == tick[t].run
        n == tick[t].attempt
    IN /\ tick[t].pc = "absent"
       /\ IF Holds(i, n) THEN Becomes(i, HandedBack(i, n)) ELSE UNCHANGED row
       /\ TickBecomes(t, NoTick)
       /\ UNCHANGED <<older, stored, job, deletion, forsaken, stranded>>

ReconcileSucceeded(t) ==
    LET i == tick[t].run
    IN /\ tick[t].pc = "present"
       /\ IF Holds(i, tick[t].attempt) THEN Succeeds(i, tick[t].key) ELSE UNCHANGED row
       /\ TickBecomes(t, NoTick)
       /\ UNCHANGED <<older, stored, job, deletion, forsaken, stranded>>

\* The bucket cannot be inspected, an update throws, or the process dies.
TickFails(t) ==
    /\ tick[t].pc # "idle"
    /\ TickBecomes(t, NoTick)
    /\ UNCHANGED <<row, older, stored, job, deletion, forsaken, stranded>>

(***************************************************************************)
(* Deleting archives: a decision on a read row, the object, then the row.   *)
(* Concurrent deletions of one run do the same and are one here.            *)
(***************************************************************************)
NewerSuccesses(i) == {j \in Runs : row[j].status = "succeeded" /\ i \in older[j]}

Decide(i, reason) ==
    /\ row[i].status = "succeeded"
    /\ deletion[i] = "none"
    /\ deletion' = [deletion EXCEPT ![i] = reason]
    /\ forsaken' = forsaken \cup {ArchiveOf(i)}
    /\ UNCHANGED <<row, older, stored, job, tick, stranded>>

\* applyRetention: any run may be past deleteAfterDays, but not the newest.
RetentionDecides(i) ==
    /\ Cardinality(NewerSuccesses(i)) >= MinimumKept
    /\ Decide(i, "retention")

AdminDeletes(i) == Decide(i, "manual")

RemoveObject(i) ==
    /\ deletion[i] # "none"
    /\ ArchiveOf(i) \in stored
    /\ stored' = stored \ {ArchiveOf(i)}
    /\ UNCHANGED <<row, older, job, tick, deletion, forsaken, stranded>>

MarkDeleted(i) ==
    /\ deletion[i] # "none"
    /\ ArchiveOf(i) \notin stored
    /\ Becomes(i, [row[i] EXCEPT !.status = "deleted", !.verify = "done",
                                 !.reason = deletion[i]])
    /\ deletion' = [deletion EXCEPT ![i] = "none"]
    /\ UNCHANGED <<older, stored, job, tick, forsaken, stranded>>

\* The bucket refuses, the update throws, or the process dies: nothing resumes.
DeletionFails(i) ==
    /\ deletion[i] # "none"
    /\ deletion' = [deletion EXCEPT ![i] = "none"]
    /\ UNCHANGED <<row, older, stored, job, tick, forsaken, stranded>>

\* pruneHistoryRows: rows are kept for days, requests last minutes.  The slot
\* then stands for a new run, whose keys are new.
Prune(i) ==
    /\ row[i].status \in {"failed", "cancelled", "deleted"}
    /\ \A w \in Workers : job[w].run # i
    /\ \A t \in Tickers : tick[t].run # i
    /\ \A j \in Runs : deletion[j] = "none"
    /\ Becomes(i, Bare("absent"))
    /\ older' = [j \in Runs |-> IF j = i THEN {} ELSE older[j] \ {i}]
    /\ stored' = stored \ ({i} \X Attempts)
    /\ forsaken' = forsaken \ ({i} \X Attempts)
    /\ stranded' = stranded \ ({i} \X Attempts)
    /\ UNCHANGED <<job, tick, deletion>>

(***************************************************************************)
(* Verification: the verifier's lease has no token.                        *)
(***************************************************************************)
RequestVerify(i) ==
    /\ row[i].status = "succeeded"
    /\ row[i].verify = "done"
    /\ Becomes(i, [row[i] EXCEPT !.verify = "pending"])
    /\ UNCHANGED <<older, stored, job, tick, deletion, forsaken, stranded>>

ClaimVerify(w, i) ==
    /\ job[w].pc = "idle"
    /\ row[i].status = "succeeded"
    /\ row[i].verify = "pending"
    /\ Becomes(i, [row[i] EXCEPT !.verify = "running"])
    /\ JobBecomes(w, [NoJob EXCEPT !.pc = "verifying", !.run = i, !.attempt = row[i].key])
    /\ UNCHANGED <<older, stored, tick, deletion, forsaken, stranded>>

\* heartbeatVerify finds the row no longer running.
HeartbeatVerify(w) ==
    /\ job[w].pc = "verifying"
    /\ job[w].outcome = "none"
    /\ row[job[w].run].verify # "running"
    /\ JobBecomes(w, [job[w] EXCEPT !.outcome = "lease"])
    /\ UNCHANGED <<row, older, stored, tick, deletion, forsaken, stranded>>

\* The archive is read and listed, which may fail or time out: finishVerify.
\* After a stop releaseVerify gives the row back, after a lost lease nothing.
FinishVerify(w) ==
    LET i == job[w].run
        left == IF job[w].outcome = "shutdown" THEN "pending" ELSE "done"
    IN /\ job[w].pc = "verifying"
       /\ IF row[i].verify = "running" /\ job[w].outcome # "lease"
          THEN Becomes(i, [row[i] EXCEPT !.verify = left])
          ELSE UNCHANGED row
       /\ JobBecomes(w, NoJob)
       /\ UNCHANGED <<older, stored, tick, deletion, forsaken, stranded>>

\* reclaimStaleVerifications: the verifier's heartbeat is late.
ReclaimVerification(i) ==
    /\ row[i].verify = "running"
    /\ Becomes(i, [row[i] EXCEPT !.verify = "done"])
    /\ UNCHANGED <<older, stored, job, tick, deletion, forsaken, stranded>>

(***************************************************************************)
(* The specification.                                                      *)
(***************************************************************************)
Backup(w) ==
    \/ StampTarget(w) \/ StampThrows(w) \/ Heartbeat(w) \/ Stop(w)
    \/ ObjectCommits(w) \/ UploadReturns(w) \/ UploadThrows(w)
    \/ FinishRun(w) \/ FinishThrows(w)
    \/ Reread(w) \/ RereadThrows(w) \/ Erase(w) \/ EraseFails(w)
    \/ SettleFailure(w) \/ JobDies(w)

Verification(w) == HeartbeatVerify(w) \/ FinishVerify(w)

Reclaim(t) == Inspect(t) \/ HandBack(t) \/ ReconcileSucceeded(t) \/ TickFails(t)

Next ==
    \/ \E i \in Runs :
          \/ Enqueue(i) \/ RequestCancel(i)
          \/ RetentionDecides(i) \/ AdminDeletes(i) \/ RemoveObject(i)
          \/ MarkDeleted(i) \/ DeletionFails(i) \/ Prune(i)
          \/ RequestVerify(i) \/ ReclaimVerification(i)
    \/ \E w \in Workers, i \in Runs : Claim(w, i) \/ ClaimVerify(w, i)
    \/ \E t \in Tickers, i \in Runs : FindStale(t, i)
    \/ \E w \in Workers : Backup(w) \/ Verification(w)
    \/ \E t \in Tickers : Reclaim(t)

Spec == Init /\ [][Next]_vars

\* The steps of a job that its own process takes, whether they succeed or not.
Progress(w) ==
    \/ StampTarget(w) \/ StampThrows(w) \/ UploadReturns(w) \/ UploadThrows(w)
    \/ FinishRun(w) \/ FinishThrows(w) \/ Reread(w) \/ RereadThrows(w)
    \/ Erase(w) \/ EraseFails(w) \/ SettleFailure(w) \/ FinishVerify(w)

Unattended(i) == \A w \in Workers : job[w].run # i

\* A job goes on or times out.  The ticks recur every half minute: they claim,
\* and look for stale runs; a run nobody works on is stale in the end, and the
\* bucket and the table answer from time to time.
FairSpec ==
    /\ Spec
    /\ \A w \in Workers : WF_vars(Progress(w))
    /\ \A i \in Runs :
          /\ SF_vars(\E w \in Workers : Claim(w, i))
          /\ SF_vars(Unattended(i) /\ \E t \in Tickers : FindStale(t, i))
    /\ \A t \in Tickers :
          /\ SF_vars(Inspect(t))
          /\ SF_vars(HandBack(t) \/ ReconcileSucceeded(t))

(***************************************************************************)
(* Properties.                                                             *)
(***************************************************************************)
TypeOK ==
    /\ row \in [Runs -> Row]
    /\ older \in [Runs -> SUBSET Runs]
    /\ stored \subseteq Archives
    /\ job \in [Workers -> Job]
    /\ tick \in [Tickers -> Tick]
    /\ deletion \in [Runs -> {"none", "retention", "manual"}]
    /\ forsaken \subseteq Archives
    /\ stranded \subseteq Archives

\* A run that is reported as succeeded, by its worker or by the reclaim of its
\* dead worker, names an archive that is in the bucket, unless somebody who read
\* the row as it then was decided to erase that archive: no cleanup of a failed
\* attempt and no deletion touches the archive of another attempt.
SucceededIsStored == \A i \in Runs :
    row[i].status = "succeeded" => ArchiveOf(i) \in stored \cup forsaken

\* No archive is lost from sight: whatever is in the bucket is named by its row
\* or is still in the hands of its worker, but for what was to be erased and what
\* a worker left behind when it died too late for the reclaim to see it.
NothingStranded ==
    \A a \in stored \ (forsaken \cup stranded) :
       \/ ArchiveOf(a[1]) = a
       \/ \E w \in Workers : job[w].pc # "idle" /\ Target(w) = a

\* The newest MinimumKept successes are out of retention's reach, however long its
\* deletions last and whatever else succeeds or is deleted by hand meanwhile.
NewerKept(i) == {j \in Runs : row[j].status \in {"succeeded", "deleted"} /\ i \in older[j]}

RetentionKeepsNewest == \A i \in Runs :
    deletion[i] = "retention" => Cardinality(NewerKept(i)) >= MinimumKept

\* A queued or running run ends, so the next one can be queued: every worker may
\* die or lose its lease at every step, and the table and the bucket may refuse.
EveryRunEnds == \A i \in Runs : Active(i) ~> ~Active(i)
=============================================================================
