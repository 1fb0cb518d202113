------------------------ MODULE DatabaseBackup_proofs ------------------------
(***************************************************************************)
(* Proofs about DatabaseBackup, for any finite set of runs, any workers and *)
(* ticks, and any bounds on attempts and on the archives that are kept.     *)
(*                                                                          *)
(* The argument has four inductive layers.  Shape: types, and which rows    *)
(* have a key or an attempt left.  StoreInv: where the archives are that a  *)
(* worker, a tick, a deletion or a success relies on.  CountInv: attempts   *)
(* are counted, so a claim mints a key nobody has.  SightInv: who knows of  *)
(* an archive, in particular when its worker settles or dies.               *)
(***************************************************************************)
EXTENDS DatabaseBackup, FiniteSetTheorems, TLAPS

(***************************************************************************)
(* The inductive invariants.                                               *)
(***************************************************************************)
\* A job other than a verification.
Live(w) == job[w].pc \notin {"idle", "verifying"}

\* A queued run may still be claimed.
PendingHasRetries == \A i \in Runs :
    row[i].status = "pending" => row[i].attempts < MaxAttempts
\* Who works works on a run, under an attempt; a tick has found a key.
JobsHaveRuns == \A w \in Workers :
    /\ job[w].pc # "idle" => job[w].run \in Runs
    /\ Live(w) => job[w].attempt \in Attempts
\* A success names an archive, and only successes are being deleted.
SuccessHasKey == \A i \in Runs : row[i].status = "succeeded" => row[i].key \in Attempts
TicksHaveRuns == \A t \in Tickers :
    /\ tick[t].pc # "idle" => tick[t].run \in Runs
    /\ tick[t].pc = "present" => tick[t].key \in Attempts
DeletesSuccess == \A i \in Runs : deletion[i] # "none" => row[i].status = "succeeded"

Shape == /\ TypeOK /\ PendingHasRetries /\ JobsHaveRuns /\ SuccessHasKey
         /\ TicksHaveRuns /\ DeletesSuccess

\* The archive of a finished upload is there, one being erased is forsaken, and so
\* on for what a tick has found and what a deletion was decided for.
UploadedIsStored == \A w \in Workers :
    job[w].pc = "uploaded" => Target(w) \in stored \cup forsaken
ErasingIsForsaken == \A w \in Workers : job[w].pc = "erasing" => Target(w) \in forsaken
FoundIsStored == \A t \in Tickers :
    tick[t].pc = "present" => <<tick[t].run, tick[t].key>> \in stored \cup forsaken
DeletedIsForsaken == \A i \in Runs : deletion[i] # "none" => ArchiveOf(i) \in forsaken

StoreInv == UploadedIsStored /\ ErasingIsForsaken /\ FoundIsStored /\ DeletedIsForsaken
            /\ SucceededIsStored

\* No two workers upload under one key, and no key or archive of an active row is
\* newer than its count of attempts: the key of the next claim is new.
OneWorkerPerTarget == \A v, w \in Workers :
    v # w /\ Live(v) /\ Live(w) => Target(v) # Target(w)
AttemptsAreCounted == \A w \in Workers :
    Live(w) /\ Active(job[w].run) => job[w].attempt <= row[job[w].run].attempts
ArchivesAreCounted == \A i \in Runs, k \in Attempts :
    Active(i) /\ <<i, k>> \in stored => k <= row[i].attempts
FreeSlotIsClean == \A i \in Runs :
    row[i].status = "absent" => /\ \A w \in Workers : job[w].run # i
                                /\ \A k \in Attempts : <<i, k>> \notin stored
ClaimedIsNew == \A w \in Workers : job[w].pc = "claimed" => Target(w) \notin stored

\* A settled run names the archive of attempt k.
Named(i, k) == row[i].status \in {"succeeded", "deleted"} /\ row[i].key = k
\* Whoever settles has no archive left that only the worker knows of.
SettlingIsSafe == \A w \in Workers :
    job[w].pc = "settling" =>
      \/ Target(w) \notin stored
      \/ Target(w) \in forsaken
      \/ Named(job[w].run, job[w].attempt)
\* Past its stamp, the owner of a row has its key in it.
OwnerIsStamped == \A w \in Workers :
    job[w].pc \in {"dumping", "uploaded", "discarding", "erasing"} /\ Owns(w)
      => row[job[w].run].key = job[w].attempt

\* A tick will settle attempt k of run i without finding its archive.
PassedBy(i, k) == \E t \in Tickers : /\ tick[t].run = i
                                     /\ tick[t].attempt = k
                                     /\ tick[t].pc = "absent" \/ tick[t].key # k

\* Who knows of an archive.
Known(i, k) ==
    \/ \E w \in Workers : Live(w) /\ Target(w) = <<i, k>>
    \/ Named(i, k)
    \/ Holds(i, k) /\ row[i].key = k /\ ~PassedBy(i, k)

ArchivesAreKnown == \A i \in Runs, k \in Attempts :
    <<i, k>> \in stored \ (forsaken \cup stranded) => Known(i, k)

CountInv == /\ OneWorkerPerTarget /\ AttemptsAreCounted /\ ArchivesAreCounted
            /\ FreeSlotIsClean /\ ClaimedIsNew

SightInv == SettlingIsSafe /\ OwnerIsStamped /\ ArchivesAreKnown

(***************************************************************************)
(* What a step does to the one row, job or tick it is about.  Records are   *)
(* told apart by the fields the invariants read.                            *)
(***************************************************************************)
RowIs(i, status, attempts, key) ==
    /\ row' \in [Runs -> Row]
    /\ \A j \in Runs \ {i} : row'[j] = row[j]
    /\ row'[i].status = status /\ row'[i].attempts = attempts /\ row'[i].key = key

JobIs(w, pc, i, attempt) ==
    /\ job' \in [Workers -> Job]
    /\ \A v \in Workers \ {w} : job'[v] = job[v]
    /\ job'[w].pc = pc /\ job'[w].run = i /\ job'[w].attempt = attempt

TickIs(t, pc, i, attempt, key) ==
    /\ tick' \in [Tickers -> Tick]
    /\ \A u \in Tickers \ {t} : tick'[u] = tick[u]
    /\ tick'[t].pc = pc /\ tick'[t].run = i /\ tick'[t].attempt = attempt
    /\ tick'[t].key = key

Statuses == {"absent", "pending", "running", "succeeded", "failed", "cancelled", "deleted"}

LEMMA RowBecomes ==
    ASSUME TypeOK, NEW i \in Runs, NEW r \in Row, Becomes(i, r)
    PROVE  RowIs(i, r.status, r.attempts, r.key)
  BY SMT DEF TypeOK, Becomes, RowIs

LEMMA JobChanges ==
    ASSUME TypeOK, NEW w \in Workers, NEW j \in Job, JobBecomes(w, j)
    PROVE  JobIs(w, j.pc, j.run, j.attempt)
  BY SMT DEF TypeOK, JobBecomes, JobIs

LEMMA TickChanges ==
    ASSUME TypeOK, NEW t \in Tickers, NEW k \in Tick, TickBecomes(t, k)
    PROVE  TickIs(t, k.pc, k.run, k.attempt, k.key)
  BY SMT DEF TypeOK, TickBecomes, TickIs

LEMMA BareRow ==
    ASSUME TypeOK, NEW i \in Runs, NEW s \in Statuses, Becomes(i, Bare(s))
    PROVE  RowIs(i, s, 0, 0)
<1>1. Bare(s) \in Row /\ Bare(s).status = s /\ Bare(s).attempts = 0 /\ Bare(s).key = 0
  BY BoundAssumption, SMT DEF Bare, Row, Statuses
<1>2. QED
  BY <1>1, RowBecomes, Zenon

LEMMA StatusRow ==
    ASSUME TypeOK, NEW i \in Runs, NEW s \in Statuses,
           Becomes(i, [row[i] EXCEPT !.status = s])
    PROVE  RowIs(i, s, row[i].attempts, row[i].key)
<1> DEFINE r == [row[i] EXCEPT !.status = s]
<1>0. row[i] \in Row
  BY DEF TypeOK
<1>1. r \in Row /\ r.status = s /\ r.attempts = row[i].attempts /\ r.key = row[i].key
  BY <1>0, Zenon DEF Row, Statuses
<1>2. QED
  BY <1>1, RowBecomes, Zenon

LEMMA KeyRow ==
    ASSUME TypeOK, NEW i \in Runs, NEW k \in 0..MaxAttempts,
           Becomes(i, [row[i] EXCEPT !.key = k])
    PROVE  RowIs(i, row[i].status, row[i].attempts, k)
<1> DEFINE r == [row[i] EXCEPT !.key = k]
<1>0. row[i] \in Row
  BY DEF TypeOK
<1>1. r \in Row /\ r.status = row[i].status /\ r.attempts = row[i].attempts /\ r.key = k
  BY <1>0, Zenon DEF Row
<1>2. QED
  BY <1>1, RowBecomes, Zenon

LEMMA CancelRow ==
    ASSUME TypeOK, NEW i \in Runs, Becomes(i, [row[i] EXCEPT !.cancel = TRUE])
    PROVE  RowIs(i, row[i].status, row[i].attempts, row[i].key)
<1> DEFINE r == [row[i] EXCEPT !.cancel = TRUE]
<1>0. row[i] \in Row
  BY DEF TypeOK
<1>1. /\ r \in Row
      /\ r.status = row[i].status /\ r.attempts = row[i].attempts /\ r.key = row[i].key
  BY <1>0, Zenon DEF Row
<1>2. QED
  BY <1>1, RowBecomes, Zenon

LEMMA VerifyRow ==
    ASSUME TypeOK, NEW i \in Runs, NEW v \in {"done", "pending", "running"},
           Becomes(i, [row[i] EXCEPT !.verify = v])
    PROVE  RowIs(i, row[i].status, row[i].attempts, row[i].key)
<1> DEFINE r == [row[i] EXCEPT !.verify = v]
<1>0. row[i] \in Row
  BY DEF TypeOK
<1>1. /\ r \in Row
      /\ r.status = row[i].status /\ r.attempts = row[i].attempts /\ r.key = row[i].key
  BY <1>0, Zenon DEF Row
<1>2. QED
  BY <1>1, RowBecomes, Zenon

LEMMA SuccessRow ==
    ASSUME TypeOK, NEW i \in Runs, NEW k \in 0..MaxAttempts, Succeeds(i, k)
    PROVE  RowIs(i, "succeeded", 0, k)
<1>1. PICK v \in {"done", "pending"} :
        Becomes(i, [row[i] EXCEPT !.status = "succeeded", !.key = k, !.attempts = 0,
                                  !.cancel = FALSE, !.verify = v])
  BY Zenon DEF Succeeds
<1> DEFINE r == [row[i] EXCEPT !.status = "succeeded", !.key = k, !.attempts = 0,
                               !.cancel = FALSE, !.verify = v]
<1>2. row[i] \in Row /\ 0 \in 0..MaxAttempts
  BY BoundAssumption DEF TypeOK
<1>3. r \in Row /\ r.status = "succeeded" /\ r.attempts = 0 /\ r.key = k
  BY <1>2, Zenon DEF Row
<1>4. QED
  BY <1>1, <1>3, RowBecomes, Zenon

LEMMA SamePlace ==
    ASSUME TypeOK, NEW w \in Workers, NEW pc \in {"idle", "claimed", "dumping",
             "uploaded", "discarding", "erasing", "settling", "verifying"}, Goes(w, pc)
    PROVE  JobIs(w, pc, job[w].run, job[w].attempt)
<1> DEFINE j == [job[w] EXCEPT !.pc = pc]
<1>0. job[w] \in Job
  BY DEF TypeOK
<1>1. j \in Job /\ j.pc = pc /\ j.run = job[w].run /\ j.attempt = job[w].attempt
  BY <1>0, Zenon DEF Job
<1>2. QED
  BY <1>1, JobChanges, Zenon DEF Goes

LEMMA OutcomeSet ==
    ASSUME TypeOK, NEW w \in Workers, NEW o \in {"none", "cancel", "shutdown", "lease"},
           JobBecomes(w, [job[w] EXCEPT !.outcome = o])
    PROVE  JobIs(w, job[w].pc, job[w].run, job[w].attempt)
<1> DEFINE j == [job[w] EXCEPT !.outcome = o]
<1>0. job[w] \in Job
  BY DEF TypeOK
<1>1. /\ j \in Job
      /\ j.pc = job[w].pc /\ j.run = job[w].run /\ j.attempt = job[w].attempt
  BY <1>0, Zenon DEF Job
<1>2. QED
  BY <1>1, JobChanges, Zenon

LEMMA JobEnds ==
    ASSUME TypeOK, NEW w \in Workers, JobBecomes(w, NoJob)
    PROVE  JobIs(w, "idle", NoRun, 0)
<1>1. NoJob \in Job /\ NoJob.pc = "idle" /\ NoJob.run = NoRun /\ NoJob.attempt = 0
  BY BoundAssumption, SMT DEF NoJob, Job
<1>2. QED
  BY <1>1, JobChanges, Zenon

LEMMA TickEnds ==
    ASSUME TypeOK, NEW t \in Tickers, TickBecomes(t, NoTick)
    PROVE  TickIs(t, "idle", NoRun, 0, 0)
<1>1. /\ NoTick \in Tick /\ NoTick.pc = "idle" /\ NoTick.run = NoRun
      /\ NoTick.attempt = 0 /\ NoTick.key = 0
  BY BoundAssumption, SMT DEF NoTick, Tick
<1>2. QED
  BY <1>1, TickChanges, Zenon

(***************************************************************************)
(* What every action does, in those terms.                                 *)
(***************************************************************************)
LEMMA DeletedRow ==
    ASSUME TypeOK, NEW i \in Runs, deletion[i] # "none",
           Becomes(i, [row[i] EXCEPT !.status = "deleted", !.verify = "done",
                                     !.reason = deletion[i]])
    PROVE  RowIs(i, "deleted", row[i].attempts, row[i].key)
<1> DEFINE r == [row[i] EXCEPT !.status = "deleted", !.verify = "done",
                               !.reason = deletion[i]]
<1>0. row[i] \in Row /\ deletion[i] \in {"retention", "manual"}
  BY DEF TypeOK
<1>1. /\ r \in Row
      /\ r.status = "deleted" /\ r.attempts = row[i].attempts /\ r.key = row[i].key
  BY <1>0, Zenon DEF Row
<1>2. QED
  BY <1>1, RowBecomes, Zenon

LEMMA ClaimEffect ==
    ASSUME Shape, NEW w \in Workers, NEW i \in Runs, Claim(w, i)
    PROVE  /\ job[w].pc = "idle" /\ row[i].status = "pending"
           /\ row[i].attempts + 1 \in Attempts
           /\ RowIs(i, "running", row[i].attempts + 1, row[i].key)
           /\ JobIs(w, "claimed", i, row[i].attempts + 1)
           /\ older' \in [Runs -> SUBSET Runs]
           /\ \A j \in Runs \ {i} : older'[j] = older[j] \ {i}
           /\ UNCHANGED <<stored, tick, deletion, forsaken, stranded>>
<1> DEFINE n == row[i].attempts + 1
           r == [row[i] EXCEPT !.status = "running", !.attempts = @ + 1]
           j == [NoJob EXCEPT !.pc = "claimed", !.run = i, !.attempt = n]
<1>0. /\ TypeOK /\ row[i] \in Row /\ row[i].status = "pending" /\ job[w].pc = "idle"
      /\ Becomes(i, r) /\ JobBecomes(w, j)
      /\ older' = [k \in Runs |-> IF k = i
                                  THEN {l \in Runs \ {i} : row[l].status = "succeeded"}
                                  ELSE older[k] \ {i}]
      /\ UNCHANGED <<stored, tick, deletion, forsaken, stranded>>
  BY Zenon DEF Shape, TypeOK, Claim
<1>1. n \in Attempts /\ n \in 0..MaxAttempts
  BY <1>0, BoundAssumption, SMT DEF Shape, PendingHasRetries, Attempts, Row
<1>2. r \in Row /\ r.status = "running" /\ r.attempts = n /\ r.key = row[i].key
  BY <1>0, <1>1, Zenon DEF Row
<1>3. RowIs(i, "running", n, row[i].key)
  BY <1>0, <1>2, RowBecomes, Zenon
<1>4. NoJob \in Job
  BY BoundAssumption, SMT DEF NoJob, Job
<1>5. j \in Job /\ j.pc = "claimed" /\ j.run = i /\ j.attempt = n
  BY <1>1, <1>4, Zenon DEF Job
<1>6. JobIs(w, "claimed", i, n)
  BY <1>0, <1>5, JobChanges, Zenon
<1>7. /\ older' \in [Runs -> SUBSET Runs]
      /\ \A k \in Runs \ {i} : older'[k] = older[k] \ {i}
  BY <1>0 DEF TypeOK
<1>8. QED
  BY <1>0, <1>1, <1>3, <1>6, <1>7, Zenon

LEMMA ClaimVerifyEffect ==
    ASSUME Shape, NEW w \in Workers, NEW i \in Runs, ClaimVerify(w, i)
    PROVE  /\ job[w].pc = "idle" /\ row[i].status = "succeeded"
           /\ RowIs(i, row[i].status, row[i].attempts, row[i].key)
           /\ JobIs(w, "verifying", i, row[i].key)
           /\ UNCHANGED <<older, stored, tick, deletion, forsaken, stranded>>
<1> DEFINE j == [NoJob EXCEPT !.pc = "verifying", !.run = i, !.attempt = row[i].key]
<1>0. /\ TypeOK /\ row[i].status = "succeeded" /\ job[w].pc = "idle"
      /\ Becomes(i, [row[i] EXCEPT !.verify = "running"]) /\ JobBecomes(w, j)
      /\ UNCHANGED <<older, stored, tick, deletion, forsaken, stranded>>
  BY Zenon DEF Shape, ClaimVerify
<1>1. row[i].key \in 0..MaxAttempts /\ NoJob \in Job
  BY <1>0, BoundAssumption, SMT DEF TypeOK, Row, NoJob, Job
<1>2. j \in Job /\ j.pc = "verifying" /\ j.run = i /\ j.attempt = row[i].key
  BY <1>1, Zenon DEF Job
<1>3. JobIs(w, "verifying", i, row[i].key)
  BY <1>0, <1>2, JobChanges, Zenon
<1>4. RowIs(i, row[i].status, row[i].attempts, row[i].key)
  BY <1>0, VerifyRow
<1>5. QED
  BY <1>0, <1>3, <1>4, Zenon

LEMMA QuietRowEffect ==
    ASSUME Shape, NEW i \in Runs, RequestVerify(i) \/ ReclaimVerification(i)
    PROVE  /\ RowIs(i, row[i].status, row[i].attempts, row[i].key)
           /\ UNCHANGED <<older, stored, job, tick, deletion, forsaken, stranded>>
<1>1. \E v \in {"done", "pending", "running"} : Becomes(i, [row[i] EXCEPT !.verify = v])
  BY Zenon DEF RequestVerify, ReclaimVerification
<1>2. RowIs(i, row[i].status, row[i].attempts, row[i].key)
  BY <1>1, VerifyRow, Zenon DEF Shape
<1>3. QED
  BY <1>2, Zenon DEF RequestVerify, ReclaimVerification

LEMMA EnqueueEffect ==
    ASSUME Shape, NEW i \in Runs, Enqueue(i)
    PROVE  /\ row[i].status = "absent"
           /\ RowIs(i, "pending", 0, 0)
           /\ UNCHANGED <<older, stored, job, tick, deletion, forsaken, stranded>>
  BY BareRow, Zenon DEF Shape, Enqueue, Statuses

LEMMA RequestCancelEffect ==
    ASSUME Shape, NEW i \in Runs, RequestCancel(i)
    PROVE  /\ \/ row[i].status = "pending" /\ RowIs(i, "cancelled", 0, 0)
              \/ RowIs(i, row[i].status, row[i].attempts, row[i].key)
           /\ UNCHANGED <<older, stored, job, tick, deletion, forsaken, stranded>>
  BY BareRow, CancelRow, Zenon DEF Shape, RequestCancel, Statuses

LEMMA MarkDeletedEffect ==
    ASSUME Shape, NEW i \in Runs, MarkDeleted(i)
    PROVE  /\ deletion[i] # "none" /\ row[i].status = "succeeded"
           /\ RowIs(i, "deleted", row[i].attempts, row[i].key)
           /\ deletion' = [deletion EXCEPT ![i] = "none"]
           /\ UNCHANGED <<older, stored, job, tick, forsaken, stranded>>
  BY DeletedRow, Zenon DEF Shape, MarkDeleted, DeletesSuccess

LEMMA PruneEffect ==
    ASSUME Shape, NEW i \in Runs, Prune(i)
    PROVE  /\ row[i].status \in {"failed", "cancelled", "deleted"}
           /\ \A w \in Workers : job[w].run # i
           /\ \A t \in Tickers : tick[t].run # i
           /\ \A j \in Runs : deletion[j] = "none"
           /\ RowIs(i, "absent", 0, 0)
           /\ older' = [j \in Runs |-> IF j = i THEN {} ELSE older[j] \ {i}]
           /\ stored' = stored \ ({i} \X Attempts)
           /\ forsaken' = forsaken \ ({i} \X Attempts)
           /\ stranded' = stranded \ ({i} \X Attempts)
           /\ UNCHANGED <<job, tick, deletion>>
  BY BareRow, Zenon DEF Shape, Prune, Statuses

LEMMA FindStaleEffect ==
    ASSUME Shape, NEW t \in Tickers, NEW i \in Runs, FindStale(t, i)
    PROVE  /\ tick[t].pc = "idle" /\ row[i].status = "running"
           /\ TickIs(t, "found", i, row[i].attempts, row[i].key)
           /\ UNCHANGED <<row, older, stored, job, deletion, forsaken, stranded>>
<1> DEFINE k == [pc |-> "found", run |-> i, attempt |-> row[i].attempts, key |-> row[i].key]
<1>1. /\ tick[t].pc = "idle" /\ row[i].status = "running" /\ TickBecomes(t, k)
      /\ UNCHANGED <<row, older, stored, job, deletion, forsaken, stranded>>
  BY Zenon DEF FindStale
<1>2. /\ k \in Tick
      /\ k.pc = "found" /\ k.run = i /\ k.attempt = row[i].attempts /\ k.key = row[i].key
  BY SMT DEF Shape, TypeOK, Row, Tick
<1>3. TickIs(t, "found", i, row[i].attempts, row[i].key)
  BY <1>1, <1>2, TickChanges, Zenon DEF Shape
<1>4. QED
  BY <1>1, <1>3, Zenon

LEMMA InspectEffect ==
    ASSUME Shape, NEW t \in Tickers, Inspect(t)
    PROVE  /\ tick[t].pc = "found"
           /\ \/ /\ tick[t].key \in Attempts /\ <<tick[t].run, tick[t].key>> \in stored
                 /\ TickIs(t, "present", tick[t].run, tick[t].attempt, tick[t].key)
              \/ /\ ~(tick[t].key # 0 /\ <<tick[t].run, tick[t].key>> \in stored)
                 /\ TickIs(t, "absent", tick[t].run, tick[t].attempt, tick[t].key)
           /\ UNCHANGED <<row, older, stored, job, deletion, forsaken, stranded>>
<1> DEFINE pc == Found(tick[t])
           k == [tick[t] EXCEPT !.pc = pc]
<1>1. /\ TypeOK /\ tick[t].pc = "found" /\ TickBecomes(t, k) /\ tick[t] \in Tick
      /\ UNCHANGED <<row, older, stored, job, deletion, forsaken, stranded>>
  BY Zenon DEF Shape, TypeOK, Inspect
<1>2. \/ tick[t].key # 0 /\ <<tick[t].run, tick[t].key>> \in stored /\ pc = "present"
      \/ ~(tick[t].key # 0 /\ <<tick[t].run, tick[t].key>> \in stored) /\ pc = "absent"
  BY Zenon DEF Found
<1> HIDE DEF pc
<1>3. /\ k \in Tick /\ k.pc = pc
      /\ k.run = tick[t].run /\ k.attempt = tick[t].attempt /\ k.key = tick[t].key
  BY <1>1, <1>2, Zenon DEF Tick
<1>4. TickIs(t, pc, tick[t].run, tick[t].attempt, tick[t].key)
  BY <1>1, <1>3, TickChanges, Zenon
<1>5. tick[t].key # 0 => tick[t].key \in Attempts
  BY <1>1, BoundAssumption, SMT DEF Tick, Attempts
<1>6. QED
  BY <1>1, <1>2, <1>4, <1>5, Zenon

LEMMA HandedBackRow ==
    ASSUME Shape, NEW i \in Runs, NEW n, Holds(i, n), Becomes(i, HandedBack(i, n))
    PROVE  \/ RowIs(i, "failed", 0, 0)
           \/ n < MaxAttempts /\ RowIs(i, "pending", n, row[i].key)
<1>1. CASE n < MaxAttempts
  <2>1. Becomes(i, [row[i] EXCEPT !.status = "pending"])
    BY <1>1, Zenon DEF HandedBack, AfterInterruption
  <2>2. RowIs(i, "pending", row[i].attempts, row[i].key)
    BY <2>1, StatusRow, Zenon DEF Shape, Statuses
  <2>3. QED
    BY <1>1, <2>2, Zenon DEF Holds
<1>2. CASE ~(n < MaxAttempts)
  BY <1>2, BareRow, Zenon DEF Shape, HandedBack, AfterInterruption, Statuses
<1>3. QED
  BY <1>1, <1>2

LEMMA HandBackEffect ==
    ASSUME Shape, NEW t \in Tickers, HandBack(t)
    PROVE  /\ tick[t].pc = "absent" /\ tick[t].run \in Runs
           /\ \/ /\ Holds(tick[t].run, tick[t].attempt)
                 /\ \/ RowIs(tick[t].run, "failed", 0, 0)
                    \/ /\ tick[t].attempt < MaxAttempts
                       /\ RowIs(tick[t].run, "pending", tick[t].attempt,
                                row[tick[t].run].key)
              \/ ~Holds(tick[t].run, tick[t].attempt) /\ UNCHANGED row
           /\ TickIs(t, "idle", NoRun, 0, 0)
           /\ UNCHANGED <<older, stored, job, deletion, forsaken, stranded>>
<1>1. /\ tick[t].pc = "absent" /\ TickBecomes(t, NoTick) /\ TypeOK
      /\ IF Holds(tick[t].run, tick[t].attempt)
         THEN Becomes(tick[t].run, HandedBack(tick[t].run, tick[t].attempt))
         ELSE UNCHANGED row
      /\ UNCHANGED <<older, stored, job, deletion, forsaken, stranded>>
  BY Zenon DEF HandBack, Shape
<1>2. tick[t].run \in Runs
  BY <1>1 DEF Shape, TicksHaveRuns
<1>3. TickIs(t, "idle", NoRun, 0, 0)
  BY <1>1, TickEnds, Zenon
<1>4. QED
  BY <1>1, <1>2, <1>3, HandedBackRow, Zenon

LEMMA ReconcileEffect ==
    ASSUME Shape, NEW t \in Tickers, ReconcileSucceeded(t)
    PROVE  /\ tick[t].pc = "present" /\ tick[t].run \in Runs
           /\ \/ /\ Holds(tick[t].run, tick[t].attempt)
                 /\ RowIs(tick[t].run, "succeeded", 0, tick[t].key)
              \/ ~Holds(tick[t].run, tick[t].attempt) /\ UNCHANGED row
           /\ TickIs(t, "idle", NoRun, 0, 0)
           /\ UNCHANGED <<older, stored, job, deletion, forsaken, stranded>>
<1>1. /\ tick[t].pc = "present" /\ TickBecomes(t, NoTick) /\ TypeOK
      /\ IF Holds(tick[t].run, tick[t].attempt)
         THEN Succeeds(tick[t].run, tick[t].key) ELSE UNCHANGED row
      /\ UNCHANGED <<older, stored, job, deletion, forsaken, stranded>>
  BY Zenon DEF ReconcileSucceeded, Shape
<1>2. tick[t].run \in Runs /\ tick[t].key \in 0..MaxAttempts
  BY <1>1 DEF Shape, TicksHaveRuns, TypeOK, Tick
<1>3. TickIs(t, "idle", NoRun, 0, 0)
  BY <1>1, TickEnds, Zenon
<1>4. QED
  BY <1>1, <1>2, <1>3, SuccessRow, Zenon

LEMMA TickFailsEffect ==
    ASSUME Shape, NEW t \in Tickers, TickFails(t)
    PROVE  /\ TickIs(t, "idle", NoRun, 0, 0)
           /\ UNCHANGED <<row, older, stored, job, deletion, forsaken, stranded>>
  BY TickEnds, Zenon DEF TickFails, Shape

LEMMA LiveJob ==
    ASSUME Shape, NEW w \in Workers, Live(w)
    PROVE  /\ TypeOK /\ job[w].run \in Runs /\ job[w].attempt \in Attempts
           /\ job[w].attempt \in 0..MaxAttempts
  BY SMT DEF Shape, JobsHaveRuns, Live, Attempts

LEMMA StampEffect ==
    ASSUME Shape, NEW w \in Workers, StampTarget(w) \/ StampThrows(w)
    PROVE  /\ job[w].pc = "claimed" /\ Live(w)
           /\ \/ /\ Owns(w)
                 /\ RowIs(job[w].run, "running", job[w].attempt, job[w].attempt)
                 /\ \/ JobIs(w, "dumping", job[w].run, job[w].attempt)
                    \/ JobIs(w, "settling", job[w].run, job[w].attempt)
              \/ ~Owns(w) /\ UNCHANGED row /\ JobIs(w, "idle", NoRun, 0)
              \/ UNCHANGED row /\ JobIs(w, "settling", job[w].run, job[w].attempt)
           /\ UNCHANGED <<older, stored, tick, deletion, forsaken, stranded>>
<1> DEFINE i == job[w].run
           n == job[w].attempt
           Stamps == Owns(w) /\ Becomes(i, [row[i] EXCEPT !.key = n])
<1>1. /\ job[w].pc = "claimed"
      /\ UNCHANGED <<older, stored, tick, deletion, forsaken, stranded>>
      /\ \/ Stamps /\ (Goes(w, "dumping") \/ Goes(w, "settling"))
         \/ ~Owns(w) /\ UNCHANGED row /\ JobBecomes(w, NoJob)
         \/ UNCHANGED row /\ Goes(w, "settling")
  BY Zenon DEF StampTarget, StampThrows
<1>2. Live(w)
  BY <1>1 DEF Live
<1>3. TypeOK /\ i \in Runs /\ n \in 0..MaxAttempts
  BY <1>2, LiveJob
<1>4. ASSUME Stamps PROVE Owns(w) /\ RowIs(i, "running", n, n)
  <2>1. RowIs(i, row[i].status, row[i].attempts, n)
    BY <1>3, <1>4, KeyRow, Zenon
  <2>2. QED
    BY <1>4, <2>1, Zenon DEF Owns, Holds
<1>5. Goes(w, "dumping") => JobIs(w, "dumping", i, n)
  BY <1>3, SamePlace, Zenon
<1>6. Goes(w, "settling") => JobIs(w, "settling", i, n)
  BY <1>3, SamePlace, Zenon
<1>7. JobBecomes(w, NoJob) => JobIs(w, "idle", NoRun, 0)
  BY <1>3, JobEnds, Zenon
<1> HIDE DEF i, n, Stamps
<1>8. QED
  BY <1>1, <1>2, <1>4, <1>5, <1>6, <1>7, Zenon DEF i, n

\* Heartbeats and stops change nothing that the invariants read.
LEMMA OutcomeEffect ==
    ASSUME Shape, NEW w \in Workers, Heartbeat(w) \/ Stop(w) \/ HeartbeatVerify(w)
    PROVE  /\ job[w].pc # "idle"
           /\ JobIs(w, job[w].pc, job[w].run, job[w].attempt)
           /\ UNCHANGED <<row, older, stored, tick, deletion, forsaken, stranded>>
<1>1. /\ \E o \in {"none", "cancel", "shutdown", "lease"} :
            JobBecomes(w, [job[w] EXCEPT !.outcome = o])
      /\ UNCHANGED <<row, older, stored, tick, deletion, forsaken, stranded>>
  <2>1. CASE Heartbeat(w)
    <3> DEFINE o == IF Owns(w) THEN "cancel" ELSE "lease"
    <3>1. o \in {"none", "cancel", "shutdown", "lease"}
      OBVIOUS
    <3>2. JobBecomes(w, [job[w] EXCEPT !.outcome = o])
      BY <2>1, Zenon DEF Heartbeat
    <3>3. QED
      BY <2>1, <3>1, <3>2, Zenon DEF Heartbeat
  <2>2. CASE Stop(w)
    BY <2>2, Zenon DEF Stop
  <2>3. CASE HeartbeatVerify(w)
    BY <2>3, Zenon DEF HeartbeatVerify
  <2>4. QED
    BY <2>1, <2>2, <2>3
<1>2. JobIs(w, job[w].pc, job[w].run, job[w].attempt)
  BY <1>1, OutcomeSet, Zenon DEF Shape
<1>3. job[w].pc # "idle"
  BY Zenon DEF Heartbeat, Stop, HeartbeatVerify
<1>4. QED
  BY <1>1, <1>2, <1>3, Zenon

LEMMA UploadEffect ==
    ASSUME Shape, NEW w \in Workers, UploadReturns(w) \/ UploadThrows(w)
    PROVE  /\ job[w].pc = "dumping" /\ Live(w)
           /\ \/ /\ Target(w) \in stored
                 /\ JobIs(w, "uploaded", job[w].run, job[w].attempt)
              \/ JobIs(w, "discarding", job[w].run, job[w].attempt)
           /\ UNCHANGED <<row, older, stored, tick, deletion, forsaken, stranded>>
<1>1. job[w].pc = "dumping" /\ Live(w)
  BY Zenon DEF UploadReturns, UploadThrows, Live
<1>2. UploadReturns(w) => JobIs(w, "uploaded", job[w].run, job[w].attempt)
  BY SamePlace, Zenon DEF UploadReturns, Shape
<1>3. UploadThrows(w) => JobIs(w, "discarding", job[w].run, job[w].attempt)
  BY SamePlace, Zenon DEF UploadThrows, Shape
<1>4. QED
  BY <1>1, <1>2, <1>3, Zenon DEF UploadReturns, UploadThrows

LEMMA FinishEffect ==
    ASSUME Shape, NEW w \in Workers, FinishRun(w) \/ FinishThrows(w)
    PROVE  /\ job[w].pc = "uploaded" /\ Live(w)
           /\ \/ /\ Owns(w)
                 /\ RowIs(job[w].run, "succeeded", 0, job[w].attempt)
                 /\ \/ JobIs(w, "idle", NoRun, 0)
                    \/ JobIs(w, "discarding", job[w].run, job[w].attempt)
              \/ UNCHANGED row /\ JobIs(w, "discarding", job[w].run, job[w].attempt)
           /\ UNCHANGED <<older, stored, tick, deletion, forsaken, stranded>>
<1>1. /\ job[w].pc = "uploaded" /\ Live(w)
      /\ UNCHANGED <<older, stored, tick, deletion, forsaken, stranded>>
      /\ \/ /\ Owns(w) /\ Succeeds(job[w].run, job[w].attempt)
            /\ JobBecomes(w, NoJob) \/ Goes(w, "discarding")
         \/ UNCHANGED row /\ Goes(w, "discarding")
  BY Zenon DEF FinishRun, FinishThrows, Live
<1>2. Succeeds(job[w].run, job[w].attempt) =>
        RowIs(job[w].run, "succeeded", 0, job[w].attempt)
  BY <1>1, LiveJob, SuccessRow, Zenon
<1>3. JobBecomes(w, NoJob) => JobIs(w, "idle", NoRun, 0)
  BY JobEnds, Zenon DEF Shape
<1>4. Goes(w, "discarding") => JobIs(w, "discarding", job[w].run, job[w].attempt)
  BY SamePlace, Zenon DEF Shape
<1>5. QED
  BY <1>1, <1>2, <1>3, <1>4, Zenon

LEMMA RereadEffect ==
    ASSUME Shape, NEW w \in Workers, Reread(w) \/ RereadThrows(w)
    PROVE  /\ job[w].pc = "discarding" /\ Live(w) /\ Target(w) \in Archives
           /\ \/ /\ Recorded(w) /\ forsaken' = forsaken
                 /\ JobIs(w, "settling", job[w].run, job[w].attempt)
              \/ /\ forsaken' = forsaken \cup {Target(w)}
                 /\ JobIs(w, "erasing", job[w].run, job[w].attempt)
           /\ UNCHANGED <<row, older, stored, tick, deletion, stranded>>
<1>1. /\ job[w].pc = "discarding" /\ Live(w)
      /\ UNCHANGED <<row, older, stored, tick, deletion, stranded>>
      /\ \/ Recorded(w) /\ Goes(w, "settling") /\ forsaken' = forsaken
         \/ Goes(w, "erasing") /\ forsaken' = forsaken \cup {Target(w)}
  <2>1. CASE Recorded(w)
    BY <2>1, Zenon DEF Reread, RereadThrows, Keeps, Live
  <2>2. CASE ~Recorded(w)
    BY <2>2, Zenon DEF Reread, RereadThrows, Keeps, Live
  <2>3. QED
    BY <2>1, <2>2
<1>2. Goes(w, "settling") => JobIs(w, "settling", job[w].run, job[w].attempt)
  BY SamePlace, Zenon DEF Shape
<1>3. Goes(w, "erasing") => JobIs(w, "erasing", job[w].run, job[w].attempt)
  BY SamePlace, Zenon DEF Shape
<1>4. Target(w) \in Archives
  BY <1>1, LiveJob DEF Target, Archives
<1>5. QED
  BY <1>1, <1>2, <1>3, <1>4, Zenon

LEMMA EraseEffect ==
    ASSUME Shape, NEW w \in Workers, Erase(w) \/ EraseFails(w)
    PROVE  /\ job[w].pc = "erasing" /\ Live(w)
           /\ stored' = stored \ {Target(w)} \/ stored' = stored
           /\ JobIs(w, "settling", job[w].run, job[w].attempt)
           /\ UNCHANGED <<row, older, tick, deletion, forsaken, stranded>>
<1>1. Goes(w, "settling") => JobIs(w, "settling", job[w].run, job[w].attempt)
  BY SamePlace, Zenon DEF Shape
<1>2. QED
  BY <1>1, Zenon DEF Erase, EraseFails, Live

LEMMA SettleEffect ==
    ASSUME Shape, NEW w \in Workers, SettleFailure(w)
    PROVE  /\ job[w].pc = "settling" /\ Live(w)
           /\ \/ /\ Owns(w)
                 /\ \/ RowIs(job[w].run, "cancelled", 0, 0)
                    \/ RowIs(job[w].run, "failed", 0, 0)
                    \/ /\ job[w].attempt < MaxAttempts
                       /\ RowIs(job[w].run, "pending", job[w].attempt,
                                row[job[w].run].key)
              \/ UNCHANGED row
           /\ JobIs(w, "idle", NoRun, 0)
           /\ UNCHANGED <<older, stored, tick, deletion, forsaken, stranded>>
<1> DEFINE i == job[w].run
           n == job[w].attempt
<1>1. /\ job[w].pc = "settling" /\ Live(w) /\ JobBecomes(w, NoJob)
      /\ UNCHANGED <<older, stored, tick, deletion, forsaken, stranded>>
      /\ \/ Owns(w) /\ Becomes(i, Bare("cancelled"))
         \/ Owns(w) /\ Becomes(i, Bare("failed"))
         \/ Owns(w) /\ Becomes(i, HandedBack(i, n))
         \/ UNCHANGED row
  <2>1. CASE job[w].outcome = "cancel"
    BY <2>1, Zenon DEF SettleFailure, Live
  <2>2. CASE job[w].outcome = "shutdown"
    BY <2>2, Zenon DEF SettleFailure, Live
  <2>3. CASE job[w].outcome \notin {"cancel", "shutdown"}
    BY <2>3, Zenon DEF SettleFailure, Live
  <2>4. QED
    BY <2>1, <2>2, <2>3
<1>2. TypeOK /\ i \in Runs
  BY <1>1, LiveJob
<1>3. JobIs(w, "idle", NoRun, 0)
  BY <1>1, <1>2, JobEnds, Zenon
<1>4. Becomes(i, Bare("cancelled")) => RowIs(i, "cancelled", 0, 0)
  BY <1>2, BareRow, Zenon DEF Statuses
<1>5. Becomes(i, Bare("failed")) => RowIs(i, "failed", 0, 0)
  BY <1>2, BareRow, Zenon DEF Statuses
<1>6. Owns(w) /\ Becomes(i, HandedBack(i, n)) =>
        \/ RowIs(i, "failed", 0, 0)
        \/ n < MaxAttempts /\ RowIs(i, "pending", n, row[i].key)
  BY <1>2, HandedBackRow, Zenon DEF Owns
<1>7. QED
  BY <1>1, <1>3, <1>4, <1>5, <1>6, Zenon

LEMMA JobDiesEffect ==
    ASSUME Shape, NEW w \in Workers, JobDies(w)
    PROVE  /\ job[w].pc # "idle"
           /\ JobIs(w, "idle", NoRun, 0)
           /\ \/ stranded' = stranded \cup ({Target(w)} \cap stored)
              \/ /\ stranded' = stranded
                 /\ Recorded(w) \/ (Owns(w) /\ ~LookedPast(w))
           /\ UNCHANGED <<row, older, stored, tick, deletion, forsaken>>
<1>1. JobIs(w, "idle", NoRun, 0) /\ job[w].pc # "idle"
  BY JobEnds, Zenon DEF Shape, JobDies
<1>2. \/ stranded' = stranded \cup ({Target(w)} \cap stored)
      \/ /\ stranded' = stranded
         /\ Recorded(w) \/ (Owns(w) /\ ~LookedPast(w))
  BY Zenon DEF JobDies
<1>3. QED
  BY <1>1, <1>2, Zenon DEF JobDies

LEMMA FinishVerifyEffect ==
    ASSUME Shape, NEW w \in Workers, FinishVerify(w)
    PROVE  /\ job[w].pc = "verifying" /\ job[w].run \in Runs
           /\ RowIs(job[w].run, row[job[w].run].status, row[job[w].run].attempts,
                    row[job[w].run].key)
           /\ JobIs(w, "idle", NoRun, 0)
           /\ UNCHANGED <<older, stored, tick, deletion, forsaken, stranded>>
<1> DEFINE i == job[w].run
           left == IF job[w].outcome = "shutdown" THEN "pending" ELSE "done"
<1>1. left \in {"done", "pending", "running"}
  OBVIOUS
<1> HIDE DEF left
<1>2. /\ job[w].pc = "verifying" /\ JobBecomes(w, NoJob)
      /\ Becomes(i, [row[i] EXCEPT !.verify = left]) \/ UNCHANGED row
      /\ UNCHANGED <<older, stored, tick, deletion, forsaken, stranded>>
  BY Zenon DEF FinishVerify, left
<1>3. TypeOK /\ i \in Runs
  BY <1>2, SMT DEF Shape, JobsHaveRuns
<1>4. UNCHANGED row => RowIs(i, row[i].status, row[i].attempts, row[i].key)
  BY <1>3, SMT DEF RowIs, TypeOK
<1>5. RowIs(i, row[i].status, row[i].attempts, row[i].key)
  BY <1>1, <1>2, <1>3, <1>4, VerifyRow, Zenon
<1>6. JobIs(w, "idle", NoRun, 0)
  BY <1>2, <1>3, JobEnds, Zenon
<1>7. QED
  BY <1>2, <1>3, <1>5, <1>6, Zenon

LEMMA CommitEffect ==
    ASSUME Shape, NEW w \in Workers, ObjectCommits(w)
    PROVE  /\ job[w].pc = "dumping" /\ Live(w) /\ Target(w) \in Archives
           /\ stored' = stored \cup {Target(w)}
           /\ UNCHANGED <<row, older, job, tick, deletion, forsaken, stranded>>
<1>1. job[w].pc = "dumping" /\ Live(w)
  BY Zenon DEF ObjectCommits, Live
<1>2. Target(w) \in Archives
  BY <1>1, LiveJob DEF Target, Archives
<1>3. QED
  BY <1>1, <1>2, Zenon DEF ObjectCommits

LEMMA DecideEffect ==
    ASSUME Shape, NEW i \in Runs, RetentionDecides(i) \/ AdminDeletes(i)
    PROVE  /\ row[i].status = "succeeded" /\ ArchiveOf(i) \in Archives
           /\ \E reason \in {"retention", "manual"} :
                 deletion' = [deletion EXCEPT ![i] = reason]
           /\ forsaken' = forsaken \cup {ArchiveOf(i)}
           /\ UNCHANGED <<row, older, stored, job, tick, stranded>>
<1>1. /\ row[i].status = "succeeded"
      /\ \E reason \in {"retention", "manual"} :
            deletion' = [deletion EXCEPT ![i] = reason]
      /\ forsaken' = forsaken \cup {ArchiveOf(i)}
      /\ UNCHANGED <<row, older, stored, job, tick, stranded>>
  BY Zenon DEF RetentionDecides, AdminDeletes, Decide
<1>2. ArchiveOf(i) \in Archives
  BY <1>1, SMT DEF Shape, SuccessHasKey, ArchiveOf, Archives
<1>3. QED
  BY <1>1, <1>2, Zenon

LEMMA RemoveEffect ==
    ASSUME Shape, NEW i \in Runs, RemoveObject(i)
    PROVE  /\ deletion[i] # "none" /\ row[i].status = "succeeded"
           /\ stored' = stored \ {ArchiveOf(i)}
           /\ UNCHANGED <<row, older, job, tick, deletion, forsaken, stranded>>
  BY Zenon DEF RemoveObject, Shape, DeletesSuccess

LEMMA DeletionFailsEffect ==
    ASSUME Shape, NEW i \in Runs, DeletionFails(i)
    PROVE  /\ deletion' = [deletion EXCEPT ![i] = "none"]
           /\ UNCHANGED <<row, older, stored, job, tick, forsaken, stranded>>
  BY Zenon DEF DeletionFails

(***************************************************************************)
(* The shape of the state.                                                 *)
(***************************************************************************)
LEMMA ShapeInit == Init => Shape
<1>1. Bare("absent") \in Row /\ Bare("absent").status = "absent"
  BY BoundAssumption, SMT DEF Bare, Row
<1>2. NoJob \in Job /\ NoJob.pc = "idle" /\ NoTick \in Tick /\ NoTick.pc = "idle"
  BY BoundAssumption, SMT DEF NoJob, Job, NoTick, Tick
<1>3. QED
  BY <1>1, <1>2, SMT
     DEF Init, Shape, TypeOK, PendingHasRetries, JobsHaveRuns, SuccessHasKey,
         TicksHaveRuns, DeletesSuccess, Live

LEMMA ShapeNext ==
    ASSUME Shape, [Next]_vars
    PROVE  Shape'
<1>1. ASSUME NEW i \in Runs, Enqueue(i)
      PROVE  Shape'
  BY <1>1, EnqueueEffect, BoundAssumption, SMT
     DEF Shape, TypeOK, PendingHasRetries, JobsHaveRuns, SuccessHasKey,
         TicksHaveRuns, DeletesSuccess, Live, Holds, Owns, RowIs, JobIs, TickIs
<1>2. ASSUME NEW i \in Runs, RequestCancel(i)
      PROVE  Shape'
  BY <1>2, RequestCancelEffect, BoundAssumption, SMT
     DEF Shape, TypeOK, PendingHasRetries, JobsHaveRuns, SuccessHasKey,
         TicksHaveRuns, DeletesSuccess, Live, Holds, Owns, RowIs, JobIs, TickIs
<1>3. ASSUME NEW w \in Workers, NEW i \in Runs, Claim(w, i)
      PROVE  Shape'
  BY <1>3, ClaimEffect, BoundAssumption, SMT
     DEF Shape, TypeOK, PendingHasRetries, JobsHaveRuns, SuccessHasKey,
         TicksHaveRuns, DeletesSuccess, Live, Holds, Owns, RowIs, JobIs, TickIs
<1>4. ASSUME NEW w \in Workers, StampTarget(w) \/ StampThrows(w)
      PROVE  Shape'
  BY <1>4, StampEffect, BoundAssumption, SMT
     DEF Shape, TypeOK, PendingHasRetries, JobsHaveRuns, SuccessHasKey,
         TicksHaveRuns, DeletesSuccess, Live, Holds, Owns, RowIs, JobIs, TickIs
<1>5. ASSUME NEW w \in Workers, Heartbeat(w) \/ Stop(w) \/ HeartbeatVerify(w)
      PROVE  Shape'
  BY <1>5, OutcomeEffect, BoundAssumption, SMT
     DEF Shape, TypeOK, PendingHasRetries, JobsHaveRuns, SuccessHasKey,
         TicksHaveRuns, DeletesSuccess, Live, Holds, Owns, RowIs, JobIs, TickIs
<1>6. ASSUME NEW w \in Workers, ObjectCommits(w)
      PROVE  Shape'
  BY <1>6, CommitEffect, BoundAssumption, SMT
     DEF Shape, TypeOK, PendingHasRetries, JobsHaveRuns, SuccessHasKey,
         TicksHaveRuns, DeletesSuccess, Live, Holds, Owns, RowIs, JobIs, TickIs
<1>7. ASSUME NEW w \in Workers, UploadReturns(w) \/ UploadThrows(w)
      PROVE  Shape'
  BY <1>7, UploadEffect, BoundAssumption, SMT
     DEF Shape, TypeOK, PendingHasRetries, JobsHaveRuns, SuccessHasKey,
         TicksHaveRuns, DeletesSuccess, Live, Holds, Owns, RowIs, JobIs, TickIs
<1>8. ASSUME NEW w \in Workers, FinishRun(w) \/ FinishThrows(w)
      PROVE  Shape'
  BY <1>8, FinishEffect, BoundAssumption, SMT
     DEF Shape, TypeOK, PendingHasRetries, JobsHaveRuns, SuccessHasKey,
         TicksHaveRuns, DeletesSuccess, Live, Holds, Owns, RowIs, JobIs, TickIs
<1>9. ASSUME NEW w \in Workers, Reread(w) \/ RereadThrows(w)
      PROVE  Shape'
  BY <1>9, RereadEffect, BoundAssumption, SMT
     DEF Shape, TypeOK, PendingHasRetries, JobsHaveRuns, SuccessHasKey,
         TicksHaveRuns, DeletesSuccess, Live, Holds, Owns, RowIs, JobIs, TickIs
<1>10. ASSUME NEW w \in Workers, Erase(w) \/ EraseFails(w)
       PROVE  Shape'
  BY <1>10, EraseEffect, BoundAssumption, SMT
     DEF Shape, TypeOK, PendingHasRetries, JobsHaveRuns, SuccessHasKey,
         TicksHaveRuns, DeletesSuccess, Live, Holds, Owns, RowIs, JobIs, TickIs
<1>11. ASSUME NEW w \in Workers, SettleFailure(w)
       PROVE  Shape'
  BY <1>11, SettleEffect, BoundAssumption, SMT
     DEF Shape, TypeOK, PendingHasRetries, JobsHaveRuns, SuccessHasKey,
         TicksHaveRuns, DeletesSuccess, Live, Holds, Owns, RowIs, JobIs, TickIs
<1>12. ASSUME NEW w \in Workers, JobDies(w)
       PROVE  Shape'
  BY <1>12, JobDiesEffect, BoundAssumption, SMT
     DEF Shape, TypeOK, PendingHasRetries, JobsHaveRuns, SuccessHasKey,
         TicksHaveRuns, DeletesSuccess, Live, Holds, Owns, RowIs, JobIs, TickIs
<1>13. ASSUME NEW t \in Tickers, NEW i \in Runs, FindStale(t, i)
       PROVE  Shape'
  BY <1>13, FindStaleEffect, BoundAssumption, SMT
     DEF Shape, TypeOK, PendingHasRetries, JobsHaveRuns, SuccessHasKey,
         TicksHaveRuns, DeletesSuccess, Live, Holds, Owns, RowIs, JobIs, TickIs
<1>14. ASSUME NEW t \in Tickers, Inspect(t)
       PROVE  Shape'
  <2>1. /\ tick[t].pc = "found"
        /\ \E pc \in {"present", "absent"} :
              /\ pc = "present" => tick[t].key \in Attempts
              /\ TickIs(t, pc, tick[t].run, tick[t].attempt, tick[t].key)
        /\ UNCHANGED <<row, older, stored, job, deletion, forsaken, stranded>>
    BY <1>14, InspectEffect, Zenon
  <2>2. QED
    BY <2>1, SMT
       DEF Shape, TypeOK, PendingHasRetries, JobsHaveRuns, SuccessHasKey,
           TicksHaveRuns, DeletesSuccess, Live, TickIs
<1>15. ASSUME NEW t \in Tickers, HandBack(t)
       PROVE  Shape'
  BY <1>15, HandBackEffect, BoundAssumption, SMT
     DEF Shape, TypeOK, PendingHasRetries, JobsHaveRuns, SuccessHasKey,
         TicksHaveRuns, DeletesSuccess, Live, Holds, Owns, RowIs, JobIs, TickIs
<1>16. ASSUME NEW t \in Tickers, ReconcileSucceeded(t)
       PROVE  Shape'
  BY <1>16, ReconcileEffect, BoundAssumption, SMT
     DEF Shape, TypeOK, PendingHasRetries, JobsHaveRuns, SuccessHasKey,
         TicksHaveRuns, DeletesSuccess, Live, Holds, Owns, RowIs, JobIs, TickIs
<1>17. ASSUME NEW t \in Tickers, TickFails(t)
       PROVE  Shape'
  BY <1>17, TickFailsEffect, BoundAssumption, SMT
     DEF Shape, TypeOK, PendingHasRetries, JobsHaveRuns, SuccessHasKey,
         TicksHaveRuns, DeletesSuccess, Live, Holds, Owns, RowIs, JobIs, TickIs
<1>18. ASSUME NEW i \in Runs, RetentionDecides(i) \/ AdminDeletes(i)
       PROVE  Shape'
  BY <1>18, DecideEffect, BoundAssumption, SMT
     DEF Shape, TypeOK, PendingHasRetries, JobsHaveRuns, SuccessHasKey,
         TicksHaveRuns, DeletesSuccess, Live, Holds, Owns, RowIs, JobIs, TickIs
<1>19. ASSUME NEW i \in Runs, RemoveObject(i)
       PROVE  Shape'
  BY <1>19, RemoveEffect, BoundAssumption, SMT
     DEF Shape, TypeOK, PendingHasRetries, JobsHaveRuns, SuccessHasKey,
         TicksHaveRuns, DeletesSuccess, Live, Holds, Owns, RowIs, JobIs, TickIs
<1>20. ASSUME NEW i \in Runs, MarkDeleted(i)
       PROVE  Shape'
  BY <1>20, MarkDeletedEffect, BoundAssumption, SMT
     DEF Shape, TypeOK, PendingHasRetries, JobsHaveRuns, SuccessHasKey,
         TicksHaveRuns, DeletesSuccess, Live, Holds, Owns, RowIs, JobIs, TickIs
<1>21. ASSUME NEW i \in Runs, DeletionFails(i)
       PROVE  Shape'
  BY <1>21, DeletionFailsEffect, BoundAssumption, SMT
     DEF Shape, TypeOK, PendingHasRetries, JobsHaveRuns, SuccessHasKey,
         TicksHaveRuns, DeletesSuccess, Live, Holds, Owns, RowIs, JobIs, TickIs
<1>22. ASSUME NEW i \in Runs, Prune(i)
       PROVE  Shape'
  BY <1>22, PruneEffect, BoundAssumption, SMT
     DEF Shape, TypeOK, PendingHasRetries, JobsHaveRuns, SuccessHasKey,
         TicksHaveRuns, DeletesSuccess, Live, Holds, Owns, RowIs, JobIs, TickIs
<1>23. ASSUME NEW i \in Runs, RequestVerify(i) \/ ReclaimVerification(i)
       PROVE  Shape'
  BY <1>23, QuietRowEffect, BoundAssumption, SMT
     DEF Shape, TypeOK, PendingHasRetries, JobsHaveRuns, SuccessHasKey,
         TicksHaveRuns, DeletesSuccess, Live, Holds, Owns, RowIs, JobIs, TickIs
<1>24. ASSUME NEW w \in Workers, NEW i \in Runs, ClaimVerify(w, i)
       PROVE  Shape'
  BY <1>24, ClaimVerifyEffect, BoundAssumption, SMT
     DEF Shape, TypeOK, PendingHasRetries, JobsHaveRuns, SuccessHasKey,
         TicksHaveRuns, DeletesSuccess, Live, Holds, Owns, RowIs, JobIs, TickIs
<1>25. ASSUME NEW w \in Workers, FinishVerify(w)
       PROVE  Shape'
  BY <1>25, FinishVerifyEffect, BoundAssumption, SMT
     DEF Shape, TypeOK, PendingHasRetries, JobsHaveRuns, SuccessHasKey,
         TicksHaveRuns, DeletesSuccess, Live, Holds, Owns, RowIs, JobIs, TickIs
<1>26. CASE UNCHANGED vars
  BY <1>26, SMT DEF vars, Shape, TypeOK, PendingHasRetries, JobsHaveRuns, SuccessHasKey,
         TicksHaveRuns, DeletesSuccess, Live, Holds, Owns, RowIs, JobIs, TickIs
<1>27. QED
  BY <1>1, <1>2, <1>3, <1>4, <1>5, <1>6, <1>7, <1>8, <1>9, <1>10, <1>11, <1>12,
     <1>13, <1>14, <1>15, <1>16, <1>17, <1>18, <1>19, <1>20, <1>21, <1>22, <1>23, <1>24,
     <1>25, <1>26, Zenon
     DEF Next, Backup, Verification, Reclaim

(***************************************************************************)
(* What is in the bucket.                                                  *)
(***************************************************************************)
LEMMA StoreInit == Init => StoreInv
<1>1. Bare("absent").status = "absent" /\ NoJob.pc = "idle" /\ NoTick.pc = "idle"
  BY SMT DEF Bare, NoJob, NoTick
<1>2. QED
  BY <1>1, SMT
     DEF Init, StoreInv, UploadedIsStored, ErasingIsForsaken, FoundIsStored,
         DeletedIsForsaken, SucceededIsStored

LEMMA StoreNext ==
    ASSUME Shape, StoreInv, [Next]_vars
    PROVE  StoreInv'
<1>1. ASSUME NEW i \in Runs, Enqueue(i)
      PROVE  StoreInv'
  BY <1>1, EnqueueEffect, SMT
     DEF StoreInv, UploadedIsStored, ErasingIsForsaken, FoundIsStored, DeletedIsForsaken,
         SucceededIsStored, Shape, TypeOK, JobsHaveRuns, DeletesSuccess, TicksHaveRuns,
         Live, Holds, Owns, Recorded, Target, ArchiveOf, RowIs, JobIs, TickIs
<1>2. ASSUME NEW i \in Runs, RequestCancel(i)
      PROVE  StoreInv'
  BY <1>2, RequestCancelEffect, SMT
     DEF StoreInv, UploadedIsStored, ErasingIsForsaken, FoundIsStored, DeletedIsForsaken,
         SucceededIsStored, Shape, TypeOK, JobsHaveRuns, DeletesSuccess, TicksHaveRuns,
         Live, Holds, Owns, Recorded, Target, ArchiveOf, RowIs, JobIs, TickIs
<1>3. ASSUME NEW w \in Workers, NEW i \in Runs, Claim(w, i)
      PROVE  StoreInv'
  <2>1. /\ job[w].pc = "idle" /\ row[i].status = "pending"
        /\ RowIs(i, "running", row[i].attempts + 1, row[i].key)
        /\ JobIs(w, "claimed", i, row[i].attempts + 1)
        /\ UNCHANGED <<stored, tick, deletion, forsaken>>
    BY <1>3, ClaimEffect, Zenon
  <2>2. QED
    BY <2>1, SMT
       DEF StoreInv, UploadedIsStored, ErasingIsForsaken, FoundIsStored,
           DeletedIsForsaken, SucceededIsStored, Shape, DeletesSuccess,
           Target, ArchiveOf, RowIs, JobIs
<1>4. ASSUME NEW w \in Workers, StampTarget(w) \/ StampThrows(w)
      PROVE  StoreInv'
  BY <1>4, StampEffect, SMT
     DEF StoreInv, UploadedIsStored, ErasingIsForsaken, FoundIsStored, DeletedIsForsaken,
         SucceededIsStored, Shape, TypeOK, JobsHaveRuns, DeletesSuccess, TicksHaveRuns,
         Live, Holds, Owns, Recorded, Target, ArchiveOf, RowIs, JobIs, TickIs
<1>5. ASSUME NEW w \in Workers, Heartbeat(w) \/ Stop(w) \/ HeartbeatVerify(w)
      PROVE  StoreInv'
  BY <1>5, OutcomeEffect, SMT
     DEF StoreInv, UploadedIsStored, ErasingIsForsaken, FoundIsStored, DeletedIsForsaken,
         SucceededIsStored, Shape, TypeOK, JobsHaveRuns, DeletesSuccess, TicksHaveRuns,
         Live, Holds, Owns, Recorded, Target, ArchiveOf, RowIs, JobIs, TickIs
<1>6. ASSUME NEW w \in Workers, ObjectCommits(w)
      PROVE  StoreInv'
  <2>1. /\ stored \subseteq stored'
        /\ UNCHANGED <<row, job, tick, deletion, forsaken>>
    BY <1>6, CommitEffect, SMT
  <2>2. QED
    BY <2>1, SMT
       DEF StoreInv, UploadedIsStored, ErasingIsForsaken, FoundIsStored,
           DeletedIsForsaken, SucceededIsStored, Target, ArchiveOf
<1>7. ASSUME NEW w \in Workers, UploadReturns(w) \/ UploadThrows(w)
      PROVE  StoreInv'
  <2>1. /\ \/ JobIs(w, "uploaded", job[w].run, job[w].attempt) /\ Target(w) \in stored
           \/ JobIs(w, "discarding", job[w].run, job[w].attempt)
        /\ UNCHANGED <<row, stored, tick, deletion, forsaken>>
    BY <1>7, UploadEffect, Zenon
  <2>2. QED
    BY <2>1, SMT
       DEF StoreInv, UploadedIsStored, ErasingIsForsaken, FoundIsStored,
           DeletedIsForsaken, SucceededIsStored, Target, ArchiveOf, JobIs
<1>8. ASSUME NEW w \in Workers, FinishRun(w) \/ FinishThrows(w)
      PROVE  StoreInv'
  BY <1>8, FinishEffect, SMT
     DEF StoreInv, UploadedIsStored, ErasingIsForsaken, FoundIsStored, DeletedIsForsaken,
         SucceededIsStored, Shape, TypeOK, JobsHaveRuns, DeletesSuccess, TicksHaveRuns,
         Live, Holds, Owns, Recorded, Target, ArchiveOf, RowIs, JobIs, TickIs
<1>9. ASSUME NEW w \in Workers, Reread(w) \/ RereadThrows(w)
      PROVE  StoreInv'
  <2>1. /\ Target(w) \in forsaken' \/ JobIs(w, "settling", job[w].run, job[w].attempt)
        /\ \E pc \in {"settling", "erasing"} : JobIs(w, pc, job[w].run, job[w].attempt)
        /\ forsaken \subseteq forsaken'
        /\ UNCHANGED <<row, stored, tick, deletion>>
    BY <1>9, RereadEffect, SMT
  <2>2. QED
    BY <2>1, SMT
       DEF StoreInv, UploadedIsStored, ErasingIsForsaken, FoundIsStored,
           DeletedIsForsaken, SucceededIsStored, Target, ArchiveOf, JobIs
<1>10. ASSUME NEW w \in Workers, Erase(w) \/ EraseFails(w)
       PROVE  StoreInv'
  BY <1>10, EraseEffect, SMT
     DEF StoreInv, UploadedIsStored, ErasingIsForsaken, FoundIsStored, DeletedIsForsaken,
         SucceededIsStored, Shape, TypeOK, JobsHaveRuns, DeletesSuccess, TicksHaveRuns,
         Live, Holds, Owns, Recorded, Target, ArchiveOf, RowIs, JobIs, TickIs
<1>11. ASSUME NEW w \in Workers, SettleFailure(w)
       PROVE  StoreInv'
  BY <1>11, SettleEffect, SMT
     DEF StoreInv, UploadedIsStored, ErasingIsForsaken, FoundIsStored, DeletedIsForsaken,
         SucceededIsStored, Shape, TypeOK, JobsHaveRuns, DeletesSuccess, TicksHaveRuns,
         Live, Holds, Owns, Recorded, Target, ArchiveOf, RowIs, JobIs, TickIs
<1>12. ASSUME NEW w \in Workers, JobDies(w)
       PROVE  StoreInv'
  BY <1>12, JobDiesEffect, SMT
     DEF StoreInv, UploadedIsStored, ErasingIsForsaken, FoundIsStored, DeletedIsForsaken,
         SucceededIsStored, Shape, TypeOK, JobsHaveRuns, DeletesSuccess, TicksHaveRuns,
         Live, Holds, Owns, Recorded, Target, ArchiveOf, RowIs, JobIs, TickIs
<1>13. ASSUME NEW t \in Tickers, NEW i \in Runs, FindStale(t, i)
       PROVE  StoreInv'
  BY <1>13, FindStaleEffect, SMT
     DEF StoreInv, UploadedIsStored, ErasingIsForsaken, FoundIsStored, DeletedIsForsaken,
         SucceededIsStored, Shape, TypeOK, JobsHaveRuns, DeletesSuccess, TicksHaveRuns,
         Live, Holds, Owns, Recorded, Target, ArchiveOf, RowIs, JobIs, TickIs
<1>14. ASSUME NEW t \in Tickers, Inspect(t)
       PROVE  StoreInv'
  <2>1. /\ \/ /\ <<tick[t].run, tick[t].key>> \in stored
              /\ TickIs(t, "present", tick[t].run, tick[t].attempt, tick[t].key)
           \/ TickIs(t, "absent", tick[t].run, tick[t].attempt, tick[t].key)
        /\ UNCHANGED <<row, stored, job, deletion, forsaken>>
    BY <1>14, InspectEffect, Zenon
  <2>2. QED
    BY <2>1, SMT
       DEF StoreInv, UploadedIsStored, ErasingIsForsaken, FoundIsStored,
           DeletedIsForsaken, SucceededIsStored, Target, ArchiveOf, TickIs
<1>15. ASSUME NEW t \in Tickers, HandBack(t)
       PROVE  StoreInv'
  BY <1>15, HandBackEffect, SMT
     DEF StoreInv, UploadedIsStored, ErasingIsForsaken, FoundIsStored, DeletedIsForsaken,
         SucceededIsStored, Shape, TypeOK, JobsHaveRuns, DeletesSuccess, TicksHaveRuns,
         Live, Holds, Owns, Recorded, Target, ArchiveOf, RowIs, JobIs, TickIs
<1>16. ASSUME NEW t \in Tickers, ReconcileSucceeded(t)
       PROVE  StoreInv'
  BY <1>16, ReconcileEffect, SMT
     DEF StoreInv, UploadedIsStored, ErasingIsForsaken, FoundIsStored, DeletedIsForsaken,
         SucceededIsStored, Shape, TypeOK, JobsHaveRuns, DeletesSuccess, TicksHaveRuns,
         Live, Holds, Owns, Recorded, Target, ArchiveOf, RowIs, JobIs, TickIs
<1>17. ASSUME NEW t \in Tickers, TickFails(t)
       PROVE  StoreInv'
  BY <1>17, TickFailsEffect, SMT
     DEF StoreInv, UploadedIsStored, ErasingIsForsaken, FoundIsStored, DeletedIsForsaken,
         SucceededIsStored, Shape, TypeOK, JobsHaveRuns, DeletesSuccess, TicksHaveRuns,
         Live, Holds, Owns, Recorded, Target, ArchiveOf, RowIs, JobIs, TickIs
<1>18. ASSUME NEW i \in Runs, RetentionDecides(i) \/ AdminDeletes(i)
       PROVE  StoreInv'
  <2>1. /\ forsaken' = forsaken \cup {ArchiveOf(i)}
        /\ \A j \in Runs \ {i} : deletion'[j] = deletion[j]
        /\ UNCHANGED <<row, stored, job, tick>>
    BY <1>18, DecideEffect, SMT DEF Shape, TypeOK
  <2>2. forsaken \subseteq forsaken' /\ ArchiveOf(i) \in forsaken'
    BY <2>1, Zenon
  <2>3. QED
    BY <2>1, <2>2, SMT
       DEF StoreInv, UploadedIsStored, ErasingIsForsaken, FoundIsStored,
           DeletedIsForsaken, SucceededIsStored, Target, ArchiveOf
<1>19. ASSUME NEW i \in Runs, RemoveObject(i)
       PROVE  StoreInv'
  BY <1>19, RemoveEffect, SMT
     DEF StoreInv, UploadedIsStored, ErasingIsForsaken, FoundIsStored, DeletedIsForsaken,
         SucceededIsStored, Shape, TypeOK, JobsHaveRuns, DeletesSuccess, TicksHaveRuns,
         Live, Holds, Owns, Recorded, Target, ArchiveOf, RowIs, JobIs, TickIs
<1>20. ASSUME NEW i \in Runs, MarkDeleted(i)
       PROVE  StoreInv'
  BY <1>20, MarkDeletedEffect, SMT
     DEF StoreInv, UploadedIsStored, ErasingIsForsaken, FoundIsStored, DeletedIsForsaken,
         SucceededIsStored, Shape, TypeOK, JobsHaveRuns, DeletesSuccess, TicksHaveRuns,
         Live, Holds, Owns, Recorded, Target, ArchiveOf, RowIs, JobIs, TickIs
<1>21. ASSUME NEW i \in Runs, DeletionFails(i)
       PROVE  StoreInv'
  BY <1>21, DeletionFailsEffect, SMT
     DEF StoreInv, UploadedIsStored, ErasingIsForsaken, FoundIsStored, DeletedIsForsaken,
         SucceededIsStored, Shape, TypeOK, JobsHaveRuns, DeletesSuccess, TicksHaveRuns,
         Live, Holds, Owns, Recorded, Target, ArchiveOf, RowIs, JobIs, TickIs
<1>22. ASSUME NEW i \in Runs, Prune(i)
       PROVE  StoreInv'
  BY <1>22, PruneEffect, SMT
     DEF StoreInv, UploadedIsStored, ErasingIsForsaken, FoundIsStored, DeletedIsForsaken,
         SucceededIsStored, Shape, TypeOK, JobsHaveRuns, DeletesSuccess, TicksHaveRuns,
         Live, Holds, Owns, Recorded, Target, ArchiveOf, RowIs, JobIs, TickIs
<1>23. ASSUME NEW i \in Runs, RequestVerify(i) \/ ReclaimVerification(i)
       PROVE  StoreInv'
  BY <1>23, QuietRowEffect, SMT
     DEF StoreInv, UploadedIsStored, ErasingIsForsaken, FoundIsStored, DeletedIsForsaken,
         SucceededIsStored, Shape, TypeOK, JobsHaveRuns, DeletesSuccess, TicksHaveRuns,
         Live, Holds, Owns, Recorded, Target, ArchiveOf, RowIs, JobIs, TickIs
<1>24. ASSUME NEW w \in Workers, NEW i \in Runs, ClaimVerify(w, i)
       PROVE  StoreInv'
  BY <1>24, ClaimVerifyEffect, SMT
     DEF StoreInv, UploadedIsStored, ErasingIsForsaken, FoundIsStored, DeletedIsForsaken,
         SucceededIsStored, Shape, TypeOK, JobsHaveRuns, DeletesSuccess, TicksHaveRuns,
         Live, Holds, Owns, Recorded, Target, ArchiveOf, RowIs, JobIs, TickIs
<1>25. ASSUME NEW w \in Workers, FinishVerify(w)
       PROVE  StoreInv'
  BY <1>25, FinishVerifyEffect, SMT
     DEF StoreInv, UploadedIsStored, ErasingIsForsaken, FoundIsStored, DeletedIsForsaken,
         SucceededIsStored, Shape, TypeOK, JobsHaveRuns, DeletesSuccess, TicksHaveRuns,
         Live, Holds, Owns, Recorded, Target, ArchiveOf, RowIs, JobIs, TickIs
<1>26. CASE UNCHANGED vars
  BY <1>26, SMT DEF vars, StoreInv, UploadedIsStored, ErasingIsForsaken, FoundIsStored, DeletedIsForsaken,
         SucceededIsStored, Shape, TypeOK, JobsHaveRuns, DeletesSuccess, TicksHaveRuns,
         Live, Holds, Owns, Recorded, Target, ArchiveOf, RowIs, JobIs, TickIs
<1>27. QED
  BY <1>1, <1>2, <1>3, <1>4, <1>5, <1>6, <1>7, <1>8, <1>9, <1>10, <1>11, <1>12,
     <1>13, <1>14, <1>15, <1>16, <1>17, <1>18, <1>19, <1>20, <1>21, <1>22, <1>23, <1>24,
     <1>25, <1>26, Zenon
     DEF Next, Backup, Verification, Reclaim

(***************************************************************************)
(* Attempts are counted, and no two workers have one.                      *)
(***************************************************************************)
\* Nothing is queued, claimed or stored, and no slot becomes free.
NothingNew ==
    /\ stored' \subseteq stored
    /\ \A i \in Runs :
          /\ row'[i].status = "absent" => row[i].status = "absent"
          /\ Active(i)' => Active(i) /\ row'[i].attempts = row[i].attempts
    /\ \A w \in Workers :
          \/ /\ job'[w].run = job[w].run /\ job'[w].attempt = job[w].attempt
             /\ Live(w)' => Live(w)
             /\ job'[w].pc = "claimed" => job[w].pc = "claimed"
          \/ /\ ~Live(w)'
             /\ job'[w].run \notin Runs \/ row'[job'[w].run].status # "absent"

LEMMA NothingNewCounts ==
    ASSUME Shape, CountInv, NothingNew
    PROVE  CountInv'
<1>1. OneWorkerPerTarget'
  BY SMT DEF CountInv, OneWorkerPerTarget, NothingNew, Target
<1>2. AttemptsAreCounted'
  BY SMT DEF CountInv, AttemptsAreCounted, NothingNew, Shape, JobsHaveRuns, Live
<1>3. ArchivesAreCounted'
  BY SMT DEF CountInv, ArchivesAreCounted, NothingNew
<1>4. FreeSlotIsClean'
  BY SMT DEF CountInv, FreeSlotIsClean, NothingNew
<1>5. ClaimedIsNew'
  BY SMT DEF CountInv, ClaimedIsNew, NothingNew, Target, Live
<1>6. QED
  BY <1>1, <1>2, <1>3, <1>4, <1>5 DEF CountInv

LEMMA CountInit == Init => CountInv
<1>1. Bare("absent").status = "absent" /\ NoJob.pc = "idle" /\ NoJob.run \notin Runs
  BY RunAssumption, SMT DEF Bare, NoJob
<1>2. QED
  BY <1>1, SMT
     DEF Init, CountInv, OneWorkerPerTarget, AttemptsAreCounted, ArchivesAreCounted,
         FreeSlotIsClean, ClaimedIsNew, Live, Active

LEMMA CountNext ==
    ASSUME Shape, CountInv, [Next]_vars
    PROVE  CountInv'
<1>1. ASSUME NEW i \in Runs, Enqueue(i)
      PROVE  CountInv'
  <2>1. OneWorkerPerTarget'
    BY <1>1, EnqueueEffect, SMT
       DEF CountInv, OneWorkerPerTarget, Live, Target
  <2>2. AttemptsAreCounted'
    BY <1>1, EnqueueEffect, SMT
       DEF CountInv, AttemptsAreCounted, FreeSlotIsClean, Active, Live, RowIs, Shape,
           JobsHaveRuns
  <2>3. ArchivesAreCounted'
    BY <1>1, EnqueueEffect, SMT
       DEF CountInv, ArchivesAreCounted, FreeSlotIsClean, Active, RowIs
  <2>4. FreeSlotIsClean'
    BY <1>1, EnqueueEffect, SMT
       DEF CountInv, FreeSlotIsClean, RowIs
  <2>5. ClaimedIsNew'
    BY <1>1, EnqueueEffect, SMT
       DEF CountInv, ClaimedIsNew, Target
  <2>6. QED
    BY <2>1, <2>2, <2>3, <2>4, <2>5 DEF CountInv
<1>2. ASSUME NEW i \in Runs, RequestCancel(i)
      PROVE  CountInv'
  <2>1. NothingNew
    BY <1>2, RequestCancelEffect, RunAssumption, SMT
       DEF NothingNew, Shape, JobsHaveRuns, Live, Holds, Owns, Active, RowIs, JobIs
  <2>2. QED
    BY <2>1, NothingNewCounts
<1>3. ASSUME NEW w \in Workers, NEW i \in Runs, Claim(w, i)
      PROVE  CountInv'
  <2>1. /\ job[w].pc = "idle" /\ row[i].status = "pending"
        /\ row[i].attempts \in Nat /\ row[i].attempts + 1 \in Nat
        /\ RowIs(i, "running", row[i].attempts + 1, row[i].key)
        /\ JobIs(w, "claimed", i, row[i].attempts + 1)
        /\ stored' = stored
    BY <1>3, ClaimEffect, BoundAssumption, SMT DEF Shape, TypeOK, Row
  <2>2. OneWorkerPerTarget'
    BY <2>1, SMT
       DEF CountInv, OneWorkerPerTarget, AttemptsAreCounted, Active, Shape, JobsHaveRuns,
           Attempts, Live, Target, JobIs
  <2>3. AttemptsAreCounted'
    <3> SUFFICES ASSUME NEW v \in Workers, Live(v)', Active(job[v].run)'
                 PROVE  job'[v].attempt <= row'[job'[v].run].attempts
      BY DEF AttemptsAreCounted
    <3>1. CASE v = w
      BY <2>1, <3>1, SMT DEF RowIs, JobIs
    <3>2. CASE v # w
      <4>1. /\ job'[v] = job[v] /\ Live(v) /\ job[v].run \in Runs
            /\ job[v].attempt \in Nat
        BY <2>1, <3>2, SMT DEF JobIs, Live, Shape, JobsHaveRuns, Attempts
      <4>2. CASE job[v].run = i
        BY <2>1, <4>1, <4>2, SMT DEF CountInv, AttemptsAreCounted, Active, RowIs
      <4>3. CASE job[v].run # i
        BY <2>1, <4>1, <4>3, SMT DEF CountInv, AttemptsAreCounted, Active, RowIs
      <4>4. QED
        BY <4>2, <4>3
    <3>3. QED
      BY <3>1, <3>2
  <2>4. ArchivesAreCounted'
    BY <2>1, SMT DEF CountInv, ArchivesAreCounted, Active, Attempts, RowIs
  <2>5. FreeSlotIsClean'
    BY <2>1, SMT DEF CountInv, FreeSlotIsClean, JobIs, RowIs
  <2>6. ClaimedIsNew'
    BY <2>1, <1>3, ClaimEffect, SMT
       DEF CountInv, ClaimedIsNew, ArchivesAreCounted, Active, Target, JobIs
  <2>7. QED
    BY <2>2, <2>3, <2>4, <2>5, <2>6 DEF CountInv
<1>4. ASSUME NEW w \in Workers, StampTarget(w) \/ StampThrows(w)
      PROVE  CountInv'
  <2>1. NothingNew
    BY <1>4, StampEffect, RunAssumption, SMT
       DEF NothingNew, Shape, JobsHaveRuns, Live, Holds, Owns, Active, RowIs, JobIs
  <2>2. QED
    BY <2>1, NothingNewCounts
<1>5. ASSUME NEW w \in Workers, Heartbeat(w) \/ Stop(w) \/ HeartbeatVerify(w)
      PROVE  CountInv'
  <2>1. NothingNew
    BY <1>5, OutcomeEffect, RunAssumption, SMT
       DEF NothingNew, Shape, JobsHaveRuns, Live, Holds, Owns, Active, RowIs, JobIs
  <2>2. QED
    BY <2>1, NothingNewCounts
<1>6. ASSUME NEW w \in Workers, ObjectCommits(w)
      PROVE  CountInv'
  <2>1. /\ job[w].pc = "dumping" /\ Live(w) /\ job[w].run \in Runs
        /\ stored' = stored \cup {Target(w)}
        /\ UNCHANGED <<row, job>>
    BY <1>6, CommitEffect, LiveJob, Zenon
  <2>2. OneWorkerPerTarget' /\ AttemptsAreCounted'
    BY <2>1, SMT DEF CountInv, OneWorkerPerTarget, AttemptsAreCounted, Live, Active, Target
  <2>3. ASSUME NEW i \in Runs, NEW k \in Attempts, <<i, k>> \in stored'
        PROVE  <<i, k>> \in stored \/ (i = job[w].run /\ k = job[w].attempt)
    BY <2>1, <2>3, Zenon DEF Target
  <2>4. ArchivesAreCounted'
    BY <2>1, <2>3, SMT DEF CountInv, ArchivesAreCounted, AttemptsAreCounted, Active
  <2>5. FreeSlotIsClean'
    BY <2>1, <2>3, SMT DEF CountInv, FreeSlotIsClean
  <2>6. ClaimedIsNew'
    <3> SUFFICES ASSUME NEW v \in Workers, job[v].pc = "claimed"
                 PROVE  Target(v) \notin stored'
      BY <2>1, Zenon DEF ClaimedIsNew, Target
    <3>1. v # w /\ Live(v)
      BY <2>1 DEF Live
    <3>2. QED
      BY <2>1, <3>1, Zenon DEF CountInv, ClaimedIsNew, OneWorkerPerTarget
  <2>7. QED
    BY <2>2, <2>4, <2>5, <2>6 DEF CountInv
<1>7. ASSUME NEW w \in Workers, UploadReturns(w) \/ UploadThrows(w)
      PROVE  CountInv'
  <2>1. NothingNew
    BY <1>7, UploadEffect, RunAssumption, SMT
       DEF NothingNew, Shape, JobsHaveRuns, Live, Holds, Owns, Active, RowIs, JobIs
  <2>2. QED
    BY <2>1, NothingNewCounts
<1>8. ASSUME NEW w \in Workers, FinishRun(w) \/ FinishThrows(w)
      PROVE  CountInv'
  <2>1. NothingNew
    BY <1>8, FinishEffect, RunAssumption, SMT
       DEF NothingNew, Shape, JobsHaveRuns, Live, Holds, Owns, Active, RowIs, JobIs
  <2>2. QED
    BY <2>1, NothingNewCounts
<1>9. ASSUME NEW w \in Workers, Reread(w) \/ RereadThrows(w)
      PROVE  CountInv'
  <2>1. NothingNew
    BY <1>9, RereadEffect, RunAssumption, SMT
       DEF NothingNew, Shape, JobsHaveRuns, Live, Holds, Owns, Active, RowIs, JobIs
  <2>2. QED
    BY <2>1, NothingNewCounts
<1>10. ASSUME NEW w \in Workers, Erase(w) \/ EraseFails(w)
       PROVE  CountInv'
  <2>1. NothingNew
    BY <1>10, EraseEffect, RunAssumption, SMT
       DEF NothingNew, Shape, JobsHaveRuns, Live, Holds, Owns, Active, RowIs, JobIs
  <2>2. QED
    BY <2>1, NothingNewCounts
<1>11. ASSUME NEW w \in Workers, SettleFailure(w)
       PROVE  CountInv'
  <2>1. NothingNew
    BY <1>11, SettleEffect, RunAssumption, SMT
       DEF NothingNew, Shape, JobsHaveRuns, Live, Holds, Owns, Active, RowIs, JobIs
  <2>2. QED
    BY <2>1, NothingNewCounts
<1>12. ASSUME NEW w \in Workers, JobDies(w)
       PROVE  CountInv'
  <2>1. NothingNew
    BY <1>12, JobDiesEffect, RunAssumption, SMT
       DEF NothingNew, Shape, JobsHaveRuns, Live, Holds, Owns, Active, RowIs, JobIs
  <2>2. QED
    BY <2>1, NothingNewCounts
<1>13. ASSUME NEW t \in Tickers, NEW i \in Runs, FindStale(t, i)
       PROVE  CountInv'
  <2>1. NothingNew
    BY <1>13, FindStaleEffect, RunAssumption, SMT
       DEF NothingNew, Shape, JobsHaveRuns, Live, Holds, Owns, Active, RowIs, JobIs
  <2>2. QED
    BY <2>1, NothingNewCounts
<1>14. ASSUME NEW t \in Tickers, Inspect(t)
       PROVE  CountInv'
  <2>1. UNCHANGED <<row, stored, job>>
    BY <1>14, InspectEffect, Zenon
  <2>2. QED
    BY <2>1, NothingNewCounts, SMT DEF NothingNew, Active, Live
<1>15. ASSUME NEW t \in Tickers, HandBack(t)
       PROVE  CountInv'
  <2>1. NothingNew
    BY <1>15, HandBackEffect, RunAssumption, SMT
       DEF NothingNew, Shape, JobsHaveRuns, Live, Holds, Owns, Active, RowIs, JobIs
  <2>2. QED
    BY <2>1, NothingNewCounts
<1>16. ASSUME NEW t \in Tickers, ReconcileSucceeded(t)
       PROVE  CountInv'
  <2>1. NothingNew
    BY <1>16, ReconcileEffect, RunAssumption, SMT
       DEF NothingNew, Shape, JobsHaveRuns, Live, Holds, Owns, Active, RowIs, JobIs
  <2>2. QED
    BY <2>1, NothingNewCounts
<1>17. ASSUME NEW t \in Tickers, TickFails(t)
       PROVE  CountInv'
  <2>1. NothingNew
    BY <1>17, TickFailsEffect, RunAssumption, SMT
       DEF NothingNew, Shape, JobsHaveRuns, Live, Holds, Owns, Active, RowIs, JobIs
  <2>2. QED
    BY <2>1, NothingNewCounts
<1>18. ASSUME NEW i \in Runs, RetentionDecides(i) \/ AdminDeletes(i)
       PROVE  CountInv'
  <2>1. NothingNew
    BY <1>18, DecideEffect, RunAssumption, SMT
       DEF NothingNew, Shape, JobsHaveRuns, Live, Holds, Owns, Active, RowIs, JobIs
  <2>2. QED
    BY <2>1, NothingNewCounts
<1>19. ASSUME NEW i \in Runs, RemoveObject(i)
       PROVE  CountInv'
  <2>1. NothingNew
    BY <1>19, RemoveEffect, RunAssumption, SMT
       DEF NothingNew, Shape, JobsHaveRuns, Live, Holds, Owns, Active, RowIs, JobIs
  <2>2. QED
    BY <2>1, NothingNewCounts
<1>20. ASSUME NEW i \in Runs, MarkDeleted(i)
       PROVE  CountInv'
  <2>1. NothingNew
    BY <1>20, MarkDeletedEffect, RunAssumption, SMT
       DEF NothingNew, Shape, JobsHaveRuns, Live, Holds, Owns, Active, RowIs, JobIs
  <2>2. QED
    BY <2>1, NothingNewCounts
<1>21. ASSUME NEW i \in Runs, DeletionFails(i)
       PROVE  CountInv'
  <2>1. NothingNew
    BY <1>21, DeletionFailsEffect, RunAssumption, SMT
       DEF NothingNew, Shape, JobsHaveRuns, Live, Holds, Owns, Active, RowIs, JobIs
  <2>2. QED
    BY <2>1, NothingNewCounts
<1>22. ASSUME NEW i \in Runs, Prune(i)
       PROVE  CountInv'
  <2>1. OneWorkerPerTarget'
    BY <1>22, PruneEffect, SMT
       DEF CountInv, OneWorkerPerTarget, Live, Target
  <2>2. AttemptsAreCounted'
    BY <1>22, PruneEffect, SMT
       DEF CountInv, AttemptsAreCounted, Active, Live, RowIs, Shape, JobsHaveRuns
  <2>3. ArchivesAreCounted'
    BY <1>22, PruneEffect, SMT
       DEF CountInv, ArchivesAreCounted, Active, RowIs
  <2>4. FreeSlotIsClean'
    BY <1>22, PruneEffect, SMT
       DEF CountInv, FreeSlotIsClean, RowIs
  <2>5. ClaimedIsNew'
    BY <1>22, PruneEffect, SMT
       DEF CountInv, ClaimedIsNew, Target
  <2>6. QED
    BY <2>1, <2>2, <2>3, <2>4, <2>5 DEF CountInv
<1>23. ASSUME NEW i \in Runs, RequestVerify(i) \/ ReclaimVerification(i)
       PROVE  CountInv'
  <2>1. NothingNew
    BY <1>23, QuietRowEffect, RunAssumption, SMT
       DEF NothingNew, Shape, JobsHaveRuns, Live, Holds, Owns, Active, RowIs, JobIs
  <2>2. QED
    BY <2>1, NothingNewCounts
<1>24. ASSUME NEW w \in Workers, NEW i \in Runs, ClaimVerify(w, i)
       PROVE  CountInv'
  <2>1. NothingNew
    BY <1>24, ClaimVerifyEffect, RunAssumption, SMT
       DEF NothingNew, Shape, JobsHaveRuns, Live, Holds, Owns, Active, RowIs, JobIs
  <2>2. QED
    BY <2>1, NothingNewCounts
<1>25. ASSUME NEW w \in Workers, FinishVerify(w)
       PROVE  CountInv'
  <2>1. NothingNew
    BY <1>25, FinishVerifyEffect, RunAssumption, SMT
       DEF NothingNew, Shape, JobsHaveRuns, Live, Holds, Owns, Active, RowIs, JobIs
  <2>2. QED
    BY <2>1, NothingNewCounts
<1>26. CASE UNCHANGED vars
  <2>1. NothingNew
    BY <1>26, SMT DEF vars, NothingNew, Active, Live
  <2>2. QED
    BY <2>1, NothingNewCounts
<1>27. QED
  BY <1>1, <1>2, <1>3, <1>4, <1>5, <1>6, <1>7, <1>8, <1>9, <1>10, <1>11, <1>12,
     <1>13, <1>14, <1>15, <1>16, <1>17, <1>18, <1>19, <1>20, <1>21, <1>22, <1>23, <1>24,
     <1>25, <1>26, Zenon
     DEF Next, Backup, Verification, Reclaim

LEMMA SettlingIsSafeNext ==
    ASSUME Shape, StoreInv, CountInv, SightInv, [Next]_vars
    PROVE  SettlingIsSafe'
<1>1. ASSUME NEW i \in Runs, Enqueue(i)
      PROVE  SettlingIsSafe'
  BY <1>1, EnqueueEffect, SMT
     DEF SightInv, SettlingIsSafe, Named, StoreInv, ErasingIsForsaken, CountInv,
         ClaimedIsNew, OneWorkerPerTarget, Shape, JobsHaveRuns, Recorded, Live, Holds,
         Owns, Target, RowIs, JobIs
<1>2. ASSUME NEW i \in Runs, RequestCancel(i)
      PROVE  SettlingIsSafe'
  BY <1>2, RequestCancelEffect, SMT
     DEF SightInv, SettlingIsSafe, Named, StoreInv, ErasingIsForsaken, CountInv,
         ClaimedIsNew, OneWorkerPerTarget, Shape, JobsHaveRuns, Recorded, Live, Holds,
         Owns, Target, RowIs, JobIs
<1>3. ASSUME NEW w \in Workers, NEW i \in Runs, Claim(w, i)
      PROVE  SettlingIsSafe'
  BY <1>3, ClaimEffect, SMT
     DEF SightInv, SettlingIsSafe, Named, StoreInv, ErasingIsForsaken, CountInv,
         ClaimedIsNew, OneWorkerPerTarget, Shape, JobsHaveRuns, Recorded, Live, Holds,
         Owns, Target, RowIs, JobIs
<1>4. ASSUME NEW w \in Workers, StampTarget(w) \/ StampThrows(w)
      PROVE  SettlingIsSafe'
  BY <1>4, StampEffect, SMT
     DEF SightInv, SettlingIsSafe, Named, StoreInv, ErasingIsForsaken, CountInv,
         ClaimedIsNew, OneWorkerPerTarget, Shape, JobsHaveRuns, Recorded, Live, Holds,
         Owns, Target, RowIs, JobIs
<1>5. ASSUME NEW w \in Workers, Heartbeat(w) \/ Stop(w) \/ HeartbeatVerify(w)
      PROVE  SettlingIsSafe'
  BY <1>5, OutcomeEffect, SMT
     DEF SightInv, SettlingIsSafe, Named, StoreInv, ErasingIsForsaken, CountInv,
         ClaimedIsNew, OneWorkerPerTarget, Shape, JobsHaveRuns, Recorded, Live, Holds,
         Owns, Target, RowIs, JobIs
<1>6. ASSUME NEW w \in Workers, ObjectCommits(w)
      PROVE  SettlingIsSafe'
  <2>1. /\ job[w].pc = "dumping" /\ Live(w)
        /\ stored' = stored \cup {Target(w)}
        /\ UNCHANGED <<row, job, tick, forsaken, stranded>>
    BY <1>6, CommitEffect, Zenon
  <2>2. QED
    BY <2>1, SMT
       DEF SightInv, SettlingIsSafe, Named, StoreInv, ErasingIsForsaken, CountInv,
           ClaimedIsNew, OneWorkerPerTarget, Shape, JobsHaveRuns, Recorded, Live, Holds,
           Owns, Target, RowIs, JobIs
<1>7. ASSUME NEW w \in Workers, UploadReturns(w) \/ UploadThrows(w)
      PROVE  SettlingIsSafe'
  <2>1. /\ job[w].pc = "dumping" /\ Live(w)
        /\ \E pc \in {"uploaded", "discarding"} : JobIs(w, pc, job[w].run, job[w].attempt)
        /\ UNCHANGED <<row, stored, tick, forsaken, stranded>>
    BY <1>7, UploadEffect, SMT
  <2>2. QED
    BY <2>1, SMT
       DEF SightInv, SettlingIsSafe, Named, StoreInv, ErasingIsForsaken, CountInv,
           ClaimedIsNew, OneWorkerPerTarget, Shape, JobsHaveRuns, Recorded, Live, Holds,
           Owns, Target, RowIs, JobIs
<1>8. ASSUME NEW w \in Workers, FinishRun(w) \/ FinishThrows(w)
      PROVE  SettlingIsSafe'
  BY <1>8, FinishEffect, SMT
     DEF SightInv, SettlingIsSafe, Named, StoreInv, ErasingIsForsaken, CountInv,
         ClaimedIsNew, OneWorkerPerTarget, Shape, JobsHaveRuns, Recorded, Live, Holds,
         Owns, Target, RowIs, JobIs
<1>9. ASSUME NEW w \in Workers, Reread(w) \/ RereadThrows(w)
      PROVE  SettlingIsSafe'
  <2>1. /\ job[w].pc = "discarding" /\ Live(w)
        /\ \/ Recorded(w) /\ JobIs(w, "settling", job[w].run, job[w].attempt)
           \/ JobIs(w, "erasing", job[w].run, job[w].attempt)
        /\ forsaken \subseteq forsaken'
        /\ UNCHANGED <<row, stored, tick, stranded>>
    BY <1>9, RereadEffect, SMT
  <2>2. QED
    BY <2>1, SMT
       DEF SightInv, SettlingIsSafe, Named, StoreInv, ErasingIsForsaken, CountInv,
           ClaimedIsNew, OneWorkerPerTarget, Shape, JobsHaveRuns, Recorded, Live, Holds,
           Owns, Target, RowIs, JobIs
<1>10. ASSUME NEW w \in Workers, Erase(w) \/ EraseFails(w)
       PROVE  SettlingIsSafe'
  BY <1>10, EraseEffect, SMT
     DEF SightInv, SettlingIsSafe, Named, StoreInv, ErasingIsForsaken, CountInv,
         ClaimedIsNew, OneWorkerPerTarget, Shape, JobsHaveRuns, Recorded, Live, Holds,
         Owns, Target, RowIs, JobIs
<1>11. ASSUME NEW w \in Workers, SettleFailure(w)
       PROVE  SettlingIsSafe'
  BY <1>11, SettleEffect, SMT
     DEF SightInv, SettlingIsSafe, Named, StoreInv, ErasingIsForsaken, CountInv,
         ClaimedIsNew, OneWorkerPerTarget, Shape, JobsHaveRuns, Recorded, Live, Holds,
         Owns, Target, RowIs, JobIs
<1>12. ASSUME NEW w \in Workers, JobDies(w)
       PROVE  SettlingIsSafe'
  BY <1>12, JobDiesEffect, SMT
     DEF SightInv, SettlingIsSafe, Named, StoreInv, ErasingIsForsaken, CountInv,
         ClaimedIsNew, OneWorkerPerTarget, Shape, JobsHaveRuns, Recorded, Live, Holds,
         Owns, Target, RowIs, JobIs
<1>13. ASSUME NEW t \in Tickers, NEW i \in Runs, FindStale(t, i)
       PROVE  SettlingIsSafe'
  BY <1>13, FindStaleEffect, SMT
     DEF SightInv, SettlingIsSafe, Named, StoreInv, ErasingIsForsaken, CountInv,
         ClaimedIsNew, OneWorkerPerTarget, Shape, JobsHaveRuns, Recorded, Live, Holds,
         Owns, Target, RowIs, JobIs
<1>14. ASSUME NEW t \in Tickers, Inspect(t)
       PROVE  SettlingIsSafe'
  <2>1. UNCHANGED <<row, stored, job, forsaken, stranded>>
    BY <1>14, InspectEffect, Zenon
  <2>2. QED
    BY <2>1, SMT
       DEF SightInv, SettlingIsSafe, Named, StoreInv, ErasingIsForsaken, CountInv,
           ClaimedIsNew, OneWorkerPerTarget, Shape, JobsHaveRuns, Recorded, Live, Holds,
           Owns, Target, RowIs, JobIs
<1>15. ASSUME NEW t \in Tickers, HandBack(t)
       PROVE  SettlingIsSafe'
  BY <1>15, HandBackEffect, SMT
     DEF SightInv, SettlingIsSafe, Named, StoreInv, ErasingIsForsaken, CountInv,
         ClaimedIsNew, OneWorkerPerTarget, Shape, JobsHaveRuns, Recorded, Live, Holds,
         Owns, Target, RowIs, JobIs
<1>16. ASSUME NEW t \in Tickers, ReconcileSucceeded(t)
       PROVE  SettlingIsSafe'
  BY <1>16, ReconcileEffect, SMT
     DEF SightInv, SettlingIsSafe, Named, StoreInv, ErasingIsForsaken, CountInv,
         ClaimedIsNew, OneWorkerPerTarget, Shape, JobsHaveRuns, Recorded, Live, Holds,
         Owns, Target, RowIs, JobIs
<1>17. ASSUME NEW t \in Tickers, TickFails(t)
       PROVE  SettlingIsSafe'
  BY <1>17, TickFailsEffect, SMT
     DEF SightInv, SettlingIsSafe, Named, StoreInv, ErasingIsForsaken, CountInv,
         ClaimedIsNew, OneWorkerPerTarget, Shape, JobsHaveRuns, Recorded, Live, Holds,
         Owns, Target, RowIs, JobIs
<1>18. ASSUME NEW i \in Runs, RetentionDecides(i) \/ AdminDeletes(i)
       PROVE  SettlingIsSafe'
  BY <1>18, DecideEffect, SMT
     DEF SightInv, SettlingIsSafe, Named, StoreInv, ErasingIsForsaken, CountInv,
         ClaimedIsNew, OneWorkerPerTarget, Shape, JobsHaveRuns, Recorded, Live, Holds,
         Owns, Target, RowIs, JobIs
<1>19. ASSUME NEW i \in Runs, RemoveObject(i)
       PROVE  SettlingIsSafe'
  BY <1>19, RemoveEffect, SMT
     DEF SightInv, SettlingIsSafe, Named, StoreInv, ErasingIsForsaken, CountInv,
         ClaimedIsNew, OneWorkerPerTarget, Shape, JobsHaveRuns, Recorded, Live, Holds,
         Owns, Target, RowIs, JobIs
<1>20. ASSUME NEW i \in Runs, MarkDeleted(i)
       PROVE  SettlingIsSafe'
  BY <1>20, MarkDeletedEffect, SMT
     DEF SightInv, SettlingIsSafe, Named, StoreInv, ErasingIsForsaken, CountInv,
         ClaimedIsNew, OneWorkerPerTarget, Shape, JobsHaveRuns, Recorded, Live, Holds,
         Owns, Target, RowIs, JobIs
<1>21. ASSUME NEW i \in Runs, DeletionFails(i)
       PROVE  SettlingIsSafe'
  BY <1>21, DeletionFailsEffect, SMT
     DEF SightInv, SettlingIsSafe, Named, StoreInv, ErasingIsForsaken, CountInv,
         ClaimedIsNew, OneWorkerPerTarget, Shape, JobsHaveRuns, Recorded, Live, Holds,
         Owns, Target, RowIs, JobIs
<1>22. ASSUME NEW i \in Runs, Prune(i)
       PROVE  SettlingIsSafe'
  BY <1>22, PruneEffect, SMT
     DEF SightInv, SettlingIsSafe, Named, StoreInv, ErasingIsForsaken, CountInv,
         ClaimedIsNew, OneWorkerPerTarget, Shape, JobsHaveRuns, Recorded, Live, Holds,
         Owns, Target, RowIs, JobIs
<1>23. ASSUME NEW i \in Runs, RequestVerify(i) \/ ReclaimVerification(i)
       PROVE  SettlingIsSafe'
  BY <1>23, QuietRowEffect, SMT
     DEF SightInv, SettlingIsSafe, Named, StoreInv, ErasingIsForsaken, CountInv,
         ClaimedIsNew, OneWorkerPerTarget, Shape, JobsHaveRuns, Recorded, Live, Holds,
         Owns, Target, RowIs, JobIs
<1>24. ASSUME NEW w \in Workers, NEW i \in Runs, ClaimVerify(w, i)
       PROVE  SettlingIsSafe'
  BY <1>24, ClaimVerifyEffect, SMT
     DEF SightInv, SettlingIsSafe, Named, StoreInv, ErasingIsForsaken, CountInv,
         ClaimedIsNew, OneWorkerPerTarget, Shape, JobsHaveRuns, Recorded, Live, Holds,
         Owns, Target, RowIs, JobIs
<1>25. ASSUME NEW w \in Workers, FinishVerify(w)
       PROVE  SettlingIsSafe'
  BY <1>25, FinishVerifyEffect, SMT
     DEF SightInv, SettlingIsSafe, Named, StoreInv, ErasingIsForsaken, CountInv,
         ClaimedIsNew, OneWorkerPerTarget, Shape, JobsHaveRuns, Recorded, Live, Holds,
         Owns, Target, RowIs, JobIs
<1>26. CASE UNCHANGED vars
  BY <1>26, SMT DEF vars, SightInv, SettlingIsSafe, Named, StoreInv, ErasingIsForsaken, CountInv,
         ClaimedIsNew, OneWorkerPerTarget, Shape, JobsHaveRuns, Recorded, Live, Holds,
         Owns, Target, RowIs, JobIs
<1>27. QED
  BY <1>1, <1>2, <1>3, <1>4, <1>5, <1>6, <1>7, <1>8, <1>9, <1>10, <1>11, <1>12,
     <1>13, <1>14, <1>15, <1>16, <1>17, <1>18, <1>19, <1>20, <1>21, <1>22, <1>23, <1>24,
     <1>25, <1>26, Zenon
     DEF Next, Backup, Verification, Reclaim

LEMMA OwnerIsStampedNext ==
    ASSUME Shape, StoreInv, CountInv, SightInv, [Next]_vars
    PROVE  OwnerIsStamped'
<1>1. ASSUME NEW i \in Runs, Enqueue(i)
      PROVE  OwnerIsStamped'
  BY <1>1, EnqueueEffect, SMT
     DEF SightInv, OwnerIsStamped, CountInv, OneWorkerPerTarget, Shape, JobsHaveRuns,
         Live, Holds, Owns, Target, RowIs, JobIs
<1>2. ASSUME NEW i \in Runs, RequestCancel(i)
      PROVE  OwnerIsStamped'
  BY <1>2, RequestCancelEffect, SMT
     DEF SightInv, OwnerIsStamped, CountInv, OneWorkerPerTarget, Shape, JobsHaveRuns,
         Live, Holds, Owns, Target, RowIs, JobIs
<1>3. ASSUME NEW w \in Workers, NEW i \in Runs, Claim(w, i)
      PROVE  OwnerIsStamped'
  <2>1. /\ job[w].pc = "idle" /\ row[i].status = "pending" /\ row[i].attempts \in Nat
        /\ RowIs(i, "running", row[i].attempts + 1, row[i].key)
        /\ JobIs(w, "claimed", i, row[i].attempts + 1)
    BY <1>3, ClaimEffect, SMT DEF Shape, TypeOK, Row
  <2> SUFFICES ASSUME NEW v \in Workers,
                      job'[v].pc \in {"dumping", "uploaded", "discarding", "erasing"},
                      Owns(v)'
               PROVE  row'[job'[v].run].key = job'[v].attempt
    BY Zenon DEF OwnerIsStamped
  <2>2. v # w /\ job'[v] = job[v] /\ Live(v) /\ job[v].run \in Runs /\ job[v].attempt \in Nat
    BY <2>1, SMT DEF JobIs, Live, Shape, JobsHaveRuns, Attempts
  <2>3. job[v].run # i
    BY <2>1, <2>2, SMT
       DEF CountInv, AttemptsAreCounted, Active, Owns, Holds, RowIs
  <2>4. QED
    BY <2>1, <2>2, <2>3, SMT DEF SightInv, OwnerIsStamped, Owns, Holds, RowIs
<1>4. ASSUME NEW w \in Workers, StampTarget(w) \/ StampThrows(w)
      PROVE  OwnerIsStamped'
  BY <1>4, StampEffect, SMT
     DEF SightInv, OwnerIsStamped, CountInv, OneWorkerPerTarget, Shape, JobsHaveRuns,
         Live, Holds, Owns, Target, RowIs, JobIs
<1>5. ASSUME NEW w \in Workers, Heartbeat(w) \/ Stop(w) \/ HeartbeatVerify(w)
      PROVE  OwnerIsStamped'
  BY <1>5, OutcomeEffect, SMT
     DEF SightInv, OwnerIsStamped, CountInv, OneWorkerPerTarget, Shape, JobsHaveRuns,
         Live, Holds, Owns, Target, RowIs, JobIs
<1>6. ASSUME NEW w \in Workers, ObjectCommits(w)
      PROVE  OwnerIsStamped'
  <2>1. /\ job[w].pc = "dumping" /\ Live(w)
        /\ stored' = stored \cup {Target(w)}
        /\ UNCHANGED <<row, job, tick, forsaken, stranded>>
    BY <1>6, CommitEffect, Zenon
  <2>2. QED
    BY <2>1, SMT
       DEF SightInv, OwnerIsStamped, CountInv, OneWorkerPerTarget, Shape, JobsHaveRuns,
           Live, Holds, Owns, Target, RowIs, JobIs
<1>7. ASSUME NEW w \in Workers, UploadReturns(w) \/ UploadThrows(w)
      PROVE  OwnerIsStamped'
  <2>1. /\ job[w].pc = "dumping" /\ Live(w)
        /\ \E pc \in {"uploaded", "discarding"} : JobIs(w, pc, job[w].run, job[w].attempt)
        /\ UNCHANGED <<row, stored, tick, forsaken, stranded>>
    BY <1>7, UploadEffect, SMT
  <2>2. QED
    BY <2>1, SMT
       DEF SightInv, OwnerIsStamped, CountInv, OneWorkerPerTarget, Shape, JobsHaveRuns,
           Live, Holds, Owns, Target, RowIs, JobIs
<1>8. ASSUME NEW w \in Workers, FinishRun(w) \/ FinishThrows(w)
      PROVE  OwnerIsStamped'
  BY <1>8, FinishEffect, SMT
     DEF SightInv, OwnerIsStamped, CountInv, OneWorkerPerTarget, Shape, JobsHaveRuns,
         Live, Holds, Owns, Target, RowIs, JobIs
<1>9. ASSUME NEW w \in Workers, Reread(w) \/ RereadThrows(w)
      PROVE  OwnerIsStamped'
  <2>1. /\ job[w].pc = "discarding" /\ Live(w)
        /\ \/ Recorded(w) /\ JobIs(w, "settling", job[w].run, job[w].attempt)
           \/ JobIs(w, "erasing", job[w].run, job[w].attempt)
        /\ forsaken \subseteq forsaken'
        /\ UNCHANGED <<row, stored, tick, stranded>>
    BY <1>9, RereadEffect, SMT
  <2>2. QED
    BY <2>1, SMT
       DEF SightInv, OwnerIsStamped, CountInv, OneWorkerPerTarget, Shape, JobsHaveRuns,
           Live, Holds, Owns, Target, RowIs, JobIs
<1>10. ASSUME NEW w \in Workers, Erase(w) \/ EraseFails(w)
       PROVE  OwnerIsStamped'
  BY <1>10, EraseEffect, SMT
     DEF SightInv, OwnerIsStamped, CountInv, OneWorkerPerTarget, Shape, JobsHaveRuns,
         Live, Holds, Owns, Target, RowIs, JobIs
<1>11. ASSUME NEW w \in Workers, SettleFailure(w)
       PROVE  OwnerIsStamped'
  BY <1>11, SettleEffect, SMT
     DEF SightInv, OwnerIsStamped, CountInv, OneWorkerPerTarget, Shape, JobsHaveRuns,
         Live, Holds, Owns, Target, RowIs, JobIs
<1>12. ASSUME NEW w \in Workers, JobDies(w)
       PROVE  OwnerIsStamped'
  BY <1>12, JobDiesEffect, SMT
     DEF SightInv, OwnerIsStamped, CountInv, OneWorkerPerTarget, Shape, JobsHaveRuns,
         Live, Holds, Owns, Target, RowIs, JobIs
<1>13. ASSUME NEW t \in Tickers, NEW i \in Runs, FindStale(t, i)
       PROVE  OwnerIsStamped'
  BY <1>13, FindStaleEffect, SMT
     DEF SightInv, OwnerIsStamped, CountInv, OneWorkerPerTarget, Shape, JobsHaveRuns,
         Live, Holds, Owns, Target, RowIs, JobIs
<1>14. ASSUME NEW t \in Tickers, Inspect(t)
       PROVE  OwnerIsStamped'
  <2>1. UNCHANGED <<row, stored, job, forsaken, stranded>>
    BY <1>14, InspectEffect, Zenon
  <2>2. QED
    BY <2>1, SMT
       DEF SightInv, OwnerIsStamped, CountInv, OneWorkerPerTarget, Shape, JobsHaveRuns,
           Live, Holds, Owns, Target, RowIs, JobIs
<1>15. ASSUME NEW t \in Tickers, HandBack(t)
       PROVE  OwnerIsStamped'
  BY <1>15, HandBackEffect, SMT
     DEF SightInv, OwnerIsStamped, CountInv, OneWorkerPerTarget, Shape, JobsHaveRuns,
         Live, Holds, Owns, Target, RowIs, JobIs
<1>16. ASSUME NEW t \in Tickers, ReconcileSucceeded(t)
       PROVE  OwnerIsStamped'
  BY <1>16, ReconcileEffect, SMT
     DEF SightInv, OwnerIsStamped, CountInv, OneWorkerPerTarget, Shape, JobsHaveRuns,
         Live, Holds, Owns, Target, RowIs, JobIs
<1>17. ASSUME NEW t \in Tickers, TickFails(t)
       PROVE  OwnerIsStamped'
  BY <1>17, TickFailsEffect, SMT
     DEF SightInv, OwnerIsStamped, CountInv, OneWorkerPerTarget, Shape, JobsHaveRuns,
         Live, Holds, Owns, Target, RowIs, JobIs
<1>18. ASSUME NEW i \in Runs, RetentionDecides(i) \/ AdminDeletes(i)
       PROVE  OwnerIsStamped'
  BY <1>18, DecideEffect, SMT
     DEF SightInv, OwnerIsStamped, CountInv, OneWorkerPerTarget, Shape, JobsHaveRuns,
         Live, Holds, Owns, Target, RowIs, JobIs
<1>19. ASSUME NEW i \in Runs, RemoveObject(i)
       PROVE  OwnerIsStamped'
  BY <1>19, RemoveEffect, SMT
     DEF SightInv, OwnerIsStamped, CountInv, OneWorkerPerTarget, Shape, JobsHaveRuns,
         Live, Holds, Owns, Target, RowIs, JobIs
<1>20. ASSUME NEW i \in Runs, MarkDeleted(i)
       PROVE  OwnerIsStamped'
  BY <1>20, MarkDeletedEffect, SMT
     DEF SightInv, OwnerIsStamped, CountInv, OneWorkerPerTarget, Shape, JobsHaveRuns,
         Live, Holds, Owns, Target, RowIs, JobIs
<1>21. ASSUME NEW i \in Runs, DeletionFails(i)
       PROVE  OwnerIsStamped'
  BY <1>21, DeletionFailsEffect, SMT
     DEF SightInv, OwnerIsStamped, CountInv, OneWorkerPerTarget, Shape, JobsHaveRuns,
         Live, Holds, Owns, Target, RowIs, JobIs
<1>22. ASSUME NEW i \in Runs, Prune(i)
       PROVE  OwnerIsStamped'
  BY <1>22, PruneEffect, SMT
     DEF SightInv, OwnerIsStamped, CountInv, OneWorkerPerTarget, Shape, JobsHaveRuns,
         Live, Holds, Owns, Target, RowIs, JobIs
<1>23. ASSUME NEW i \in Runs, RequestVerify(i) \/ ReclaimVerification(i)
       PROVE  OwnerIsStamped'
  BY <1>23, QuietRowEffect, SMT
     DEF SightInv, OwnerIsStamped, CountInv, OneWorkerPerTarget, Shape, JobsHaveRuns,
         Live, Holds, Owns, Target, RowIs, JobIs
<1>24. ASSUME NEW w \in Workers, NEW i \in Runs, ClaimVerify(w, i)
       PROVE  OwnerIsStamped'
  BY <1>24, ClaimVerifyEffect, SMT
     DEF SightInv, OwnerIsStamped, CountInv, OneWorkerPerTarget, Shape, JobsHaveRuns,
         Live, Holds, Owns, Target, RowIs, JobIs
<1>25. ASSUME NEW w \in Workers, FinishVerify(w)
       PROVE  OwnerIsStamped'
  BY <1>25, FinishVerifyEffect, SMT
     DEF SightInv, OwnerIsStamped, CountInv, OneWorkerPerTarget, Shape, JobsHaveRuns,
         Live, Holds, Owns, Target, RowIs, JobIs
<1>26. CASE UNCHANGED vars
  BY <1>26, SMT DEF vars, SightInv, OwnerIsStamped, CountInv, OneWorkerPerTarget, Shape, JobsHaveRuns,
         Live, Holds, Owns, Target, RowIs, JobIs
<1>27. QED
  BY <1>1, <1>2, <1>3, <1>4, <1>5, <1>6, <1>7, <1>8, <1>9, <1>10, <1>11, <1>12,
     <1>13, <1>14, <1>15, <1>16, <1>17, <1>18, <1>19, <1>20, <1>21, <1>22, <1>23, <1>24,
     <1>25, <1>26, Zenon
     DEF Next, Backup, Verification, Reclaim

LEMMA ArchivesAreKnownNext ==
    ASSUME Shape, StoreInv, CountInv, SightInv, [Next]_vars
    PROVE  ArchivesAreKnown'
<1>1. ASSUME NEW i \in Runs, Enqueue(i)
      PROVE  ArchivesAreKnown'
  BY <1>1, EnqueueEffect, SMT
     DEF SightInv, ArchivesAreKnown, OwnerIsStamped, SettlingIsSafe, Known, PassedBy,
         LookedPast, Named, Recorded, CountInv, ClaimedIsNew, FreeSlotIsClean, Shape,
         JobsHaveRuns, TicksHaveRuns, Live, Holds, Owns, Target, RowIs, JobIs, TickIs
<1>2. ASSUME NEW i \in Runs, RequestCancel(i)
      PROVE  ArchivesAreKnown'
  BY <1>2, RequestCancelEffect, SMT
     DEF SightInv, ArchivesAreKnown, OwnerIsStamped, SettlingIsSafe, Known, PassedBy,
         LookedPast, Named, Recorded, CountInv, ClaimedIsNew, FreeSlotIsClean, Shape,
         JobsHaveRuns, TicksHaveRuns, Live, Holds, Owns, Target, RowIs, JobIs, TickIs
<1>3. ASSUME NEW w \in Workers, NEW i \in Runs, Claim(w, i)
      PROVE  ArchivesAreKnown'
  BY <1>3, ClaimEffect, SMT
     DEF SightInv, ArchivesAreKnown, OwnerIsStamped, SettlingIsSafe, Known, PassedBy,
         LookedPast, Named, Recorded, CountInv, ClaimedIsNew, FreeSlotIsClean, Shape,
         JobsHaveRuns, TicksHaveRuns, Live, Holds, Owns, Target, RowIs, JobIs, TickIs
<1>4. ASSUME NEW w \in Workers, StampTarget(w) \/ StampThrows(w)
      PROVE  ArchivesAreKnown'
  BY <1>4, StampEffect, SMT
     DEF SightInv, ArchivesAreKnown, OwnerIsStamped, SettlingIsSafe, Known, PassedBy,
         LookedPast, Named, Recorded, CountInv, ClaimedIsNew, FreeSlotIsClean, Shape,
         JobsHaveRuns, TicksHaveRuns, Live, Holds, Owns, Target, RowIs, JobIs, TickIs
<1>5. ASSUME NEW w \in Workers, Heartbeat(w) \/ Stop(w) \/ HeartbeatVerify(w)
      PROVE  ArchivesAreKnown'
  BY <1>5, OutcomeEffect, SMT
     DEF SightInv, ArchivesAreKnown, OwnerIsStamped, SettlingIsSafe, Known, PassedBy,
         LookedPast, Named, Recorded, CountInv, ClaimedIsNew, FreeSlotIsClean, Shape,
         JobsHaveRuns, TicksHaveRuns, Live, Holds, Owns, Target, RowIs, JobIs, TickIs
<1>6. ASSUME NEW w \in Workers, ObjectCommits(w)
      PROVE  ArchivesAreKnown'
  <2>1. /\ job[w].pc = "dumping" /\ Live(w)
        /\ stored' = stored \cup {Target(w)}
        /\ UNCHANGED <<row, job, tick, forsaken, stranded>>
    BY <1>6, CommitEffect, Zenon
  <2>2. QED
    BY <2>1, SMT
       DEF SightInv, ArchivesAreKnown, OwnerIsStamped, SettlingIsSafe, Known, PassedBy,
           LookedPast, Named, Recorded, CountInv, ClaimedIsNew, FreeSlotIsClean, Shape,
           JobsHaveRuns, TicksHaveRuns, Live, Holds, Owns, Target, RowIs, JobIs, TickIs
<1>7. ASSUME NEW w \in Workers, UploadReturns(w) \/ UploadThrows(w)
      PROVE  ArchivesAreKnown'
  <2>1. /\ job[w].pc = "dumping" /\ Live(w)
        /\ \E pc \in {"uploaded", "discarding"} : JobIs(w, pc, job[w].run, job[w].attempt)
        /\ UNCHANGED <<row, stored, tick, forsaken, stranded>>
    BY <1>7, UploadEffect, SMT
  <2>2. QED
    BY <2>1, SMT
       DEF SightInv, ArchivesAreKnown, OwnerIsStamped, SettlingIsSafe, Known, PassedBy,
           LookedPast, Named, Recorded, CountInv, ClaimedIsNew, FreeSlotIsClean, Shape,
           JobsHaveRuns, TicksHaveRuns, Live, Holds, Owns, Target, RowIs, JobIs, TickIs
<1>8. ASSUME NEW w \in Workers, FinishRun(w) \/ FinishThrows(w)
      PROVE  ArchivesAreKnown'
  BY <1>8, FinishEffect, SMT
     DEF SightInv, ArchivesAreKnown, OwnerIsStamped, SettlingIsSafe, Known, PassedBy,
         LookedPast, Named, Recorded, CountInv, ClaimedIsNew, FreeSlotIsClean, Shape,
         JobsHaveRuns, TicksHaveRuns, Live, Holds, Owns, Target, RowIs, JobIs, TickIs
<1>9. ASSUME NEW w \in Workers, Reread(w) \/ RereadThrows(w)
      PROVE  ArchivesAreKnown'
  <2>1. /\ job[w].pc = "discarding" /\ Live(w)
        /\ \/ Recorded(w) /\ JobIs(w, "settling", job[w].run, job[w].attempt)
           \/ JobIs(w, "erasing", job[w].run, job[w].attempt)
        /\ forsaken \subseteq forsaken'
        /\ UNCHANGED <<row, stored, tick, stranded>>
    BY <1>9, RereadEffect, SMT
  <2>2. QED
    BY <2>1, SMT
       DEF SightInv, ArchivesAreKnown, OwnerIsStamped, SettlingIsSafe, Known, PassedBy,
           LookedPast, Named, Recorded, CountInv, ClaimedIsNew, FreeSlotIsClean, Shape,
           JobsHaveRuns, TicksHaveRuns, Live, Holds, Owns, Target, RowIs, JobIs, TickIs
<1>10. ASSUME NEW w \in Workers, Erase(w) \/ EraseFails(w)
       PROVE  ArchivesAreKnown'
  BY <1>10, EraseEffect, SMT
     DEF SightInv, ArchivesAreKnown, OwnerIsStamped, SettlingIsSafe, Known, PassedBy,
         LookedPast, Named, Recorded, CountInv, ClaimedIsNew, FreeSlotIsClean, Shape,
         JobsHaveRuns, TicksHaveRuns, Live, Holds, Owns, Target, RowIs, JobIs, TickIs
<1>11. ASSUME NEW w \in Workers, SettleFailure(w)
       PROVE  ArchivesAreKnown'
  BY <1>11, SettleEffect, SMT
     DEF SightInv, ArchivesAreKnown, OwnerIsStamped, SettlingIsSafe, Known, PassedBy,
         LookedPast, Named, Recorded, CountInv, ClaimedIsNew, FreeSlotIsClean, Shape,
         JobsHaveRuns, TicksHaveRuns, Live, Holds, Owns, Target, RowIs, JobIs, TickIs
<1>12. ASSUME NEW w \in Workers, JobDies(w)
       PROVE  ArchivesAreKnown'
  <2>1. /\ JobIs(w, "idle", NoRun, 0)
        /\ UNCHANGED <<row, stored, tick, forsaken>>
        /\ stranded \subseteq stranded'
        /\ \/ Target(w) \in stored => Target(w) \in stranded'
           \/ Recorded(w)
           \/ Owns(w) /\ ~LookedPast(w)
    BY <1>12, JobDiesEffect, Zenon
  <2> SUFFICES ASSUME NEW i \in Runs, NEW k \in Attempts,
                      <<i, k>> \in stored \ (forsaken \cup stranded')
               PROVE  Known(i, k)'
    BY <2>1, Zenon DEF ArchivesAreKnown
  <2>2. Known(i, k)
    BY <2>1, Zenon DEF SightInv, ArchivesAreKnown
  <2>3. ASSUME NEW v \in Workers, v # w, Live(v), Target(v) = <<i, k>>
        PROVE  Known(i, k)'
    BY <2>1, <2>3, SMT DEF Known, JobIs, Live, Target
  <2>4. ASSUME Live(w), Target(w) = <<i, k>>
        PROVE  Named(i, k) \/ (Holds(i, k) /\ row[i].key = k /\ ~PassedBy(i, k))
    <3>1. job[w].run = i /\ job[w].attempt = k
      BY <2>4, Zenon DEF Target
    <3>2. Recorded(w) \/ (Owns(w) /\ ~LookedPast(w))
      BY <2>1, <2>4, Zenon
    <3>3. CASE Recorded(w)
      BY <3>1, <3>3, Zenon DEF Recorded, Named
    <3>4. CASE Owns(w) /\ ~LookedPast(w)
      <4>1. Holds(i, k) /\ ~PassedBy(i, k)
        BY <3>1, <3>4, Zenon DEF Owns, LookedPast, PassedBy
      <4>2. CASE job[w].pc \in {"dumping", "uploaded", "discarding", "erasing"}
        BY <3>1, <3>4, <4>1, <4>2, Zenon DEF SightInv, OwnerIsStamped
      <4>3. CASE job[w].pc = "claimed"
        BY <2>4, <4>3, Zenon DEF CountInv, ClaimedIsNew
      <4>4. CASE job[w].pc = "settling"
        BY <2>4, <3>1, <4>4, Zenon DEF SightInv, SettlingIsSafe
      <4>5. QED
        BY <2>4, <4>2, <4>3, <4>4 DEF Live, Shape, TypeOK, Job
    <3>5. QED
      BY <3>2, <3>3, <3>4
  <2>5. Named(i, k) \/ (Holds(i, k) /\ row[i].key = k /\ ~PassedBy(i, k))
          => Known(i, k)'
    BY <2>1, Zenon DEF Known, Named, Holds, PassedBy
  <2>6. QED
    BY <2>2, <2>3, <2>4, <2>5, Zenon DEF Known
<1>13. ASSUME NEW t \in Tickers, NEW i \in Runs, FindStale(t, i)
       PROVE  ArchivesAreKnown'
  BY <1>13, FindStaleEffect, SMT
     DEF SightInv, ArchivesAreKnown, OwnerIsStamped, SettlingIsSafe, Known, PassedBy,
         LookedPast, Named, Recorded, CountInv, ClaimedIsNew, FreeSlotIsClean, Shape,
         JobsHaveRuns, TicksHaveRuns, Live, Holds, Owns, Target, RowIs, JobIs, TickIs
<1>14. ASSUME NEW t \in Tickers, Inspect(t)
       PROVE  ArchivesAreKnown'
  <2>1. /\ \/ TickIs(t, "present", tick[t].run, tick[t].attempt, tick[t].key)
           \/ /\ <<tick[t].run, tick[t].key>> \in stored => tick[t].key = 0
              /\ TickIs(t, "absent", tick[t].run, tick[t].attempt, tick[t].key)
        /\ UNCHANGED <<row, stored, job, forsaken, stranded>>
    BY <1>14, InspectEffect, Zenon
  <2> SUFFICES ASSUME NEW i \in Runs, NEW k \in Attempts,
                      <<i, k>> \in stored \ (forsaken \cup stranded)
               PROVE  Known(i, k)'
    BY <2>1, Zenon DEF ArchivesAreKnown
  <2>2. Known(i, k)
    BY Zenon DEF SightInv, ArchivesAreKnown
  <2>3. tick'[t].pc = "absent" /\ tick[t].run = i => tick[t].key # k
    BY <2>1, SMT DEF TickIs, Attempts
  <2>4. PassedBy(i, k)' => PassedBy(i, k)
    BY <2>1, <2>3, SMT DEF PassedBy, TickIs
  <2>5. QED
    BY <2>1, <2>2, <2>4, Zenon DEF Known, Named, Holds, Live, Target
<1>15. ASSUME NEW t \in Tickers, HandBack(t)
       PROVE  ArchivesAreKnown'
  BY <1>15, HandBackEffect, SMT
     DEF SightInv, ArchivesAreKnown, OwnerIsStamped, SettlingIsSafe, Known, PassedBy,
         LookedPast, Named, Recorded, CountInv, ClaimedIsNew, FreeSlotIsClean, Shape,
         JobsHaveRuns, TicksHaveRuns, Live, Holds, Owns, Target, RowIs, JobIs, TickIs
<1>16. ASSUME NEW t \in Tickers, ReconcileSucceeded(t)
       PROVE  ArchivesAreKnown'
  BY <1>16, ReconcileEffect, SMT
     DEF SightInv, ArchivesAreKnown, OwnerIsStamped, SettlingIsSafe, Known, PassedBy,
         LookedPast, Named, Recorded, CountInv, ClaimedIsNew, FreeSlotIsClean, Shape,
         JobsHaveRuns, TicksHaveRuns, Live, Holds, Owns, Target, RowIs, JobIs, TickIs
<1>17. ASSUME NEW t \in Tickers, TickFails(t)
       PROVE  ArchivesAreKnown'
  BY <1>17, TickFailsEffect, SMT
     DEF SightInv, ArchivesAreKnown, OwnerIsStamped, SettlingIsSafe, Known, PassedBy,
         LookedPast, Named, Recorded, CountInv, ClaimedIsNew, FreeSlotIsClean, Shape,
         JobsHaveRuns, TicksHaveRuns, Live, Holds, Owns, Target, RowIs, JobIs, TickIs
<1>18. ASSUME NEW i \in Runs, RetentionDecides(i) \/ AdminDeletes(i)
       PROVE  ArchivesAreKnown'
  BY <1>18, DecideEffect, SMT
     DEF SightInv, ArchivesAreKnown, OwnerIsStamped, SettlingIsSafe, Known, PassedBy,
         LookedPast, Named, Recorded, CountInv, ClaimedIsNew, FreeSlotIsClean, Shape,
         JobsHaveRuns, TicksHaveRuns, Live, Holds, Owns, Target, RowIs, JobIs, TickIs
<1>19. ASSUME NEW i \in Runs, RemoveObject(i)
       PROVE  ArchivesAreKnown'
  BY <1>19, RemoveEffect, SMT
     DEF SightInv, ArchivesAreKnown, OwnerIsStamped, SettlingIsSafe, Known, PassedBy,
         LookedPast, Named, Recorded, CountInv, ClaimedIsNew, FreeSlotIsClean, Shape,
         JobsHaveRuns, TicksHaveRuns, Live, Holds, Owns, Target, RowIs, JobIs, TickIs
<1>20. ASSUME NEW i \in Runs, MarkDeleted(i)
       PROVE  ArchivesAreKnown'
  BY <1>20, MarkDeletedEffect, SMT
     DEF SightInv, ArchivesAreKnown, OwnerIsStamped, SettlingIsSafe, Known, PassedBy,
         LookedPast, Named, Recorded, CountInv, ClaimedIsNew, FreeSlotIsClean, Shape,
         JobsHaveRuns, TicksHaveRuns, Live, Holds, Owns, Target, RowIs, JobIs, TickIs
<1>21. ASSUME NEW i \in Runs, DeletionFails(i)
       PROVE  ArchivesAreKnown'
  BY <1>21, DeletionFailsEffect, SMT
     DEF SightInv, ArchivesAreKnown, OwnerIsStamped, SettlingIsSafe, Known, PassedBy,
         LookedPast, Named, Recorded, CountInv, ClaimedIsNew, FreeSlotIsClean, Shape,
         JobsHaveRuns, TicksHaveRuns, Live, Holds, Owns, Target, RowIs, JobIs, TickIs
<1>22. ASSUME NEW i \in Runs, Prune(i)
       PROVE  ArchivesAreKnown'
  BY <1>22, PruneEffect, SMT
     DEF SightInv, ArchivesAreKnown, OwnerIsStamped, SettlingIsSafe, Known, PassedBy,
         LookedPast, Named, Recorded, CountInv, ClaimedIsNew, FreeSlotIsClean, Shape,
         JobsHaveRuns, TicksHaveRuns, Live, Holds, Owns, Target, RowIs, JobIs, TickIs
<1>23. ASSUME NEW i \in Runs, RequestVerify(i) \/ ReclaimVerification(i)
       PROVE  ArchivesAreKnown'
  BY <1>23, QuietRowEffect, SMT
     DEF SightInv, ArchivesAreKnown, OwnerIsStamped, SettlingIsSafe, Known, PassedBy,
         LookedPast, Named, Recorded, CountInv, ClaimedIsNew, FreeSlotIsClean, Shape,
         JobsHaveRuns, TicksHaveRuns, Live, Holds, Owns, Target, RowIs, JobIs, TickIs
<1>24. ASSUME NEW w \in Workers, NEW i \in Runs, ClaimVerify(w, i)
       PROVE  ArchivesAreKnown'
  BY <1>24, ClaimVerifyEffect, SMT
     DEF SightInv, ArchivesAreKnown, OwnerIsStamped, SettlingIsSafe, Known, PassedBy,
         LookedPast, Named, Recorded, CountInv, ClaimedIsNew, FreeSlotIsClean, Shape,
         JobsHaveRuns, TicksHaveRuns, Live, Holds, Owns, Target, RowIs, JobIs, TickIs
<1>25. ASSUME NEW w \in Workers, FinishVerify(w)
       PROVE  ArchivesAreKnown'
  BY <1>25, FinishVerifyEffect, SMT
     DEF SightInv, ArchivesAreKnown, OwnerIsStamped, SettlingIsSafe, Known, PassedBy,
         LookedPast, Named, Recorded, CountInv, ClaimedIsNew, FreeSlotIsClean, Shape,
         JobsHaveRuns, TicksHaveRuns, Live, Holds, Owns, Target, RowIs, JobIs, TickIs
<1>26. CASE UNCHANGED vars
  BY <1>26, SMT DEF vars, SightInv, ArchivesAreKnown, OwnerIsStamped, SettlingIsSafe, Known, PassedBy,
         LookedPast, Named, Recorded, CountInv, ClaimedIsNew, FreeSlotIsClean, Shape,
         JobsHaveRuns, TicksHaveRuns, Live, Holds, Owns, Target, RowIs, JobIs, TickIs
<1>27. QED
  BY <1>1, <1>2, <1>3, <1>4, <1>5, <1>6, <1>7, <1>8, <1>9, <1>10, <1>11, <1>12,
     <1>13, <1>14, <1>15, <1>16, <1>17, <1>18, <1>19, <1>20, <1>21, <1>22, <1>23, <1>24,
     <1>25, <1>26, Zenon
     DEF Next, Backup, Verification, Reclaim

(***************************************************************************)
(* What retention leaves.                                                  *)
(***************************************************************************)
LEMMA MoreKept ==
    ASSUME NEW i \in Runs, NEW S, S \subseteq NewerKept(i),
           Cardinality(S) >= MinimumKept
    PROVE  Cardinality(NewerKept(i)) >= MinimumKept
<1>1. NewerKept(i) \subseteq Runs
  BY DEF NewerKept
<1>2. IsFiniteSet(NewerKept(i))
  BY <1>1, RunAssumption, FS_Subset
<1>3. /\ Cardinality(S) <= Cardinality(NewerKept(i))
      /\ IsFiniteSet(S)
  BY <1>2, FS_Subset
<1>4. Cardinality(S) \in Nat /\ Cardinality(NewerKept(i)) \in Nat
  BY <1>2, <1>3, FS_CardinalityType
<1>5. QED
  BY <1>3, <1>4, BoundAssumption, SMT

\* No deletion by retention begins, and what is newer than those in progress stays.
KeptGrows == \A i \in Runs : deletion'[i] = "retention" =>
    deletion[i] = "retention" /\ NewerKept(i) \subseteq NewerKept(i)'

LEMMA KeptStays ==
    ASSUME RetentionKeepsNewest, KeptGrows
    PROVE  RetentionKeepsNewest'
<1> SUFFICES ASSUME NEW i \in Runs, deletion'[i] = "retention"
             PROVE  Cardinality(NewerKept(i)') >= MinimumKept
  BY DEF RetentionKeepsNewest
<1>1. /\ Cardinality(NewerKept(i)) >= MinimumKept
      /\ NewerKept(i) \subseteq NewerKept(i)'
  BY Zenon DEF RetentionKeepsNewest, KeptGrows
<1>2. NewerKept(i)' \subseteq Runs
  BY DEF NewerKept
<1>3. IsFiniteSet(NewerKept(i)')
  BY <1>2, RunAssumption, FS_Subset
<1>4. /\ Cardinality(NewerKept(i)) <= Cardinality(NewerKept(i)')
      /\ IsFiniteSet(NewerKept(i))
  BY <1>1, <1>3, FS_Subset
<1>5. Cardinality(NewerKept(i)) \in Nat /\ Cardinality(NewerKept(i)') \in Nat
  BY <1>3, <1>4, FS_CardinalityType
<1>6. QED
  BY <1>1, <1>4, <1>5, BoundAssumption, SMT

LEMMA RetentionNext ==
    ASSUME Shape, RetentionKeepsNewest, [Next]_vars
    PROVE  RetentionKeepsNewest'
<1>1. ASSUME NEW i \in Runs, Enqueue(i)
      PROVE  RetentionKeepsNewest'
  <2>1. KeptGrows
    BY <1>1, EnqueueEffect, SMT DEF KeptGrows, NewerKept, Holds, Owns, RowIs
  <2>2. QED
    BY <2>1, KeptStays
<1>2. ASSUME NEW i \in Runs, RequestCancel(i)
      PROVE  RetentionKeepsNewest'
  <2>1. KeptGrows
    BY <1>2, RequestCancelEffect, SMT DEF KeptGrows, NewerKept, Holds, Owns, RowIs
  <2>2. QED
    BY <2>1, KeptStays
<1>3. ASSUME NEW w \in Workers, NEW i \in Runs, Claim(w, i)
      PROVE  RetentionKeepsNewest'
  <2>1. /\ row[i].status = "pending"
        /\ RowIs(i, "running", row[i].attempts + 1, row[i].key)
        /\ \A j \in Runs \ {i} : older'[j] = older[j] \ {i}
        /\ deletion' = deletion
    BY <1>3, ClaimEffect, Zenon
  <2>2. KeptGrows
    BY <2>1, SMT DEF KeptGrows, NewerKept, RowIs, Shape, DeletesSuccess
  <2>3. QED
    BY <2>2, KeptStays
<1>4. ASSUME NEW w \in Workers, StampTarget(w) \/ StampThrows(w)
      PROVE  RetentionKeepsNewest'
  <2>1. KeptGrows
    BY <1>4, StampEffect, SMT DEF KeptGrows, NewerKept, Holds, Owns, RowIs
  <2>2. QED
    BY <2>1, KeptStays
<1>5. ASSUME NEW w \in Workers, Heartbeat(w) \/ Stop(w) \/ HeartbeatVerify(w)
      PROVE  RetentionKeepsNewest'
  <2>1. KeptGrows
    BY <1>5, OutcomeEffect, SMT DEF KeptGrows, NewerKept, Holds, Owns, RowIs
  <2>2. QED
    BY <2>1, KeptStays
<1>6. ASSUME NEW w \in Workers, ObjectCommits(w)
      PROVE  RetentionKeepsNewest'
  <2>1. KeptGrows
    BY <1>6, CommitEffect, SMT DEF KeptGrows, NewerKept, Holds, Owns, RowIs
  <2>2. QED
    BY <2>1, KeptStays
<1>7. ASSUME NEW w \in Workers, UploadReturns(w) \/ UploadThrows(w)
      PROVE  RetentionKeepsNewest'
  <2>1. KeptGrows
    BY <1>7, UploadEffect, SMT DEF KeptGrows, NewerKept, Holds, Owns, RowIs
  <2>2. QED
    BY <2>1, KeptStays
<1>8. ASSUME NEW w \in Workers, FinishRun(w) \/ FinishThrows(w)
      PROVE  RetentionKeepsNewest'
  <2>1. KeptGrows
    BY <1>8, FinishEffect, SMT DEF KeptGrows, NewerKept, Holds, Owns, RowIs
  <2>2. QED
    BY <2>1, KeptStays
<1>9. ASSUME NEW w \in Workers, Reread(w) \/ RereadThrows(w)
      PROVE  RetentionKeepsNewest'
  <2>1. KeptGrows
    BY <1>9, RereadEffect, SMT DEF KeptGrows, NewerKept, Holds, Owns, RowIs
  <2>2. QED
    BY <2>1, KeptStays
<1>10. ASSUME NEW w \in Workers, Erase(w) \/ EraseFails(w)
       PROVE  RetentionKeepsNewest'
  <2>1. KeptGrows
    BY <1>10, EraseEffect, SMT DEF KeptGrows, NewerKept, Holds, Owns, RowIs
  <2>2. QED
    BY <2>1, KeptStays
<1>11. ASSUME NEW w \in Workers, SettleFailure(w)
       PROVE  RetentionKeepsNewest'
  <2>1. KeptGrows
    BY <1>11, SettleEffect, SMT DEF KeptGrows, NewerKept, Holds, Owns, RowIs
  <2>2. QED
    BY <2>1, KeptStays
<1>12. ASSUME NEW w \in Workers, JobDies(w)
       PROVE  RetentionKeepsNewest'
  <2>1. KeptGrows
    BY <1>12, JobDiesEffect, SMT DEF KeptGrows, NewerKept, Holds, Owns, RowIs
  <2>2. QED
    BY <2>1, KeptStays
<1>13. ASSUME NEW t \in Tickers, NEW i \in Runs, FindStale(t, i)
       PROVE  RetentionKeepsNewest'
  <2>1. KeptGrows
    BY <1>13, FindStaleEffect, SMT DEF KeptGrows, NewerKept, Holds, Owns, RowIs
  <2>2. QED
    BY <2>1, KeptStays
<1>14. ASSUME NEW t \in Tickers, Inspect(t)
       PROVE  RetentionKeepsNewest'
  <2>1. KeptGrows
    BY <1>14, InspectEffect, Zenon DEF KeptGrows, NewerKept
  <2>2. QED
    BY <2>1, KeptStays
<1>15. ASSUME NEW t \in Tickers, HandBack(t)
       PROVE  RetentionKeepsNewest'
  <2>1. KeptGrows
    BY <1>15, HandBackEffect, SMT DEF KeptGrows, NewerKept, Holds, Owns, RowIs
  <2>2. QED
    BY <2>1, KeptStays
<1>16. ASSUME NEW t \in Tickers, ReconcileSucceeded(t)
       PROVE  RetentionKeepsNewest'
  <2>1. KeptGrows
    BY <1>16, ReconcileEffect, SMT DEF KeptGrows, NewerKept, Holds, Owns, RowIs
  <2>2. QED
    BY <2>1, KeptStays
<1>17. ASSUME NEW t \in Tickers, TickFails(t)
       PROVE  RetentionKeepsNewest'
  <2>1. KeptGrows
    BY <1>17, TickFailsEffect, SMT DEF KeptGrows, NewerKept, Holds, Owns, RowIs
  <2>2. QED
    BY <2>1, KeptStays
<1>18. ASSUME NEW i \in Runs, RetentionDecides(i) \/ AdminDeletes(i)
       PROVE  RetentionKeepsNewest'
  <2>1. /\ UNCHANGED <<row, older>>
        /\ \A j \in Runs \ {i} : deletion'[j] = deletion[j]
        /\ deletion'[i] = "retention" => Cardinality(NewerSuccesses(i)) >= MinimumKept
    BY <1>18, SMT DEF Shape, TypeOK, RetentionDecides, AdminDeletes, Decide
  <2> SUFFICES ASSUME NEW j \in Runs, deletion'[j] = "retention"
               PROVE  Cardinality(NewerKept(j)') >= MinimumKept
    BY DEF RetentionKeepsNewest
  <2>2. NewerKept(j)' = NewerKept(j)
    BY <2>1, Zenon DEF NewerKept
  <2>3. CASE j # i
    BY <2>1, <2>2, <2>3, Zenon DEF RetentionKeepsNewest
  <2>4. CASE j = i
    <3>1. NewerSuccesses(i) \subseteq NewerKept(i)
      BY Zenon DEF NewerSuccesses, NewerKept
    <3>2. QED
      BY <2>1, <2>2, <2>4, <3>1, MoreKept, Zenon
  <2>5. QED
    BY <2>3, <2>4
<1>19. ASSUME NEW i \in Runs, RemoveObject(i)
       PROVE  RetentionKeepsNewest'
  <2>1. KeptGrows
    BY <1>19, RemoveEffect, SMT DEF KeptGrows, NewerKept, Holds, Owns, RowIs
  <2>2. QED
    BY <2>1, KeptStays
<1>20. ASSUME NEW i \in Runs, MarkDeleted(i)
       PROVE  RetentionKeepsNewest'
  <2>1. KeptGrows
    BY <1>20, MarkDeletedEffect, SMT DEF KeptGrows, NewerKept, Holds, Owns, RowIs, Shape, TypeOK
  <2>2. QED
    BY <2>1, KeptStays
<1>21. ASSUME NEW i \in Runs, DeletionFails(i)
       PROVE  RetentionKeepsNewest'
  <2>1. KeptGrows
    BY <1>21, DeletionFailsEffect, SMT DEF KeptGrows, NewerKept, Shape, TypeOK
  <2>2. QED
    BY <2>1, KeptStays
<1>22. ASSUME NEW i \in Runs, Prune(i)
       PROVE  RetentionKeepsNewest'
  BY <1>22, PruneEffect, SMT DEF RetentionKeepsNewest
<1>23. ASSUME NEW i \in Runs, RequestVerify(i) \/ ReclaimVerification(i)
       PROVE  RetentionKeepsNewest'
  <2>1. KeptGrows
    BY <1>23, QuietRowEffect, SMT DEF KeptGrows, NewerKept, Holds, Owns, RowIs
  <2>2. QED
    BY <2>1, KeptStays
<1>24. ASSUME NEW w \in Workers, NEW i \in Runs, ClaimVerify(w, i)
       PROVE  RetentionKeepsNewest'
  <2>1. KeptGrows
    BY <1>24, ClaimVerifyEffect, SMT DEF KeptGrows, NewerKept, Holds, Owns, RowIs
  <2>2. QED
    BY <2>1, KeptStays
<1>25. ASSUME NEW w \in Workers, FinishVerify(w)
       PROVE  RetentionKeepsNewest'
  <2>1. KeptGrows
    BY <1>25, FinishVerifyEffect, SMT DEF KeptGrows, NewerKept, Holds, Owns, RowIs
  <2>2. QED
    BY <2>1, KeptStays
<1>26. CASE UNCHANGED vars
  <2>1. KeptGrows
    BY <1>26, Zenon DEF KeptGrows, NewerKept, vars
  <2>2. QED
    BY <2>1, KeptStays
<1>27. QED
  BY <1>1, <1>2, <1>3, <1>4, <1>5, <1>6, <1>7, <1>8, <1>9, <1>10, <1>11, <1>12,
     <1>13, <1>14, <1>15, <1>16, <1>17, <1>18, <1>19, <1>20, <1>21, <1>22, <1>23, <1>24,
     <1>25, <1>26, Zenon
     DEF Next, Backup, Verification, Reclaim

(***************************************************************************)
(* The theorems.                                                           *)
(***************************************************************************)
LEMMA SightInit == Init => SightInv
<1>1. NoJob.pc = "idle"
  BY SMT DEF NoJob
<1>2. QED
  BY <1>1, SMT DEF Init, SightInv, SettlingIsSafe, OwnerIsStamped, ArchivesAreKnown

LEMMA SightNext ==
    ASSUME Shape, StoreInv, CountInv, SightInv, [Next]_vars
    PROVE  SightInv'
  BY SettlingIsSafeNext, OwnerIsStampedNext, ArchivesAreKnownNext DEF SightInv

\* The four layers together.
BackupInv == Shape /\ StoreInv /\ CountInv /\ SightInv

\* They hold initially, and every handler, of a worker, a tick or an administrator,
\* keeps them.
THEOREM Inductive == Spec => []BackupInv
<1>1. Init => BackupInv
  BY ShapeInit, StoreInit, CountInit, SightInit DEF BackupInv
<1>2. BackupInv /\ [Next]_vars => BackupInv'
  BY ShapeNext, StoreNext, CountNext, SightNext DEF BackupInv
<1>3. QED
  BY <1>1, <1>2, PTL DEF Spec

\* Every state of every run is of the shape its variables are declared with.
THEOREM TypeCorrect == Spec => []TypeOK
<1>1. BackupInv => TypeOK
  BY DEF BackupInv, Shape
<1>2. QED
  BY <1>1, Inductive, PTL

\* A success names an archive that is in the bucket, unless somebody who read the
\* row as it then was decided to erase it: for any number of runs, workers and
\* ticks, whatever dies, is retried, reclaimed or deleted meanwhile.
THEOREM SuccessCorrect == Spec => []SucceededIsStored
<1>1. BackupInv => SucceededIsStored
  BY DEF BackupInv, StoreInv
<1>2. QED
  BY <1>1, Inductive, PTL

\* No archive is lost from sight: it is named by its row or in the hands of its
\* worker, but for what was to be erased and what a worker left behind when it died
\* too late for the reclaim to see it.
THEOREM SightCorrect == Spec => []NothingStranded
<1>1. BackupInv => NothingStranded
  <2> SUFFICES ASSUME BackupInv, NEW a \in stored \ (forsaken \cup stranded)
               PROVE  \/ ArchiveOf(a[1]) = a
                      \/ \E w \in Workers : job[w].pc # "idle" /\ Target(w) = a
    BY DEF NothingStranded
  <2>1. PICK i \in Runs, k \in Attempts : a = <<i, k>>
    BY SMT DEF BackupInv, Shape, TypeOK, Archives
  <2>2. Known(i, k)
    BY <2>1, Zenon DEF BackupInv, SightInv, ArchivesAreKnown
  <2>3. a[1] = i
    BY <2>1, Zenon
  <2>4. QED
    BY <2>1, <2>2, <2>3, Zenon DEF Known, Named, Live, ArchiveOf
<1>2. QED
  BY <1>1, Inductive, PTL

\* Retention never decides to delete one of the newest MinimumKept successes, and
\* none becomes one while its deletion lasts: whatever succeeds, or is deleted by
\* hand or by another tick, meanwhile.
THEOREM RetentionCorrect == Spec => []RetentionKeepsNewest
<1>1. Init => RetentionKeepsNewest
  BY SMT DEF Init, RetentionKeepsNewest
<1>2. BackupInv => Shape
  BY DEF BackupInv
<1>3. Shape /\ RetentionKeepsNewest /\ [Next]_vars => RetentionKeepsNewest'
  BY RetentionNext
<1>4. QED
  BY <1>1, <1>2, <1>3, Inductive, PTL DEF Spec
=============================================================================
