------------------------- MODULE TranslationOutbox -------------------------
(***************************************************************************)
(* The translation outbox of one target language: English writes enqueue a  *)
(* coalesced job per document, the dispatchers of several processes claim   *)
(* jobs under a lease, buy the text, publish the locale row behind a fence  *)
(* and settle the job; jobs blocked on a relation target are woken by the   *)
(* transaction that creates the target's locale row, by a recheck of their  *)
(* own and by a periodic reconciliation.                                    *)
(*                                                                          *)
(* Ids are handed out in increasing order and never reused.  Only the       *)
(* publication is split in two steps, the query for parents to wake and the *)
(* commit: no other statement can see what happens between.                 *)
(***************************************************************************)
EXTENDS Naturals, FiniteSets

CONSTANTS
    Docs,       \* localized documents
    Requires,   \* Requires[d]: targets d cannot be published without
    Curates,    \* Curates[d]: optional targets, linked once they exist
    Workers,    \* dispatchers, two in each process
    Texts,      \* English texts, as far as sourceContentHash tells them apart
    Human,      \* the text of a locale row an editor wrote
    NoText,     \* no locale row, no memory, no recorded hash
    NoDoc, NoJob, Nobody,
    Scenarios,  \* what is translated at the start, what editors and sweeps do then
    ReconcileLimit, \* blocked rows one reconciliation looks at
    MaxJobs,    \* bound: rows ever inserted
    MaxEdits,   \* bound: acts of editors, sweeps and cleanups
    MaxFaults   \* bound: errors, crashes and lapses of a live lease

ASSUME BoundsAssumption == MaxJobs \in Nat /\ MaxEdits \in Nat /\ MaxFaults \in Nat
ASSUME ReconcileAssumption == ReconcileLimit \in Nat \ {0}
ASSUME RelationsAssumption ==
    /\ IsFiniteSet(Docs)
    /\ Requires \in [Docs -> SUBSET Docs]
    /\ Curates \in [Docs -> SUBSET Docs]
Acts == [act : {"save", "delete", "human", "nightly", "backfill", "force"},
         doc : Docs, text : Texts]
ASSUME ScenariosAssumption ==
    \A s \in Scenarios : /\ s \in [done : SUBSET Docs, acts : SUBSET Acts]
                         /\ \A d \in s.done : Requires[d] \subseteq s.done
ASSUME TextsAssumption == Texts # {}
ASSUME SpareAssumption ==
    /\ NoDoc \notin Docs /\ NoJob \notin 1..MaxJobs /\ Nobody \notin Workers
    /\ NoText \notin Texts /\ Human \notin Texts \cup {NoText}

VARIABLES
    english,   \* english[d]: the default-locale entry
    locale,    \* locale[d]: the target-locale row
    memory,    \* memory[d]: the text translation_state holds a translation of
    row,       \* row[i]: the outbox row with id i
    inserted,  \* ids handed out so far
    worker,    \* worker[w]: what dispatcher w is doing
    ready,     \* blocked rows the reconciliation has read and not yet woken
    owed,      \* documents whose last English write is not yet reflected
    edits,     \* what editors and sweeps may do in this scenario, how often yet
    faults

contentVars == <<english, locale, memory, owed>>
vars == <<contentVars, row, inserted, worker, ready, edits, faults>>

Ids == 1..MaxJobs
Reasons == {"edit", "backfill", "nightly"}
Statuses == {"absent", "pending", "processing", "delivered", "unchanged",
             "failed", "blocked"}

English == [live : BOOLEAN, version : 0..MaxEdits, text : Texts]
Locale == [text : Texts \cup {Human, NoText}, links : SUBSET Docs]
NoLocaleRow == [text |-> NoText, links |-> {}]

Row == [status : Statuses, doc : Docs \cup {NoDoc}, force : BOOLEAN,
        reason : Reasons, due : BOOLEAN, token : Workers \cup {Nobody},
        lapsed : BOOLEAN, hash : Texts \cup {NoText}, awaits : SUBSET Docs]

Steps == {"idle", "claimed", "checking", "saving", "writing",
          "committing", "published", "delivered", "unchanged", "blocked",
          "rechecking", "failed", "deferred"}

Worker == [pc : Steps, id : Ids \cup {NoJob}, doc : Docs \cup {NoDoc},
           force : BOOLEAN, version : 0..MaxEdits, text : Texts \cup {NoText},
           current : BOOLEAN, links : SUBSET Docs, missing : SUBSET Docs,
           wakes : SUBSET Ids]

Idle == [pc |-> "idle", id |-> NoJob, doc |-> NoDoc, force |-> FALSE,
         version |-> 0, text |-> NoText, current |-> FALSE, links |-> {},
         missing |-> {}, wakes |-> {}]

NoRow == [status |-> "absent", doc |-> NoDoc, force |-> FALSE, reason |-> "edit",
          due |-> FALSE, token |-> Nobody, lapsed |-> FALSE, hash |-> NoText,
          awaits |-> {}]

Queued(d, force, reason) ==
    [NoRow EXCEPT !.status = "pending", !.doc = d, !.force = force,
                  !.reason = reason, !.due = TRUE]

\* A settled row: of its columns only the hash of a failure is read again.
Settled(status, d, hash) ==
    [NoRow EXCEPT !.status = status, !.doc = d, !.hash = hash]

(***************************************************************************)
(* The rows of a key.                                                      *)
(***************************************************************************)
LiveOf(d) == {i \in Ids : row[i].status \in {"pending", "processing"} /\ row[i].doc = d}
PendingOf(d) == {i \in Ids : row[i].status = "pending" /\ row[i].doc = d}
Latest(i) == \A j \in Ids : row[j].doc = row[i].doc => j <= i

\* Deviation: any blocked row counts, repaired or not.
AnyBlocked == {i \in Ids : row[i].status = "blocked"}

\* Parents still waiting: the blocked row is the latest of its key.
Waiting == {i \in Ids : row[i].status = "blocked" /\ Latest(i)}

(***************************************************************************)
(* Relation targets.  A target deleted in English is gone from the source's *)
(* relations too.                                                           *)
(***************************************************************************)
Published(d) == locale[d].text # NoText
Targets(d) == {t \in Requires[d] \cup Curates[d] : english[t].live}
Present(d) == {t \in Targets(d) : Published(t)}
Missing(d) == Targets(d) \ Present(d)
MissingRequired(d) == Missing(d) \cap Requires[d]

(***************************************************************************)
(* Enqueueing: the coalescing insert of one job for each document of S, the *)
(* forced ones for the documents of F.                                      *)
(***************************************************************************)
Coalesce(r, force, reason) ==
    [r EXCEPT !.force = @ \/ force,
              !.reason = IF reason = "nightly" THEN @ ELSE reason]

Enqueue(S, F, reason) ==
    LET fresh == {d \in S : PendingOf(d) = {}}
        count == Cardinality(fresh)
    IN /\ inserted + count <= MaxJobs
       /\ \E slot \in [fresh -> (inserted + 1)..(inserted + count)] :
             /\ \A c, d \in fresh : slot[c] = slot[d] => c = d
             /\ row' = [i \in Ids |->
                  IF \E d \in fresh : slot[d] = i
                  THEN LET d == CHOOSE d \in fresh : slot[d] = i
                       IN Queued(d, d \in F, reason)
                  ELSE IF row[i].status = "pending" /\ row[i].doc \in S
                  THEN Coalesce(row[i], row[i].doc \in F, reason)
                  ELSE row[i]]
       /\ inserted' = inserted + count

\* Some documents are translated already, a document after what it requires.
Init ==
    /\ english = [d \in Docs |-> [live |-> TRUE, version |-> 0,
                                  text |-> CHOOSE t \in Texts : TRUE]]
    /\ \E s \in Scenarios :
          /\ locale = [d \in Docs |->
                 IF d \in s.done
                 THEN [text |-> english[d].text,
                       links |-> (Requires[d] \cup Curates[d]) \cap s.done]
                 ELSE NoLocaleRow]
          /\ memory = [d \in Docs |-> IF d \in s.done THEN english[d].text ELSE NoText]
          /\ edits = [acts |-> s.acts, left |-> MaxEdits]
    /\ row = [i \in Ids |-> NoRow]
    /\ inserted = 0
    /\ worker = [w \in Workers |-> Idle]
    /\ ready = {}
    /\ owed = {}
    /\ faults = 0

(***************************************************************************)
(* Content writes.  A publication in progress holds the English row's lock. *)
(***************************************************************************)
Locked(d) == \E w \in Workers : worker[w].pc = "committing" /\ worker[w].doc = d

Edit == /\ edits.left > 0
        /\ edits' = [acts |-> edits.acts, left |-> edits.left - 1]
        /\ UNCHANGED <<worker, ready, faults>>

\* An English create or save, with the text changed, kept or taken back.
Save(d, text) ==
    /\ Edit
    /\ english[d].live /\ ~Locked(d)
    /\ english' = [english EXCEPT ![d] = [live |-> TRUE, version |-> @.version + 1,
                                          text |-> text]]
    /\ Enqueue({d}, {}, "edit")
    /\ owed' = owed \cup {d}
    /\ UNCHANGED <<locale, memory>>

\* An English delete drops the document's memory and queues the clean-up.
Delete(d) ==
    /\ Edit
    /\ english[d].live /\ ~Locked(d)
    /\ english' = [english EXCEPT ![d] = [live |-> FALSE, version |-> @.version + 1,
                                          text |-> @.text]]
    /\ memory' = [memory EXCEPT ![d] = NoText]
    /\ Enqueue({d}, {}, "edit")
    /\ owed' = owed \cup {d}
    /\ UNCHANGED locale

\* Parents the write of d's locale row wakes.
WokenBy(d) == {i \in Waiting : d \in row[i].awaits}
DocsOf(S) == {row[i].doc : i \in S}
ForcedOf(S) == {row[i].doc : i \in {j \in S : row[j].force}}

\* An editor writes the locale row by hand.
HumanWrite(d) ==
    /\ Edit
    /\ english[d].live
    /\ locale' = [locale EXCEPT ![d].text = Human]
    /\ Enqueue(DocsOf(WokenBy(d)), ForcedOf(WokenBy(d)), "edit")
    /\ UNCHANGED <<english, memory, owed>>

\* The nightly sweep, a manual backfill, or a forced re-translation.
Sweep(d, force, reason) ==
    /\ Edit
    /\ english[d].live
    /\ Enqueue({d}, IF force THEN {d} ELSE {}, reason)
    /\ UNCHANGED contentVars

(***************************************************************************)
(* Claiming.                                                               *)
(***************************************************************************)
\* Deviation: the settling UPDATE checks the status only.
OwnsByStatus(w) == /\ worker[w].id \in Ids
                   /\ row[worker[w].id].status = "processing"

\* The guard of ownedUpdate, refreshLease and the publication fence.
Owns(w) == /\ worker[w].id \in Ids
           /\ row[worker[w].id].status = "processing"
           /\ row[worker[w].id].token = w

\* The publishing transaction locks its lease row: claims skip it.
RowLocked(i) == \E w \in Workers : worker[w].pc = "committing" /\ worker[w].id = i

\* Deviation: a row whose lease ran out is not claimed again.
ClaimablePending(i) == row[i].status = "pending" /\ row[i].due

Claimable(i) ==
    /\ \/ row[i].status = "pending" /\ row[i].due
       \/ row[i].status = "processing" /\ row[i].lapsed
    /\ ~\E j \in Ids : /\ row[j].status = "processing" /\ ~row[j].lapsed
                       /\ row[j].doc = row[i].doc
    /\ ~RowLocked(i)

Bulk(i) == row[i].reason \in {"backfill", "nightly"}
Before(i, j) == IF Bulk(i) = Bulk(j) THEN i < j ELSE Bulk(j)

Claim(w, i) ==
    /\ worker[w].pc = "idle"
    /\ Claimable(i)
    /\ \A j \in Ids \ {i} : Claimable(j) => Before(i, j)
    /\ row' = [row EXCEPT ![i] = [@ EXCEPT !.status = "processing", !.token = w,
                                           !.lapsed = FALSE, !.due = FALSE]]
    /\ worker' = [worker EXCEPT ![w] = [Idle EXCEPT !.pc = "claimed", !.id = i,
                                                    !.doc = row[i].doc,
                                                    !.force = row[i].force]]
    /\ UNCHANGED <<contentVars, inserted, ready, edits, faults>>

(***************************************************************************)
(* Processing a claimed job.  At(w, pc) also stands for assertLease where   *)
(* the code calls it: a lost lease, like any error, leads to Defer.         *)
(***************************************************************************)
At(w, pc) == worker[w].pc = pc

Goto(w, pc) == worker' = [worker EXCEPT ![w].pc = pc]

\* The version of the English entry a job is about.
Entry(w) == IF At(w, "claimed") THEN english[worker[w].doc].version
                                ELSE worker[w].version

\* What dispatchOne keeps of a job whose outcome is known; the version of the
\* entry that was given up is kept for the history.
Outcome(w, pc, missing) ==
    [Idle EXCEPT !.pc = pc, !.id = worker[w].id, !.doc = worker[w].doc,
                 !.force = worker[w].force, !.missing = missing,
                 !.version = IF pc \in {"failed", "unchanged"} THEN Entry(w) ELSE 0]
Finish(w, pc, missing) == worker' = [worker EXCEPT ![w] = Outcome(w, pc, missing)]

\* assertLease: the row is still owned, and its lease starts anew.
AssertLease(w) ==
    /\ Owns(w)
    /\ row' = [row EXCEPT ![worker[w].id].lapsed = FALSE]

\* The newest older failure that no later success of the key has cleared.
Failure(i) ==
    \E f \in Ids :
       /\ f < i /\ row[f].status = "failed" /\ row[f].doc = row[i].doc
       /\ ~\E s \in Ids : /\ f < s /\ s < i /\ row[s].doc = row[i].doc
                         /\ row[s].status = "delivered"
       /\ ~\E g \in Ids : /\ f < g /\ g < i /\ row[g].doc = row[i].doc
                         /\ row[g].status = "failed"
       /\ row[f].hash = english[row[i].doc].text

\* The source is gone: its generated locale row and its memory go too.
RemoveLocale(w) ==
    LET d == worker[w].doc
    IN /\ locale' = [c \in Docs |-> IF c = d THEN NoLocaleRow
                                    ELSE [locale[c] EXCEPT !.links = @ \ {d}]]
       /\ memory' = [memory EXCEPT ![d] = NoText]
       /\ owed' = owed \ {d}
       /\ Finish(w, "delivered", {})
       /\ UNCHANGED english

TextCurrent(w) == /\ ~worker[w].force
                  /\ memory[worker[w].doc] = english[worker[w].doc].text

LoadGone(w) ==
    /\ At(w, "claimed")
    /\ AssertLease(w)
    /\ ~english[worker[w].doc].live
    /\ RemoveLocale(w)
    /\ UNCHANGED <<inserted, ready, edits, faults>>

\* The source is read and hashed; a nightly job does not repeat a failure of
\* the same text, a missing required target blocks before any text is bought.
Load(w) ==
    LET d == worker[w].doc
        i == worker[w].id
    IN /\ At(w, "claimed")
       /\ Owns(w)
       /\ english[d].live
       /\ row' = [row EXCEPT ![i] = [@ EXCEPT !.lapsed = FALSE, !.hash = english[d].text]]
       /\ IF row[i].reason = "nightly" /\ ~worker[w].force /\ Failure(i)
          THEN Finish(w, "unchanged", {})
          ELSE IF MissingRequired(d) # {} THEN Finish(w, "blocked", MissingRequired(d))
          ELSE worker' = [worker EXCEPT ![w] =
                 [@ EXCEPT !.pc = "checking", !.version = english[d].version,
                           !.text = english[d].text,
                           !.current = TextCurrent(w)]]
       /\ UNCHANGED <<contentVars, inserted, ready, edits, faults>>

RecheckGone(w) ==
    /\ At(w, "checking")
    /\ AssertLease(w)
    /\ ~english[worker[w].doc].live
    /\ RemoveLocale(w)
    /\ UNCHANGED <<inserted, ready, edits, faults>>

\* The source is read again: a newer text supersedes the job, a newer version
\* of the same text is the one the publication will be fenced by.
Recheck(w) ==
    LET d == worker[w].doc
    IN /\ At(w, "checking")
       /\ AssertLease(w)
       /\ english[d].live
       /\ IF english[d].text = worker[w].text
          THEN worker' = [worker EXCEPT ![w] = [@ EXCEPT !.version = english[d].version,
                                                         !.pc = "saving"]]
          ELSE Finish(w, "delivered", {})
       /\ UNCHANGED <<contentVars, inserted, ready, edits, faults>>

\* Published: delivered, unless optional targets are missing.
Publishes(w, missing) ==
    Finish(w, IF missing = {} THEN "delivered" ELSE "blocked", missing)

\* The row already is what would be written.
RowCurrent(w) == /\ worker[w].current
                 /\ locale[worker[w].doc] = [text |-> worker[w].text,
                                            links |-> Present(worker[w].doc)]

\* The bought text goes to memory, whoever holds the lease by now; then the
\* relations are resolved and decide what is written, if anything.
Decide(w) ==
    LET d == worker[w].doc
        published == MissingRequired(d) = {} /\ RowCurrent(w)
    IN /\ At(w, "saving")
       /\ memory' = IF worker[w].current THEN memory
                    ELSE [memory EXCEPT ![d] = worker[w].text]
       /\ IF MissingRequired(d) # {} THEN Finish(w, "blocked", MissingRequired(d))
          ELSE IF RowCurrent(w) THEN Publishes(w, Missing(d))
          ELSE worker' = [worker EXCEPT ![w] = [@ EXCEPT !.pc = "writing",
                                                         !.links = Present(d),
                                                         !.missing = Missing(d)]]
       /\ owed' = IF published /\ worker[w].version = english[d].version
                  THEN owed \ {d} ELSE owed
       /\ UNCHANGED <<english, locale, row, inserted, ready, edits, faults>>

\* Deviation: publish whatever was read, without looking at the English row.
NoFence(w) == Owns(w)

\* fenceTranslationPublication: the English row is the one that was read, and
\* the lease is held; both rows stay locked until the commit.
Fence(w) == /\ Owns(w)
            /\ english[worker[w].doc].live
            /\ english[worker[w].doc].version = worker[w].version

\* The publishing transaction writes the locale row and looks for parents.
OpenPublication(w) ==
    /\ At(w, "writing")
    /\ Fence(w)
    /\ worker' = [worker EXCEPT ![w] = [@ EXCEPT !.pc = "committing",
                                                 !.wakes = WokenBy(worker[w].doc)]]
    /\ UNCHANGED <<contentVars, row, inserted, ready, edits, faults>>

\* It commits the row together with their wake-ups.
CommitPublication(w) ==
    LET d == worker[w].doc
    IN /\ At(w, "committing")
       /\ locale' = [locale EXCEPT ![d] = [text |-> worker[w].text,
                                           links |-> worker[w].links]]
       /\ Enqueue(DocsOf(worker[w].wakes), ForcedOf(worker[w].wakes), "edit")
       /\ owed' = IF worker[w].text = english[d].text THEN owed \ {d} ELSE owed
       /\ worker' = [worker EXCEPT ![w] = [@ EXCEPT !.pc = "published", !.wakes = {}]]
       /\ UNCHANGED <<english, memory, ready, edits, faults>>

RecordPublished(w) ==
    /\ At(w, "published")
    /\ AssertLease(w)
    /\ memory' = [memory EXCEPT ![worker[w].doc] = worker[w].text]
    /\ Publishes(w, worker[w].missing)
    /\ UNCHANGED <<english, locale, owed, inserted, ready, edits, faults>>

(***************************************************************************)
(* Settlement, guarded by Owns(w): after a lost lease it matches no row.    *)
(***************************************************************************)
Done(w) == worker' = [worker EXCEPT ![w] = Idle]

Settle(w, status) ==
    LET i == worker[w].id
    IN row' = IF Owns(w)
              THEN [row EXCEPT ![i] = Settled(status, row[i].doc,
                                 IF status = "failed" THEN row[i].hash ELSE NoText)]
              ELSE row

\* The work on d's current English entry has ended without a translation.
GivenUp(w, d) ==
    IF Owns(w) /\ PendingOf(d) = {} /\ worker[w].version = english[d].version
    THEN owed \ {d} ELSE owed

MarkDelivered(w) ==
    LET d == worker[w].doc
    IN /\ worker[w].pc \in {"delivered", "unchanged"}
       /\ Settle(w, worker[w].pc)
       /\ owed' = IF At(w, "unchanged") THEN GivenUp(w, d) ELSE owed
       /\ Done(w)
       /\ UNCHANGED <<english, locale, memory, inserted, ready, edits, faults>>

\* Terminal: nobody retries it; the panel shows it.
MarkFailed(w) ==
    /\ At(w, "failed")
    /\ Settle(w, "failed")
    /\ owed' = GivenUp(w, worker[w].doc)
    /\ Done(w)
    /\ UNCHANGED <<english, locale, memory, inserted, ready, edits, faults>>

MarkBlocked(w) ==
    LET i == worker[w].id
    IN /\ At(w, "blocked")
       /\ IF Owns(w)
          THEN /\ row' = [row EXCEPT ![i] =
                            [NoRow EXCEPT !.status = "blocked", !.doc = row[i].doc,
                                          !.force = row[i].force,
                                          !.awaits = worker[w].missing]]
               /\ Goto(w, "rechecking")
          ELSE /\ UNCHANGED row
               /\ Done(w)
       /\ UNCHANGED <<contentVars, inserted, ready, edits, faults>>

\* enqueueSelfIfDependenciesArrived, after the job has been marked blocked.
SelfEnqueue(w) ==
    LET d == worker[w].doc
        arrived == \E t \in worker[w].missing : Published(t)
    IN /\ At(w, "rechecking")
       /\ Enqueue(IF arrived THEN {d} ELSE {}, IF worker[w].force THEN {d} ELSE {}, "edit")
       /\ Done(w)
       /\ UNCHANGED <<contentVars, ready, edits, faults>>

\* Deviation: a retry does not look for a newer pending row.
NoNewer(w) == {}

\* Pending rows of the key other than the one being retried.
Newer(w) == PendingOf(worker[w].doc) \ {worker[w].id}

\* A newer pending row takes over; neither force nor outcome is carried to it.
Supersede(w) ==
    /\ At(w, "deferred")
    /\ Newer(w) # {}
    /\ Settle(w, "delivered")
    /\ Done(w)
    /\ UNCHANGED <<contentVars, inserted, ready, edits, faults>>

ReturnToPending(w) ==
    /\ At(w, "deferred")
    /\ Newer(w) = {}
    /\ row' = IF Owns(w)
              THEN [row EXCEPT ![worker[w].id] =
                      [@ EXCEPT !.status = "pending", !.token = Nobody,
                                !.lapsed = FALSE]]
              ELSE row
    /\ Done(w)
    /\ UNCHANGED <<contentVars, inserted, ready, edits, faults>>

(***************************************************************************)
(* Errors, crashes, timers, reconciliation and retention.                  *)
(***************************************************************************)
Processing == {"claimed", "checking", "saving", "writing",
               "committing", "published"}

Fault == faults < MaxFaults /\ faults' = faults + 1

\* Where the code asserts the lease or the fence and it does not hold.
Refused(w) == \/ worker[w].pc \in {"claimed", "checking", "published"} /\ ~Owns(w)
              \/ At(w, "writing") /\ ~Fence(w)

\* A retryable error.
Defer(w) ==
    /\ worker[w].pc \in Processing
    /\ IF Refused(w) THEN UNCHANGED faults ELSE Fault
    /\ Finish(w, "deferred", {})
    /\ UNCHANGED <<contentVars, row, inserted, ready, edits>>

\* A permanent one: no retries left for the quality gate, or the write rejected,
\* which keeps the bought text.
Fail(w) ==
    /\ worker[w].pc \in {"claimed", "checking", "writing"}
    /\ Fault
    /\ memory' = IF At(w, "writing") THEN [memory EXCEPT ![worker[w].doc] = worker[w].text]
                                     ELSE memory
    /\ Finish(w, "failed", {})
    /\ UNCHANGED <<english, locale, owed, row, inserted, ready, edits>>

\* The process dies, or a store call throws out of the dispatcher's cycle.
Crash(w) ==
    /\ ~At(w, "idle")
    /\ Fault
    /\ Done(w)
    /\ UNCHANGED <<contentVars, row, inserted, ready, edits>>

Held(i) == \E w \in Workers : worker[w].id = i /\ Owns(w)

\* A lease runs out, at once for a dead owner, as a fault for a live one.
LeaseExpires(i) ==
    /\ row[i].status = "processing" /\ ~row[i].lapsed
    /\ IF Held(i) THEN Fault ELSE UNCHANGED faults
    /\ row' = [row EXCEPT ![i].lapsed = TRUE]
    /\ UNCHANGED <<contentVars, inserted, worker, ready, edits>>

\* refreshLease from the heartbeat.
Heartbeat(w) ==
    /\ worker[w].pc \in Processing \ {"committing"}
    /\ Owns(w) /\ row[worker[w].id].lapsed
    /\ row' = [row EXCEPT ![worker[w].id].lapsed = FALSE]
    /\ UNCHANGED <<contentVars, inserted, worker, ready, edits, faults>>

\* The backoff of a retried job ends.
BecomeDue(i) ==
    /\ row[i].status = "pending" /\ ~row[i].due
    /\ row' = [row EXCEPT ![i].due = TRUE]
    /\ UNCHANGED <<contentVars, inserted, worker, ready, edits, faults>>

\* reconcileReadyBlocked reads outside the transaction that wakes.
Awaited(i) == \E t \in row[i].awaits : Published(t)

\* Deviation: the limit counts repaired rows, which are passed over after it.
ScannedHistory ==
    {i \in Waiting :
       Cardinality({j \in Ids : row[j].status = "blocked" /\ j < i}) < ReconcileLimit}

\* The window: the oldest waiting rows, ready or not; it never moves on.
Scanned == {i \in Waiting : Cardinality({j \in Waiting : j < i}) < ReconcileLimit}

ReadReady ==
    /\ ready = {}
    /\ ready' = {i \in Scanned : Awaited(i)}
    /\ ready' # {}
    /\ UNCHANGED <<contentVars, row, inserted, worker, edits, faults>>

WakeReady ==
    /\ ready # {}
    /\ Enqueue(DocsOf(ready), ForcedOf(ready), "edit")
    /\ ready' = {}
    /\ UNCHANGED <<contentVars, worker, edits, faults>>

\* deleteDeliveredBefore with a cutoff after row c; a crash may come between its
\* two statements.  Retention takes days: no row just read is that old.
Without(S) == [i \in Ids |-> IF i \in S THEN NoRow ELSE row[i]]

Cleanup(c) ==
    LET settled == {i \in 1..c : row[i].status \in {"delivered", "unchanged", "failed"}}
        repaired == {i \in 1..c : /\ row[i].status = "blocked"
                                  /\ \E j \in Ids \ settled : j > i /\ row[j].doc = row[i].doc}
    IN /\ Edit
       /\ settled \cup repaired # {} /\ row[c].status # "absent"
       /\ ready = {} /\ \A w \in Workers : worker[w].wakes = {}
       /\ \/ row' = Without(settled)
          \/ row' = Without(settled \cup repaired)
       /\ UNCHANGED <<contentVars, inserted>>

(***************************************************************************)
(* The specification.                                                      *)
(***************************************************************************)
Advance(w) ==
    \/ LoadGone(w) \/ Load(w) \/ RecheckGone(w) \/ Recheck(w)
    \/ Decide(w) \/ OpenPublication(w) \/ CommitPublication(w) \/ RecordPublished(w)
    \/ MarkDelivered(w) \/ MarkFailed(w) \/ MarkBlocked(w) \/ SelfEnqueue(w)
    \/ Supersede(w) \/ ReturnToPending(w)

Editors ==
    \E a \in edits.acts :
       \/ a.act = "save" /\ Save(a.doc, a.text)
       \/ a.act = "delete" /\ Delete(a.doc)
       \/ a.act = "human" /\ HumanWrite(a.doc)
       \/ a.act \in {"nightly", "backfill"} /\ Sweep(a.doc, FALSE, a.act)
       \/ a.act = "force" /\ Sweep(a.doc, TRUE, "backfill")

Next ==
    \/ Editors
    \/ \E w \in Workers : \/ \E i \in Ids : Claim(w, i)
                           \/ Advance(w) \/ Defer(w) \/ Fail(w) \/ Crash(w) \/ Heartbeat(w)
    \/ \E i \in Ids : LeaseExpires(i) \/ BecomeDue(i) \/ Cleanup(i)
    \/ ReadReady \/ WakeReady

Spec == Init /\ [][Next]_vars

\* Dispatchers poll and finish what they began unless a fault stops them, timers
\* fire, the reconciliation runs every minute.
Work(w) == (\E i \in Ids : Claim(w, i)) \/ Advance(w) \/ (Refused(w) /\ Defer(w))

FairSpec ==
    /\ Spec
    /\ \A w \in Workers : WF_vars(Work(w))
    /\ WF_vars(\E i \in Ids : ~Held(i) /\ LeaseExpires(i))
    /\ WF_vars(\E i \in Ids : BecomeDue(i))
    /\ WF_vars(ReadReady \/ WakeReady)

(***************************************************************************)
(* Properties.                                                             *)
(***************************************************************************)
\* The types, the ids handed out, who has a lease, and on which job.
TypeOK ==
    /\ english \in [Docs -> English]
    /\ \A d \in Docs : english[d].version + edits.left <= MaxEdits
    /\ locale \in [Docs -> Locale]
    /\ memory \in [Docs -> Texts \cup {NoText}]
    /\ row \in [Ids -> Row]
    /\ inserted \in 0..MaxJobs
    /\ \A i \in Ids :
          /\ i > inserted => row[i] = NoRow
          /\ row[i].token # Nobody <=> row[i].status = "processing"
          /\ row[i].status # "absent" => row[i].doc \in Docs
    /\ worker \in [Workers -> Worker]
    /\ \A w \in Workers :
          /\ ~At(w, "idle") => worker[w].id \in Ids /\ worker[w].doc \in Docs
          /\ Owns(w) => row[worker[w].id].doc = worker[w].doc
          /\ \A i \in worker[w].wakes : row[i].status # "absent"
    /\ ready \subseteq Ids /\ \A i \in ready : row[i].status # "absent"
    /\ owed \subseteq Docs
    /\ edits \in [acts : SUBSET Acts, left : 0..MaxEdits]
    /\ faults \in 0..MaxFaults

\* The partial unique index on pending keys is never violated, by an insert
\* racing a retry or by wake-ups of one parent from several targets.
OnePendingPerKey ==
    \A i, j \in Ids : /\ row[i].status = "pending" /\ row[j].status = "pending"
                      /\ row[i].doc = row[j].doc
                      => i = j

\* No English write is forgotten: until the locale row reflects it (or goes with
\* its source), or the work on it failed for good, the document has a job that
\* will run or waits, as the latest of its key, for a relation target.
NoWriteForgotten ==
    \A d \in owed : \/ LiveOf(d) # {}
                    \/ \E i \in Waiting : row[i].doc = d

\* Waking ends: editors' acts and faults bound the jobs ever inserted, although
\* two documents may name each other and every publication wakes.
NoWakeStorm == inserted < MaxJobs

\* A locale row that translates the current English text is not overwritten by
\* a dispatcher with another one, however slow it was.
LocaleNeverRegresses ==
    [][\A d \in Docs : /\ english'[d] = english[d]
                       /\ english[d].live
                       /\ locale[d].text = english[d].text
                       => locale'[d].text \in {english[d].text, Human}]_vars

\* Only the lease settles: a row leaves processing in a step of the dispatcher
\* that holds its token.
OnlyTheLeaseSettles ==
    [][\A i \in Ids : row[i].status = "processing" /\ row'[i].status # "processing"
          => \E w \in Workers : /\ row[i].token = w /\ worker[w].id = i
                                /\ worker'[w].pc \in {"idle", "rechecking"}]_vars

\* The rows no reconciliation reaches: as many older ones as it looks at wait for
\* targets that are not there.
Starved(i) ==
    Cardinality({j \in Waiting : j < i /\ ~Awaited(j)}) >= ReconcileLimit

\* Every English write is eventually reflected, unless its document waits for a
\* required target that nobody translates, or behind a window full of rows that do.
EveryWriteIsReflected ==
    \A d \in Docs :
       d \in owed ~> \/ d \notin owed
                     \/ \E i \in Waiting : row[i].doc = d /\ (Awaited(i) => Starved(i))

\* A parent does not wait for ever for a target whose row is there, whatever
\* wake-up was lost to a race or a crash: ready rows ahead of it leave the window
\* and rows repaired since do not count, so only a window's worth of older rows
\* that wait for missing targets keeps it waiting.
Parked(d) == \E i \in Waiting : row[i].doc = d /\ Awaited(i) /\ ~Starved(i)
EveryParentIsWoken == \A d \in Docs : Parked(d) ~> ~Parked(d)
=============================================================================
