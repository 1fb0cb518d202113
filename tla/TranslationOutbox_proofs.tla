---------------------- MODULE TranslationOutbox_proofs ----------------------
(***************************************************************************)
(* Proofs about TranslationOutbox, for any documents, relations, dispatchers *)
(* and bounds.                                                              *)
(***************************************************************************)
EXTENDS TranslationOutbox, FiniteSetTheorems, TLAPS

(***************************************************************************)
(* Records.                                                                *)
(***************************************************************************)
LEMMA NoRowType == NoRow \in Row
  BY SMT DEF NoRow, Row, Statuses, Reasons

LEMMA IdleType == Idle \in Worker
  BY BoundsAssumption, SMT DEF Idle, Worker, Steps

LEMMA QueuedType ==
  ASSUME NEW d \in Docs, NEW force \in BOOLEAN, NEW reason \in Reasons
  PROVE  /\ Queued(d, force, reason) \in Row
         /\ Queued(d, force, reason).status = "pending"
         /\ Queued(d, force, reason).doc = d
         /\ Queued(d, force, reason).token = Nobody
  BY NoRowType, Zenon DEF Queued, NoRow, Row, Statuses

LEMMA CoalesceType ==
  ASSUME NEW r \in Row, NEW force \in BOOLEAN, NEW reason \in Reasons
  PROVE  /\ Coalesce(r, force, reason) \in Row
         /\ Coalesce(r, force, reason).status = r.status
         /\ Coalesce(r, force, reason).doc = r.doc
         /\ Coalesce(r, force, reason).token = r.token
<1>1. (IF reason = "nightly" THEN r.reason ELSE reason) \in Reasons
  BY DEF Row
<1>2. (r.force \/ force) \in BOOLEAN
  BY DEF Row
<1> QED
  BY <1>1, <1>2, Zenon DEF Coalesce, Row

LEMMA SettledType ==
  ASSUME NEW status \in {"delivered", "unchanged", "failed"}, NEW d \in Docs,
         NEW hash \in Texts \cup {NoText}
  PROVE  /\ Settled(status, d, hash) \in Row
         /\ Settled(status, d, hash).status = status
         /\ Settled(status, d, hash).doc = d
         /\ Settled(status, d, hash).token = Nobody
<1>1. status \in Statuses
  BY DEF Statuses
<1> QED
  BY <1>1, NoRowType, Zenon DEF Settled, NoRow, Row

LEMMA OutcomeType ==
  ASSUME TypeOK, NEW w \in Workers, ~At(w, "idle"),
         NEW pc \in Steps, NEW missing \in SUBSET Docs
  PROVE  /\ Outcome(w, pc, missing) \in Worker
         /\ Outcome(w, pc, missing).version =
              IF pc \in {"failed", "unchanged"} THEN Entry(w) ELSE 0
         /\ Outcome(w, pc, missing).pc = pc
         /\ Outcome(w, pc, missing).id = worker[w].id
         /\ Outcome(w, pc, missing).doc = worker[w].doc
         /\ Outcome(w, pc, missing).wakes = {}
<1>1. /\ worker[w].id \in Ids \cup {NoJob} /\ worker[w].doc \in Docs \cup {NoDoc}
      /\ worker[w].force \in BOOLEAN
  BY SMT DEF TypeOK, Worker
<1> DEFINE version == IF pc \in {"failed", "unchanged"} THEN Entry(w) ELSE 0
<1>2. version \in 0..MaxEdits
  BY BoundsAssumption DEF TypeOK, Worker, English, Entry
<1>3. Outcome(w, pc, missing) =
        [Idle EXCEPT !.pc = pc, !.id = worker[w].id, !.doc = worker[w].doc,
                     !.force = worker[w].force, !.missing = missing, !.version = version]
  BY Zenon DEF Outcome
<1> HIDE DEF version
<1>4. /\ Outcome(w, pc, missing) \in Worker
      /\ Outcome(w, pc, missing).version = version
      /\ Outcome(w, pc, missing).pc = pc
      /\ Outcome(w, pc, missing).id = worker[w].id
      /\ Outcome(w, pc, missing).doc = worker[w].doc
      /\ Outcome(w, pc, missing).wakes = {}
  BY <1>1, <1>2, <1>3, IdleType, Zenon DEF Idle, Worker
<1> QED
  BY <1>4 DEF version

(***************************************************************************)
(* The coalescing insert.                                                  *)
(***************************************************************************)
\* The insert of row i for a key that had no pending row.
Fresh(i) == /\ i > inserted /\ i <= inserted'
            /\ row'[i].status = "pending" /\ row'[i].token = Nobody
            /\ row'[i].doc \in Docs /\ PendingOf(row'[i].doc) = {}

\* The row stays what it is to its key and to its owner.
Merged(i) == /\ row[i].status # "absent" /\ row'[i].status = row[i].status
             /\ row'[i].doc = row[i].doc /\ row'[i].token = row[i].token
Kept(i) == row'[i] = row[i] \/ Merged(i)

\* No other row of the key is pending beside one that becomes pending.
Lonely(i) == row[i].status # "pending" /\ row'[i].status = "pending" =>
                \A j \in Ids \ {i} : ~(row'[j].status = "pending" /\ row'[j].doc = row'[i].doc)

\* What Enqueue does to the table, for any documents: rows are added to keys
\* without a pending row, one each, pending rows are merged into.
LEMMA EnqueueEffect ==
  ASSUME TypeOK, NEW S \in SUBSET Docs, NEW F, NEW reason \in Reasons,
         Enqueue(S, F, reason)
  PROVE  /\ inserted' \in 0..MaxJobs /\ inserted <= inserted'
         /\ row' \in [Ids -> Row]
         /\ \A i \in Ids : Kept(i) \/ Fresh(i)
         /\ \A i \in Ids : Lonely(i)
<1> DEFINE fresh == {d \in S : PendingOf(d) = {}}
           count == Cardinality(fresh)
<1>1. IsFiniteSet(fresh) /\ count \in Nat
  BY RelationsAssumption, FS_Subset, FS_CardinalityType
<1>2. inserted \in Nat /\ MaxJobs \in Nat /\ inserted + count <= MaxJobs
  BY <1>1, BoundsAssumption DEF Enqueue, TypeOK
<1>3. inserted' = inserted + count
  BY DEF Enqueue
<1>4. PICK slot \in [fresh -> (inserted + 1)..(inserted + count)] :
         /\ \A c, d \in fresh : slot[c] = slot[d] => c = d
         /\ row' = [i \in Ids |->
              IF \E d \in fresh : slot[d] = i
              THEN LET d == CHOOSE d \in fresh : slot[d] = i
                   IN Queued(d, d \in F, reason)
              ELSE IF row[i].status = "pending" /\ row[i].doc \in S
              THEN Coalesce(row[i], row[i].doc \in F, reason)
              ELSE row[i]]
  BY Zenon DEF Enqueue
<1>5. \A d \in fresh : d \in Docs /\ PendingOf(d) = {}
  OBVIOUS
<1>6. \A d \in fresh : slot[d] > inserted /\ slot[d] <= inserted'
  BY <1>1, <1>2, <1>3, <1>4
<1> HIDE DEF fresh, count
<1>7. ASSUME NEW i \in Ids, NEW d \in fresh, slot[d] = i
      PROVE  /\ row'[i] \in Row /\ Fresh(i) /\ row'[i].doc = d
  <2>1. d = CHOOSE c \in fresh : slot[c] = i
    BY <1>4, <1>7
  <2>2. row'[i] = Queued(d, d \in F, reason)
    BY <1>4, <1>7, <2>1, Zenon
  <2>3. row'[i] \in Row /\ row'[i].status = "pending" /\ row'[i].doc = d
        /\ row'[i].token = Nobody
    <3> DEFINE b == d \in F
    <3>1. d \in Docs /\ b \in BOOLEAN
      BY <1>5
    <3>2. row'[i] = Queued(d, b, reason)
      BY <2>2
    <3> HIDE DEF b
    <3> QED
      BY <3>1, <3>2, QueuedType, SMT
  <2>4. i > inserted /\ i <= inserted'
    BY <1>6, <1>7
  <2> QED
    BY <2>3, <2>4, <1>5, Zenon DEF Fresh
<1>8. ASSUME NEW i \in Ids, ~\E d \in fresh : slot[d] = i
      PROVE  row'[i] \in Row /\ Kept(i)
  <2>1. row[i] \in Row
    BY DEF TypeOK
  <2>2. CASE row[i].status = "pending" /\ row[i].doc \in S
    <3> DEFINE b == row[i].doc \in F
    <3>1. row'[i] = Coalesce(row[i], b, reason)
      BY <1>4, <1>8, <2>2, Zenon
    <3>2. b \in BOOLEAN
      OBVIOUS
    <3> HIDE DEF b
    <3> QED
      BY <2>1, <2>2, <3>1, <3>2, CoalesceType, SMT DEF Merged, Kept
  <2>3. CASE ~(row[i].status = "pending" /\ row[i].doc \in S)
    <3>1. row'[i] = row[i]
      BY <1>4, <1>8, <2>3, Zenon
    <3> QED
      BY <2>1, <3>1 DEF Kept
  <2> QED
    BY <2>2, <2>3
<1>9. row' \in [Ids -> Row]
  <2>1. \A i \in Ids : row'[i] \in Row
    BY <1>7, <1>8, Zenon
  <2>2. \E f : row' = [i \in Ids |-> f[i]]
    <3> WITNESS row'
    <3> QED BY <1>4, Zenon
  <2> QED
    BY <2>1, <2>2, Zenon
<1>10. ASSUME NEW i \in Ids, ~\E d \in fresh : slot[d] = i, row'[i].status = "pending"
       PROVE  row[i].status = "pending" /\ row'[i].doc = row[i].doc
  BY <1>8, <1>10 DEF Kept, Merged
<1>11. ASSUME NEW i \in Ids, NEW j \in Ids, i # j, row[i].status # "pending",
              row'[i].status = "pending", row'[j].status = "pending",
              row'[j].doc = row'[i].doc
       PROVE  FALSE
  <2>1. PICK d \in fresh : slot[d] = i
    BY <1>10, <1>11
  <2>2. row'[i].doc = d /\ PendingOf(d) = {}
    BY <2>1, <1>5, <1>7
  <2>3. CASE \E c \in fresh : slot[c] = j
    BY <2>1, <2>2, <2>3, <1>7, <1>11
  <2>4. CASE ~\E c \in fresh : slot[c] = j
    BY <2>2, <2>4, <1>10, <1>11 DEF PendingOf
  <2> QED
    BY <2>3, <2>4
<1> QED
  BY <1>1, <1>2, <1>3, <1>7, <1>8, <1>9, <1>11 DEF Lonely

(***************************************************************************)
(* What a step does to the rows and to the dispatchers.                     *)
(***************************************************************************)
\* The owner of row i settles it, or retention removes a settled row.
Released(i) ==
    /\ row[i].status # "absent"
    /\ row'[i].status # "processing" /\ row'[i].token = Nobody
    /\ \/ row'[i] = NoRow /\ ready' = {} /\ \A w \in Workers : worker'[w].wakes = {}
       \/ row'[i].status # "absent" /\ row'[i].doc = row[i].doc
    /\ row[i].status = "processing" =>
          \E w \in Workers : /\ row[i].token = w /\ worker[w].id = i
                            /\ worker'[w].pc \in {"idle", "rechecking"}

TakenBy(w, i) ==
    /\ row[i].status \in {"pending", "processing"}
    /\ row'[i].status = "processing" /\ row'[i].token = w /\ row'[i].doc = row[i].doc
    /\ At(w, "idle") /\ worker'[w].id = i /\ worker'[w].doc = row[i].doc

RowEffects ==
    /\ row' \in [Ids -> Row] /\ inserted' \in 0..MaxJobs /\ inserted <= inserted'
    /\ \A i \in Ids : \/ Kept(i) \/ Fresh(i) \/ Released(i)
                      \/ \E w \in Workers : TakenBy(w, i)
    /\ \A i \in Ids : Lonely(i)

WorkerEffects ==
    /\ worker' \in [Workers -> Worker]
    /\ \A w \in Workers : \/ worker'[w] = Idle \/ worker'[w] = worker[w]
                          \/ /\ ~At(w, "idle")
                             /\ worker'[w].id = worker[w].id /\ worker'[w].doc = worker[w].doc
                          \/ \E i \in Ids : TakenBy(w, i)
    /\ \A w \in Workers : worker'[w].wakes \subseteq worker[w].wakes \cup Waiting

Effects == RowEffects /\ WorkerEffects

\* The shape of the rows and of the dispatchers follows from the effects.
RowsOK ==
    /\ row \in [Ids -> Row] /\ inserted \in 0..MaxJobs
    /\ \A i \in Ids :
          /\ i > inserted => row[i] = NoRow
          /\ row[i].token # Nobody <=> row[i].status = "processing"
          /\ row[i].status # "absent" => row[i].doc \in Docs
WorkersOK ==
    /\ worker \in [Workers -> Worker]
    /\ \A w \in Workers :
          /\ ~At(w, "idle") => worker[w].id \in Ids /\ worker[w].doc \in Docs
          /\ Owns(w) => row[worker[w].id].doc = worker[w].doc
          /\ \A i \in worker[w].wakes : row[i].status # "absent"
ContentOK ==
    /\ english \in [Docs -> English]
    /\ \A d \in Docs : english[d].version + edits.left <= MaxEdits
    /\ locale \in [Docs -> Locale]
    /\ memory \in [Docs -> Texts \cup {NoText}]
    /\ owed \subseteq Docs
CountersOK ==
    /\ ready \subseteq Ids /\ \A i \in ready : row[i].status # "absent"
    /\ edits \in [acts : SUBSET Acts, left : 0..MaxEdits]
    /\ faults \in 0..MaxFaults

LEMMA TypeParts == TypeOK <=> RowsOK /\ WorkersOK /\ ContentOK /\ CountersOK
  BY Zenon DEF TypeOK, RowsOK, WorkersOK, ContentOK, CountersOK

LEMMA RowsShape ==
  ASSUME RowsOK, RowEffects
  PROVE  RowsOK'
<1>1. /\ NoRow.status = "absent" /\ NoRow.token = Nobody
  BY DEF NoRow
<1>2. ASSUME NEW i \in Ids
      PROVE  /\ i > inserted' => row'[i] = NoRow
             /\ row'[i].token # Nobody <=> row'[i].status = "processing"
             /\ row'[i].status # "absent" => row'[i].doc \in Docs
  <2>1. inserted \in Nat /\ inserted' \in Nat /\ i \in Nat /\ inserted <= inserted'
    BY BoundsAssumption DEF RowsOK, RowEffects, Ids
  <2>2. CASE Kept(i)
    BY <1>1, <2>1, <2>2 DEF Kept, Merged, RowsOK
  <2>3. CASE Fresh(i)
    BY <2>1, <2>3 DEF Fresh
  <2>4. CASE Released(i)
    BY <1>1, <2>1, <2>4 DEF Released, RowsOK
  <2>5. ASSUME NEW w \in Workers, TakenBy(w, i)
        PROVE  /\ i > inserted' => row'[i] = NoRow
               /\ row'[i].token # Nobody <=> row'[i].status = "processing"
               /\ row'[i].status # "absent" => row'[i].doc \in Docs
    <3>1. w # Nobody
      BY SpareAssumption
    <3> QED
      BY <1>1, <2>1, <2>5, <3>1 DEF TakenBy, RowsOK
  <2> QED
    BY <2>2, <2>3, <2>4, <2>5 DEF RowEffects
<1> QED
  BY <1>2 DEF RowsOK, RowEffects

LEMMA StaysPresent ==
  ASSUME RowEffects, NEW i \in Ids, row[i].status # "absent"
  PROVE  \/ row'[i].status # "absent"
         \/ ready' = {} /\ \A w \in Workers : worker'[w].wakes = {}
  BY DEF RowEffects, Kept, Merged, Fresh, Released, TakenBy

LEMMA WorkersShape ==
  ASSUME RowsOK, WorkersOK, Effects
  PROVE  WorkersOK'
<1>1. Idle.pc = "idle" /\ Idle.id \notin Ids
  BY SpareAssumption DEF Idle, Ids
<1>2. ASSUME NEW w \in Workers
      PROVE  /\ ~At(w, "idle")' => worker'[w].id \in Ids /\ worker'[w].doc \in Docs
             /\ Owns(w)' => row'[worker'[w].id].doc = worker'[w].doc
             /\ \A i \in worker'[w].wakes : row'[i].status # "absent"
  <2> SUFFICES /\ ~At(w, "idle")' => worker'[w].id \in Ids /\ worker'[w].doc \in Docs
               /\ Owns(w)' => row'[worker'[w].id].doc = worker'[w].doc
    <3>1. ASSUME NEW i \in worker'[w].wakes PROVE row'[i].status # "absent"
      <4>1. i \in Ids /\ row[i].status # "absent"
        BY DEF WorkersOK, Effects, WorkerEffects, Waiting, Worker
      <4> QED
        BY <4>1, StaysPresent DEF Effects
    <3> QED
      BY <3>1
  <2>1. CASE worker'[w] = Idle
    BY <1>1, <2>1 DEF At, Owns
  <2>2. CASE \E i \in Ids : TakenBy(w, i)
    <3>1. PICK i \in Ids : TakenBy(w, i)
      BY <2>2
    <3> QED
      BY <3>1 DEF TakenBy, RowsOK, Owns
  <2>3. CASE /\ worker'[w].id = worker[w].id /\ worker'[w].doc = worker[w].doc
             /\ worker'[w] = worker[w] \/ ~At(w, "idle")
    <3>1. ~At(w, "idle")' => worker'[w].id \in Ids /\ worker'[w].doc \in Docs
      BY <2>3 DEF At, WorkersOK
    <3>2. ASSUME Owns(w)' PROVE row'[worker'[w].id].doc = worker'[w].doc
      <4> DEFINE i == worker[w].id
      <4>1. i \in Ids /\ row'[i].status = "processing" /\ row'[i].token = w
        BY <2>3, <3>2 DEF Owns
      <4>2. CASE Kept(i)
        BY <2>3, <4>1, <4>2 DEF Kept, Merged, WorkersOK, Owns
      <4>3. CASE Fresh(i)
        BY <4>1, <4>3 DEF Fresh
      <4>4. CASE Released(i)
        BY <4>1, <4>4 DEF Released
      <4>5. CASE \E v \in Workers : TakenBy(v, i)
        BY <2>3, <4>1, <4>5 DEF TakenBy
      <4> QED
        BY <4>1, <4>2, <4>3, <4>4, <4>5 DEF Effects, RowEffects
    <3> QED
      BY <3>1, <3>2
  <2> QED
    BY <2>1, <2>2, <2>3 DEF Effects, WorkerEffects
<1> QED
  BY <1>2 DEF WorkersOK, Effects, WorkerEffects

(***************************************************************************)
(* The ways actions change a row or a dispatcher.                           *)
(***************************************************************************)
LEMMA SameRows ==
  ASSUME RowsOK, UNCHANGED <<row, inserted>>
  PROVE  RowEffects
  BY BoundsAssumption DEF RowsOK, RowEffects, Kept, Lonely

LEMMA EnqueuedRows ==
  ASSUME TypeOK, NEW S \in SUBSET Docs, NEW F, NEW reason \in Reasons,
         Enqueue(S, F, reason)
  PROVE  RowEffects
  BY EnqueueEffect DEF RowEffects

LEMMA MergedRow ==
  ASSUME RowsOK, NEW i \in Ids, row[i].status # "absent", NEW r \in Row,
         r.status = row[i].status, r.doc = row[i].doc, r.token = row[i].token,
         row' = [row EXCEPT ![i] = r], inserted' = inserted
  PROVE  RowEffects
<1>1. row' \in [Ids -> Row] /\ row'[i] = r /\ \A j \in Ids \ {i} : row'[j] = row[j]
  BY DEF RowsOK
<1>2. \A j \in Ids : Kept(j)
  BY <1>1 DEF Kept, Merged
<1>3. \A j \in Ids : Lonely(j)
  BY <1>1 DEF Lonely
<1> QED
  BY <1>1, <1>2, <1>3, BoundsAssumption DEF RowEffects, RowsOK

LEMMA ReleasedRow ==
  ASSUME TypeOK, NEW w \in Workers, Owns(w), NEW r \in Row,
         r.status \in {"delivered", "unchanged", "failed", "blocked", "pending"},
         r.token = Nobody, r.doc = row[worker[w].id].doc,
         r.status = "pending" => PendingOf(r.doc) = {},
         row' = [row EXCEPT ![worker[w].id] = r], inserted' = inserted,
         worker'[w].pc \in {"idle", "rechecking"}
  PROVE  RowEffects
<1> DEFINE i == worker[w].id
<1>1. i \in Ids /\ row[i].status = "processing" /\ row[i].token = w
  BY DEF Owns
<1>2. row' \in [Ids -> Row] /\ row'[i] = r /\ \A j \in Ids \ {i} : row'[j] = row[j]
  BY <1>1 DEF TypeOK
<1> HIDE DEF i
<1>3. Released(i)
  BY <1>1, <1>2 DEF Released, i
<1>4. \A j \in Ids : Kept(j) \/ Released(j)
  BY <1>2, <1>3 DEF Kept
<1>5. \A j \in Ids : Lonely(j)
  BY <1>1, <1>2 DEF Lonely, PendingOf, i
<1> QED
  BY <1>2, <1>4, <1>5, BoundsAssumption DEF RowEffects, TypeOK

LEMMA SameWorkers ==
  ASSUME WorkersOK, UNCHANGED worker
  PROVE  WorkerEffects
  BY DEF WorkersOK, WorkerEffects

LEMMA MovedWorker ==
  ASSUME WorkersOK, NEW w \in Workers, ~At(w, "idle"), NEW r \in Worker,
         r.id = worker[w].id, r.doc = worker[w].doc,
         r.wakes \subseteq worker[w].wakes \cup Waiting,
         worker' = [worker EXCEPT ![w] = r]
  PROVE  WorkerEffects /\ worker'[w] = r
<1>1. worker' \in [Workers -> Worker] /\ worker'[w] = r
      /\ \A v \in Workers \ {w} : worker'[v] = worker[v]
  BY DEF WorkersOK
<1> QED
  BY <1>1 DEF WorkerEffects

LEMMA FinishedWorker ==
  ASSUME TypeOK, NEW w \in Workers, ~At(w, "idle"), NEW pc \in Steps,
         NEW missing \in SUBSET Docs, Finish(w, pc, missing)
  PROVE  WorkerEffects
<1>1. Outcome(w, pc, missing) \in Worker
      /\ Outcome(w, pc, missing).id = worker[w].id
      /\ Outcome(w, pc, missing).doc = worker[w].doc
      /\ Outcome(w, pc, missing).wakes = {}
  BY OutcomeType
<1> QED
  BY <1>1, TypeParts, MovedWorker DEF Finish

LEMMA DoneWorker ==
  ASSUME WorkersOK, NEW w \in Workers, Done(w)
  PROVE  WorkerEffects /\ worker'[w].pc = "idle"
<1>1. worker' \in [Workers -> Worker] /\ worker'[w] = Idle
      /\ \A v \in Workers \ {w} : worker'[v] = worker[v]
  BY IdleType DEF WorkersOK, Done
<1> QED
  BY <1>1 DEF WorkerEffects, Idle

\* assertLease and its relatives.
LEMMA LapseRow ==
  ASSUME RowsOK, NEW i \in Ids, row[i].status = "processing", NEW b \in BOOLEAN,
         row' = [row EXCEPT ![i].lapsed = b], inserted' = inserted
  PROVE  RowEffects
<1> DEFINE r == [row[i] EXCEPT !.lapsed = b]
<1>1. row[i] \in Row
  BY DEF RowsOK
<1>2. r \in Row /\ r.status = row[i].status /\ r.doc = row[i].doc /\ r.token = row[i].token
  BY <1>1, Zenon DEF Row
<1>3. row' = [row EXCEPT ![i] = r]
  BY Zenon
<1> HIDE DEF r
<1> QED
  BY <1>2, <1>3, MergedRow

LEMMA AssertedRow ==
  ASSUME TypeOK, NEW w \in Workers, AssertLease(w), inserted' = inserted
  PROVE  RowEffects
  BY TypeParts, LapseRow DEF AssertLease, Owns

(***************************************************************************)
(* The effects of each action.                                             *)
(***************************************************************************)
LEMMA TargetsType ==
  ASSUME NEW d \in Docs
  PROVE  /\ Missing(d) \in SUBSET Docs /\ Present(d) \in SUBSET Docs
         /\ MissingRequired(d) \in SUBSET Docs
  BY RelationsAssumption DEF Missing, MissingRequired, Present, Targets

LEMMA DocsOfType ==
  ASSUME RowsOK, NEW S \in SUBSET Ids, \A i \in S : row[i].status # "absent"
  PROVE  DocsOf(S) \in SUBSET Docs
  BY DEF RowsOK, DocsOf

LEMMA WokenType ==
  ASSUME NEW d
  PROVE  WokenBy(d) \in SUBSET Ids /\ \A i \in WokenBy(d) : row[i].status # "absent"
  BY DEF WokenBy, Waiting

LEMMA EditorsEffect ==
  ASSUME TypeOK, Editors
  PROVE  Effects
<1>1. WorkerEffects
  BY TypeParts, SameWorkers DEF Editors, Save, Delete, HumanWrite, Sweep, Edit
<1>2. PICK a \in edits.acts :
         \/ Save(a.doc, a.text) \/ Delete(a.doc) \/ HumanWrite(a.doc)
         \/ Sweep(a.doc, FALSE, a.act) /\ a.act \in {"nightly", "backfill"}
         \/ Sweep(a.doc, TRUE, "backfill")
  BY Zenon DEF Editors
<1>3. a.doc \in Docs
  BY DEF TypeOK, Acts
<1>4. \E S \in SUBSET Docs, F \in SUBSET Docs, reason \in Reasons : Enqueue(S, F, reason)
  <2>1. {a.doc} \in SUBSET Docs /\ {} \in SUBSET Docs
    BY <1>3
  <2>2. DocsOf(WokenBy(a.doc)) \in SUBSET Docs /\ ForcedOf(WokenBy(a.doc)) \in SUBSET Docs
    <3>1. DocsOf(WokenBy(a.doc)) \in SUBSET Docs
      BY TypeParts, WokenType, DocsOfType
    <3> QED
      BY <3>1 DEF DocsOf, ForcedOf
  <2>3. "edit" \in Reasons /\ "backfill" \in Reasons /\ "nightly" \in Reasons
    BY DEF Reasons
  <2>4. CASE Save(a.doc, a.text) \/ Delete(a.doc)
    BY <2>1, <2>3, <2>4 DEF Save, Delete
  <2>5. CASE HumanWrite(a.doc)
    BY <2>2, <2>3, <2>5 DEF HumanWrite
  <2>6. CASE Sweep(a.doc, FALSE, a.act) /\ a.act \in {"nightly", "backfill"}
    <3>1. Enqueue({a.doc}, {}, a.act)
      BY <2>6 DEF Sweep
    <3> QED
      BY <2>1, <2>3, <2>6, <3>1
  <2>7. CASE Sweep(a.doc, TRUE, "backfill")
    <3>1. Enqueue({a.doc}, {a.doc}, "backfill")
      BY <2>7 DEF Sweep
    <3> QED
      BY <2>1, <2>3, <3>1
  <2> QED
    BY <1>2, <2>4, <2>5, <2>6, <2>7
<1>5. RowEffects
  BY <1>4, EnqueuedRows
<1> QED
  BY <1>1, <1>5 DEF Effects

LEMMA ClaimEffect ==
  ASSUME TypeOK, NEW w \in Workers, NEW i \in Ids, Claim(w, i)
  PROVE  Effects
<1> DEFINE r == [row[i] EXCEPT !.status = "processing", !.token = w,
                               !.lapsed = FALSE, !.due = FALSE]
           v == [Idle EXCEPT !.pc = "claimed", !.id = i, !.doc = row[i].doc,
                             !.force = row[i].force]
<1>1. row[i] \in Row /\ row[i].status \in {"pending", "processing"}
  BY DEF TypeOK, Claim, Claimable
<1>2. "processing" \in Statuses /\ w \in Workers \cup {Nobody} /\ FALSE \in BOOLEAN
  BY DEF Statuses
<1>3. /\ r \in Row /\ r.status = "processing" /\ r.token = w /\ r.doc = row[i].doc
  BY <1>1, <1>2, Zenon DEF Row
<1>4. /\ row[i].doc \in Docs \cup {NoDoc} /\ row[i].force \in BOOLEAN
      /\ "claimed" \in Steps /\ i \in Ids \cup {NoJob}
  BY <1>1, SMT DEF Row, Steps
<1>5. /\ v \in Worker /\ v.id = i /\ v.doc = row[i].doc /\ v.wakes = {}
  BY <1>4, IdleType, Zenon DEF Idle, Worker
<1>6. /\ row' = [row EXCEPT ![i] = r]
      /\ worker' = [worker EXCEPT ![w] = v]
      /\ inserted' = inserted /\ At(w, "idle")
  <2>1. row' = [row EXCEPT ![i] = r]
    BY Zenon DEF Claim
  <2>2. worker' = [worker EXCEPT ![w] = v]
    BY Zenon DEF Claim
  <2>3. inserted' = inserted /\ At(w, "idle")
    BY Zenon DEF Claim, At
  <2> QED
    BY <2>1, <2>2, <2>3
<1> HIDE DEF r, v
<1>7. /\ row' \in [Ids -> Row] /\ row'[i] = r
      /\ \A j \in Ids \ {i} : row'[j] = row[j]
      /\ worker' \in [Workers -> Worker] /\ worker'[w] = v
      /\ \A u \in Workers \ {w} : worker'[u] = worker[u]
  BY <1>3, <1>5, <1>6 DEF TypeOK
<1>8. TakenBy(w, i)
  BY <1>1, <1>3, <1>5, <1>6, <1>7 DEF TakenBy
<1>9. \A j \in Ids : Lonely(j) /\ (Kept(j) \/ TakenBy(w, j))
  BY <1>3, <1>7, <1>8 DEF Lonely, Kept
<1>10. RowEffects
  BY <1>6, <1>7, <1>9, BoundsAssumption DEF RowEffects, TypeOK
<1>11. WorkerEffects
  BY <1>5, <1>7, <1>8 DEF WorkerEffects
<1> QED
  BY <1>10, <1>11 DEF Effects

\* A step that asserts the lease and ends the job with an outcome.
LEMMA AssertFinish ==
  ASSUME TypeOK, NEW w \in Workers, ~At(w, "idle"), AssertLease(w), inserted' = inserted,
         NEW pc \in Steps, NEW missing \in SUBSET Docs, Finish(w, pc, missing)
  PROVE  Effects
  BY AssertedRow, FinishedWorker DEF Effects

\* A step of the dispatcher alone.
LEMMA OnlyFinish ==
  ASSUME TypeOK, NEW w \in Workers, ~At(w, "idle"), UNCHANGED <<row, inserted>>,
         NEW pc \in Steps, NEW missing \in SUBSET Docs, Finish(w, pc, missing)
  PROVE  Effects
  BY TypeParts, SameRows, FinishedWorker DEF Effects

LEMMA GoneEffect ==
  ASSUME TypeOK, NEW w \in Workers, LoadGone(w) \/ RecheckGone(w)
  PROVE  Effects
<1>1. /\ ~At(w, "idle") /\ AssertLease(w) /\ inserted' = inserted
      /\ Finish(w, "delivered", {})
  BY DEF LoadGone, RecheckGone, RemoveLocale, At
<1>2. "delivered" \in Steps /\ {} \in SUBSET Docs
  BY DEF Steps
<1> QED
  BY <1>1, <1>2, AssertFinish

LEMMA LoadEffect ==
  ASSUME TypeOK, NEW w \in Workers, Load(w)
  PROVE  Effects
<1> DEFINE d == worker[w].doc
           i == worker[w].id
           r == [row[i] EXCEPT !.lapsed = FALSE, !.hash = english[d].text]
           v == [worker[w] EXCEPT !.pc = "checking", !.version = english[d].version,
                                  !.text = english[d].text, !.current = TextCurrent(w)]
<1>1. /\ At(w, "claimed") /\ ~At(w, "idle") /\ inserted' = inserted
      /\ i \in Ids /\ row[i].status = "processing" /\ d \in Docs
  BY DEF Load, At, Owns, TypeOK
<1>2. english[d] \in English /\ row[i] \in Row /\ worker[w] \in Worker
  BY <1>1 DEF TypeOK
<1>3. english[d].text \in Texts \cup {NoText} /\ english[d].version \in 0..MaxEdits
      /\ TextCurrent(w) \in BOOLEAN /\ "checking" \in Steps /\ FALSE \in BOOLEAN
  BY <1>2 DEF English, TextCurrent, Steps
<1>4. r \in Row /\ r.status = row[i].status /\ r.doc = row[i].doc /\ r.token = row[i].token
  BY <1>2, <1>3, Zenon DEF Row
<1>5. row' = [row EXCEPT ![i] = r]
  BY Zenon DEF Load
<1>6. RowEffects
  <2> HIDE DEF r, i
  <2> QED
    BY <1>1, <1>4, <1>5, TypeParts, MergedRow
<1>7. CASE \/ Finish(w, "unchanged", {}) \/ Finish(w, "blocked", MissingRequired(d))
  <2>1. "unchanged" \in Steps /\ "blocked" \in Steps /\ {} \in SUBSET Docs
        /\ MissingRequired(d) \in SUBSET Docs
    BY <1>1, TargetsType DEF Steps
  <2> QED
    BY <1>1, <1>6, <1>7, <2>1, FinishedWorker DEF Effects
<1>8. CASE worker' = [worker EXCEPT ![w] = v]
  <2>1. v \in Worker /\ v.id = worker[w].id /\ v.doc = worker[w].doc
        /\ v.wakes = worker[w].wakes
    BY <1>2, <1>3, Zenon DEF Worker
  <2> HIDE DEF v
  <2>2. v.wakes \subseteq worker[w].wakes \cup Waiting
    BY <2>1
  <2>3. WorkerEffects
    BY <1>1, <1>8, <2>1, <2>2, TypeParts, MovedWorker
  <2> QED
    BY <1>6, <2>3 DEF Effects
<1> QED
  BY <1>7, <1>8, Zenon DEF Load

LEMMA RecheckEffect ==
  ASSUME TypeOK, NEW w \in Workers, Recheck(w)
  PROVE  Effects
<1> DEFINE d == worker[w].doc
           v == [worker[w] EXCEPT !.version = english[d].version, !.pc = "saving"]
<1>1. ~At(w, "idle") /\ inserted' = inserted /\ AssertLease(w) /\ d \in Docs
  BY DEF Recheck, At, TypeOK
<1>2. english[d].version \in 0..MaxEdits /\ worker[w] \in Worker /\ "saving" \in Steps
      /\ "delivered" \in Steps /\ {} \in SUBSET Docs
  BY <1>1 DEF TypeOK, English, Steps
<1>3. CASE Finish(w, "delivered", {})
  BY <1>1, <1>2, <1>3, AssertFinish
<1>4. CASE worker' = [worker EXCEPT ![w] = v]
  <2>1. v \in Worker /\ v.id = worker[w].id /\ v.doc = worker[w].doc
        /\ v.wakes = worker[w].wakes
    BY <1>2, Zenon DEF Worker
  <2> HIDE DEF v
  <2>2. v.wakes \subseteq worker[w].wakes \cup Waiting
    BY <2>1
  <2>3. WorkerEffects
    BY <1>1, <1>4, <2>1, <2>2, TypeParts, MovedWorker
  <2> QED
    BY <1>1, <2>3, AssertedRow DEF Effects
<1> QED
  BY <1>3, <1>4, Zenon DEF Recheck

LEMMA DecideEffect ==
  ASSUME TypeOK, NEW w \in Workers, Decide(w)
  PROVE  Effects
<1> DEFINE d == worker[w].doc
           v == [worker[w] EXCEPT !.pc = "writing", !.links = Present(d),
                                  !.missing = Missing(d)]
<1>1. ~At(w, "idle") /\ UNCHANGED <<row, inserted>> /\ d \in Docs
  BY DEF Decide, At, TypeOK
<1>2. /\ worker[w] \in Worker /\ "writing" \in Steps
      /\ "delivered" \in Steps /\ "blocked" \in Steps
  BY DEF TypeOK, Steps
<1>3. CASE Finish(w, "blocked", MissingRequired(d)) \/ Publishes(w, Missing(d))
  <2>1. \E pc \in Steps, missing \in SUBSET Docs : Finish(w, pc, missing)
    BY <1>1, <1>2, <1>3, TargetsType, Zenon DEF Publishes
  <2> QED
    BY <1>1, <2>1, OnlyFinish
<1>4. CASE worker' = [worker EXCEPT ![w] = v]
  <2>1. v \in Worker /\ v.id = worker[w].id /\ v.doc = worker[w].doc
        /\ v.wakes = worker[w].wakes
    BY <1>1, <1>2, TargetsType, Zenon DEF Worker
  <2> HIDE DEF v
  <2>2. v.wakes \subseteq worker[w].wakes \cup Waiting
    BY <2>1
  <2>3. WorkerEffects
    BY <1>1, <1>4, <2>1, <2>2, TypeParts, MovedWorker
  <2> QED
    BY <1>1, <2>3, TypeParts, SameRows DEF Effects
<1> QED
  BY <1>3, <1>4, Zenon DEF Decide

LEMMA OpenEffect ==
  ASSUME TypeOK, NEW w \in Workers, OpenPublication(w)
  PROVE  Effects
<1> DEFINE v == [worker[w] EXCEPT !.pc = "committing", !.wakes = WokenBy(worker[w].doc)]
<1>1. ~At(w, "idle") /\ UNCHANGED <<row, inserted>>
  BY DEF OpenPublication, At
<1>2. worker[w] \in Worker /\ "committing" \in Steps
      /\ WokenBy(worker[w].doc) \in SUBSET Ids
  BY WokenType DEF TypeOK, Steps
<1>3. v \in Worker /\ v.id = worker[w].id /\ v.doc = worker[w].doc
      /\ v.wakes = WokenBy(worker[w].doc)
  BY <1>2, Zenon DEF Worker
<1>4. worker' = [worker EXCEPT ![w] = v]
  BY Zenon DEF OpenPublication
<1> HIDE DEF v
<1>5. v.wakes \subseteq worker[w].wakes \cup Waiting
  BY <1>3 DEF WokenBy
<1>6. WorkerEffects
  BY <1>1, <1>3, <1>4, <1>5, TypeParts, MovedWorker
<1> QED
  BY <1>1, <1>6, TypeParts, SameRows DEF Effects

LEMMA CommitEffect ==
  ASSUME TypeOK, NEW w \in Workers, CommitPublication(w)
  PROVE  Effects
<1> DEFINE S == DocsOf(worker[w].wakes)
           v == [worker[w] EXCEPT !.pc = "published", !.wakes = {}]
<1>1. ~At(w, "idle") /\ Enqueue(S, ForcedOf(worker[w].wakes), "edit")
  BY DEF CommitPublication, At
<1>2. worker[w] \in Worker /\ "published" \in Steps /\ {} \in SUBSET Ids
      /\ "edit" \in Reasons
  BY DEF TypeOK, Steps, Reasons
<1>3. S \in SUBSET Docs
  BY TypeParts, DocsOfType DEF WorkersOK, Worker
<1>4. RowEffects
  <2> HIDE DEF S
  <2> QED
    BY <1>1, <1>2, <1>3, EnqueuedRows
<1>5. v \in Worker /\ v.id = worker[w].id /\ v.doc = worker[w].doc /\ v.wakes = {}
  BY <1>2, Zenon DEF Worker
<1>6. worker' = [worker EXCEPT ![w] = v]
  BY Zenon DEF CommitPublication
<1> HIDE DEF v
<1>7. WorkerEffects
  BY <1>1, <1>5, <1>6, TypeParts, MovedWorker
<1> QED
  BY <1>4, <1>7 DEF Effects

LEMMA RecordEffect ==
  ASSUME TypeOK, NEW w \in Workers, RecordPublished(w)
  PROVE  Effects
<1>1. ~At(w, "idle") /\ AssertLease(w) /\ inserted' = inserted
      /\ worker[w].missing \in SUBSET Docs
  BY DEF RecordPublished, At, TypeOK, Worker
<1>2. "delivered" \in Steps /\ "blocked" \in Steps
  BY DEF Steps
<1>3. Finish(w, IF worker[w].missing = {} THEN "delivered" ELSE "blocked", worker[w].missing)
  BY Zenon DEF RecordPublished, Publishes
<1> QED
  BY <1>1, <1>2, <1>3, AssertFinish

\* A settlement that ends the job: the row is released, or the lease was lost.
LEMMA SettleEffect ==
  ASSUME TypeOK, NEW w \in Workers, inserted' = inserted,
         NEW status \in {"delivered", "unchanged", "failed"}, Settle(w, status), Done(w)
  PROVE  Effects
<1>1. WorkerEffects /\ worker'[w].pc = "idle"
  BY TypeParts, DoneWorker
<1>2. CASE Owns(w)
  <2> DEFINE i == worker[w].id
             hash == IF status = "failed" THEN row[i].hash ELSE NoText
             r == Settled(status, row[i].doc, hash)
  <2>1. i \in Ids /\ row[i] \in Row /\ row[i].doc \in Docs
    BY <1>2 DEF TypeOK, Owns
  <2>2. hash \in Texts \cup {NoText}
    BY <2>1 DEF Row
  <2>3. r \in Row /\ r.status = status /\ r.doc = row[i].doc /\ r.token = Nobody
    BY <2>1, <2>2, SettledType
  <2>4. row' = [row EXCEPT ![i] = r]
    BY <1>2, Zenon DEF Settle
  <2> HIDE DEF r
  <2>5. RowEffects
    BY <1>1, <1>2, <2>3, <2>4, ReleasedRow
  <2> QED
    BY <1>1, <2>5 DEF Effects
<1>3. CASE ~Owns(w)
  BY <1>1, <1>3, TypeParts, SameRows DEF Settle, Effects
<1> QED
  BY <1>2, <1>3

LEMMA SettlementEffect ==
  ASSUME TypeOK, NEW w \in Workers, MarkDelivered(w) \/ MarkFailed(w) \/ Supersede(w)
  PROVE  Effects
<1>1. inserted' = inserted /\ Done(w)
      /\ \E status \in {"delivered", "unchanged", "failed"} : Settle(w, status)
  BY DEF MarkDelivered, MarkFailed, Supersede
<1> QED
  BY <1>1, SettleEffect

LEMMA BlockedEffect ==
  ASSUME TypeOK, NEW w \in Workers, MarkBlocked(w)
  PROVE  Effects
<1> DEFINE i == worker[w].id
           r == [NoRow EXCEPT !.status = "blocked", !.doc = row[i].doc,
                              !.force = row[i].force, !.awaits = worker[w].missing]
           v == [worker[w] EXCEPT !.pc = "rechecking"]
<1>1. ~At(w, "idle") /\ inserted' = inserted
  BY DEF MarkBlocked, At
<1>2. CASE Owns(w)
  <2>1. i \in Ids /\ row[i] \in Row /\ row[i].doc \in Docs /\ worker[w] \in Worker
    BY <1>2 DEF TypeOK, Owns
  <2>2. /\ row[i].doc \in Docs \cup {NoDoc} /\ row[i].force \in BOOLEAN
        /\ worker[w].missing \in SUBSET Docs
        /\ "blocked" \in Statuses /\ "rechecking" \in Steps
    BY <2>1, SMT DEF Row, Worker, Statuses, Steps
  <2>3. /\ r \in Row /\ r.status = "blocked" /\ r.doc = row[i].doc /\ r.token = Nobody
    BY <2>2, NoRowType, Zenon DEF NoRow, Row
  <2>4. /\ v \in Worker /\ v.pc = "rechecking" /\ v.id = worker[w].id
        /\ v.doc = worker[w].doc /\ v.wakes = worker[w].wakes
    BY <2>1, <2>2, Zenon DEF Worker
  <2>5. row' = [row EXCEPT ![i] = r]
    BY <1>2, Zenon DEF MarkBlocked
  <2>6. worker' = [worker EXCEPT ![w] = v]
    BY <1>2, Zenon DEF MarkBlocked, Goto
  <2> HIDE DEF r, v
  <2>7. v.wakes \subseteq worker[w].wakes \cup Waiting
    BY <2>4
  <2>8. WorkerEffects /\ worker'[w] = v
    BY <1>1, <2>4, <2>6, <2>7, TypeParts, MovedWorker
  <2>9. RowEffects
    BY <1>1, <1>2, <2>3, <2>4, <2>5, <2>8, ReleasedRow
  <2> QED
    BY <2>8, <2>9 DEF Effects
<1>3. CASE ~Owns(w)
  <2>1. UNCHANGED <<row, inserted>> /\ Done(w)
    BY <1>3 DEF MarkBlocked
  <2> QED
    BY <2>1, TypeParts, SameRows, DoneWorker DEF Effects
<1> QED
  BY <1>2, <1>3

LEMMA SelfEnqueueEffect ==
  ASSUME TypeOK, NEW w \in Workers, SelfEnqueue(w)
  PROVE  Effects
<1>1. ~At(w, "idle") /\ Done(w) /\ worker[w].doc \in Docs /\ "edit" \in Reasons
  BY DEF SelfEnqueue, At, TypeOK, Reasons
<1>2. \E S \in SUBSET Docs, F \in SUBSET Docs : Enqueue(S, F, "edit")
  <2>1. {worker[w].doc} \in SUBSET Docs /\ {} \in SUBSET Docs
    BY <1>1
  <2>2. PICK b \in BOOLEAN : Enqueue(IF b THEN {worker[w].doc} ELSE {},
                    IF worker[w].force THEN {worker[w].doc} ELSE {}, "edit")
    BY DEF SelfEnqueue
  <2> DEFINE S == IF b THEN {worker[w].doc} ELSE {}
             F == IF worker[w].force THEN {worker[w].doc} ELSE {}
  <2>3. S \in SUBSET Docs /\ F \in SUBSET Docs /\ Enqueue(S, F, "edit")
    BY <2>1, <2>2
  <2> QED
    BY <2>3
<1> QED
  BY <1>1, <1>2, TypeParts, EnqueuedRows, DoneWorker DEF Effects

LEMMA ReturnEffect ==
  ASSUME TypeOK, NEW w \in Workers, ReturnToPending(w)
  PROVE  Effects
<1> DEFINE i == worker[w].id
           r == [row[i] EXCEPT !.status = "pending", !.token = Nobody, !.lapsed = FALSE]
<1>1. inserted' = inserted /\ Done(w) /\ Newer(w) = {}
  BY DEF ReturnToPending
<1>2. WorkerEffects /\ worker'[w].pc = "idle"
  BY <1>1, TypeParts, DoneWorker
<1>3. CASE Owns(w)
  <2>1. i \in Ids /\ row[i] \in Row /\ row[i].doc = worker[w].doc
        /\ row[i].status = "processing"
    BY <1>3 DEF TypeOK, Owns
  <2>2. "pending" \in Statuses /\ Nobody \in Workers \cup {Nobody} /\ FALSE \in BOOLEAN
    BY DEF Statuses
  <2>3. r \in Row /\ r.status = "pending" /\ r.token = Nobody /\ r.doc = row[i].doc
    BY <2>1, <2>2, Zenon DEF Row
  <2>4. row' = [row EXCEPT ![i] = r]
    BY <1>3, Zenon DEF ReturnToPending
  <2>5. PendingOf(r.doc) = {}
    <3>1. i \notin PendingOf(worker[w].doc)
      BY <2>1 DEF PendingOf
    <3> QED
      BY <1>1, <2>1, <2>3, <3>1 DEF Newer
  <2> HIDE DEF r
  <2>6. RowEffects
    BY <1>1, <1>2, <1>3, <2>3, <2>4, <2>5, ReleasedRow
  <2> QED
    BY <1>2, <2>6 DEF Effects
<1>4. CASE ~Owns(w)
  BY <1>1, <1>2, <1>4, TypeParts, SameRows DEF ReturnToPending, Effects
<1> QED
  BY <1>3, <1>4

LEMMA ErrorEffect ==
  ASSUME TypeOK, NEW w \in Workers, Defer(w) \/ Fail(w) \/ Crash(w)
  PROVE  Effects
<1>1. UNCHANGED <<row, inserted>> /\ ~At(w, "idle")
  BY DEF Defer, Fail, Crash, At, Processing
<1>2. "deferred" \in Steps /\ "failed" \in Steps /\ {} \in SUBSET Docs
  BY DEF Steps
<1>3. CASE Finish(w, "deferred", {}) \/ Finish(w, "failed", {})
  BY <1>1, <1>2, <1>3, OnlyFinish
<1>4. CASE Done(w)
  BY <1>1, <1>4, TypeParts, SameRows, DoneWorker DEF Effects
<1> QED
  BY <1>3, <1>4 DEF Defer, Fail, Crash

LEMMA TimerEffect ==
  ASSUME TypeOK,
         \/ \E w \in Workers : Heartbeat(w)
         \/ \E i \in Ids : LeaseExpires(i) \/ BecomeDue(i)
         \/ ReadReady
  PROVE  Effects
<1>1. UNCHANGED <<inserted, worker>>
  BY DEF Heartbeat, LeaseExpires, BecomeDue, ReadReady
<1>2. RowEffects
  <2>1. ASSUME NEW w \in Workers, Heartbeat(w) PROVE RowEffects
    <3>1. worker[w].id \in Ids /\ row[worker[w].id].status = "processing"
      BY <2>1 DEF Heartbeat, Owns
    <3> QED
      BY <1>1, <2>1, <3>1, TypeParts, LapseRow DEF Heartbeat
  <2>2. ASSUME NEW i \in Ids, LeaseExpires(i) PROVE RowEffects
    BY <1>1, <2>2, TypeParts, LapseRow DEF LeaseExpires
  <2>3. ASSUME NEW i \in Ids, BecomeDue(i) PROVE RowEffects
    <3> DEFINE r == [row[i] EXCEPT !.due = TRUE]
    <3>1. row[i] \in Row /\ TRUE \in BOOLEAN /\ row[i].status = "pending"
      BY <2>3 DEF TypeOK, BecomeDue
    <3>2. r \in Row /\ r.status = row[i].status /\ r.doc = row[i].doc
          /\ r.token = row[i].token
      BY <3>1, Zenon DEF Row
    <3>3. row' = [row EXCEPT ![i] = r]
      BY <2>3, Zenon DEF BecomeDue
    <3> HIDE DEF r
    <3> QED
      BY <1>1, <3>1, <3>2, <3>3, TypeParts, MergedRow
  <2>4. CASE ReadReady
    BY <2>4, TypeParts, SameRows DEF ReadReady
  <2> QED
    BY <2>1, <2>2, <2>3, <2>4
<1> QED
  BY <1>1, <1>2, TypeParts, SameWorkers DEF Effects

LEMMA WakeEffect ==
  ASSUME TypeOK, WakeReady
  PROVE  Effects
<1>1. DocsOf(ready) \in SUBSET Docs
  BY TypeParts, DocsOfType DEF CountersOK
<1>2. Enqueue(DocsOf(ready), ForcedOf(ready), "edit") /\ "edit" \in Reasons
  BY DEF WakeReady, Reasons
<1>3. RowEffects
  BY <1>1, <1>2, EnqueuedRows
<1> QED
  BY <1>3, TypeParts, SameWorkers DEF Effects, WakeReady

LEMMA CleanupEffect ==
  ASSUME TypeOK, NEW c \in Ids, Cleanup(c)
  PROVE  Effects
<1>1. PICK S \in SUBSET Ids :
         /\ row' = Without(S)
         /\ \A i \in S : row[i].status \in {"delivered", "unchanged", "failed", "blocked"}
  <2> DEFINE settled == {i \in 1..c : row[i].status \in {"delivered", "unchanged", "failed"}}
             repaired == {i \in 1..c : /\ row[i].status = "blocked"
                                       /\ \E j \in Ids \ settled : j > i /\ row[j].doc = row[i].doc}
  <2>1. settled \in SUBSET Ids /\ repaired \in SUBSET Ids
    BY BoundsAssumption DEF Ids
  <2>2. row' = Without(settled) \/ row' = Without(settled \cup repaired)
    BY DEF Cleanup
  <2> QED
    BY <2>1, <2>2
<1>2. /\ ready = {} /\ ready' = {} /\ worker' = worker /\ inserted' = inserted
      /\ \A w \in Workers : worker'[w].wakes = {}
  BY DEF Cleanup, Edit
<1>3. row' \in [Ids -> Row] /\ \A i \in Ids : row'[i] = IF i \in S THEN NoRow ELSE row[i]
  BY <1>1, NoRowType DEF Without, TypeOK
<1>4. NoRow.status = "absent" /\ NoRow.token = Nobody
  BY DEF NoRow
<1>5. \A i \in Ids : Kept(i) \/ Released(i)
  BY <1>1, <1>2, <1>3, <1>4 DEF Kept, Released
<1>6. \A i \in Ids : Lonely(i)
  BY <1>3, <1>4 DEF Lonely
<1>7. RowEffects
  BY <1>2, <1>3, <1>5, <1>6, BoundsAssumption DEF RowEffects, TypeOK
<1> QED
  BY <1>2, <1>7, TypeParts, SameWorkers DEF Effects

LEMMA NextEffect ==
  ASSUME TypeOK, [Next]_vars
  PROVE  Effects
<1>1. CASE Next
  <2>1. CASE Editors
    BY <2>1, EditorsEffect
  <2>2. ASSUME NEW w \in Workers, \E i \in Ids : Claim(w, i) PROVE Effects
    BY <2>2, ClaimEffect
  <2>3. ASSUME NEW w \in Workers, Advance(w) PROVE Effects
    BY <2>3, GoneEffect, LoadEffect, RecheckEffect, DecideEffect, OpenEffect,
       CommitEffect, RecordEffect, SettlementEffect, BlockedEffect,
       SelfEnqueueEffect, ReturnEffect DEF Advance
  <2>4. ASSUME NEW w \in Workers, Defer(w) \/ Fail(w) \/ Crash(w) PROVE Effects
    BY <2>4, ErrorEffect
  <2>5. CASE \/ \E w \in Workers : Heartbeat(w)
             \/ \E i \in Ids : LeaseExpires(i) \/ BecomeDue(i)
             \/ ReadReady
    BY <2>5, TimerEffect
  <2>6. CASE WakeReady
    BY <2>6, WakeEffect
  <2>7. ASSUME NEW c \in Ids, Cleanup(c) PROVE Effects
    BY <2>7, CleanupEffect
  <2> QED
    BY <1>1, <2>1, <2>2, <2>3, <2>4, <2>5, <2>6, <2>7 DEF Next
<1>2. CASE UNCHANGED vars
  BY <1>2, TypeParts, SameRows, SameWorkers DEF vars, Effects
<1> QED
  BY <1>1, <1>2

(***************************************************************************)
(* Content and counters.                                                   *)
(***************************************************************************)
\* The types of an entry and of a locale row after a change of one field.
LEMMA EntryType ==
  ASSUME NEW r \in Locale, NEW l \in SUBSET Docs
  PROVE  /\ [r EXCEPT !.text = Human] \in Locale
         /\ [r EXCEPT !.links = l] \in Locale
<1>1. Human \in Texts \cup {Human, NoText}
  OBVIOUS
<1>2. [r EXCEPT !.text = Human] \in Locale
  BY <1>1, Zenon DEF Locale
<1>3. [r EXCEPT !.links = l] \in Locale
  BY Zenon DEF Locale
<1> QED
  BY <1>2, <1>3

\* Every step keeps the number of saves within what editors may still do.
LEMMA EditCounts ==
  ASSUME TypeOK, Edit
  PROVE  /\ edits' \in [acts : SUBSET Acts, left : 0..MaxEdits]
         /\ edits'.left = edits.left - 1 /\ edits.left \in 1..MaxEdits
  BY BoundsAssumption DEF TypeOK, Edit

LEMMA EnglishStep ==
  ASSUME TypeOK, [Next]_vars
  PROVE  /\ english' \in [Docs -> English]
         /\ \A d \in Docs : english'[d].version + edits'.left <= MaxEdits
<1>1. ASSUME UNCHANGED <<english, edits>>
      PROVE  /\ english' \in [Docs -> English]
             /\ \A d \in Docs : english'[d].version + edits'.left <= MaxEdits
  BY <1>1 DEF TypeOK
<1>2. ASSUME Edit, UNCHANGED english
      PROVE  /\ english' \in [Docs -> English]
             /\ \A d \in Docs : english'[d].version + edits'.left <= MaxEdits
  BY <1>2, EditCounts, BoundsAssumption DEF TypeOK, English
<1>3. ASSUME NEW d \in Docs, NEW live \in BOOLEAN, NEW text \in Texts, Edit,
             english' = [english EXCEPT ![d] =
               [live |-> live, version |-> english[d].version + 1, text |-> text]]
      PROVE  /\ english' \in [Docs -> English]
             /\ \A c \in Docs : english'[c].version + edits'.left <= MaxEdits
  <2> DEFINE e == [live |-> live, version |-> english[d].version + 1, text |-> text]
  <2>1. /\ english[d].version \in 0..MaxEdits
        /\ english[d].version + edits.left <= MaxEdits
        /\ edits.left \in 1..MaxEdits /\ edits'.left = edits.left - 1
    BY <1>3, EditCounts DEF TypeOK, English
  <2>2. e \in English /\ e.version + edits'.left <= MaxEdits
    BY <2>1, BoundsAssumption DEF English
  <2>3. english' = [english EXCEPT ![d] = e]
    BY <1>3
  <2> HIDE DEF e
  <2>4. \A c \in Docs \ {d} : english'[c] = english[c]
    BY <2>3 DEF TypeOK
  <2>5. \A c \in Docs \ {d} : english[c].version \in Nat /\ english[c].version + edits.left <= MaxEdits
    BY DEF TypeOK, English
  <2> QED
    BY <2>1, <2>2, <2>3, <2>4, <2>5, BoundsAssumption DEF TypeOK
<1>4. ASSUME NEW d \in Docs, NEW text \in Texts, Save(d, text) \/ Delete(d)
      PROVE  \E live \in BOOLEAN, new \in Texts :
               english' = [english EXCEPT ![d] =
                 [live |-> live, version |-> english[d].version + 1, text |-> new]]
  <2>1. english[d].text \in Texts
    BY DEF TypeOK, English
  <2>2. CASE Save(d, text)
    BY <2>2 DEF Save
  <2>3. CASE Delete(d)
    BY <2>1, <2>3 DEF Delete
  <2> QED
    BY <1>4, <2>2, <2>3
<1>5. \/ UNCHANGED <<english, edits>>
      \/ Edit /\ UNCHANGED english
      \/ \E d \in Docs, text \in Texts : Save(d, text)
      \/ \E d \in Docs : Delete(d)
  <2>1. \A a \in edits.acts : a.doc \in Docs /\ a.text \in Texts
    BY DEF TypeOK, Acts
  <2>2. CASE Editors
    BY <2>1, <2>2 DEF Editors, HumanWrite, Sweep, contentVars
  <2>3. CASE \E c \in Ids : Cleanup(c)
    BY <2>3 DEF Cleanup, contentVars
  <2>4. CASE \E w \in Workers : \/ \E i \in Ids : Claim(w, i)
                                \/ Advance(w) \/ Defer(w) \/ Fail(w) \/ Crash(w)
                                \/ Heartbeat(w)
    <3> PICK w \in Workers : \/ \E i \in Ids : Claim(w, i)
                             \/ Advance(w) \/ Defer(w) \/ Fail(w) \/ Crash(w)
                             \/ Heartbeat(w)
      BY <2>4
    <3>1. CASE Advance(w)
      BY <3>1 DEF Advance, LoadGone, Load, RecheckGone, Recheck, Decide,
         OpenPublication, CommitPublication, RecordPublished, MarkDelivered, MarkFailed,
         MarkBlocked, SelfEnqueue, Supersede, ReturnToPending, RemoveLocale, contentVars
    <3>2. CASE ~Advance(w)
      BY <3>2 DEF Claim, Defer, Fail, Crash, Heartbeat, contentVars
    <3> QED
      BY <3>1, <3>2
  <2>5. CASE (\E i \in Ids : LeaseExpires(i) \/ BecomeDue(i)) \/ ReadReady \/ WakeReady
    BY <2>5 DEF LeaseExpires, BecomeDue, ReadReady, WakeReady, contentVars
  <2>6. CASE UNCHANGED vars
    BY <2>6 DEF vars, contentVars
  <2> QED
    BY <2>2, <2>3, <2>4, <2>5, <2>6 DEF Next
<1> QED
  <2>1. ASSUME NEW d \in Docs, NEW text \in Texts, Save(d, text) \/ Delete(d)
        PROVE  /\ english' \in [Docs -> English]
               /\ \A c \in Docs : english'[c].version + edits'.left <= MaxEdits
    <3>1. Edit
      BY <2>1 DEF Save, Delete
    <3> QED
      BY <1>3, <1>4, <2>1, <3>1
  <2> QED
    BY <1>1, <1>2, <1>5, <2>1, TextsAssumption

\* The steps that write locale rows.
LEMMA LocaleWriters ==
  ASSUME TypeOK, [Next]_vars
  PROVE  \/ UNCHANGED locale
         \/ \E d \in Docs : HumanWrite(d)
         \/ \E w \in Workers : LoadGone(w) \/ RecheckGone(w)
         \/ \E w \in Workers : CommitPublication(w)
<1>1. \A a \in edits.acts : a.doc \in Docs
  BY DEF TypeOK, Acts
<1>2. CASE Editors
  BY <1>1, <1>2 DEF Editors, Save, Delete, Sweep, contentVars
<1>3. CASE \E c \in Ids : Cleanup(c)
  BY <1>3 DEF Cleanup, contentVars
<1>4. ASSUME NEW w \in Workers, Advance(w)
      PROVE  UNCHANGED locale \/ LoadGone(w) \/ RecheckGone(w) \/ CommitPublication(w)
  BY <1>4 DEF Advance, Load, Recheck, Decide, OpenPublication, RecordPublished,
     MarkDelivered, MarkFailed, MarkBlocked, SelfEnqueue, Supersede, ReturnToPending,
     contentVars
<1>5. CASE \E w \in Workers : \/ \E i \in Ids : Claim(w, i)
                              \/ Defer(w) \/ Fail(w) \/ Crash(w) \/ Heartbeat(w)
  BY <1>5 DEF Claim, Defer, Fail, Crash, Heartbeat, contentVars
<1>6. CASE (\E i \in Ids : LeaseExpires(i) \/ BecomeDue(i)) \/ ReadReady \/ WakeReady
  BY <1>6 DEF LeaseExpires, BecomeDue, ReadReady, WakeReady, contentVars
<1>7. CASE UNCHANGED vars
  BY <1>7 DEF vars, contentVars
<1> QED
  BY <1>2, <1>3, <1>4, <1>5, <1>6, <1>7 DEF Next

\* A removed source takes its locale row and the links to it.
LEMMA RemovedType ==
  ASSUME TypeOK, NEW w \in Workers, RemoveLocale(w)
  PROVE  /\ locale' \in [Docs -> Locale]
         /\ \A c \in Docs \ {worker[w].doc} : locale'[c].text = locale[c].text
<1>1. ASSUME NEW c \in Docs
      PROVE  /\ locale'[c] \in Locale
             /\ c # worker[w].doc => locale'[c].text = locale[c].text
  <2> DEFINE l == locale[c].links \ {worker[w].doc}
             r == [locale[c] EXCEPT !.links = l]
  <2>1. locale[c] \in Locale
    BY DEF TypeOK
  <2>2. l \in SUBSET Docs
    BY <2>1 DEF Locale
  <2>3. r \in Locale /\ r.text = locale[c].text
    BY <2>1, <2>2, Zenon DEF Locale
  <2>4. NoLocaleRow \in Locale
    BY DEF NoLocaleRow, Locale
  <2>5. locale'[c] = IF c = worker[w].doc THEN NoLocaleRow ELSE r
    BY Zenon DEF RemoveLocale
  <2> HIDE DEF r, l
  <2> QED
    BY <2>3, <2>4, <2>5
<1>2. \E f : locale' = [c \in Docs |-> f[c]]
  <2> DEFINE g == [c \in Docs |-> IF c = worker[w].doc THEN NoLocaleRow
                         ELSE [locale[c] EXCEPT !.links = @ \ {worker[w].doc}]]
  <2>1. locale' = g
    BY Zenon DEF RemoveLocale
  <2>2. g = [c \in Docs |-> g[c]]
    BY Zenon
  <2> QED
    BY <2>1, <2>2
<1> QED
  BY <1>1, <1>2

LEMMA LocaleStep ==
  ASSUME TypeOK, [Next]_vars
  PROVE  locale' \in [Docs -> Locale]
<1>1. CASE UNCHANGED locale
  BY <1>1 DEF TypeOK
<1>2. ASSUME NEW d \in Docs, HumanWrite(d) PROVE locale' \in [Docs -> Locale]
  <2> DEFINE r == [locale[d] EXCEPT !.text = Human]
  <2>1. locale[d] \in Locale /\ Human \in Texts \cup {Human, NoText}
    BY DEF TypeOK
  <2>2. r \in Locale
    BY <2>1, Zenon DEF Locale
  <2>3. locale' = [locale EXCEPT ![d] = r]
    BY <1>2, Zenon DEF HumanWrite
  <2> HIDE DEF r
  <2> QED
    BY <2>2, <2>3 DEF TypeOK
<1>3. ASSUME NEW w \in Workers, LoadGone(w) \/ RecheckGone(w)
      PROVE  locale' \in [Docs -> Locale]
  BY <1>3, RemovedType DEF LoadGone, RecheckGone
<1>4. ASSUME NEW w \in Workers, CommitPublication(w) PROVE locale' \in [Docs -> Locale]
  <2>1. worker[w].text \in Texts \cup {NoText} /\ worker[w].links \in SUBSET Docs
    BY DEF TypeOK, Worker
  <2> QED
    BY <1>4, <2>1 DEF CommitPublication, TypeOK, Locale
<1> QED
  BY <1>1, <1>2, <1>3, <1>4, LocaleWriters

LEMMA MemoryStep ==
  ASSUME TypeOK, [Next]_vars
  PROVE  memory' \in [Docs -> Texts \cup {NoText}] /\ owed' \subseteq Docs
<1>1. /\ memory \in [Docs -> Texts \cup {NoText}] /\ owed \subseteq Docs
      /\ \A w \in Workers : worker[w].text \in Texts \cup {NoText}
      /\ \A a \in edits.acts : a.doc \in Docs
  BY DEF TypeOK, Worker, Acts
<1>2. CASE Editors
  BY <1>1, <1>2 DEF Editors, Save, Delete, HumanWrite, Sweep, contentVars
<1>3. ASSUME NEW w \in Workers, Advance(w)
      PROVE  memory' \in [Docs -> Texts \cup {NoText}] /\ owed' \subseteq Docs
  <2>1. CASE LoadGone(w) \/ RecheckGone(w)
    BY <1>1, <2>1 DEF LoadGone, RecheckGone, RemoveLocale
  <2>2. CASE Decide(w)
    BY <1>1, <2>2 DEF Decide
  <2>3. CASE CommitPublication(w) \/ RecordPublished(w)
    BY <1>1, <2>3 DEF CommitPublication, RecordPublished
  <2>4. CASE MarkDelivered(w) \/ MarkFailed(w)
    BY <1>1, <2>4 DEF MarkDelivered, MarkFailed, GivenUp
  <2>5. CASE \/ Load(w) \/ Recheck(w) \/ OpenPublication(w) \/ MarkBlocked(w)
             \/ SelfEnqueue(w) \/ Supersede(w) \/ ReturnToPending(w)
    BY <1>1, <2>5 DEF Load, Recheck, OpenPublication, MarkBlocked, SelfEnqueue,
       Supersede, ReturnToPending, contentVars
  <2> QED
    BY <1>3, <2>1, <2>2, <2>3, <2>4, <2>5 DEF Advance
<1>4. CASE \E w \in Workers : \/ \E i \in Ids : Claim(w, i)
                              \/ Defer(w) \/ Fail(w) \/ Crash(w) \/ Heartbeat(w)
  BY <1>1, <1>4 DEF Claim, Defer, Fail, Crash, Heartbeat, contentVars
<1>5. CASE \/ \E i \in Ids : LeaseExpires(i) \/ BecomeDue(i) \/ Cleanup(i)
           \/ ReadReady \/ WakeReady \/ UNCHANGED vars
  BY <1>1, <1>5 DEF LeaseExpires, BecomeDue, Cleanup, ReadReady, WakeReady, vars, contentVars
<1> QED
  BY <1>2, <1>3, <1>4, <1>5 DEF Next

LEMMA CountersStep ==
  ASSUME TypeOK, [Next]_vars, Effects
  PROVE  CountersOK'
<1> DEFINE Counters == /\ \/ ready' = ready \/ ready' = {} \/ ready' \subseteq Waiting
                       /\ edits' = edits \/ Edit
                       /\ faults' = faults \/ Fault
<1>1. Counters
  <2>1. CASE Editors
    BY <2>1 DEF Editors, Save, Delete, HumanWrite, Sweep, Edit
  <2>2. ASSUME NEW w \in Workers, Advance(w) PROVE Counters
    BY <2>2 DEF Advance, LoadGone, Load, RecheckGone, Recheck, Decide,
       OpenPublication, CommitPublication, RecordPublished, MarkDelivered, MarkFailed,
       MarkBlocked, SelfEnqueue, Supersede, ReturnToPending
  <2>3. CASE \E w \in Workers : \/ \E i \in Ids : Claim(w, i)
                                \/ Defer(w) \/ Fail(w) \/ Crash(w) \/ Heartbeat(w)
    BY <2>3 DEF Claim, Defer, Fail, Crash, Heartbeat
  <2>4. CASE \/ \E i \in Ids : LeaseExpires(i) \/ BecomeDue(i) \/ Cleanup(i)
             \/ WakeReady \/ UNCHANGED vars
    BY <2>4 DEF LeaseExpires, BecomeDue, Cleanup, WakeReady, vars, Edit
  <2>5. CASE ReadReady
    BY <2>5 DEF ReadReady, Scanned
  <2> QED
    BY <2>1, <2>2, <2>3, <2>4, <2>5 DEF Next
<1>2. ready' \subseteq Ids /\ \A i \in ready' : row'[i].status # "absent"
  <2>1. ready' \subseteq Ids /\ \A i \in ready' : row[i].status # "absent"
    BY <1>1 DEF TypeOK, Waiting
  <2> QED
    BY <2>1, StaysPresent DEF Effects
<1>3. edits' \in [acts : SUBSET Acts, left : 0..MaxEdits]
  BY <1>1, EditCounts DEF TypeOK
<1>4. faults' \in 0..MaxFaults
  BY <1>1, BoundsAssumption DEF TypeOK, Fault
<1> QED
  BY <1>2, <1>3, <1>4 DEF CountersOK

LEMMA TypeStep ==
  ASSUME TypeOK, [Next]_vars
  PROVE  TypeOK'
<1>1. Effects
  BY NextEffect
<1>2. RowsOK' /\ WorkersOK'
  BY <1>1, TypeParts, RowsShape, WorkersShape DEF Effects
<1>3. CountersOK'
  BY <1>1, CountersStep
<1>4. ContentOK'
  BY EnglishStep, LocaleStep, MemoryStep DEF ContentOK
<1> QED
  BY <1>2, <1>3, <1>4, TypeParts, Zenon DEF TypeOK, RowsOK, WorkersOK, ContentOK, CountersOK

LEMMA TypeInit == Init => TypeOK
<1> SUFFICES ASSUME Init PROVE TypeOK
  OBVIOUS
<1>0. (CHOOSE t \in Texts : TRUE) \in Texts
  BY TextsAssumption
<1>1. RowsOK
  <2>1. NoRow.status = "absent" /\ NoRow.token = Nobody
    BY DEF NoRow
  <2> QED
    BY <2>1, NoRowType, BoundsAssumption DEF Init, RowsOK, Ids
<1>2. WorkersOK
  <2>1. Idle.pc = "idle" /\ Idle.id \notin Ids /\ Idle.wakes = {}
    BY SpareAssumption DEF Idle, Ids
  <2> QED
    BY <2>1, IdleType DEF Init, WorkersOK, At, Owns
<1>3. CountersOK
  BY ScenariosAssumption, BoundsAssumption DEF Init, CountersOK
<1>4. english \in [Docs -> English] /\ \A d \in Docs : english[d].version = 0 /\ english[d].text \in Texts
  BY <1>0, BoundsAssumption DEF Init, English
<1>5. edits.left = MaxEdits
  BY DEF Init
<1>6. PICK s \in Scenarios :
        /\ locale = [d \in Docs |->
                 IF d \in s.done
                 THEN [text |-> english[d].text,
                       links |-> (Requires[d] \cup Curates[d]) \cap s.done]
                 ELSE NoLocaleRow]
        /\ memory = [d \in Docs |-> IF d \in s.done THEN english[d].text ELSE NoText]
  BY DEF Init
<1>7. locale \in [Docs -> Locale]
  BY <1>4, <1>6, RelationsAssumption DEF Locale, NoLocaleRow
<1>8. memory \in [Docs -> Texts \cup {NoText}] /\ owed = {}
  BY <1>4, <1>6 DEF Init
<1>9. ContentOK
  BY <1>4, <1>5, <1>7, <1>8, BoundsAssumption DEF ContentOK
<1> QED
  BY <1>1, <1>2, <1>3, <1>9, TypeParts

\* Rows, dispatchers and content keep their types; who holds a lease works on the
\* document of its row.
THEOREM TypeCorrect == Spec => []TypeOK
<1>1. Init => TypeOK
  BY TypeInit
<1>2. TypeOK /\ [Next]_vars => TypeOK'
  BY TypeStep
<1> QED
  BY <1>1, <1>2, PTL DEF Spec

\* The partial unique index on pending keys is never violated.
THEOREM OnePendingCorrect == Spec => []OnePendingPerKey
<1>1. Init => OnePendingPerKey
  <2>1. NoRow.status # "pending"
    BY DEF NoRow
  <2> QED
    BY <2>1 DEF Init, OnePendingPerKey
<1>2. TypeOK /\ OnePendingPerKey /\ [Next]_vars => OnePendingPerKey'
  <2> SUFFICES ASSUME TypeOK, OnePendingPerKey, [Next]_vars,
                      NEW i \in Ids, NEW j \in Ids, i # j,
                      row'[i].status = "pending", row'[j].status = "pending",
                      row'[i].doc = row'[j].doc
               PROVE  FALSE
    BY DEF OnePendingPerKey
  <2>1. RowEffects
    BY NextEffect DEF Effects
  <2>2. row[i].status = "pending" /\ row[j].status = "pending"
    BY <2>1 DEF RowEffects, Lonely
  <2>3. ASSUME NEW k \in Ids, row[k].status = "pending", row'[k].status = "pending"
        PROVE  row'[k].doc = row[k].doc
    <3>1. NoRow.status # "pending"
      BY DEF NoRow
    <3>2. ~Fresh(k)
      <4>1. k > inserted => row[k] = NoRow
        BY DEF TypeOK
      <4> QED
        BY <2>3, <3>1, <4>1 DEF Fresh
    <3> QED
      BY <2>1, <2>3, <3>1, <3>2 DEF RowEffects, Kept, Merged, Released, TakenBy
  <2> QED
    BY <2>2, <2>3 DEF OnePendingPerKey
<1> QED
  BY <1>1, <1>2, TypeCorrect, PTL DEF Spec

\* A row leaves processing in a step of the dispatcher that holds its token.
THEOREM SettlementCorrect == Spec => OnlyTheLeaseSettles
<1>1. TypeOK /\ [Next]_vars =>
        [\A i \in Ids : row[i].status = "processing" /\ row'[i].status # "processing"
            => \E w \in Workers : /\ row[i].token = w /\ worker[w].id = i
                                  /\ worker'[w].pc \in {"idle", "rechecking"}]_vars
  <2> SUFFICES ASSUME TypeOK, [Next]_vars, NEW i \in Ids,
                      row[i].status = "processing", row'[i].status # "processing"
               PROVE  \E w \in Workers : /\ row[i].token = w /\ worker[w].id = i
                                         /\ worker'[w].pc \in {"idle", "rechecking"}
    OBVIOUS
  <2>1. RowEffects
    BY NextEffect DEF Effects
  <2>2. ~Fresh(i)
    <3>1. i > inserted => row[i] = NoRow
      BY DEF TypeOK
    <3>2. NoRow.status # "processing"
      BY DEF NoRow
    <3> QED
      BY <3>1, <3>2 DEF Fresh
  <2> QED
    BY <2>1, <2>2 DEF RowEffects, Kept, Merged, Released, TakenBy
<1> QED
  BY <1>1, TypeCorrect, PTL DEF Spec, OnlyTheLeaseSettles

(***************************************************************************)
(* The publication fence.                                                  *)
(***************************************************************************)
\* Entries of a document only get newer, and the entry a dispatcher works from
\* names its text; a publication in progress has the current entry locked.
Reading(w) == worker[w].pc \in {"checking", "saving", "writing", "committing"}
FencedText ==
    \A w \in Workers : Reading(w) =>
        LET e == english[worker[w].doc]
        IN /\ worker[w].version <= e.version
           /\ worker[w].version = e.version => worker[w].text = e.text
           /\ At(w, "committing") => e.live /\ worker[w].version = e.version

\* The entry of a dispatcher's document changes only while it is not committing,
\* to a newer version or to none.
NewerEntry(d) ==
    \/ english'[d] = english[d]
    \/ ~Locked(d) /\ english'[d].version = english[d].version + 1

LEMMA EntriesGetNewer ==
  ASSUME TypeOK, [Next]_vars, NEW d \in Docs
  PROVE  NewerEntry(d)
<1>1. \A a \in edits.acts : a.doc \in Docs
  BY DEF TypeOK, Acts
<1>2. ASSUME NEW c \in Docs, NEW text \in Texts, Save(c, text) PROVE NewerEntry(d)
  BY <1>2 DEF Save, NewerEntry, TypeOK
<1>3. ASSUME NEW c \in Docs, Delete(c) PROVE NewerEntry(d)
  BY <1>3 DEF Delete, NewerEntry, TypeOK
<1>4. CASE Editors
  <2>1. \A a \in edits.acts : a.text \in Texts
    BY DEF TypeOK, Acts
  <2> QED
    BY <1>1, <1>2, <1>3, <1>4, <2>1 DEF Editors, HumanWrite, Sweep, contentVars, NewerEntry
<1>5. ASSUME NEW w \in Workers, Advance(w) PROVE english' = english
  BY <1>5 DEF Advance, LoadGone, Load, RecheckGone, Recheck, Decide,
     OpenPublication, CommitPublication, RecordPublished, MarkDelivered, MarkFailed,
     MarkBlocked, SelfEnqueue, Supersede, ReturnToPending, RemoveLocale, contentVars
<1>6. CASE \E w \in Workers : \/ \E i \in Ids : Claim(w, i)
                              \/ Defer(w) \/ Fail(w) \/ Crash(w) \/ Heartbeat(w)
  BY <1>6 DEF Claim, Defer, Fail, Crash, Heartbeat, contentVars, NewerEntry
<1>7. CASE \/ \E i \in Ids : LeaseExpires(i) \/ BecomeDue(i) \/ Cleanup(i)
           \/ ReadReady \/ WakeReady \/ UNCHANGED vars
  BY <1>7 DEF LeaseExpires, BecomeDue, Cleanup, ReadReady, WakeReady, vars, contentVars,
     NewerEntry
<1> QED
  BY <1>4, <1>5, <1>6, <1>7 DEF Next, NewerEntry

\* How a dispatcher comes to work from an entry.
Loaded(w) == LET e == english[worker[w].doc]
             IN /\ worker'[w].doc = worker[w].doc /\ worker[w].doc \in Docs
                /\ worker'[w].version = e.version /\ worker'[w].text = e.text
                /\ worker'[w].pc \in {"checking", "saving"}
Continues(w) == /\ Reading(w)
                /\ worker'[w].doc = worker[w].doc /\ worker'[w].version = worker[w].version
                /\ worker'[w].text = worker[w].text
                /\ At(w, "committing")' => \/ At(w, "committing")
                                           \/ Fence(w) /\ english' = english
ReaderStep(w) == \/ worker'[w].pc \notin {"checking", "saving", "writing", "committing"}
                 \/ Continues(w)
                 \/ Loaded(w) /\ english' = english

LEMMA OthersContinue ==
  ASSUME NEW u \in Workers, worker'[u] = worker[u]
  PROVE  ReaderStep(u)
  BY DEF ReaderStep, Continues, Reading, At

\* A dispatcher whose record is replaced: the others stay as they are.
LEMMA ReplacedWorker ==
  ASSUME TypeOK, NEW w \in Workers, NEW r, worker' = [worker EXCEPT ![w] = r],
         r.pc \notin {"checking", "saving", "writing", "committing"}
  PROVE  \A u \in Workers : ReaderStep(u)
<1>1. worker'[w] = r /\ \A u \in Workers \ {w} : worker'[u] = worker[u]
  BY DEF TypeOK
<1>2. ReaderStep(w)
  BY <1>1 DEF ReaderStep
<1> QED
  BY <1>1, <1>2, OthersContinue

LEMMA FinishedReader ==
  ASSUME TypeOK, NEW w \in Workers, ~At(w, "idle"),
         NEW pc \in {"delivered", "unchanged", "blocked", "deferred", "failed"},
         NEW missing \in SUBSET Docs, Finish(w, pc, missing)
  PROVE  \A u \in Workers : ReaderStep(u)
<1>1. pc \in Steps
  BY DEF Steps
<1>2. Outcome(w, pc, missing).pc = pc
  BY <1>1, OutcomeType
<1> QED
  BY <1>2, ReplacedWorker DEF Finish

LEMMA DoneReader ==
  ASSUME TypeOK, NEW w \in Workers, Done(w)
  PROVE  \A u \in Workers : ReaderStep(u)
<1>1. Idle.pc = "idle"
  BY DEF Idle
<1> QED
  BY <1>1, ReplacedWorker DEF Done

LEMMA LoadReader ==
  ASSUME TypeOK, NEW w \in Workers, Load(w) \/ Recheck(w)
  PROVE  \A u \in Workers : ReaderStep(u)
<1> DEFINE d == worker[w].doc
<1>1. ~At(w, "idle") /\ d \in Docs /\ worker[w] \in Worker /\ english' = english
  BY DEF Load, Recheck, At, TypeOK, contentVars
<1>2. "unchanged" \in Steps /\ MissingRequired(d) \in SUBSET Docs /\ {} \in SUBSET Docs
  BY <1>1, TargetsType DEF Steps
<1>3. CASE Finish(w, "unchanged", {}) \/ Finish(w, "blocked", MissingRequired(d))
           \/ Finish(w, "delivered", {})
  BY <1>1, <1>2, <1>3, FinishedReader
<1>4. ASSUME NEW v, worker' = [worker EXCEPT ![w] = v], v.doc = d,
             v.version = english[d].version, v.text = english[d].text,
             v.pc \in {"checking", "saving"}
      PROVE  \A u \in Workers : ReaderStep(u)
  <2>1. worker'[w] = v /\ \A u \in Workers \ {w} : worker'[u] = worker[u]
    BY <1>4 DEF TypeOK
  <2>2. ReaderStep(w)
    BY <1>1, <1>4, <2>1 DEF ReaderStep, Loaded
  <2> QED
    BY <2>1, <2>2, OthersContinue
<1>5. CASE Load(w)
  <2> DEFINE v == [worker[w] EXCEPT !.pc = "checking", !.version = english[d].version,
                                    !.text = english[d].text, !.current = TextCurrent(w)]
  <2>1. CASE worker' = [worker EXCEPT ![w] = v]
    <3>1. v.doc = d /\ v.version = english[d].version /\ v.text = english[d].text
          /\ v.pc = "checking"
      BY <1>1, Zenon DEF Worker
    <3> HIDE DEF v
    <3> QED
      BY <1>4, <2>1, <3>1
  <2> QED
    BY <1>3, <1>5, <2>1, Zenon DEF Load
<1>6. CASE Recheck(w)
  <2> DEFINE v == [worker[w] EXCEPT !.version = english[d].version, !.pc = "saving"]
  <2>1. CASE worker' = [worker EXCEPT ![w] = v] /\ english[d].text = worker[w].text
    <3>1. v.doc = d /\ v.version = english[d].version /\ v.text = worker[w].text
          /\ v.pc = "saving"
      BY <1>1, Zenon DEF Worker
    <3> HIDE DEF v
    <3> QED
      BY <1>4, <2>1, <3>1
  <2> QED
    BY <1>3, <1>6, <2>1, Zenon DEF Recheck
<1> QED
  BY <1>5, <1>6

LEMMA DecideReader ==
  ASSUME TypeOK, NEW w \in Workers, Decide(w) \/ OpenPublication(w)
  PROVE  \A u \in Workers : ReaderStep(u)
<1> DEFINE d == worker[w].doc
<1>1. ~At(w, "idle") /\ d \in Docs /\ worker[w] \in Worker /\ Reading(w)
      /\ english' = english /\ (OpenPublication(w) => Fence(w))
  BY DEF Decide, OpenPublication, At, TypeOK, Reading, contentVars
<1>2. ASSUME NEW v, worker' = [worker EXCEPT ![w] = v], v.doc = d,
             v.version = worker[w].version, v.text = worker[w].text,
             v.pc = "committing" => Fence(w)
      PROVE  \A u \in Workers : ReaderStep(u)
  <2>1. worker'[w] = v /\ \A u \in Workers \ {w} : worker'[u] = worker[u]
    BY <1>2 DEF TypeOK
  <2>2. ReaderStep(w)
    BY <1>1, <1>2, <2>1 DEF ReaderStep, Continues, At
  <2> QED
    BY <2>1, <2>2, OthersContinue
<1>3. CASE Decide(w)
  <2> DEFINE v == [worker[w] EXCEPT !.pc = "writing", !.links = Present(d),
                                    !.missing = Missing(d)]
  <2>1. CASE worker' = [worker EXCEPT ![w] = v]
    <3>1. v.doc = d /\ v.version = worker[w].version /\ v.text = worker[w].text
          /\ v.pc = "writing"
      BY <1>1, Zenon DEF Worker
    <3> HIDE DEF v
    <3> QED
      BY <1>2, <2>1, <3>1
  <2>2. CASE Finish(w, "blocked", MissingRequired(d)) \/ Publishes(w, Missing(d))
    <3>1. Missing(d) \in SUBSET Docs /\ MissingRequired(d) \in SUBSET Docs
      BY <1>1, TargetsType
    <3>2. \E pc \in {"delivered", "blocked"}, missing \in SUBSET Docs : Finish(w, pc, missing)
      BY <2>2, <3>1, Zenon DEF Publishes
    <3> QED
      BY <1>1, <3>2, FinishedReader
  <2> QED
    BY <1>3, <2>1, <2>2, Zenon DEF Decide
<1>4. CASE OpenPublication(w)
  <2> DEFINE v == [worker[w] EXCEPT !.pc = "committing", !.wakes = WokenBy(d)]
  <2>1. v.doc = d /\ v.version = worker[w].version /\ v.text = worker[w].text
    BY <1>1, Zenon DEF Worker
  <2>2. worker' = [worker EXCEPT ![w] = v]
    BY <1>4, Zenon DEF OpenPublication
  <2> HIDE DEF v
  <2> QED
    BY <1>1, <1>2, <1>4, <2>1, <2>2
<1> QED
  BY <1>3, <1>4

LEMMA CommitReader ==
  ASSUME TypeOK, NEW w \in Workers, CommitPublication(w) \/ MarkBlocked(w)
  PROVE  \A u \in Workers : ReaderStep(u)
<1>1. worker[w] \in Worker
  BY DEF TypeOK
<1>2. CASE CommitPublication(w)
  <2> DEFINE v == [worker[w] EXCEPT !.pc = "published", !.wakes = {}]
  <2>1. v.pc = "published"
    BY <1>1, Zenon DEF Worker
  <2>2. worker' = [worker EXCEPT ![w] = v]
    BY <1>2, Zenon DEF CommitPublication
  <2> HIDE DEF v
  <2> QED
    BY <2>1, <2>2, ReplacedWorker
<1>3. CASE MarkBlocked(w)
  <2> DEFINE v == [worker[w] EXCEPT !.pc = "rechecking"]
  <2>1. v.pc = "rechecking"
    BY <1>1, Zenon DEF Worker
  <2>2. worker' = [worker EXCEPT ![w] = v] \/ Done(w)
    BY <1>3, Zenon DEF MarkBlocked, Goto
  <2> HIDE DEF v
  <2> QED
    BY <2>1, <2>2, ReplacedWorker, DoneReader
<1> QED
  BY <1>2, <1>3

LEMMA ClaimReader ==
  ASSUME TypeOK, NEW w \in Workers, NEW i \in Ids, Claim(w, i)
  PROVE  \A u \in Workers : ReaderStep(u)
<1> DEFINE v == [Idle EXCEPT !.pc = "claimed", !.id = i, !.doc = row[i].doc,
                             !.force = row[i].force]
<1>1. v.pc = "claimed"
  BY IdleType, Zenon DEF Idle
<1>2. worker' = [worker EXCEPT ![w] = v]
  BY Zenon DEF Claim
<1> HIDE DEF v
<1> QED
  BY <1>1, <1>2, ReplacedWorker

LEMMA FinishReader ==
  ASSUME TypeOK, NEW w \in Workers,
         \/ LoadGone(w) \/ RecheckGone(w) \/ RecordPublished(w) \/ Defer(w) \/ Fail(w)
         \/ MarkDelivered(w) \/ MarkFailed(w) \/ SelfEnqueue(w) \/ Supersede(w)
         \/ ReturnToPending(w) \/ Crash(w)
  PROVE  \A u \in Workers : ReaderStep(u)
<1>1. worker[w].missing \in SUBSET Docs /\ {} \in SUBSET Docs
  BY DEF TypeOK, Worker
<1>2. CASE LoadGone(w) \/ RecheckGone(w) \/ RecordPublished(w) \/ Defer(w) \/ Fail(w)
  <2>1. ~At(w, "idle")
    BY <1>2 DEF LoadGone, RecheckGone, RecordPublished, Defer, Fail, Processing, At
  <2>2. \E pc \in {"delivered", "unchanged", "blocked", "deferred", "failed"},
           missing \in SUBSET Docs : Finish(w, pc, missing)
    BY <1>1, <1>2, Zenon DEF LoadGone, RecheckGone, RemoveLocale, RecordPublished, Publishes,
       Defer, Fail
  <2> QED
    BY <2>1, <2>2, FinishedReader
<1>3. CASE ~(LoadGone(w) \/ RecheckGone(w) \/ RecordPublished(w) \/ Defer(w) \/ Fail(w))
  BY <1>3, DoneReader DEF MarkDelivered, MarkFailed, SelfEnqueue, Supersede,
     ReturnToPending, Crash
<1> QED
  BY <1>2, <1>3

LEMMA ReaderSteps ==
  ASSUME TypeOK, [Next]_vars
  PROVE  \A u \in Workers : ReaderStep(u)
<1>1. CASE worker' = worker
  BY <1>1, OthersContinue
<1>2. CASE worker' # worker
  <2>1. PICK w \in Workers : \/ \E i \in Ids : Claim(w, i)
                             \/ Advance(w) \/ Defer(w) \/ Fail(w) \/ Crash(w)
    BY <1>2 DEF Next, Editors, Save, Delete, HumanWrite, Sweep, Edit, Heartbeat,
       LeaseExpires, BecomeDue, Cleanup, ReadReady, WakeReady, vars
  <2> QED
    BY <2>1, LoadReader, DecideReader, CommitReader, ClaimReader, FinishReader DEF Advance
<1> QED
  BY <1>1, <1>2

LEMMA FenceStep ==
  ASSUME TypeOK, FencedText, [Next]_vars
  PROVE  FencedText'
<1> SUFFICES ASSUME NEW w \in Workers, Reading(w)'
             PROVE  LET e == english'[worker'[w].doc]
                    IN /\ worker'[w].version <= e.version
                       /\ worker'[w].version = e.version => worker'[w].text = e.text
                       /\ At(w, "committing")' => e.live /\ worker'[w].version = e.version
  BY DEF FencedText
<1>1. ReaderStep(w) /\ worker'[w].pc \in {"checking", "saving", "writing", "committing"}
  BY ReaderSteps DEF Reading
<1> DEFINE d == worker[w].doc
           e == english[d]
<1>2. CASE Loaded(w) /\ english' = english
  <2>1. worker'[w].doc = d /\ worker'[w].version = e.version /\ worker'[w].text = e.text
        /\ ~At(w, "committing")'
    BY <1>2 DEF Loaded, At
  <2>2. e.version \in Nat
    BY <1>2 DEF Loaded, TypeOK, English
  <2> QED
    BY <1>2, <2>1, <2>2
<1>3. CASE Continues(w)
  <2>1. d \in Docs /\ e.version \in Nat /\ worker[w].version \in Nat
    BY <1>3 DEF Continues, Reading, TypeOK, English, Worker, At
  <2>2. /\ worker[w].version <= e.version
        /\ worker[w].version = e.version => worker[w].text = e.text
        /\ At(w, "committing") => e.live /\ worker[w].version = e.version
    BY <1>3 DEF FencedText, Continues
  <2>3. NewerEntry(d)
    BY <2>1, EntriesGetNewer
  <2>4. CASE english'[d] = e
    BY <1>3, <2>1, <2>2, <2>4 DEF Continues, Fence
  <2>5. CASE ~Locked(d) /\ english'[d] # e
    <3>1. ~At(w, "committing")
      BY <2>5 DEF Locked, At
    <3>2. ~At(w, "committing")'
      BY <1>3, <2>5, <3>1 DEF Continues
    <3> QED
      BY <1>3, <2>1, <2>2, <2>3, <2>5, <3>2 DEF Continues, NewerEntry
  <2> QED
    BY <2>3, <2>4, <2>5 DEF NewerEntry
<1> QED
  BY <1>1, <1>2, <1>3 DEF ReaderStep

LEMMA FencedCorrect == Spec => []FencedText
<1>1. Init => FencedText
  BY DEF Init, FencedText, Reading, Idle
<1>2. TypeOK /\ FencedText /\ [Next]_vars => FencedText'
  BY FenceStep
<1> QED
  BY <1>1, <1>2, TypeCorrect, PTL DEF Spec

\* A locale row that translates the current English text is not overwritten by
\* a dispatcher with another one, however slow it was.
THEOREM LocaleCorrect == Spec => LocaleNeverRegresses
<1>1. ASSUME TypeOK, FencedText, [Next]_vars, NEW d \in Docs,
             english'[d] = english[d], english[d].live,
             locale[d].text = english[d].text
      PROVE  locale'[d].text \in {english[d].text, Human}
  <2>1. ASSUME NEW c \in Docs, HumanWrite(c)
        PROVE  locale'[d].text \in {locale[d].text, Human}
    <3> DEFINE r == [locale[c] EXCEPT !.text = Human]
    <3>1. locale[c] \in Locale
      BY <1>1 DEF TypeOK
    <3>2. r.text = Human
      BY <3>1, Zenon DEF Locale
    <3>3. locale' = [locale EXCEPT ![c] = r]
      BY <2>1, Zenon DEF HumanWrite
    <3> HIDE DEF r
    <3> QED
      BY <1>1, <3>2, <3>3 DEF TypeOK
  <2>2. ASSUME NEW w \in Workers, LoadGone(w) \/ RecheckGone(w)
        PROVE  locale'[d].text = locale[d].text
    <3>1. RemoveLocale(w) /\ ~english[worker[w].doc].live
      BY <2>2 DEF LoadGone, RecheckGone
    <3>2. d # worker[w].doc
      BY <1>1, <3>1
    <3> QED
      BY <1>1, <3>1, <3>2, RemovedType
  <2>3. ASSUME NEW w \in Workers, CommitPublication(w)
        PROVE  locale'[d].text \in {locale[d].text, english[d].text}
    <3>1. worker[w].text = english[worker[w].doc].text
      BY <1>1, <2>3 DEF CommitPublication, FencedText, Reading, At
    <3> QED
      BY <1>1, <2>3, <3>1 DEF CommitPublication, TypeOK
  <2> QED
    BY <1>1, <2>1, <2>2, <2>3, LocaleWriters
<1>2. TypeOK /\ FencedText /\ [Next]_vars =>
        [\A d \in Docs : /\ english'[d] = english[d]
                         /\ english[d].live
                         /\ locale[d].text = english[d].text
                         => locale'[d].text \in {english[d].text, Human}]_vars
  BY <1>1
<1> QED
  BY <1>2, TypeCorrect, FencedCorrect, PTL DEF Spec, LocaleNeverRegresses

(***************************************************************************)
(* No write is forgotten.                                                  *)
(***************************************************************************)
\* No retry has put a row back behind a newer one of its key.  Leases alone do
\* not see to it: a dispatcher whose lease lapsed still owns its row until the
\* row is claimed again, and a newer row of the key may be claimed meanwhile.
InOrder == \A i \in Ids : row[i].status = "pending" => Latest(i)

\* The dispatcher will handle the entry its document has now, or die.
Current(w) ==
    \/ worker[w].pc \in {"idle", "claimed", "deferred", "blocked"}
    \/ /\ worker[w].pc \in {"checking", "saving", "writing", "committing",
                            "failed", "unchanged"}
       /\ worker[w].version = english[worker[w].doc].version

\* The latest row of a document owed waits, or is worked on with the entry that
\* is there now.
Carries(i) ==
    \/ row[i].status \in {"pending", "blocked"}
    \/ /\ row[i].status = "processing"
       /\ \A w \in Workers : Owns(w) /\ worker[w].id = i => Current(w)
Carried(d) == \E i \in Ids : row[i].doc = d /\ Latest(i) /\ Carries(i)
EachIsCarried == \A d \in owed : Carried(d)

\* A coalescing insert leaves a pending row for each of its documents.
LEMMA EnqueuePending ==
  ASSUME TypeOK, NEW S \in SUBSET Docs, NEW F, NEW reason \in Reasons,
         Enqueue(S, F, reason), NEW d \in S
  PROVE  \E i \in Ids : row'[i].status = "pending" /\ row'[i].doc = d
<1> DEFINE fresh == {c \in S : PendingOf(c) = {}}
           count == Cardinality(fresh)
<1>1. IsFiniteSet(fresh) /\ count \in Nat
  BY RelationsAssumption, FS_Subset, FS_CardinalityType
<1>2. inserted \in Nat /\ MaxJobs \in Nat /\ inserted + count <= MaxJobs
  BY <1>1, BoundsAssumption DEF Enqueue, TypeOK
<1>3. PICK slot \in [fresh -> (inserted + 1)..(inserted + count)] :
         /\ \A c, e \in fresh : slot[c] = slot[e] => c = e
         /\ row' = [i \in Ids |->
              IF \E c \in fresh : slot[c] = i
              THEN LET c == CHOOSE c \in fresh : slot[c] = i
                   IN Queued(c, c \in F, reason)
              ELSE IF row[i].status = "pending" /\ row[i].doc \in S
              THEN Coalesce(row[i], row[i].doc \in F, reason)
              ELSE row[i]]
  BY Zenon DEF Enqueue
<1>4. CASE d \in fresh
  <2> HIDE DEF fresh, count
  <2> DEFINE i == slot[d]
  <2>1. i \in Ids
    BY <1>1, <1>2, <1>3, <1>4 DEF Ids
  <2>2. d = CHOOSE c \in fresh : slot[c] = i
    BY <1>3, <1>4
  <2>3. row'[i] = Queued(d, d \in F, reason)
    BY <1>3, <1>4, <2>1, <2>2, Zenon
  <2> DEFINE b == d \in F
  <2>4. d \in Docs /\ b \in BOOLEAN /\ row'[i] = Queued(d, b, reason)
    BY <2>3
  <2> HIDE DEF b
  <2> QED
    BY <2>1, <2>4, QueuedType
<1>5. CASE d \notin fresh
  <2>1. PICK i \in Ids : row[i].status = "pending" /\ row[i].doc = d
    BY <1>5 DEF PendingOf
  <2>2. Kept(i) \/ Fresh(i)
    BY EnqueueEffect
  <2>3. NoRow.status # "pending"
    BY DEF NoRow
  <2>4. ~Fresh(i)
    BY <2>1, <2>3 DEF Fresh, TypeOK
  <2> QED
    BY <2>1, <2>2, <2>4 DEF Kept, Merged
<1> QED
  BY <1>4, <1>5

\* A row that a write of d left pending carries it.
LEMMA PendingCarries ==
  ASSUME InOrder', NEW d, \E i \in Ids : row'[i].status = "pending" /\ row'[i].doc = d
  PROVE  Carried(d)'
  BY DEF InOrder, Carried, Carries

\* The latest row of a document stays the latest, or a newer one is pending.
LEMMA StaysLatest ==
  ASSUME TypeOK, RowEffects, InOrder', NEW i \in Ids, NEW d \in Docs,
         row[i].doc = d, Latest(i), row'[i].doc = d
  PROVE  Latest(i)' \/ Carried(d)'
<1> SUFFICES ASSUME NEW j \in Ids, row'[j].doc = d, ~(j <= i) PROVE Carried(d)'
  BY DEF Latest
<1>1. row[j].doc # d
  BY DEF Latest
<1>2. NoRow.doc \notin Docs
  BY SpareAssumption DEF NoRow
<1>3. Fresh(j)
  BY <1>1, <1>2 DEF RowEffects, Kept, Merged, Released, TakenBy
<1> QED
  BY <1>3, PendingCarries DEF Fresh

\* Who owns a row after a step, on the job it had, owned it before.
LEMMA OwnedBefore ==
  ASSUME TypeOK, RowEffects, NEW u \in Workers, worker'[u].id = worker[u].id,
         ~At(u, "idle"), Owns(u)'
  PROVE  Owns(u)
<1> DEFINE i == worker[u].id
<1>1. i \in Ids /\ row'[i].status = "processing" /\ row'[i].token = u
  BY DEF Owns
<1>2. row[i].status = "processing" /\ row[i].token = u
  BY <1>1, SpareAssumption DEF RowEffects, Kept, Merged, Fresh, Released, TakenBy
<1> QED
  BY <1>1, <1>2 DEF Owns

\* A dispatcher that moves and owns a row after the step works on the entry that
\* is there, or did not do so before the step either, or the document is owed no
\* more.
KeepsUp(u) ==
    \/ worker'[u] = worker[u]
    \/ ~Owns(u)'
    \/ worker'[u].doc \notin owed'
    \/ Current(u)'
    \/ worker'[u].id = worker[u].id /\ ~At(u, "idle") /\ ~Current(u)

LEMMA FinishedFields ==
  ASSUME TypeOK, NEW w \in Workers, ~At(w, "idle"),
         NEW pc \in Steps, NEW missing \in SUBSET Docs, Finish(w, pc, missing)
  PROVE  /\ worker'[w].pc = pc /\ worker'[w].id = worker[w].id
         /\ worker'[w].doc = worker[w].doc
         /\ pc \in {"failed", "unchanged"} => worker'[w].version = Entry(w)
<1>1. worker'[w] = Outcome(w, pc, missing)
  BY DEF Finish, TypeOK
<1> QED
  BY <1>1, OutcomeType

LEMMA DoneKeepsUp ==
  ASSUME TypeOK, NEW w \in Workers, Done(w)
  PROVE  KeepsUp(w)
<1>1. worker'[w] = Idle /\ Idle.pc = "idle"
  BY DEF Done, TypeOK, Idle
<1> QED
  BY <1>1 DEF KeepsUp, Current

\* A job that ended with an outcome that is settled or retried.
LEMMA OutcomeKeepsUp ==
  ASSUME TypeOK, NEW w \in Workers, ~At(w, "idle"), NEW missing \in SUBSET Docs,
         Finish(w, "blocked", missing) \/ Finish(w, "deferred", missing)
  PROVE  KeepsUp(w)
<1>1. "blocked" \in Steps /\ "deferred" \in Steps
  BY DEF Steps
<1>2. worker'[w].pc \in {"blocked", "deferred"}
  BY <1>1, FinishedFields
<1> QED
  BY <1>2 DEF KeepsUp, Current

\* A job whose document is reflected now, or whose work had lost touch.
LEMMA DeliveredKeepsUp ==
  ASSUME TypeOK, NEW w \in Workers, ~At(w, "idle"), NEW missing \in SUBSET Docs,
         NEW pc \in Steps, Finish(w, pc, missing),
         worker[w].doc \notin owed' \/ ~Current(w)
  PROVE  KeepsUp(w)
  BY FinishedFields DEF KeepsUp

\* A job given up: the entry it is about is the current one, or was not before.
LEMMA GivenUpKeepsUp ==
  ASSUME TypeOK, NEW w \in Workers, english' = english,
         worker[w].pc \in {"claimed", "checking", "writing"},
         NEW pc \in {"failed", "unchanged"}, Finish(w, pc, {})
  PROVE  KeepsUp(w)
<1>1. pc \in Steps /\ {} \in SUBSET Docs /\ ~At(w, "idle")
  BY DEF Steps, At
<1>2. /\ worker'[w].pc = pc /\ worker'[w].id = worker[w].id
      /\ worker'[w].doc = worker[w].doc /\ worker'[w].version = Entry(w)
  BY <1>1, FinishedFields
<1>3. CASE At(w, "claimed") \/ worker[w].version = english[worker[w].doc].version
  BY <1>2, <1>3 DEF KeepsUp, Current, Entry
<1>4. CASE ~At(w, "claimed") /\ worker[w].version # english[worker[w].doc].version
  BY <1>1, <1>2, <1>4 DEF KeepsUp, Current, At
<1> QED
  BY <1>3, <1>4

\* A job that goes on with the entry it was loaded from.
LEMMA MovedKeepsUp ==
  ASSUME TypeOK, NEW w \in Workers, ~At(w, "idle"), NEW r,
         worker' = [worker EXCEPT ![w] = r], english' = english,
         r.id = worker[w].id, r.doc = worker[w].doc,
         r.pc \in {"checking", "saving", "writing", "committing"},
         r.version = english[worker[w].doc].version \/ ~Current(w)
  PROVE  KeepsUp(w)
<1>1. worker'[w] = r
  BY DEF TypeOK
<1> QED
  BY <1>1 DEF KeepsUp, Current

LEMMA LoadKeepsUp ==
  ASSUME TypeOK, FencedText, NEW w \in Workers,
         LoadGone(w) \/ RecheckGone(w) \/ Load(w) \/ Recheck(w)
  PROVE  KeepsUp(w)
<1> DEFINE d == worker[w].doc
<1>1. ~At(w, "idle") /\ d \in Docs /\ worker[w] \in Worker /\ english' = english
  BY DEF LoadGone, RecheckGone, RemoveLocale, Load, Recheck, At, TypeOK, contentVars
<1>2. "delivered" \in Steps /\ {} \in SUBSET Docs /\ MissingRequired(d) \in SUBSET Docs
  BY <1>1, TargetsType DEF Steps
<1>3. CASE LoadGone(w) \/ RecheckGone(w)
  <2>1. Finish(w, "delivered", {}) /\ d \notin owed'
    BY <1>3 DEF LoadGone, RecheckGone, RemoveLocale
  <2> QED
    BY <1>1, <1>2, <2>1, DeliveredKeepsUp
<1>4. CASE Load(w)
  <2> DEFINE v == [worker[w] EXCEPT !.pc = "checking", !.version = english[d].version,
                                    !.text = english[d].text, !.current = TextCurrent(w)]
  <2>1. CASE Finish(w, "unchanged", {})
    BY <1>1, <1>4, <2>1, GivenUpKeepsUp DEF Load, At
  <2>2. CASE Finish(w, "blocked", MissingRequired(d))
    BY <1>1, <1>2, <2>2, OutcomeKeepsUp
  <2>3. CASE worker' = [worker EXCEPT ![w] = v]
    <3>1. /\ v.pc = "checking" /\ v.id = worker[w].id /\ v.doc = d
          /\ v.version = english[d].version
      BY <1>1, Zenon DEF Worker
    <3> HIDE DEF v
    <3> QED
      BY <1>1, <2>3, <3>1, MovedKeepsUp
  <2> QED
    BY <1>4, <2>1, <2>2, <2>3, Zenon DEF Load
<1>5. CASE Recheck(w)
  <2> DEFINE v == [worker[w] EXCEPT !.version = english[d].version, !.pc = "saving"]
  <2>1. CASE worker' = [worker EXCEPT ![w] = v]
    <3>1. /\ v.pc = "saving" /\ v.id = worker[w].id /\ v.doc = d
          /\ v.version = english[d].version
      BY <1>1, Zenon DEF Worker
    <3> HIDE DEF v
    <3> QED
      BY <1>1, <2>1, <3>1, MovedKeepsUp
  <2>2. CASE Finish(w, "delivered", {}) /\ english[d].text # worker[w].text
    <3>1. At(w, "checking")
      BY <1>5 DEF Recheck
    <3>2. worker[w].version # english[d].version
      BY <2>2, <3>1 DEF FencedText, Reading, At
    <3>3. ~Current(w)
      BY <3>1, <3>2 DEF Current, At
    <3> QED
      BY <1>1, <1>2, <2>2, <3>3, DeliveredKeepsUp
  <2> QED
    BY <1>5, <2>1, <2>2, Zenon DEF Recheck
<1> QED
  BY <1>3, <1>4, <1>5

LEMMA PublishKeepsUp ==
  ASSUME TypeOK, FencedText, NEW w \in Workers,
         Decide(w) \/ OpenPublication(w) \/ CommitPublication(w) \/ RecordPublished(w)
  PROVE  KeepsUp(w)
<1> DEFINE d == worker[w].doc
<1>1. /\ ~At(w, "idle") /\ d \in Docs /\ worker[w] \in Worker /\ english' = english
      /\ worker[w].missing \in SUBSET Docs
  BY DEF Decide, OpenPublication, CommitPublication, RecordPublished, At, TypeOK,
     contentVars, Worker
<1>2. /\ "delivered" \in Steps /\ Missing(d) \in SUBSET Docs
      /\ MissingRequired(d) \in SUBSET Docs
  BY <1>1, TargetsType DEF Steps
<1>3. CASE Decide(w)
  <2> DEFINE v == [worker[w] EXCEPT !.pc = "writing", !.links = Present(d),
                                    !.missing = Missing(d)]
  <2>0. At(w, "saving")
    BY <1>3 DEF Decide
  <2>1. CASE Finish(w, "blocked", MissingRequired(d))
    BY <1>1, <1>2, <2>1, OutcomeKeepsUp
  <2>2. CASE MissingRequired(d) = {} /\ RowCurrent(w) /\ Publishes(w, Missing(d))
    <3>1. worker[w].version = english[d].version => d \notin owed'
      BY <1>3, <2>2 DEF Decide
    <3>2. d \notin owed' \/ ~Current(w)
      BY <2>0, <3>1 DEF Current, At
    <3>3. CASE Missing(d) = {}
      <4>1. Finish(w, "delivered", {})
        BY <2>2, <3>3, Zenon DEF Publishes
      <4> QED
        BY <1>1, <1>2, <3>2, <4>1, DeliveredKeepsUp
    <3>4. CASE Missing(d) # {}
      <4>1. Finish(w, "blocked", Missing(d))
        BY <2>2, <3>4, Zenon DEF Publishes
      <4> QED
        BY <1>1, <1>2, <4>1, OutcomeKeepsUp
    <3> QED
      BY <3>3, <3>4
  <2>3. CASE worker' = [worker EXCEPT ![w] = v]
    <3>1. /\ v.pc = "writing" /\ v.id = worker[w].id /\ v.doc = d
          /\ v.version = worker[w].version
      BY <1>1, Zenon DEF Worker
    <3>2. worker[w].version = english[d].version \/ ~Current(w)
      BY <2>0 DEF Current, At
    <3> HIDE DEF v
    <3> QED
      BY <1>1, <2>3, <3>1, <3>2, MovedKeepsUp
  <2> QED
    BY <1>3, <2>1, <2>2, <2>3, Zenon DEF Decide
<1>4. CASE OpenPublication(w)
  <2> DEFINE v == [worker[w] EXCEPT !.pc = "committing", !.wakes = WokenBy(d)]
  <2>1. /\ v.pc = "committing" /\ v.id = worker[w].id /\ v.doc = d
        /\ v.version = worker[w].version
    BY <1>1, Zenon DEF Worker
  <2>2. worker' = [worker EXCEPT ![w] = v]
    BY <1>4, Zenon DEF OpenPublication
  <2>3. worker[w].version = english[d].version
    BY <1>4 DEF OpenPublication, Fence
  <2> HIDE DEF v
  <2> QED
    BY <1>1, <2>1, <2>2, <2>3, MovedKeepsUp
<1>5. CASE CommitPublication(w)
  <2> DEFINE v == [worker[w] EXCEPT !.pc = "published", !.wakes = {}]
  <2>1. v.doc = d
    BY <1>1, Zenon DEF Worker
  <2>2. worker' = [worker EXCEPT ![w] = v]
    BY <1>5, Zenon DEF CommitPublication
  <2> HIDE DEF v
  <2>3. worker'[w].doc = d
    BY <2>1, <2>2 DEF TypeOK
  <2>4. worker[w].text = english[d].text
    BY <1>5 DEF CommitPublication, FencedText, Reading, At
  <2>5. d \notin owed'
    BY <1>5, <2>4 DEF CommitPublication
  <2> QED
    BY <2>3, <2>5 DEF KeepsUp
<1>6. CASE RecordPublished(w)
  <2>1. ~Current(w)
    BY <1>6 DEF RecordPublished, Current, At
  <2>2. "blocked" \in Steps
    BY DEF Steps
  <2>3. CASE Finish(w, "delivered", worker[w].missing) \/ Finish(w, "blocked", worker[w].missing)
    BY <1>1, <1>2, <2>1, <2>2, <2>3, DeliveredKeepsUp
  <2> QED
    BY <1>6, <2>3, Zenon DEF RecordPublished, Publishes
<1> QED
  BY <1>3, <1>4, <1>5, <1>6
LEMMA SettleKeepsUp ==
  ASSUME TypeOK, NEW w \in Workers,
         \/ MarkDelivered(w) \/ MarkFailed(w) \/ MarkBlocked(w) \/ SelfEnqueue(w)
         \/ Supersede(w) \/ ReturnToPending(w) \/ Defer(w) \/ Fail(w) \/ Crash(w)
  PROVE  KeepsUp(w)
<1>1. CASE MarkBlocked(w) /\ Owns(w)
  <2> DEFINE i == worker[w].id
             r == [NoRow EXCEPT !.status = "blocked", !.doc = row[i].doc,
                                !.force = row[i].force, !.awaits = worker[w].missing]
             v == [worker[w] EXCEPT !.pc = "rechecking"]
  <2>1. i \in Ids /\ worker[w] \in Worker
    BY <1>1 DEF TypeOK, Owns
  <2>2. r.status = "blocked" /\ v.id = i
    BY <2>1, NoRowType, Zenon DEF NoRow, Row, Worker
  <2>3. row' = [row EXCEPT ![i] = r] /\ worker' = [worker EXCEPT ![w] = v]
    BY <1>1, Zenon DEF MarkBlocked, Goto
  <2> HIDE DEF r, v
  <2>4. worker'[w].id = i /\ row'[i].status = "blocked"
    BY <2>1, <2>2, <2>3 DEF TypeOK
  <2> HIDE DEF i
  <2>5. ~Owns(w)'
    BY <2>4 DEF Owns
  <2> QED
    BY <2>5 DEF KeepsUp
<1>2. CASE Defer(w)
  <2>1. ~At(w, "idle") /\ {} \in SUBSET Docs /\ Finish(w, "deferred", {})
    BY <1>2 DEF Defer, Processing, At
  <2> QED
    BY <2>1, OutcomeKeepsUp
<1>3. CASE Fail(w)
  BY <1>3, GivenUpKeepsUp DEF Fail
<1>4. CASE ~(MarkBlocked(w) /\ Owns(w)) /\ ~Defer(w) /\ ~Fail(w)
  BY <1>4, DoneKeepsUp DEF MarkDelivered, MarkFailed, MarkBlocked, SelfEnqueue,
     Supersede, ReturnToPending, Crash
<1> QED
  BY <1>1, <1>2, <1>3, <1>4

LEMMA ClaimKeepsUp ==
  ASSUME TypeOK, NEW w \in Workers, NEW i \in Ids, Claim(w, i)
  PROVE  KeepsUp(w)
<1> DEFINE v == [Idle EXCEPT !.pc = "claimed", !.id = i, !.doc = row[i].doc,
                             !.force = row[i].force]
<1>1. v.pc = "claimed"
  BY IdleType, Zenon DEF Idle
<1>2. worker' = [worker EXCEPT ![w] = v]
  BY Zenon DEF Claim
<1> HIDE DEF v
<1>3. worker'[w].pc = "claimed"
  BY <1>1, <1>2 DEF TypeOK
<1> QED
  BY <1>3 DEF KeepsUp, Current

\* A step changes the record of one dispatcher at most.
LEMMA OneMoves ==
  ASSUME TypeOK, NEW w \in Workers, NEW r, worker' = [worker EXCEPT ![w] = r]
  PROVE  \A u \in Workers : u # w => worker'[u] = worker[u]
  BY DEF TypeOK

LEMMA OnlyActorMoves ==
  ASSUME TypeOK, NEW w \in Workers,
         \/ \E i \in Ids : Claim(w, i)
         \/ Advance(w) \/ Defer(w) \/ Fail(w) \/ Crash(w)
  PROVE  \A u \in Workers : u # w => worker'[u] = worker[u]
<1>1. CASE Load(w)
  <2>1. \E r : worker' = [worker EXCEPT ![w] = r]
    BY <1>1, Zenon DEF Load, Finish
  <2> QED
    BY <2>1, OneMoves
<1>2. CASE Recheck(w)
  <2>1. \E r : worker' = [worker EXCEPT ![w] = r]
    BY <1>2, Zenon DEF Recheck, Finish
  <2> QED
    BY <2>1, OneMoves
<1>3. CASE Decide(w)
  <2>1. \E r : worker' = [worker EXCEPT ![w] = r]
    BY <1>3, Zenon DEF Decide, Publishes, Finish
  <2> QED
    BY <2>1, OneMoves
<1>4. CASE OpenPublication(w) \/ CommitPublication(w) \/ RecordPublished(w)
  <2>1. \E r : worker' = [worker EXCEPT ![w] = r]
    BY <1>4, Zenon DEF OpenPublication, CommitPublication, RecordPublished, Publishes, Finish
  <2> QED
    BY <2>1, OneMoves
<1>5. CASE MarkBlocked(w)
  <2>1. \E r : worker' = [worker EXCEPT ![w] = r]
    BY <1>5, Zenon DEF MarkBlocked, Goto, Done
  <2> QED
    BY <2>1, OneMoves
<1>6. CASE \/ LoadGone(w) \/ RecheckGone(w) \/ MarkDelivered(w) \/ MarkFailed(w)
           \/ SelfEnqueue(w) \/ Supersede(w) \/ ReturnToPending(w)
           \/ Defer(w) \/ Fail(w) \/ Crash(w)
  <2>1. \E r : worker' = [worker EXCEPT ![w] = r]
    BY <1>6, Zenon DEF LoadGone, RecheckGone, RemoveLocale, MarkDelivered, MarkFailed,
       SelfEnqueue, Supersede, ReturnToPending, Defer, Fail, Crash, Done, Finish
  <2> QED
    BY <2>1, OneMoves
<1>7. CASE \E i \in Ids : Claim(w, i)
  <2>1. \E r : worker' = [worker EXCEPT ![w] = r]
    BY <1>7, Zenon DEF Claim
  <2> QED
    BY <2>1, OneMoves
<1> QED
  BY <1>1, <1>2, <1>3, <1>4, <1>5, <1>6, <1>7 DEF Advance

LEMMA EveryoneKeepsUp ==
  ASSUME TypeOK, FencedText, [Next]_vars
  PROVE  \A u \in Workers : KeepsUp(u)
<1>1. CASE worker' = worker
  BY <1>1 DEF KeepsUp
<1>2. CASE worker' # worker
  <2>1. PICK w \in Workers : \/ \E i \in Ids : Claim(w, i)
                             \/ Advance(w) \/ Defer(w) \/ Fail(w) \/ Crash(w)
    BY <1>2 DEF Next, Editors, Save, Delete, HumanWrite, Sweep, Edit, Heartbeat,
       LeaseExpires, BecomeDue, Cleanup, ReadReady, WakeReady, vars
  <2>2. KeepsUp(w)
    BY <2>1, LoadKeepsUp, PublishKeepsUp, SettleKeepsUp, ClaimKeepsUp DEF Advance
  <2>3. \A u \in Workers : u # w => worker'[u] = worker[u]
    BY <2>1, OnlyActorMoves
  <2> QED
    BY <2>2, <2>3 DEF KeepsUp
<1> QED
  BY <1>1, <1>2

(***************************************************************************)
(* The row that carries a document.                                        *)
(***************************************************************************)
Open == {"pending", "processing", "blocked"}

\* The owner's step that settles the row of a document that is owed no more, or
\* that another row carries.
LetGo(i) == \E w \in Workers : /\ Owns(w) /\ worker[w].id = i
                               /\ row[i].doc \notin owed' \/ ~Current(w)

LEMMA ReplacedRow ==
  ASSUME TypeOK, NEW k \in Ids, NEW r, row' = [row EXCEPT ![k] = r], r.status \in Open,
         NEW i \in Ids, row[i].status \in Open
  PROVE  row'[i].status \in Open
  BY DEF TypeOK

LEMMA InsertKeepsOpen ==
  ASSUME TypeOK, NEW S \in SUBSET Docs, NEW F, NEW reason \in Reasons,
         Enqueue(S, F, reason), NEW i \in Ids, row[i].status \in Open
  PROVE  row'[i].status \in Open
<1>1. Kept(i) \/ Fresh(i)
  BY EnqueueEffect
<1> QED
  BY <1>1 DEF Kept, Merged, Fresh, Open

\* The settled row is the owner's; the others are as they were.
LEMMA SettledRow ==
  ASSUME TypeOK, NEW w \in Workers, NEW status, Settle(w, status),
         NEW i \in Ids, row[i].status \in Open, row'[i].status \notin Open
  PROVE  Owns(w) /\ worker[w].id = i
<1>1. CASE ~Owns(w)
  BY <1>1 DEF Settle
<1>2. CASE Owns(w)
  <2>1. PICK r : row' = [row EXCEPT ![worker[w].id] = r]
    BY <1>2, Zenon DEF Settle
  <2> QED
    BY <1>2, <2>1 DEF TypeOK
<1> QED
  BY <1>1, <1>2

LEMMA SettleLetsGo ==
  ASSUME TypeOK, InOrder, NEW w \in Workers, NEW i \in Ids, Latest(i),
         row[i].status \in Open, row'[i].status \notin Open,
         MarkDelivered(w) \/ MarkFailed(w) \/ Supersede(w)
  PROVE  LetGo(i)
<1>1. Owns(w) /\ worker[w].id = i /\ row[i].doc = worker[w].doc /\ row[i].status = "processing"
  <2>1. \E status : Settle(w, status)
    BY DEF MarkDelivered, MarkFailed, Supersede
  <2>2. Owns(w) /\ worker[w].id = i
    BY <2>1, SettledRow
  <2> QED
    BY <2>2 DEF TypeOK, Owns
<1> DEFINE d == worker[w].doc
<1>2. PendingOf(d) = {}
  <2> SUFFICES ASSUME NEW j \in Ids, row[j].status = "pending", row[j].doc = d PROVE FALSE
    BY DEF PendingOf
  <2>1. Latest(j)
    BY DEF InOrder
  <2>2. j <= i /\ i <= j /\ i \in Nat /\ j \in Nat
    BY <1>1, <2>1, BoundsAssumption DEF Latest, Ids
  <2> QED
    BY <1>1, <2>2
<1>3. CASE MarkDelivered(w) /\ At(w, "delivered")
  BY <1>1, <1>3 DEF LetGo, Current, At
<1>4. CASE MarkFailed(w) \/ (MarkDelivered(w) /\ At(w, "unchanged"))
  <2>1. owed' = GivenUp(w, d) /\ worker[w].pc \in {"failed", "unchanged"}
    BY <1>4 DEF MarkFailed, MarkDelivered, At
  <2>2. d \notin owed' \/ worker[w].version # english[d].version
    BY <1>1, <1>2, <2>1 DEF GivenUp
  <2>3. d \notin owed' \/ ~Current(w)
    BY <2>1, <2>2 DEF Current
  <2> QED
    BY <1>1, <2>3 DEF LetGo
<1>5. ~Supersede(w)
  BY <1>2 DEF Supersede, Newer
<1> QED
  BY <1>3, <1>4, <1>5 DEF MarkDelivered, At

\* Retention leaves the latest row of a document alone while it is open.
LEMMA CleanupKeepsOpen ==
  ASSUME TypeOK, NEW c \in Ids, Cleanup(c), NEW i \in Ids, Latest(i), row[i].status \in Open
  PROVE  row'[i].status \in Open
<1> DEFINE settled == {k \in 1..c : row[k].status \in {"delivered", "unchanged", "failed"}}
           repaired == {k \in 1..c : /\ row[k].status = "blocked"
                                     /\ \E j \in Ids \ settled : j > k /\ row[j].doc = row[k].doc}
<1>1. row' = Without(settled) \/ row' = Without(settled \cup repaired)
  BY DEF Cleanup
<1>2. i \notin settled
  BY DEF Open
<1>3. i \notin repaired
  BY BoundsAssumption DEF Latest, Ids
<1> HIDE DEF settled, repaired
<1>4. row'[i] = row[i]
  BY <1>1, <1>2, <1>3 DEF Without
<1> QED
  BY <1>4
LEMMA WorkKeepsOpen ==
  ASSUME TypeOK, NEW w \in Workers, NEW i \in Ids, row[i].status \in Open,
         \/ LoadGone(w) \/ Load(w) \/ RecheckGone(w) \/ Recheck(w) \/ RecordPublished(w)
         \/ MarkBlocked(w) \/ ReturnToPending(w) \/ Heartbeat(w)
  PROVE  row'[i].status \in Open
<1> DEFINE k == worker[w].id
<1>1. CASE row' = row
  BY <1>1
<1>2. CASE Owns(w) /\ row' # row
  <2>1. k \in Ids /\ row[k] \in Row /\ row[k].status = "processing"
    BY <1>2 DEF TypeOK, Owns
  <2>2. CASE AssertLease(w) \/ Heartbeat(w)
    <3> DEFINE r == [row[k] EXCEPT !.lapsed = FALSE]
    <3>1. row' = [row EXCEPT ![k] = r]
      BY <2>2, Zenon DEF AssertLease, Heartbeat
    <3>2. r.status = "processing"
      BY <2>1, Zenon DEF Row
    <3> HIDE DEF r, k
    <3> QED
      BY <2>1, <3>1, <3>2, ReplacedRow DEF Open
  <2>3. CASE Load(w)
    <3> DEFINE r == [row[k] EXCEPT !.lapsed = FALSE, !.hash = english[worker[w].doc].text]
    <3>1. row' = [row EXCEPT ![k] = r]
      BY <2>3, Zenon DEF Load
    <3>2. r.status = "processing"
      BY <2>1, Zenon DEF Row
    <3> HIDE DEF r, k
    <3> QED
      BY <2>1, <3>1, <3>2, ReplacedRow DEF Open
  <2>4. CASE MarkBlocked(w)
    <3> DEFINE r == [NoRow EXCEPT !.status = "blocked", !.doc = row[k].doc,
                                  !.force = row[k].force, !.awaits = worker[w].missing]
    <3>1. row' = [row EXCEPT ![k] = r]
      BY <1>2, <2>4, Zenon DEF MarkBlocked
    <3>2. r.status = "blocked"
      BY NoRowType, Zenon DEF NoRow, Row
    <3> HIDE DEF r, k
    <3> QED
      BY <2>1, <3>1, <3>2, ReplacedRow DEF Open
  <2>5. CASE ReturnToPending(w)
    <3> DEFINE r == [row[k] EXCEPT !.status = "pending", !.token = Nobody, !.lapsed = FALSE]
    <3>1. row' = [row EXCEPT ![k] = r]
      BY <1>2, <2>5, Zenon DEF ReturnToPending
    <3>2. r.status = "pending"
      BY <2>1, Zenon DEF Row
    <3> HIDE DEF r, k
    <3> QED
      BY <2>1, <3>1, <3>2, ReplacedRow DEF Open
  <2> QED
    BY <2>2, <2>3, <2>4, <2>5 DEF LoadGone, RecheckGone, Recheck, RecordPublished
<1>3. Owns(w) \/ row' = row
  BY DEF LoadGone, Load, RecheckGone, Recheck, RecordPublished, AssertLease,
     MarkBlocked, ReturnToPending, Heartbeat
<1> QED
  BY <1>1, <1>2, <1>3

LEMMA InsertsKeepOpen ==
  ASSUME TypeOK, NEW i \in Ids, row[i].status \in Open,
         \/ Editors \/ WakeReady
         \/ \E w \in Workers : CommitPublication(w) \/ SelfEnqueue(w)
  PROVE  row'[i].status \in Open
<1>1. "edit" \in Reasons /\ "backfill" \in Reasons /\ "nightly" \in Reasons
  BY DEF Reasons
<1>2. CASE Editors
  <2>1. PICK a \in edits.acts :
           \/ Save(a.doc, a.text) \/ Delete(a.doc) \/ HumanWrite(a.doc)
           \/ Sweep(a.doc, FALSE, a.act) /\ a.act \in {"nightly", "backfill"}
           \/ Sweep(a.doc, TRUE, "backfill")
    BY <1>2, Zenon DEF Editors
  <2>2. a.doc \in Docs
    BY DEF TypeOK, Acts
  <2>3. DocsOf(WokenBy(a.doc)) \in SUBSET Docs
    BY TypeParts, WokenType, DocsOfType
  <2>4. CASE HumanWrite(a.doc)
    BY <1>1, <2>3, <2>4, InsertKeepsOpen DEF HumanWrite
  <2>5. CASE ~HumanWrite(a.doc)
    BY <1>1, <2>1, <2>2, <2>5, InsertKeepsOpen DEF Save, Delete, Sweep
  <2> QED
    BY <2>4, <2>5
<1>3. CASE WakeReady
  <2>1. DocsOf(ready) \in SUBSET Docs
    BY TypeParts, DocsOfType DEF CountersOK
  <2> QED
    BY <1>1, <1>3, <2>1, InsertKeepsOpen DEF WakeReady
<1>4. ASSUME NEW w \in Workers, CommitPublication(w) PROVE row'[i].status \in Open
  <2>1. DocsOf(worker[w].wakes) \in SUBSET Docs
    BY TypeParts, DocsOfType DEF WorkersOK, Worker
  <2> QED
    BY <1>1, <1>4, <2>1, InsertKeepsOpen DEF CommitPublication
<1>5. ASSUME NEW w \in Workers, SelfEnqueue(w) PROVE row'[i].status \in Open
  <2>1. worker[w].doc \in Docs
    BY <1>5 DEF SelfEnqueue, At, TypeOK
  <2>2. PICK b \in BOOLEAN : Enqueue(IF b THEN {worker[w].doc} ELSE {},
                    IF worker[w].force THEN {worker[w].doc} ELSE {}, "edit")
    BY <1>5 DEF SelfEnqueue
  <2> DEFINE S == IF b THEN {worker[w].doc} ELSE {}
  <2>3. S \in SUBSET Docs
    BY <2>1
  <2> HIDE DEF S
  <2>4. Enqueue(S, IF worker[w].force THEN {worker[w].doc} ELSE {}, "edit")
    BY <2>2 DEF S
  <2> QED
    BY <1>1, <2>3, <2>4, InsertKeepsOpen
<1> QED
  BY <1>2, <1>3, <1>4, <1>5

LEMMA TimersKeepOpen ==
  ASSUME TypeOK, NEW i \in Ids, row[i].status \in Open, NEW k \in Ids,
         \/ LeaseExpires(k) \/ BecomeDue(k)
         \/ \E w \in Workers : Claim(w, k)
  PROVE  row'[i].status \in Open
<1>1. row[k] \in Row
  BY DEF TypeOK
<1>2. CASE LeaseExpires(k)
  <2> DEFINE r == [row[k] EXCEPT !.lapsed = TRUE]
  <2>1. row' = [row EXCEPT ![k] = r]
    BY <1>2, Zenon DEF LeaseExpires
  <2>2. r.status = row[k].status
    BY <1>1, Zenon DEF Row
  <2>3. row[k].status = "processing"
    BY <1>2 DEF LeaseExpires
  <2> HIDE DEF r
  <2> QED
    BY <2>1, <2>2, <2>3, ReplacedRow DEF Open
<1>3. CASE BecomeDue(k)
  <2> DEFINE r == [row[k] EXCEPT !.due = TRUE]
  <2>1. row' = [row EXCEPT ![k] = r]
    BY <1>3, Zenon DEF BecomeDue
  <2>2. r.status = row[k].status
    BY <1>1, Zenon DEF Row
  <2>3. row[k].status = "pending"
    BY <1>3 DEF BecomeDue
  <2> HIDE DEF r
  <2> QED
    BY <2>1, <2>2, <2>3, ReplacedRow DEF Open
<1>4. ASSUME NEW w \in Workers, Claim(w, k) PROVE row'[i].status \in Open
  <2> DEFINE r == [row[k] EXCEPT !.status = "processing", !.token = w,
                                 !.lapsed = FALSE, !.due = FALSE]
  <2>1. row' = [row EXCEPT ![k] = r]
    BY <1>4, Zenon DEF Claim
  <2>2. r.status = "processing"
    BY <1>1, Zenon DEF Row
  <2> HIDE DEF r
  <2> QED
    BY <2>1, <2>2, ReplacedRow DEF Open
<1> QED
  BY <1>2, <1>3, <1>4

\* The latest row of a document stays open, or its owner lets it go.
LEMMA OpenUntilLetGo ==
  ASSUME TypeOK, InOrder, [Next]_vars, NEW i \in Ids, Latest(i), row[i].status \in Open
  PROVE  row'[i].status \in Open \/ LetGo(i)
<1>1. CASE row' = row
  BY <1>1
<1>2. CASE Editors \/ WakeReady
  BY <1>2, InsertsKeepOpen
<1>3. ASSUME NEW w \in Workers, Advance(w) PROVE row'[i].status \in Open \/ LetGo(i)
  <2>1. CASE Decide(w) \/ OpenPublication(w)
    BY <2>1 DEF Decide, OpenPublication
  <2> QED
    BY <1>3, <2>1, WorkKeepsOpen, InsertsKeepOpen, SettleLetsGo DEF Advance
<1>4. CASE \E w \in Workers : Defer(w) \/ Fail(w) \/ Crash(w)
  BY <1>4 DEF Defer, Fail, Crash
<1>5. CASE \E w \in Workers : Heartbeat(w)
  BY <1>5, WorkKeepsOpen
<1>6. CASE \E k \in Ids : \/ LeaseExpires(k) \/ BecomeDue(k)
                          \/ \E w \in Workers : Claim(w, k)
  BY <1>6, TimersKeepOpen
<1>7. CASE \E c \in Ids : Cleanup(c)
  BY <1>7, CleanupKeepsOpen
<1>8. CASE ReadReady \/ UNCHANGED vars
  BY <1>8 DEF ReadReady, vars
<1> QED
  BY <1>2, <1>3, <1>4, <1>5, <1>6, <1>7, <1>8, Zenon DEF Next

\* A document that comes to be owed, or whose entry changes, has a pending row.
LEMMA WritesEnqueue ==
  ASSUME TypeOK, [Next]_vars, NEW d \in Docs,
         (d \in owed' /\ d \notin owed) \/ english'[d] # english[d]
  PROVE  \E i \in Ids : row'[i].status = "pending" /\ row'[i].doc = d
<1>1. CASE Editors
  <2>1. PICK a \in edits.acts :
           \/ Save(a.doc, a.text) \/ Delete(a.doc) \/ HumanWrite(a.doc)
           \/ Sweep(a.doc, FALSE, a.act) \/ Sweep(a.doc, TRUE, "backfill")
    BY <1>1, Zenon DEF Editors
  <2>2. a.doc \in Docs /\ "edit" \in Reasons
    BY DEF TypeOK, Acts, Reasons
  <2>3. CASE Save(a.doc, a.text) \/ Delete(a.doc)
    <3>1. d = a.doc
      BY <2>3 DEF Save, Delete, TypeOK
    <3>2. Enqueue({a.doc}, {}, "edit")
      BY <2>3 DEF Save, Delete
    <3> QED
      BY <2>2, <3>1, <3>2, EnqueuePending
  <2>4. CASE HumanWrite(a.doc) \/ Sweep(a.doc, FALSE, a.act) \/ Sweep(a.doc, TRUE, "backfill")
    BY <2>4 DEF HumanWrite, Sweep, contentVars
  <2> QED
    BY <2>1, <2>3, <2>4
<1>2. CASE ~Editors
  <2>1. ASSUME NEW w \in Workers, Advance(w)
        PROVE  english' = english /\ owed' \subseteq owed
    BY <2>1 DEF Advance, LoadGone, Load, RecheckGone, Recheck, Decide,
     OpenPublication, CommitPublication, RecordPublished, MarkDelivered, MarkFailed,
     MarkBlocked, SelfEnqueue, Supersede, ReturnToPending, RemoveLocale, GivenUp, contentVars
  <2>2. CASE \E w \in Workers : \/ \E i \in Ids : Claim(w, i)
                                \/ Defer(w) \/ Fail(w) \/ Crash(w) \/ Heartbeat(w)
    BY <2>2 DEF Claim, Defer, Fail, Crash, Heartbeat, contentVars
  <2>3. CASE \/ \E i \in Ids : LeaseExpires(i) \/ BecomeDue(i) \/ Cleanup(i)
             \/ ReadReady \/ WakeReady \/ UNCHANGED vars
    BY <2>3 DEF LeaseExpires, BecomeDue, Cleanup, ReadReady, WakeReady, vars, contentVars
  <2> QED
    BY <1>2, <2>1, <2>2, <2>3 DEF Next
<1> QED
  BY <1>1, <1>2

\* A carried document stays carried: by its row, or by a newer one.
LEMMA CarriedStep ==
  ASSUME TypeOK, TypeOK', FencedText, InOrder, InOrder', EachIsCarried, [Next]_vars
  PROVE  EachIsCarried'
<1> SUFFICES ASSUME NEW d \in owed' PROVE Carried(d)'
  BY DEF EachIsCarried
<1>0. d \in Docs
  BY DEF TypeOK
<1>1. CASE d \notin owed \/ english'[d] # english[d]
  <2>1. \E i \in Ids : row'[i].status = "pending" /\ row'[i].doc = d
    BY <1>0, <1>1, WritesEnqueue
  <2> QED
    BY <2>1, PendingCarries
<1>2. CASE d \in owed /\ english'[d] = english[d]
  <2>1. PICK i \in Ids : row[i].doc = d /\ Latest(i) /\ Carries(i)
    BY <1>2 DEF EachIsCarried, Carried
  <2>2. row[i].status \in Open
    BY <2>1 DEF Carries, Open
  <2>3. RowEffects /\ \A u \in Workers : KeepsUp(u)
    BY NextEffect, EveryoneKeepsUp DEF Effects
  <2>4. row'[i].status \in Open
    <3>1. ASSUME LetGo(i) PROVE FALSE
      <4>1. PICK w \in Workers : Owns(w) /\ worker[w].id = i /\ ~Current(w)
        BY <2>1, <3>1 DEF LetGo
      <4>2. row[i].status = "processing"
        BY <4>1 DEF Owns
      <4> QED
        BY <2>1, <4>1, <4>2 DEF Carries
    <3> QED
      BY <2>1, <2>2, <3>1, OpenUntilLetGo
  <2>5. row'[i].doc = d
    <3>1. ~Fresh(i)
      <4>1. NoRow.status \notin Open
        BY DEF NoRow, Open
      <4> QED
        BY <2>2, <4>1 DEF TypeOK, Fresh
    <3>2. NoRow.status \notin Open
      BY DEF NoRow, Open
    <3> QED
      BY <2>1, <2>3, <2>4, <3>1, <3>2 DEF RowEffects, Kept, Merged, Released, TakenBy
  <2>6. CASE ~Carries(i)'
    <3>1. PICK u \in Workers : Owns(u)' /\ worker'[u].id = i /\ ~Current(u)'
      BY <2>4, <2>6 DEF Carries, Open
    <3>2. worker'[u].doc = d
      BY <2>5, <3>1 DEF TypeOK
    <3>3. ~At(u, "idle") /\ worker[u].id = i /\ ~Current(u)
      <4>1. CASE worker'[u] = worker[u]
        <5>1. Current(u)' <=> Current(u)
          BY <1>2, <3>2, <4>1 DEF Current
        <5> QED
          BY <3>1, <4>1, <5>1 DEF Current, At
      <4>2. CASE worker'[u] # worker[u]
        BY <2>3, <3>1, <3>2, <4>2 DEF KeepsUp
      <4> QED
        BY <4>1, <4>2
    <3>4. Owns(u)
      BY <2>3, <3>1, <3>3, OwnedBefore
    <3>5. row[i].status = "processing"
      BY <3>3, <3>4 DEF Owns
    <3> QED
      BY <2>1, <3>3, <3>4, <3>5 DEF Carries
  <2>7. CASE Carries(i)'
    <3>1. Latest(i)' \/ Carried(d)'
      BY <1>0, <2>1, <2>3, <2>5, StaysLatest
    <3> QED
      BY <2>5, <2>7, <3>1 DEF Carried
  <2> QED
    BY <2>6, <2>7
<1> QED
  BY <1>1, <1>2

\* No English write is forgotten, as long as no retry puts a row back behind a
\* newer one of its key: until the locale row reflects the write, or the work on
\* it is given up, the document has a job that will run, or waits as the latest
\* of its key for a relation target.
THEOREM WritesAreRemembered == Spec /\ []InOrder => []NoWriteForgotten
<1>1. Init => EachIsCarried
  BY DEF Init, EachIsCarried
<1>2. TypeOK /\ TypeOK' /\ FencedText /\ InOrder /\ InOrder' /\ EachIsCarried /\ [Next]_vars
      => EachIsCarried'
  BY CarriedStep
<1>3. EachIsCarried => NoWriteForgotten
  <2> SUFFICES ASSUME NEW d, Carried(d)
               PROVE  LiveOf(d) # {} \/ \E i \in Waiting : row[i].doc = d
    BY DEF EachIsCarried, NoWriteForgotten
  <2>1. PICK i \in Ids : row[i].doc = d /\ Latest(i) /\ Carries(i)
    BY DEF Carried
  <2> QED
    BY <2>1 DEF Carries, LiveOf, Waiting
<1> QED
  BY <1>1, <1>2, <1>3, TypeCorrect, FencedCorrect, PTL DEF Spec
=============================================================================
