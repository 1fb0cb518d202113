-------------------------- MODULE IsrOutbox_proofs --------------------------
(***************************************************************************)
(* Safety of the ISR outbox for any number of rows, dispatchers, keys and   *)
(* pages: type correctness, the inductive invariant behind "no committed    *)
(* change is forgotten", the refinement of IsrDelivery, and what merging     *)
(* and retrying do to the payloads of one key.                              *)
(***************************************************************************)
EXTENDS IsrOutbox, FiniteSetTheorems, TLAPS

(***************************************************************************)
(* The payload algebra.                                                    *)
(***************************************************************************)
\* The empty payload is a payload, and so are merged and bounded payloads.
LEMMA PayloadTypes ==
    /\ NoPayload \in Payload
    /\ \A p, q \in Payload : Merge(p, q) \in Payload
    /\ \A p \in Payload : Bound(p) \in Payload
BY DEF NoPayload, Payload, Merge, Bound, Required

\* Merging keeps every page of both sides of one locale, and the first's kind.
LEMMA MergeCovers ==
    ASSUME NEW p \in Payload, NEW q \in Payload, p.locale = q.locale
    PROVE  /\ Pages(p) \cup Pages(q) \subseteq Pages(Merge(p, q))
           /\ Merge(p, q).locale = p.locale
           /\ Merge(p, q).manual = p.manual
           /\ Local(p) /\ Local(q) => Local(Merge(p, q))
BY DEF Payload, Pages, Merge, Local

\* Widening an oversized payload loses none of its own locale's pages.
LEMMA BoundCovers ==
    ASSUME NEW p \in Payload, Local(p)
    PROVE  /\ Pages(p) \subseteq Pages(Bound(p))
           /\ Local(Bound(p))
           /\ Bound(p).locale = p.locale
           /\ Bound(p).manual = p.manual
BY DEF Payload, Pages, Bound, Local

\* Neither merging nor widening drops an offer.
LEMMA OffersSurvive ==
    ASSUME NEW p \in Payload, NEW q \in Payload
    PROVE  Bound(Merge(p, q)).offers = p.offers \cup q.offers
<1>1. Merge(p, q) \in Payload /\ Merge(p, q).offers = p.offers \cup q.offers
  BY PayloadTypes DEF Merge
<1>2. Bound(Merge(p, q)).offers = Merge(p, q).offers
  BY <1>1 DEF Bound, Payload
<1> QED
  BY <1>1, <1>2

\* What merging and widening store, parseIsrOutboxPayload reads back.
LEMMA StoredParses ==
    /\ \A p, q \in Payload : Parses(p) /\ Parses(q) => Parses(Merge(p, q))
    /\ \A p \in Payload : Parses(p) => Parses(Bound(p))
<1>1. ASSUME NEW p \in Payload, NEW q \in Payload, Parses(p), Parses(q)
      PROVE  Parses(Merge(p, q))
  <2>1. Merge(p, q) \in Payload
    BY PayloadTypes
  <2>2. HasWork(Merge(p, q))
    <3>1. CASE p.all
      BY <3>1 DEF HasWork, Merge
    <3>2. CASE p.paths # {}
      BY <3>2 DEF HasWork, Merge
    <3>3. CASE p.offers # {}
      BY <3>3 DEF HasWork, Merge
    <3> QED
      BY <1>1, <3>1, <3>2, <3>3 DEF Parses, HasWork
  <2>3. Merge(p, q).optional \subseteq Merge(p, q).paths
    BY <1>1 DEF Parses, Merge
  <2> QED
    BY <2>1, <2>2, <2>3 DEF Parses
<1>2. ASSUME NEW p \in Payload, Parses(p)
      PROVE  Parses(Bound(p))
  <2>1. Bound(p) \in Payload
    BY PayloadTypes
  <2>2. CASE Oversized(p)
    BY <2>1, <2>2 DEF Payload, Parses, HasWork, Bound
  <2>3. CASE ~Oversized(p)
    BY <1>2, <2>3 DEF Bound
  <2> QED
    BY <2>2, <2>3
<1> QED
  BY <1>1, <1>2

(***************************************************************************)
(* Type correctness.                                                       *)
(***************************************************************************)
LEMMA SettledType ==
    ASSUME NEW s \in Statuses PROVE Settled(s) \in Row
BY PayloadTypes, LimitAssumption DEF Settled, Row, Reasons

\* A content write's payload and its bounded form are payloads, of a known key
\* and reason.
LEMMA WriteType ==
    ASSUME NEW write \in Writes
    PROVE  /\ write.key \in Keys \cup {NoKey}
           /\ write.reason \in Reasons
           /\ write.payload \in Payload
BY WritesAssumption DEF Write

\* The deletion repair of reconcileDeletedOfferRetry yields a payload.
LEMMA ReconcileType ==
    ASSUME TypeOK, NEW i \in Ids
    PROVE  ReconcileDeletedOffer(i) \in Payload
BY DEF ReconcileDeletedOffer, TypeOK, Row, Payload, Required

\* Every update of the due order keeps it a relation on row slots.
LEMMA AheadTypes ==
    ASSUME TypeOK, NEW i \in Ids
    PROVE  /\ NotDue(i) \in [Ids -> SUBSET Ids]
           /\ DueLast(i) \in [Ids -> SUBSET Ids]
           /\ \A S \in Places(i) : DueAfter(i, S) \in [Ids -> SUBSET Ids]
           /\ \A S \in SUBSET Ids : Deferred(i, S) \in [Ids -> SUBSET Ids]
           /\ ahead[i] \ {i} \subseteq Ids
BY DEF TypeOK, NotDue, DueLast, DueAfter, Deferred, Places, IsDue

\* The attempt counter stays within the manual limit.
LEMMA AttemptType ==
    ASSUME TypeOK, NEW w \in Workers
    PROVE  NextAttempt(w) \in 0..ManualLimit
BY LimitAssumption DEF TypeOK, Worker, NextAttempt

\* A retry that throws ends the cycle as any other exception does.
LEMMA ThrowIsCrash ==
    \A w \in Workers, j \in Ids : RetryThrows(w, j) => Crash(w)
BY DEF RetryThrows, Crash

\* Each step of the system preserves the types.
LEMMA TypeStep ==
    ASSUME TypeOK, [Next]_vars
    PROVE  TypeOK'
<1> USE DEF TypeOK
<1>1. CASE UNCHANGED vars
  BY <1>1 DEF vars
<1>2. ASSUME NEW write \in Writes, Change(write)
      PROVE  /\ worker' = worker
             /\ routes' \subseteq Paths
             /\ known' \subseteq Paths
             /\ unsent' \subseteq Paths
  <2>1. Pages(write.payload) \subseteq Paths
    BY WriteType, TreeAssumption DEF Payload, Pages
  <2> QED
    BY <1>2, <2>1 DEF Change
<1>3. ASSUME NEW write \in Writes, NEW i \in Ids, InsertRow(write, i)
      PROVE  TypeOK'
  <2> DEFINE inserted ==
        [Settled("pending") EXCEPT !.key = write.key,
                                   !.reason = write.reason,
                                   !.payload = Bound(write.payload),
                                   !.lastError = Untried(write.key)]
  <2>1. row' \in [Ids -> Row]
    <3>1. Untried(write.key) \in Paths \cup {OtherError, NoError}
      BY DEF Untried
    <3>2. Settled("pending") \in Row
      BY SettledType DEF Statuses
    <3>3. /\ write.key \in Keys \cup {NoKey}
          /\ write.reason \in Reasons
          /\ Bound(write.payload) \in Payload
      BY WriteType, PayloadTypes
    <3>4. inserted \in Row
      BY <3>1, <3>2, <3>3, Zenon DEF Row
    <3>5. row' = [row EXCEPT ![i] = inserted]
      BY <1>3, Zenon DEF InsertRow
    <3> QED
      BY <3>4, <3>5, Zenon
  <2>2. ahead' \in [Ids -> SUBSET Ids]
    <3>1. {j \in Ids \ {i} : IsDue(j)} \in SUBSET Ids
      OBVIOUS
    <3> QED
      BY <1>3, <3>1, AheadTypes DEF InsertRow
  <2> QED
    BY <1>2, <1>3, <2>1, <2>2 DEF InsertRow
<1>4. ASSUME NEW write \in Writes, NEW i \in Ids, MergeIntoPending(write, i)
      PROVE  TypeOK'
  <2>1. row[i].payload \in Payload
    BY DEF Row
  <2>2. Bound(Merge(row[i].payload, Bound(write.payload))) \in Payload
    BY <2>1, WriteType, PayloadTypes
  <2>3. \A r \in Row, pl \in Payload :
          [r EXCEPT !.payload = pl, !.reason = write.reason] \in Row
    BY WriteType DEF Row
  <2>5. row' \in [Ids -> Row]
    BY <1>4, <2>2, <2>3 DEF MergeIntoPending
  <2>4. ahead' \in [Ids -> SUBSET Ids]
    <3>1. Debounce(write.key, i)
      BY <1>4 DEF MergeIntoPending
    <3>2. CASE UNCHANGED ahead
      BY <3>2
    <3>3. CASE \E S \in {{}, ahead[i] \ {i}} : ahead' = Deferred(i, S)
      <4>1. {{}, ahead[i] \ {i}} \subseteq SUBSET Ids
        BY AheadTypes
      <4> QED
        BY <3>3, <4>1, AheadTypes
    <3>4. CASE \E S \in Places(i) : ahead' = DueAfter(i, S)
      BY <3>4, AheadTypes
    <3> QED
      BY <3>1, <3>2, <3>3, <3>4 DEF Debounce
  <2> QED
    BY <1>2, <1>4, <2>4, <2>5 DEF MergeIntoPending
<1>5. ASSUME NEW i \in Ids, Database(i)
      PROVE  TypeOK'
  <2>1. Settled("absent") \in Row
    BY SettledType DEF Statuses
  <2>4. \A r \in Row : /\ [r EXCEPT !.aged = TRUE] \in Row
                       /\ [r EXCEPT !.lapsed = TRUE] \in Row
    BY DEF Row
  <2>2. row' \in [Ids -> Row]
    <3>1. CASE BecomeDue(i)
      BY <3>1 DEF BecomeDue
    <3>2. CASE Age(i)
      BY <3>2, <2>4 DEF Age
    <3>3. CASE LeaseExpires(i)
      BY <3>3, <2>4 DEF LeaseExpires
    <3>4. CASE Purge(i)
      BY <3>4, <2>1 DEF Purge
    <3> QED
      BY <1>5, <3>1, <3>2, <3>3, <3>4 DEF Database
  <2>3. ahead' \in [Ids -> SUBSET Ids]
    BY <1>5, AheadTypes DEF Database, BecomeDue, Age, LeaseExpires, Purge
  <2> QED
    BY <1>5, <2>2, <2>3
       DEF Database, BecomeDue, Age, LeaseExpires, Purge, contentVars
<1>6. ASSUME NEW w \in Workers, Dispatch(w)
      PROVE  TypeOK'
  <2>1. Idle \in Worker
    BY PayloadTypes, LimitAssumption DEF Idle, Worker
  <2>2. ASSUME Done(w)
        PROVE  worker' \in [Workers -> Worker] /\ \A v \in Workers : worker'[v].pc # "idle" => worker'[v].id \in Ids
    BY <2>1, <2>2 DEF Done, Idle
  <2>3. ASSUME NEW pc \in {"accepted", "refused"},
               NEW e \in Paths \cup {OtherError, ClientError},
               worker[w].pc # "idle", Answer(w, pc, e)
        PROVE  worker' \in [Workers -> Worker] /\ \A v \in Workers : worker'[v].pc # "idle" => worker'[v].id \in Ids
    <3>1. [worker[w] EXCEPT !.pc = pc, !.error = e] \in Worker
      BY DEF Worker
    <3>2. worker' = [worker EXCEPT ![w] = [worker[w] EXCEPT !.pc = pc, !.error = e]]
      BY <2>3 DEF Answer
    <3>3. [worker[w] EXCEPT !.pc = pc, !.error = e].id = worker[w].id
      BY DEF Worker
    <3> QED
      BY <2>3, <3>1, <3>2, <3>3
  <2>4. Refreshed(worker[w].payload) \subseteq Paths
    BY DEF Refreshed
  <2>5. ASSUME NEW i \in Ids, Claim(w, i) PROVE TypeOK'
    <3>1. \A r \in Row, pl \in Payload :
            [r EXCEPT !.status = "processing", !.token = w, !.lapsed = FALSE,
                      !.payload = pl] \in Row
      BY DEF Row, Statuses
    <3>2. row' \in [Ids -> Row]
      BY <2>5, <3>1, ReconcileType DEF Claim
    <3>3. [pc |-> "claimed", id |-> i, key |-> row[i].key,
           payload |-> ReconcileDeletedOffer(i), attempts |-> row[i].attempts,
           error |-> OtherError] \in Worker
      BY ReconcileType DEF Row, Worker
    <3>4. /\ worker' \in [Workers -> Worker]
          /\ \A v \in Workers : worker'[v].pc # "idle" => worker'[v].id \in Ids
      BY <2>5, <3>3 DEF Claim
    <3> QED
      BY <2>5, <3>2, <3>4 DEF Claim, contentVars
  <2>6. ASSUME NEW i \in Ids, ClaimUnreadable(w, i) PROVE TypeOK'
    BY <2>6, SettledType, AheadTypes DEF ClaimUnreadable, Statuses, contentVars
  <2>7. ASSUME NEW j \in Ids, MergeIntoNewer(w, j) PROVE TypeOK'
    <3>1. Bound(Merge(worker[w].payload, row[j].payload)) \in Payload
      BY PayloadTypes DEF Row, Worker
    <3>2. Recorded(worker[w].error) \in Paths \cup {OtherError}
      BY DEF Recorded, Worker
    <3>3. Settled("superseded") \in Row
      BY SettledType DEF Statuses
    <3>6. \A r \in Row, pl \in Payload, n \in 0..ManualLimit, e \in Paths \cup {OtherError} :
            [r EXCEPT !.payload = pl, !.attempts = IF @ > n THEN @ ELSE n,
                      !.lastError = e] \in Row
      <4> TAKE r \in Row, pl \in Payload, n \in 0..ManualLimit, e \in Paths \cup {OtherError}
      <4>1. (IF r.attempts > n THEN r.attempts ELSE n) \in 0..ManualLimit
        BY DEF Row
      <4> QED
        BY <4>1 DEF Row
    <3> DEFINE merged == [row[j] EXCEPT
                 !.payload = Bound(Merge(worker[w].payload, row[j].payload)),
                 !.attempts = IF @ > NextAttempt(w) THEN @ ELSE NextAttempt(w),
                 !.lastError = Recorded(worker[w].error)]
    <3>7. merged \in Row
      <4>1. NextAttempt(w) \in 0..ManualLimit
        BY AttemptType
      <4> QED
        BY <3>1, <3>2, <3>6, <4>1
    <3>8. \/ row' = [row EXCEPT ![j] = merged, ![worker[w].id] = Settled("superseded")]
          \/ row' = [row EXCEPT ![j] = merged]
      BY <2>7 DEF MergeIntoNewer
    <3> HIDE DEF merged
    <3>4. row' \in [Ids -> Row]
      BY <3>3, <3>7, <3>8
    <3>5. ahead' \in [Ids -> SUBSET Ids]
      <4>1. \/ ahead' = [k \in Ids |-> IF k \in {worker[w].id, j} THEN {}
                                       ELSE ahead[k] \ {worker[w].id, j}]
            \/ ahead' = NotDue(j)
        BY <2>7 DEF MergeIntoNewer
      <4>2. ahead \in [Ids -> SUBSET Ids]
        OBVIOUS
      <4> QED
        BY <4>1, <4>2 DEF NotDue
    <3> QED
      BY <2>2, <2>7, <3>4, <3>5 DEF MergeIntoNewer, contentVars
  <2>8. CASE PostAccepted(w)
    BY <2>3, <2>4, <2>8 DEF PostAccepted
  <2>9. CASE PostSkipped(w)
    <3>1. Skipped(worker[w].payload) \subseteq Paths
      BY DEF Skipped, Required, Worker, Payload
    <3> QED
      BY <2>3, <2>4, <2>9, <3>1 DEF PostSkipped
  <2>10. CASE PostRejected(w)
    BY <2>3, <2>10 DEF PostRejected, contentVars
  <2>11. ASSUME NEW D \in SUBSET Paths, PostFailed(w, D) PROVE TypeOK'
    BY <2>3, <2>4, <2>11 DEF PostFailed
  <2>12. CASE MarkDelivered(w)
    <3>1. worker[w].id \in Ids
      BY <2>12 DEF MarkDelivered
    <3>2. Settled("delivered") \in Row
      BY SettledType DEF Statuses
    <3> QED
      BY <2>2, <2>12, <3>1, <3>2, AheadTypes DEF MarkDelivered, contentVars
  <2>13. CASE MarkDeliveredThrows(w)
    BY <2>3, <2>13 DEF MarkDeliveredThrows, contentVars
  <2>14. CASE FailManual(w)
    <3>1. worker[w].id \in Ids
      BY <2>14 DEF FailManual
    <3>2. Settled("failed") \in Row
      BY SettledType DEF Statuses
    <3>3. row' \in [Ids -> Row]
      BY <2>14, <3>1, <3>2 DEF FailManual
    <3>4. ahead' \in [Ids -> SUBSET Ids]
      BY <2>14, <3>1, AheadTypes DEF FailManual
    <3> QED
      BY <2>2, <2>14, <3>3, <3>4 DEF FailManual, contentVars
  <2>15. CASE ReturnToPending(w)
    <3>1. Recorded(worker[w].error) \in Paths \cup {OtherError}
      BY DEF Recorded, Worker
    <3>3. \A r \in Row, n \in 0..ManualLimit, e \in Paths \cup {OtherError, NoError} :
            [r EXCEPT !.status = "pending", !.token = Nobody, !.lapsed = FALSE,
                      !.attempts = n, !.lastError = e] \in Row
      BY DEF Row, Statuses
    <3>4. NextAttempt(w) \in 0..ManualLimit
      BY AttemptType
    <3>5. worker[w].id \in Ids
      BY <2>15 DEF ReturnToPending
    <3> DEFINE returned == [row[worker[w].id] EXCEPT
                 !.status = "pending", !.token = Nobody, !.lapsed = FALSE,
                 !.attempts = NextAttempt(w),
                 !.lastError = Recorded(worker[w].error)]
    <3>6. returned \in Row
      BY <3>1, <3>3, <3>4, <3>5
    <3>7. row' = [row EXCEPT ![worker[w].id] = returned] \/ row' = row
      BY <2>15 DEF ReturnToPending
    <3> HIDE DEF returned
    <3>2. row' \in [Ids -> Row]
      BY <3>6, <3>7
    <3> QED
      BY <2>2, <2>15, <3>2, <3>5, AheadTypes DEF ReturnToPending, contentVars
  <2>16. CASE Crash(w)
    BY <2>2, <2>16 DEF Crash, contentVars
  <2> QED
    BY <1>6, <2>5, <2>6, <2>7, <2>8, <2>9, <2>10, <2>11, <2>12, <2>13, <2>14,
       <2>15, <2>16, ThrowIsCrash DEF Dispatch
<1> QED
  BY <1>1, <1>3, <1>4, <1>5, <1>6 DEF Next

\* The initial rows, with or without a legacy one, are well typed.
LEMMA TypeInit == Init => TypeOK
<1> SUFFICES ASSUME Init PROVE TypeOK
  OBVIOUS
<1>1. \A k \in Keys \cup {NoKey}, reason \in {"write", "manual"} : Legacy(k, reason) \in Row
  <2>1. \A r \in Row, k \in Keys \cup {NoKey}, reason \in {"write", "manual"} :
          [r EXCEPT !.key = k, !.reason = reason, !.parses = FALSE] \in Row
    BY DEF Row, Reasons
  <2> QED
    BY <2>1, SettledType DEF Legacy, Statuses
<1>2. row \in [Ids -> Row]
  BY <1>1, SettledType DEF Init, Statuses
<1>3. Idle \in Worker
  BY PayloadTypes, LimitAssumption DEF Idle, Worker
<1> QED
  BY <1>2, <1>3 DEF Init, TypeOK, Idle

\* The rows, the dispatchers and the gateway's registry keep their types.
THEOREM TypeCorrect == Spec => []TypeOK
<1>1. Init => TypeOK
  BY TypeInit
<1>2. TypeOK /\ [Next]_vars => TypeOK'
  BY TypeStep
<1> QED
  BY <1>1, <1>2, PTL DEF Spec

(***************************************************************************)
(* What each step that writes a row leaves in it.                          *)
(***************************************************************************)
LEMMA InsertEffect ==
    ASSUME TypeOK, NEW write \in Writes, NEW i \in Ids, InsertRow(write, i)
    PROVE  /\ \A j \in Ids \ {i} : row'[j] = row[j]
           /\ row[i].status = "absent"
           /\ row'[i].status = "pending"
           /\ row'[i].key = write.key
           /\ row'[i].payload = Bound(write.payload)
           /\ row'[i].parses
           /\ PendingOf(write.key) = {}
           /\ Change(write)
<1> DEFINE inserted == [Settled("pending") EXCEPT
               !.key = write.key, !.reason = write.reason, !.payload = Bound(write.payload),
               !.lastError = Untried(write.key)]
<1>1. row' = [row EXCEPT ![i] = inserted]
  BY DEF InsertRow
<1>2. /\ inserted.status = "pending"
      /\ inserted.key = write.key
      /\ inserted.payload = Bound(write.payload)
      /\ inserted.parses
  BY DEF Settled
<1> HIDE DEF inserted
<1>3. row'[i] = inserted /\ \A j \in Ids \ {i} : row'[j] = row[j]
  BY <1>1 DEF TypeOK
<1> QED
  BY <1>2, <1>3 DEF InsertRow, Free

\* What coalescing into a pending row changes, and what it keeps of every row.
LEMMA MergeEffect ==
    ASSUME TypeOK, NEW write \in Writes, NEW i \in Ids, MergeIntoPending(write, i)
    PROVE  /\ \A j \in Ids \ {i} : row'[j] = row[j]
           /\ row[i].status = "pending"
           /\ row'[i].status = "pending"
           /\ row[i].parses
           /\ row'[i].parses
           /\ row[i].key = write.key
           /\ row'[i].key = row[i].key
           /\ row'[i].payload = Bound(Merge(row[i].payload, Bound(write.payload)))
           /\ Mergeable(row[i].payload, write.payload)
           /\ Change(write)
<1> DEFINE pl == Bound(Merge(row[i].payload, Bound(write.payload)))
<1> DEFINE merged == [row[i] EXCEPT !.payload = pl, !.reason = write.reason]
<1>1. row' = [row EXCEPT ![i] = merged]
  BY DEF MergeIntoPending
<1>2. row[i] \in Row /\ row[i].status = "pending" /\ row[i].parses /\ row[i].key = write.key
  BY DEF TypeOK, MergeIntoPending, PendingOf
<1> HIDE DEF pl
<1>3. /\ merged.status = row[i].status
      /\ merged.parses = row[i].parses
      /\ merged.key = row[i].key
      /\ merged.payload = pl
  BY <1>2 DEF Row
<1> HIDE DEF merged
<1>4. row'[i] = merged /\ \A j \in Ids \ {i} : row'[j] = row[j]
  BY <1>1 DEF TypeOK
<1> QED
  BY <1>2, <1>3, <1>4 DEF MergeIntoPending, pl

\* The passage of time changes no row's key, payload or liveness.
LEMMA ClockEffect ==
    ASSUME TypeOK, NEW i \in Ids, BecomeDue(i) \/ Age(i) \/ LeaseExpires(i)
    PROVE  /\ worker' = worker
           /\ unsent' = unsent
           /\ \A j \in Ids : /\ row'[j].status = row[j].status
                             /\ row'[j].token = row[j].token
                             /\ row'[j].payload = row[j].payload
                             /\ row'[j].key = row[j].key
                             /\ row'[j].parses = row[j].parses
<1>1. row[i] \in Row
  BY DEF TypeOK
<1>2. row' = row \/ row' = [row EXCEPT ![i] = [row[i] EXCEPT !.aged = TRUE]]
                 \/ row' = [row EXCEPT ![i] = [row[i] EXCEPT !.lapsed = TRUE]]
  BY DEF BecomeDue, Age, LeaseExpires
<1>3. \A r \in {[row[i] EXCEPT !.aged = TRUE], [row[i] EXCEPT !.lapsed = TRUE]} :
         /\ r.status = row[i].status
         /\ r.token = row[i].token
         /\ r.payload = row[i].payload
         /\ r.key = row[i].key
         /\ r.parses = row[i].parses
  BY <1>1 DEF Row
<1>4. worker' = worker /\ unsent' = unsent
  BY DEF BecomeDue, Age, LeaseExpires, contentVars
<1> QED
  BY <1>2, <1>3, <1>4 DEF TypeOK

\* Purge and the refusal of an unreadable row end the row and touch no other.
LEMMA EndEffect ==
    ASSUME TypeOK, NEW i \in Ids,
           Purge(i) \/ \E w \in Workers : ClaimUnreadable(w, i)
    PROVE  /\ worker' = worker
           /\ unsent' = unsent
           /\ \A j \in Ids \ {i} : row'[j] = row[j]
           /\ row'[i].status \notin {"pending", "processing"}
           /\ row'[i].payload = NoPayload
           /\ Live(i) => ~row[i].parses
BY DEF TypeOK, Purge, ClaimUnreadable, Settled, contentVars, Live, Terminal

\* A claim hands the row's repaired payload to one dispatcher and nothing else
\* changes.
LEMMA ClaimEffect ==
    ASSUME TypeOK, NEW w \in Workers, NEW i \in Ids, Claim(w, i)
    PROVE  /\ unsent' = unsent
           /\ \A j \in Ids \ {i} : row'[j] = row[j]
           /\ row[i].status \in {"pending", "processing"}
           /\ row[i].parses
           /\ row'[i].status = "processing"
           /\ row'[i].token = w
           /\ row'[i].parses
           /\ row'[i].key = row[i].key
           /\ row'[i].payload = ReconcileDeletedOffer(i)
           /\ \A v \in Workers \ {w} : worker'[v] = worker[v]
           /\ worker'[w].pc = "claimed"
           /\ worker'[w].id = i
           /\ worker'[w].key = row[i].key
           /\ worker'[w].payload = ReconcileDeletedOffer(i)
<1> DEFINE claimed == [row[i] EXCEPT !.status = "processing", !.token = w,
                                     !.lapsed = FALSE, !.payload = ReconcileDeletedOffer(i)]
<1>1. row' = [row EXCEPT ![i] = claimed]
  BY DEF Claim
<1>2. row[i] \in Row
  BY DEF TypeOK
<1>3. /\ claimed.status = "processing"
      /\ claimed.token = w
      /\ claimed.parses = row[i].parses
      /\ claimed.key = row[i].key
      /\ claimed.payload = ReconcileDeletedOffer(i)
  BY <1>2 DEF Row
<1> HIDE DEF claimed
<1>4. row'[i] = claimed /\ \A j \in Ids \ {i} : row'[j] = row[j]
  BY <1>1 DEF TypeOK
<1>5. /\ \A v \in Workers \ {w} : worker'[v] = worker[v]
      /\ worker'[w].pc = "claimed"
      /\ worker'[w].id = i
      /\ worker'[w].key = row[i].key
      /\ worker'[w].payload = ReconcileDeletedOffer(i)
  BY DEF TypeOK, Claim
<1>6. /\ unsent' = unsent
      /\ row[i].status \in {"pending", "processing"}
      /\ row[i].parses
  BY DEF Claim, contentVars, First, Claimable
<1> QED
  BY <1>3, <1>4, <1>5, <1>6

\* An answer of the gateway changes one dispatcher's phase and error only.
LEMMA AnswerEffect ==
    ASSUME TypeOK, NEW w \in Workers, NEW pc, NEW e, Answer(w, pc, e)
    PROVE  /\ \A v \in Workers \ {w} : worker'[v] = worker[v]
           /\ worker'[w].pc = pc
           /\ worker'[w].id = worker[w].id
           /\ worker'[w].key = worker[w].key
           /\ worker'[w].payload = worker[w].payload
<1>1. worker[w] \in Worker /\ worker \in [Workers -> Worker]
  BY DEF TypeOK
<1>2. LET r == [worker[w] EXCEPT !.pc = pc, !.error = e]
      IN /\ r.pc = pc
         /\ r.id = worker[w].id
         /\ r.key = worker[w].key
         /\ r.payload = worker[w].payload
  BY <1>1 DEF Worker
<1> QED
  BY <1>1, <1>2 DEF Answer

\* A dispatcher that finishes becomes idle; the others go on.
LEMMA DoneEffect ==
    ASSUME TypeOK, NEW w \in Workers, Done(w)
    PROVE  /\ \A v \in Workers \ {w} : worker'[v] = worker[v]
           /\ worker'[w].pc = "idle"
           /\ worker'[w].payload = NoPayload
BY DEF TypeOK, Done, Idle

\* A settlement by the owner takes its row out of processing; anyone else's
\* changes no row.
LEMMA SettleEffect ==
    ASSUME TypeOK, NEW w \in Workers,
           MarkDelivered(w) \/ FailManual(w) \/ ReturnToPending(w)
    PROVE  /\ unsent' = unsent
           /\ Done(w)
           /\ worker[w].pc # "idle"
           /\ worker[w].id \in Ids
           /\ ~Owns(w) => row' = row
           /\ Owns(w) => /\ \A j \in Ids \ {worker[w].id} : row'[j] = row[j]
                         /\ row'[worker[w].id].status # "processing"
<1>1. /\ unsent' = unsent
      /\ Done(w)
      /\ worker[w].pc # "idle"
      /\ worker[w].id \in Ids
      /\ ~Owns(w) => row' = row
  BY DEF TypeOK, MarkDelivered, FailManual, ReturnToPending, contentVars
<1>2. ASSUME Owns(w)
      PROVE  /\ \A j \in Ids \ {worker[w].id} : row'[j] = row[j]
             /\ row'[worker[w].id].status # "processing"
  <2>1. CASE MarkDelivered(w) \/ FailManual(w)
    BY <1>1, <1>2, <2>1 DEF TypeOK, MarkDelivered, FailManual, Settled
  <2>2. CASE ReturnToPending(w)
    <3> DEFINE returned == [row[worker[w].id] EXCEPT
                 !.status = "pending", !.token = Nobody, !.lapsed = FALSE,
                 !.attempts = NextAttempt(w),
                 !.lastError = Recorded(worker[w].error)]
    <3>1. row[worker[w].id] \in Row
      BY <1>1 DEF TypeOK
    <3>2. returned.status = "pending"
      BY <3>1 DEF Row
    <3>3. row' = [row EXCEPT ![worker[w].id] = returned]
      BY <1>2, <2>2 DEF ReturnToPending
    <3> HIDE DEF returned
    <3> QED
      BY <1>1, <3>2, <3>3 DEF TypeOK
  <2> QED
    BY <2>1, <2>2
<1> QED
  BY <1>1, <1>2

\* The owner's retry without a newer row keeps the row's key and payload.
LEMMA ReturnEffect ==
    ASSUME TypeOK, NEW w \in Workers, ReturnToPending(w), Owns(w)
    PROVE  LET i == worker[w].id
           IN /\ row'[i].status = "pending"
              /\ row'[i].key = row[i].key
              /\ row'[i].payload = row[i].payload
              /\ row'[i].parses = row[i].parses
<1> DEFINE i == worker[w].id
<1> DEFINE returned == [row[i] EXCEPT
               !.status = "pending", !.token = Nobody, !.lapsed = FALSE,
               !.attempts = NextAttempt(w),
               !.lastError = Recorded(worker[w].error)]
<1>1. i \in Ids /\ row[i] \in Row
  BY DEF TypeOK, ReturnToPending
<1>2. /\ returned.status = "pending"
      /\ returned.key = row[i].key
      /\ returned.payload = row[i].payload
      /\ returned.parses = row[i].parses
  BY <1>1 DEF Row
<1>3. row' = [row EXCEPT ![i] = returned]
  BY DEF ReturnToPending
<1> HIDE DEF returned
<1> QED
  BY <1>1, <1>2, <1>3 DEF TypeOK

\* What merging a failed payload into a newer pending row changes, with or
\* without the lease.
LEMMA RetryEffect ==
    ASSUME TypeOK, NEW w \in Workers, NEW j \in Ids, MergeIntoNewer(w, j)
    PROVE  LET i == worker[w].id
           IN /\ unsent' = unsent
              /\ Done(w)
              /\ worker[w].pc = "refused"
              /\ i \in Ids
              /\ i # j
              /\ worker[w].key # NoKey
              /\ row[j].status = "pending"
              /\ row[j].key = worker[w].key
              /\ row[j].parses
              /\ Mergeable(worker[w].payload, row[j].payload)
              /\ row'[j].status = "pending"
              /\ row'[j].key = row[j].key
              /\ row'[j].parses = row[j].parses
              /\ row'[j].payload = Bound(Merge(worker[w].payload, row[j].payload))
              /\ \A k \in Ids \ {i, j} : row'[k] = row[k]
              /\ ~Owns(w) => row'[i] = row[i]
              /\ Owns(w) => /\ row'[i].status = "superseded"
                            /\ row'[i].payload = NoPayload
<1> DEFINE i == worker[w].id
<1> DEFINE pl == Bound(Merge(worker[w].payload, row[j].payload))
<1> DEFINE merged == [row[j] EXCEPT
                 !.payload = pl,
                 !.attempts = IF @ > NextAttempt(w) THEN @ ELSE NextAttempt(w),
                 !.lastError = Recorded(worker[w].error)]
<1>1. /\ unsent' = unsent
      /\ Done(w)
      /\ worker[w].pc = "refused"
      /\ i \in Ids
      /\ i # j
      /\ worker[w].key # NoKey
      /\ row[j].status = "pending"
      /\ row[j].key = worker[w].key
      /\ row[j].parses
      /\ Mergeable(worker[w].payload, row[j].payload)
  BY DEF TypeOK, MergeIntoNewer, CanMerge, Newer, PendingOf, contentVars
<1>2. IF Owns(w) THEN row' = [row EXCEPT ![j] = merged, ![i] = Settled("superseded")]
                 ELSE row' = [row EXCEPT ![j] = merged]
  BY DEF MergeIntoNewer
<1>3. row[j] \in Row
  BY DEF TypeOK
<1> HIDE DEF pl
<1>4. /\ merged.status = row[j].status
      /\ merged.key = row[j].key
      /\ merged.parses = row[j].parses
      /\ merged.payload = pl
  BY <1>3 DEF Row
<1> HIDE DEF merged
<1>5. /\ row'[j] = merged
      /\ \A k \in Ids \ {i, j} : row'[k] = row[k]
      /\ ~Owns(w) => row'[i] = row[i]
      /\ Owns(w) => row'[i] = Settled("superseded")
  BY <1>1, <1>2 DEF TypeOK
<1>6. /\ Settled("superseded").status = "superseded"
      /\ Settled("superseded").payload = NoPayload
  BY DEF Settled
<1> QED
  BY <1>1, <1>4, <1>5, <1>6 DEF pl

(***************************************************************************)
(* While a dispatcher owns its row, its copy of payload and key is exact.  *)
(***************************************************************************)
LEMMA EventStep ==
    ASSUME TypeOK, EventIsTheRow, [Next]_vars
    PROVE  EventIsTheRow'
<1> DEFINE Copy(v) == worker[v].pc # "idle" /\ Owns(v)
                        => /\ worker[v].payload = row[worker[v].id].payload
                           /\ worker[v].key = row[worker[v].id].key
<1> SUFFICES ASSUME NEW v \in Workers
             PROVE  Copy(v)'
  BY DEF EventIsTheRow
<1>1. Copy(v)
  BY DEF EventIsTheRow
<1>2. \A w \in Workers : worker[w].pc # "idle" => worker[w].id \in Ids
  BY DEF TypeOK
<1>3. CASE UNCHANGED vars
  BY <1>1, <1>3 DEF vars, Owns
<1>4. ASSUME NEW write \in Writes, NEW i \in Ids,
             InsertRow(write, i) \/ MergeIntoPending(write, i)
      PROVE  Copy(v)'
  <2>1. /\ \A j \in Ids \ {i} : row'[j] = row[j]
        /\ row'[i].status = "pending"
        /\ Change(write)
    BY <1>4, InsertEffect, MergeEffect
  <2>2. worker' = worker
    BY <2>1 DEF Change
  <2> QED
    BY <1>1, <1>2, <2>1, <2>2 DEF Owns
<1>5. ASSUME NEW i \in Ids, Database(i)
      PROVE  Copy(v)'
  <2>1. CASE BecomeDue(i) \/ Age(i) \/ LeaseExpires(i)
    BY <1>1, <1>2, <2>1, ClockEffect DEF Owns
  <2>2. CASE Purge(i)
    <3>1. /\ worker' = worker
          /\ \A j \in Ids \ {i} : row'[j] = row[j]
          /\ row'[i].status # "processing"
      BY <2>2, EndEffect
    <3> QED
      BY <1>1, <1>2, <3>1 DEF Owns
  <2> QED
    BY <1>5, <2>1, <2>2 DEF Database
<1>6. ASSUME NEW w \in Workers, Dispatch(w)
      PROVE  Copy(v)'
  <2>1. ASSUME Done(w), row' = row
        PROVE  Copy(v)'
    BY <1>1, <2>1, DoneEffect DEF Owns
  <2>2. ASSUME NEW pc, NEW e, worker[w].pc # "idle", Answer(w, pc, e), row' = row
        PROVE  Copy(v)'
    BY <1>1, <2>2, AnswerEffect DEF Owns
  <2>3. ASSUME NEW i \in Ids, Claim(w, i) PROVE Copy(v)'
    <3>1. CASE v = w
      BY <2>3, <3>1, ClaimEffect DEF Owns
    <3>2. CASE v # w
      <4>1. /\ worker'[v] = worker[v]
            /\ row'[i].token = w
            /\ \A j \in Ids \ {i} : row'[j] = row[j]
        BY <2>3, <3>2, ClaimEffect
      <4> QED
        BY <1>1, <1>2, <3>2, <4>1 DEF Owns
    <3> QED
      BY <3>1, <3>2
  <2>4. ASSUME NEW i \in Ids, ClaimUnreadable(w, i) PROVE Copy(v)'
    <3>1. /\ worker' = worker
          /\ \A j \in Ids \ {i} : row'[j] = row[j]
          /\ row'[i].status # "processing"
      BY <2>4, EndEffect
    <3> QED
      BY <1>1, <1>2, <3>1 DEF Owns
  <2>5. ASSUME NEW j \in Ids, MergeIntoNewer(w, j) PROVE Copy(v)'
    <3>1. /\ row'[j].status = "pending"
          /\ \A k \in Ids \ {j, worker[w].id} : row'[k] = row[k]
          /\ \/ row'[worker[w].id] = row[worker[w].id]
             \/ row'[worker[w].id].status = "superseded"
      BY <2>5, RetryEffect
    <3>2. /\ worker'[w].pc = "idle"
          /\ v # w => worker'[v] = worker[v]
      BY <2>5, DoneEffect, RetryEffect
    <3> QED
      BY <1>1, <1>2, <3>1, <3>2 DEF Owns
  <2>6. CASE PostAccepted(w) \/ PostSkipped(w) \/ PostRejected(w)
    BY <2>2, <2>6 DEF PostAccepted, PostSkipped, PostRejected
  <2>7. ASSUME NEW D \in SUBSET Paths, PostFailed(w, D) PROVE Copy(v)'
    BY <2>2, <2>7 DEF PostFailed
  <2>8. CASE MarkDeliveredThrows(w)
    BY <2>2, <2>8 DEF MarkDeliveredThrows
  <2>9. CASE MarkDelivered(w) \/ FailManual(w) \/ ReturnToPending(w)
    <3>1. /\ worker'[w].pc = "idle"
          /\ v # w => worker'[v] = worker[v]
          /\ worker[w].id \in Ids
      BY <2>9, DoneEffect, SettleEffect
    <3>2. \/ row' = row
          \/ /\ \A j \in Ids \ {worker[w].id} : row'[j] = row[j]
             /\ row'[worker[w].id].status # "processing"
      BY <2>9, SettleEffect
    <3> QED
      BY <1>1, <1>2, <3>1, <3>2 DEF Owns
  <2>10. CASE Crash(w)
    BY <2>1, <2>10 DEF Crash
  <2> QED
    BY <1>6, <2>3, <2>4, <2>5, <2>6, <2>7, <2>8, <2>9, <2>10, ThrowIsCrash DEF Dispatch
<1> QED
  BY <1>3, <1>4, <1>5, <1>6 DEF Next

(***************************************************************************)
(* Every stored and every claimed payload is local, and is one the parser  *)
(* accepts while somebody may still read it.                               *)
(***************************************************************************)
RowSound(i) == /\ Local(row[i].payload)
               /\ ~row[i].parses => row[i].payload = NoPayload
               /\ row[i].status = "processing" => row[i].parses
               /\ Live(i) /\ row[i].parses => Parses(row[i].payload)

WorkerSound(w) == /\ Local(worker[w].payload)
                  /\ worker[w].pc # "idle" => Parses(worker[w].payload)

PayloadsSound == /\ \A i \in Ids : RowSound(i)
                 /\ \A w \in Workers : WorkerSound(w)

\* A write's bounded payload parses and stays within its language.
LEMMA WriteSound ==
    ASSUME NEW write \in Writes
    PROVE  /\ Parses(write.payload)
           /\ Local(write.payload)
           /\ Parses(Bound(write.payload))
           /\ Local(Bound(write.payload))
           /\ Bound(write.payload) \in Payload
           /\ Pages(write.payload) \subseteq Pages(Bound(write.payload))
           /\ Bound(write.payload).locale = write.payload.locale
           /\ Bound(write.payload).manual = write.payload.manual
           /\ write.payload.manual <=> write.reason = "manual"
<1>1. /\ Parses(write.payload)
      /\ Local(write.payload)
      /\ write.payload.manual <=> write.reason = "manual"
  BY WritesAssumption
<1>2. write.payload \in Payload
  BY WriteType
<1> QED
  BY <1>1, <1>2, BoundCovers, PayloadTypes, StoredParses

\* Merging two sound payloads of one locale and widening the union is sound
\* and asks for every page of both.
LEMMA MergeSound ==
    ASSUME NEW p \in Payload, NEW q \in Payload,
           Parses(p), Parses(q), Local(p), Local(q), p.locale = q.locale
    PROVE  /\ Bound(Merge(p, q)) \in Payload
           /\ Parses(Bound(Merge(p, q)))
           /\ Local(Bound(Merge(p, q)))
           /\ Pages(p) \cup Pages(q) \subseteq Pages(Bound(Merge(p, q)))
           /\ Bound(Merge(p, q)).manual = p.manual
<1>1. /\ Merge(p, q) \in Payload
      /\ Parses(Merge(p, q))
  BY PayloadTypes, StoredParses
<1>2. /\ Pages(p) \cup Pages(q) \subseteq Pages(Merge(p, q))
      /\ Local(Merge(p, q))
      /\ Merge(p, q).manual = p.manual
  BY MergeCovers
<1> QED
  BY <1>1, <1>2, BoundCovers, PayloadTypes, StoredParses

\* The deletion repair relaxes one path and changes nothing else.
LEMMA ReconcileSound ==
    ASSUME TypeOK, NEW i \in Ids
    PROVE  LET pl == ReconcileDeletedOffer(i)
           IN /\ Pages(pl) = Pages(row[i].payload)
              /\ pl.manual = row[i].payload.manual
              /\ Local(row[i].payload) => Local(pl)
              /\ Parses(row[i].payload) => Parses(pl)
<1> DEFINE old == row[i].payload
<1> DEFINE p == row[i].lastError
<1>1. old \in Payload
  BY DEF TypeOK, Row
<1>2. CASE ReconcileDeletedOffer(i) = old
  BY <1>2
<1>3. CASE /\ p \in OfferPaths \cap Required(old)
           /\ ReconcileDeletedOffer(i) = [old EXCEPT !.optional = @ \cup {p}]
  <2> DEFINE pl == [old EXCEPT !.optional = @ \cup {p}]
  <2>1. /\ pl.all = old.all
        /\ pl.paths = old.paths
        /\ pl.locale = old.locale
        /\ pl.manual = old.manual
        /\ pl.optional = old.optional \cup {p}
    BY <1>1 DEF Payload
  <2>2. p \in old.paths
    BY <1>3 DEF Required
  <2>3. pl \in Payload
    BY <1>3, ReconcileType
  <2> HIDE DEF pl, old, p
  <2>4. /\ Pages(pl) = Pages(old)
        /\ Local(old) => Local(pl)
        /\ Parses(old) => Parses(pl)
    BY <2>1, <2>2, <2>3 DEF Pages, Local, Parses, HasWork
  <2> QED
    BY <1>3, <2>1, <2>4 DEF pl, old
<1> QED
  BY <1>2, <1>3 DEF ReconcileDeletedOffer

\* Every step keeps rows and claimed events parseable, local and of their key's
\* kind.
LEMMA SoundStep ==
    ASSUME TypeOK, PayloadsSound, [Next]_vars
    PROVE  PayloadsSound'
<1>1. /\ \A i \in Ids : RowSound(i)
      /\ \A w \in Workers : WorkerSound(w)
      /\ \A i \in Ids : row[i].payload \in Payload
      /\ \A w \in Workers : worker[w].payload \in Payload
  BY DEF PayloadsSound, TypeOK, Row, Worker
<1>2. Local(NoPayload)
  BY DEF Local, NoPayload
<1>3. CASE UNCHANGED vars
  BY <1>1, <1>3 DEF vars, PayloadsSound, RowSound, WorkerSound, Live
<1>4. ASSUME NEW write \in Writes, NEW i \in Ids, InsertRow(write, i)
      PROVE  PayloadsSound'
  <2>1. RowSound(i)'
    BY <1>4, InsertEffect, WriteSound DEF RowSound
  <2>2. worker' = worker
    BY <1>4, InsertEffect DEF Change
  <2> QED
    BY <1>1, <1>4, <2>1, <2>2, InsertEffect DEF PayloadsSound, RowSound, WorkerSound, Live
<1>5. ASSUME NEW write \in Writes, NEW i \in Ids, MergeIntoPending(write, i)
      PROVE  PayloadsSound'
  <2>1. /\ Parses(row[i].payload)
        /\ Local(row[i].payload)
        /\ row[i].payload.locale = write.payload.locale
    BY <1>1, <1>5, MergeEffect DEF RowSound, Live, Mergeable
  <2>2. RowSound(i)'
    BY <1>1, <1>5, <2>1, MergeEffect, MergeSound, WriteSound DEF RowSound
  <2>3. worker' = worker
    BY <1>5, MergeEffect DEF Change
  <2> QED
    BY <1>1, <1>5, <2>2, <2>3, MergeEffect DEF PayloadsSound, RowSound, WorkerSound, Live
<1>6. ASSUME NEW i \in Ids, BecomeDue(i) \/ Age(i) \/ LeaseExpires(i)
      PROVE  PayloadsSound'
  BY <1>1, <1>6, ClockEffect DEF PayloadsSound, RowSound, WorkerSound, Live
<1>7. ASSUME NEW i \in Ids, Purge(i) \/ \E w \in Workers : ClaimUnreadable(w, i)
      PROVE  PayloadsSound'
  BY <1>1, <1>2, <1>7, EndEffect DEF PayloadsSound, RowSound, WorkerSound, Live
<1>8. ASSUME NEW w \in Workers, NEW i \in Ids, Claim(w, i)
      PROVE  PayloadsSound'
  <2>1. Local(row[i].payload) /\ Parses(row[i].payload)
    BY <1>1, <1>8, ClaimEffect DEF RowSound, Live
  <2>2. RowSound(i)'
    BY <1>8, <2>1, ClaimEffect, ReconcileSound DEF RowSound
  <2>3. WorkerSound(w)'
    BY <1>8, <2>1, ClaimEffect, ReconcileSound DEF WorkerSound
  <2> QED
    BY <1>1, <1>8, <2>2, <2>3, ClaimEffect DEF PayloadsSound, RowSound, WorkerSound, Live
<1>9. ASSUME NEW w \in Workers, NEW pc, NEW e, worker[w].pc # "idle",
             Answer(w, pc, e), row' = row
      PROVE  PayloadsSound'
  BY <1>1, <1>9, AnswerEffect DEF PayloadsSound, RowSound, WorkerSound, Live
<1>10. ASSUME NEW w \in Workers, Done(w), \A i \in Ids : RowSound(i)'
       PROVE  PayloadsSound'
  BY <1>1, <1>2, <1>10, DoneEffect DEF PayloadsSound, WorkerSound
<1>11. ASSUME NEW w \in Workers, NEW j \in Ids, MergeIntoNewer(w, j)
       PROVE  PayloadsSound'
  <2>1. /\ Parses(row[j].payload)
        /\ Local(row[j].payload)
        /\ Parses(worker[w].payload)
        /\ Local(worker[w].payload)
        /\ worker[w].payload.locale = row[j].payload.locale
    BY <1>1, <1>11, RetryEffect DEF RowSound, WorkerSound, Live, Mergeable
  <2>2. RowSound(j)'
    BY <1>1, <1>11, <2>1, RetryEffect, MergeSound DEF RowSound
  <2>3. ASSUME NEW k \in Ids \ {j} PROVE RowSound(k)'
    BY <1>1, <1>2, <1>11, <2>3, RetryEffect DEF RowSound, Live
  <2> QED
    BY <1>10, <1>11, <2>2, <2>3, RetryEffect
<1>12. ASSUME NEW w \in Workers, MarkDelivered(w) \/ FailManual(w) \/ ReturnToPending(w)
       PROVE  PayloadsSound'
  <2>1. ASSUME NEW i \in Ids PROVE RowSound(i)'
    <3>1. CASE row'[i] = row[i]
      BY <1>1, <3>1 DEF RowSound, Live
    <3>2. CASE row'[i] # row[i] /\ ReturnToPending(w)
      <4>1. i = worker[w].id /\ Owns(w)
        BY <3>2, SettleEffect
      <4>2. /\ row'[i].payload = row[i].payload
            /\ row'[i].parses = row[i].parses
            /\ row'[i].status = "pending"
            /\ Live(i)
        BY <3>2, <4>1, ReturnEffect DEF Owns, Live
      <4> QED
        BY <1>1, <4>2 DEF RowSound
    <3>3. CASE row'[i] # row[i] /\ (MarkDelivered(w) \/ FailManual(w))
      <4>1. row'[i] = Settled("delivered") \/ row'[i] = Settled("failed")
        BY <3>3 DEF MarkDelivered, FailManual, TypeOK
      <4> QED
        BY <1>2, <4>1 DEF RowSound, Settled, Live
    <3> QED
      BY <1>12, <3>1, <3>2, <3>3
  <2> QED
    BY <1>10, <1>12, <2>1, SettleEffect
<1>13. ASSUME NEW w \in Workers, Dispatch(w)
       PROVE  PayloadsSound'
  <2>1. CASE PostAccepted(w) \/ PostSkipped(w) \/ PostRejected(w)
    BY <1>9, <2>1 DEF PostAccepted, PostSkipped, PostRejected
  <2>2. ASSUME NEW D \in SUBSET Paths, PostFailed(w, D) PROVE PayloadsSound'
    BY <1>9, <2>2 DEF PostFailed
  <2>3. CASE MarkDeliveredThrows(w)
    BY <1>9, <2>3 DEF MarkDeliveredThrows
  <2>4. CASE Crash(w)
    BY <1>1, <1>10, <2>4 DEF Crash, RowSound, Live
  <2> QED
    BY <1>7, <1>8, <1>11, <1>12, <1>13, <2>1, <2>2, <2>3, <2>4, ThrowIsCrash DEF Dispatch
<1> QED
  BY <1>3, <1>4, <1>5, <1>6, <1>7, <1>13 DEF Next, Database

\* The initial rows are sound.
LEMMA SoundInit == Init => PayloadsSound
<1> SUFFICES ASSUME Init PROVE PayloadsSound
  OBVIOUS
<1>1. Local(NoPayload)
  BY DEF Local, NoPayload
<1>2. \A i \in Ids : \/ row[i] = Settled("absent")
                     \/ \E k, reason : row[i] = Legacy(k, reason)
  BY DEF Init
<1>3. \A k, reason : /\ Legacy(k, reason).payload = NoPayload
                     /\ Legacy(k, reason).status = "pending"
                     /\ ~Legacy(k, reason).parses
  BY DEF Legacy, Settled
<1>4. Settled("absent").payload = NoPayload /\ Settled("absent").status = "absent"
  BY DEF Settled
<1>5. Settled("absent").parses
  BY DEF Settled
<1>6. \A i \in Ids : RowSound(i)
  BY <1>1, <1>2, <1>3, <1>4, <1>5 DEF RowSound, Live
<1>7. \A w \in Workers : WorkerSound(w)
  BY <1>1 DEF Init, WorkerSound, Idle
<1> QED
  BY <1>6, <1>7 DEF PayloadsSound

\* Coalescing, bounding and the deletion repair never store a payload that the
\* parser rejects, so no committed change ends up in an invalid row.
THEOREM StoredPayloadsAlwaysParse == Spec => []StoredPayloadsParse
<1> DEFINE IInv == TypeOK /\ PayloadsSound
<1>1. Init => IInv
  BY TypeInit, SoundInit
<1>2. IInv /\ [Next]_vars => IInv'
  BY TypeStep, SoundStep
<1>3. IInv => StoredPayloadsParse
  BY DEF PayloadsSound, RowSound, StoredPayloadsParse
<1> QED
  BY <1>1, <1>2, <1>3, PTL DEF Spec

(***************************************************************************)
(* At most one pending row per key.                                        *)
(***************************************************************************)
LEMMA OnePendingStep ==
    ASSUME TypeOK, EventIsTheRow, OnePendingPerKey, [Next]_vars
    PROVE  OnePendingPerKey'
<1> DEFINE Waiting(i, k) == row[i].status = "pending" /\ row[i].key = k /\ k # NoKey
<1> SUFFICES ASSUME NEW a \in Ids, NEW b \in Ids, NEW k,
                    Waiting(a, k)', Waiting(b, k)'
             PROVE  a = b
  BY DEF OnePendingPerKey
<1>1. Waiting(a, k) /\ Waiting(b, k) => a = b
  BY DEF OnePendingPerKey
<1>2. \* A step that makes no row pending changes nothing.
      ASSUME \A i \in Ids : row'[i].status = "pending"
                => row[i].status = "pending" /\ row'[i].key = row[i].key
      PROVE  a = b
  BY <1>1, <1>2
<1>3. CASE UNCHANGED vars
  BY <1>1, <1>3 DEF vars
<1>4. ASSUME NEW write \in Writes, NEW i \in Ids, InsertRow(write, i)
      PROVE  a = b
  <2>1. /\ \A j \in Ids \ {i} : row'[j] = row[j]
        /\ row'[i].key = write.key
        /\ \A j \in Ids : ~Waiting(j, write.key)
    BY <1>4, InsertEffect DEF PendingOf
  <2> QED
    BY <1>1, <2>1
<1>5. ASSUME NEW write \in Writes, NEW i \in Ids, MergeIntoPending(write, i)
      PROVE  a = b
  BY <1>2, <1>5, MergeEffect
<1>6. ASSUME NEW i \in Ids, Database(i)
      PROVE  a = b
  <2>1. CASE BecomeDue(i) \/ Age(i) \/ LeaseExpires(i)
    BY <1>2, <2>1, ClockEffect
  <2>2. CASE Purge(i)
    BY <1>2, <2>2, EndEffect
  <2> QED
    BY <1>6, <2>1, <2>2 DEF Database
<1>7. ASSUME NEW w \in Workers, Dispatch(w)
      PROVE  a = b
  <2>1. CASE row' = row
    BY <1>1, <2>1
  <2>2. ASSUME NEW i \in Ids, Claim(w, i) PROVE a = b
    BY <1>2, <2>2, ClaimEffect
  <2>3. ASSUME NEW i \in Ids, ClaimUnreadable(w, i) PROVE a = b
    BY <1>2, <2>3, EndEffect
  <2>4. ASSUME NEW j \in Ids, MergeIntoNewer(w, j) PROVE a = b
    BY <1>2, <2>4, RetryEffect
  <2>5. CASE MarkDelivered(w) \/ FailManual(w)
    <3>1. \A i \in Ids : \/ row'[i] = row[i]
                         \/ row'[i] \in {Settled("delivered"), Settled("failed")}
      BY <2>5 DEF MarkDelivered, FailManual, TypeOK
    <3> QED
      BY <1>2, <3>1 DEF Settled
  <2>6. CASE ReturnToPending(w)
    <3> DEFINE i == worker[w].id
    <3>1. CASE ~Owns(w)
      BY <1>1, <2>6, <3>1, SettleEffect
    <3>2. CASE Owns(w)
      <4>1. /\ i \in Ids
            /\ \A j \in Ids \ {i} : row'[j] = row[j]
            /\ row'[i].key = row[i].key
        BY <2>6, <3>2, SettleEffect, ReturnEffect
      <4>2. row[i].key = worker[w].key
        BY <2>6, <3>2, SettleEffect DEF EventIsTheRow
      <4>3. \A j \in Ids \ {i} : ~Waiting(j, row[i].key)
        BY <2>6, <4>2 DEF ReturnToPending, Newer, PendingOf
      <4> QED
        BY <1>1, <4>1, <4>3
    <3> QED
      BY <3>1, <3>2
  <2>7. \/ row' = row
        \/ \E i \in Ids : Claim(w, i) \/ ClaimUnreadable(w, i) \/ MergeIntoNewer(w, i)
        \/ MarkDelivered(w) \/ FailManual(w) \/ ReturnToPending(w)
    BY <1>7 DEF Dispatch, PostAccepted, PostSkipped, PostRejected, PostFailed,
                MarkDeliveredThrows, RetryThrows, Crash
  <2> QED
    BY <2>1, <2>2, <2>3, <2>4, <2>5, <2>6, <2>7
<1> QED
  BY <1>3, <1>4, <1>5, <1>6, <1>7 DEF Next

\* Initially at most one row is pending and no dispatcher holds one.
LEMMA OnePendingInit == Init => EventIsTheRow /\ OnePendingPerKey
<1> SUFFICES ASSUME Init PROVE EventIsTheRow /\ OnePendingPerKey
  OBVIOUS
<1>1. EventIsTheRow
  BY DEF Init, EventIsTheRow, Idle
<1>2. CASE row = [i \in Ids |-> Settled("absent")]
  <2>1. \A i \in Ids : row[i].status # "pending"
    BY <1>2 DEF Settled
  <2> QED
    BY <1>1, <2>1 DEF OnePendingPerKey
<1>3. CASE \E i \in Ids, k \in Keys \cup {NoKey}, reason \in {"write", "manual"} :
             row = [j \in Ids |-> IF j = i THEN Legacy(k, reason)
                                           ELSE Settled("absent")]
  <2>1. PICK i \in Ids : \A j \in Ids \ {i} : row[j] = Settled("absent")
    BY <1>3
  <2>2. \A j \in Ids : row[j].status = "pending" => j = i
    BY <2>1 DEF Settled
  <2>3. ASSUME NEW a \in Ids, NEW b \in Ids,
               row[a].status = "pending", row[b].status = "pending"
        PROVE  a = b
    BY <2>2, <2>3
  <2> QED
    BY <1>1, <2>3 DEF OnePendingPerKey
<1> QED
  BY <1>1, <1>2, <1>3 DEF Init

\* The partial unique index on pending event keys holds for any number of
\* writers and dispatchers: the retry of a claimed row never makes a second one.
THEOREM PendingKeysAreUnique == Spec => [](OnePendingPerKey /\ EventIsTheRow)
<1> DEFINE IInv == TypeOK /\ EventIsTheRow /\ OnePendingPerKey
<1>1. Init => IInv
  BY TypeInit, OnePendingInit
<1>2. IInv /\ [Next]_vars => IInv'
  BY TypeStep, EventStep, OnePendingStep
<1> QED
  BY <1>1, <1>2, PTL DEF Spec

(***************************************************************************)
(* No committed change is forgotten.                                       *)
(***************************************************************************)
\* A row that nobody holds in processing has no answer in flight.
LEMMA PendingIsUnanswered ==
    ASSUME NEW i, row[i].status = "pending" PROVE ~Answered(i)
BY DEF Answered, Owns

\* A row still carries a page if the step keeps the row and answers nobody.
LEMMA CarriedOn ==
    ASSUME NEW i \in Ids, NEW p, Carries(i, p),
           row'[i].status = row[i].status,
           row'[i].token = row[i].token,
           row'[i].payload = row[i].payload,
           \A v \in Workers : worker'[v].pc = "accepted" =>
              worker[v].pc = "accepted" /\ worker'[v].id = worker[v].id
    PROVE  Carries(i, p)'
BY DEF Carries, Live, Answered, Owns

\* Every step leaves each owed page in a row that no answer in flight can
\* settle.
LEMMA ForgottenStep ==
    ASSUME TypeOK, PayloadsSound, EventIsTheRow, NothingForgotten, [Next]_vars
    PROVE  NothingForgotten'
<1> SUFFICES ASSUME NEW p \in unsent' PROVE \E i \in Ids : Carries(i, p)'
  BY DEF NothingForgotten
<1>1. /\ \A i \in Ids : RowSound(i)
      /\ \A w \in Workers : WorkerSound(w)
      /\ \A i \in Ids : row[i].payload \in Payload
      /\ \A w \in Workers : worker[w].payload \in Payload
      /\ \A q \in unsent : \E i \in Ids : Carries(i, q)
  BY DEF PayloadsSound, TypeOK, Row, Worker, NothingForgotten
<1>2. CASE UNCHANGED vars
  <2>1. PICK i \in Ids : Carries(i, p)
    BY <1>1, <1>2 DEF vars
  <2> QED
    BY <1>2, <2>1, CarriedOn DEF vars
<1>3. ASSUME NEW write \in Writes, NEW i \in Ids, Change(write),
             \A j \in Ids \ {i} : row'[j] = row[j],
             row'[i].status = "pending",
             write.reason # "manual" => /\ Pages(write.payload) \subseteq Pages(row'[i].payload)
                                        /\ ~row'[i].payload.manual,
             \A q \in unsent : Carries(i, q) => Carries(i, q)'
      PROVE  \E j \in Ids : Carries(j, p)'
  <2>1. worker' = worker
    BY <1>3 DEF Change
  <2>2. CASE p \in unsent
    <3>1. PICK j \in Ids : Carries(j, p)
      BY <1>1, <2>2
    <3>2. CASE j = i
      BY <1>3, <2>2, <3>1, <3>2
    <3>3. CASE j # i
      BY <1>3, <2>1, <3>1, <3>3, CarriedOn
    <3> QED
      BY <3>2, <3>3
  <2>3. CASE p \notin unsent
    <3>1. p \in Pages(write.payload) /\ write.reason # "manual"
      BY <1>3, <2>3 DEF Change
    <3>2. p \in Pages(row'[i].payload) /\ ~row'[i].payload.manual
      BY <1>3, <3>1
    <3>3. Carries(i, p)'
      BY <1>3, <3>2 DEF Carries, Live, Answered, Owns
    <3> QED
      BY <3>3
  <2> QED
    BY <2>2, <2>3
<1>4. ASSUME NEW write \in Writes, NEW i \in Ids, InsertRow(write, i)
      PROVE  \E j \in Ids : Carries(j, p)'
  <2>1. \A q \in unsent : ~Carries(i, q)
    BY <1>4, InsertEffect DEF Carries, Live
  <2> QED
    BY <1>3, <1>4, <2>1, InsertEffect, WriteSound
<1>5. ASSUME NEW write \in Writes, NEW i \in Ids, MergeIntoPending(write, i)
      PROVE  \E j \in Ids : Carries(j, p)'
  <2> DEFINE old == row[i].payload
             new == Bound(write.payload)
             pl == Bound(Merge(old, new))
  <2>1. /\ row[i].status = "pending"
        /\ row[i].parses
        /\ Mergeable(old, write.payload)
        /\ row'[i].status = "pending"
        /\ row'[i].payload = pl
        /\ \A j \in Ids \ {i} : row'[j] = row[j]
        /\ Change(write)
    BY <1>5, MergeEffect
  <2>2. /\ old \in Payload
        /\ Parses(old)
        /\ Local(old)
    BY <1>1, <2>1 DEF RowSound, Live
  <2>3. /\ new \in Payload
        /\ Parses(new)
        /\ Local(new)
        /\ new.locale = write.payload.locale
        /\ Pages(write.payload) \subseteq Pages(new)
        /\ write.payload.manual <=> write.reason = "manual"
    BY WriteSound
  <2>4. old.locale = new.locale /\ old.manual = write.payload.manual
    BY <2>1, <2>3 DEF Mergeable
  <2> HIDE DEF old, new
  <2>5. /\ Pages(old) \cup Pages(new) \subseteq Pages(pl)
        /\ pl.manual = old.manual
    BY <2>2, <2>3, <2>4, MergeSound
  <2> HIDE DEF pl
  <2>6. ASSUME NEW q \in unsent, Carries(i, q) PROVE Carries(i, q)'
    BY <2>1, <2>5, <2>6 DEF Carries, Live, Answered, Owns, old
  <2> QED
    BY <1>3, <2>1, <2>3, <2>4, <2>5, <2>6
<1>6. ASSUME NEW i \in Ids, BecomeDue(i) \/ Age(i) \/ LeaseExpires(i)
      PROVE  \E j \in Ids : Carries(j, p)'
  <2>1. PICK j \in Ids : Carries(j, p)
    BY <1>1, <1>6, ClockEffect
  <2> QED
    BY <1>6, <2>1, CarriedOn, ClockEffect
<1>7. ASSUME NEW i \in Ids, Purge(i) \/ \E w \in Workers : ClaimUnreadable(w, i)
      PROVE  \E j \in Ids : Carries(j, p)'
  <2>1. PICK j \in Ids : Carries(j, p)
    BY <1>1, <1>7, EndEffect
  <2>2. j # i
    <3>1. Pages(NoPayload) = {}
      BY DEF Pages, NoPayload
    <3> QED
      BY <1>1, <1>7, <2>1, <3>1, EndEffect DEF Carries, RowSound
  <2> QED
    BY <1>7, <2>1, <2>2, CarriedOn, EndEffect
<1>8. ASSUME NEW w \in Workers, NEW i \in Ids, Claim(w, i)
      PROVE  \E j \in Ids : Carries(j, p)'
  <2>1. PICK j \in Ids : Carries(j, p)
    BY <1>1, <1>8, ClaimEffect
  <2>2. \A v \in Workers : worker'[v].pc = "accepted" =>
              worker[v].pc = "accepted" /\ worker'[v].id = worker[v].id /\ v # w
    BY <1>8, ClaimEffect
  <2>3. CASE j = i
    <3>1. /\ row'[i].status = "processing"
          /\ row'[i].token = w
          /\ row'[i].payload = ReconcileDeletedOffer(i)
      BY <1>8, ClaimEffect
    <3>2. /\ p \in Pages(row'[i].payload)
          /\ ~row'[i].payload.manual
      BY <2>1, <2>3, <3>1, ReconcileSound DEF Carries
    <3> QED
      BY <2>2, <3>1, <3>2 DEF Carries, Live, Answered, Owns
  <2>4. CASE j # i
    BY <1>8, <2>1, <2>2, <2>4, CarriedOn, ClaimEffect
  <2> QED
    BY <2>3, <2>4
<1>9. \* The gateway takes the pages of a dispatcher's payload in, all of them
      \* if it accepts.
      ASSUME NEW w \in Workers, NEW pc, NEW e, Answer(w, pc, e),
             worker[w].pc = "claimed", row' = row, unsent' \subseteq unsent,
             pc = "accepted" => unsent' = unsent \ Pages(worker[w].payload)
      PROVE  \E j \in Ids : Carries(j, p)'
  <2>1. PICK j \in Ids : Carries(j, p)
    BY <1>1, <1>9
  <2>2. ~Answered(j)'
    <3> SUFFICES ASSUME NEW v \in Workers, worker'[v].pc = "accepted",
                        worker'[v].id = j, Owns(v)'
                 PROVE  FALSE
      BY DEF Answered
    <3>1. CASE v = w
      <4>1. pc = "accepted" /\ worker[w].id = j /\ Owns(w)
        BY <1>9, <3>1, AnswerEffect DEF Owns
      <4>2. worker[w].payload = row[j].payload
        BY <1>9, <4>1 DEF EventIsTheRow
      <4> QED
        BY <1>9, <2>1, <4>1, <4>2 DEF Carries
    <3>2. CASE v # w
      BY <1>9, <2>1, <3>2, AnswerEffect DEF Carries, Answered, Owns
    <3> QED
      BY <3>1, <3>2
  <2> QED
    BY <1>9, <2>1, <2>2 DEF Carries, Live
<1>10. ASSUME NEW w \in Workers, worker'[w].pc # "accepted", unsent' = unsent, row' = row,
              \A v \in Workers \ {w} : worker'[v] = worker[v]
       PROVE  \E j \in Ids : Carries(j, p)'
  <2>1. PICK j \in Ids : Carries(j, p)
    BY <1>1, <1>10
  <2> QED
    BY <1>10, <2>1, CarriedOn
<1>11. ASSUME NEW w \in Workers, NEW j \in Ids, MergeIntoNewer(w, j)
       PROVE  \E k \in Ids : Carries(k, p)'
  <2> DEFINE old == worker[w].payload
             new == row[j].payload
             pl == Bound(Merge(old, new))
             i == worker[w].id
  <2>1. PICK k \in Ids : Carries(k, p)
    BY <1>1, <1>11, RetryEffect
  <2>2. /\ worker[w].pc = "refused"
        /\ i \in Ids
        /\ row[j].status = "pending"
        /\ row[j].parses
        /\ Mergeable(old, new)
        /\ row'[j].status = "pending"
        /\ row'[j].payload = pl
        /\ \A l \in Ids \ {i, j} : row'[l] = row[l]
        /\ ~Owns(w) => row'[i] = row[i]
        /\ Done(w)
    BY <1>11, RetryEffect
  <2>3. /\ old \in Payload
        /\ new \in Payload
        /\ Parses(old)
        /\ Parses(new)
        /\ Local(old)
        /\ Local(new)
        /\ old.locale = new.locale
        /\ old.manual = new.manual
    BY <1>1, <2>2 DEF RowSound, WorkerSound, Live, Mergeable
  <2> HIDE DEF old, new
  <2>4. /\ Pages(old) \cup Pages(new) \subseteq Pages(pl)
        /\ pl.manual = old.manual
    BY <2>3, MergeSound
  <2> HIDE DEF pl
  <2>5. ASSUME p \in Pages(old) \cup Pages(new), ~old.manual
        PROVE  Carries(j, p)'
    BY <2>2, <2>4, <2>5 DEF Carries, Live, Answered, Owns
  <2>6. \A v \in Workers : worker'[v].pc = "accepted" =>
              worker[v].pc = "accepted" /\ worker'[v].id = worker[v].id
    BY <2>2, DoneEffect
  <2>7. CASE k = j
    BY <2>1, <2>3, <2>5, <2>7 DEF Carries, new
  <2>8. CASE k = i /\ Owns(w)
    <3>1. old = row[i].payload
      BY <2>2, <2>8 DEF EventIsTheRow, old
    <3> QED
      BY <2>1, <2>5, <2>8, <3>1 DEF Carries
  <2>9. CASE row'[k] = row[k]
    BY <2>1, <2>6, <2>9, CarriedOn
  <2> QED
    BY <2>2, <2>7, <2>8, <2>9
<1>12. ASSUME NEW w \in Workers, MarkDelivered(w) \/ FailManual(w) \/ ReturnToPending(w)
       PROVE  \E k \in Ids : Carries(k, p)'
  <2> DEFINE i == worker[w].id
  <2>1. PICK k \in Ids : Carries(k, p)
    BY <1>1, <1>12, SettleEffect
  <2>2. \A v \in Workers : worker'[v].pc = "accepted" =>
              worker[v].pc = "accepted" /\ worker'[v].id = worker[v].id
    BY <1>12, DoneEffect, SettleEffect
  <2>3. CASE row'[k] = row[k]
    BY <2>1, <2>2, <2>3, CarriedOn
  <2>4. CASE row'[k] # row[k]
    <3>1. k = i /\ Owns(w) /\ worker[w].pc # "idle"
      BY <1>12, <2>4, SettleEffect
    <3>2. CASE MarkDelivered(w)
      BY <2>1, <3>1, <3>2 DEF Carries, Answered, MarkDelivered
    <3>3. CASE FailManual(w)
      <4>1. worker[w].payload.manual
        BY <3>3 DEF FailManual, GivesUp
      <4> QED
        BY <2>1, <3>1, <4>1 DEF Carries, EventIsTheRow
    <3>4. CASE ReturnToPending(w)
      <4>1. row'[k].status = "pending" /\ row'[k].payload = row[k].payload
        BY <3>1, <3>4, ReturnEffect
      <4> QED
        BY <2>1, <4>1 DEF Carries, Live, Answered, Owns
    <3> QED
      BY <1>12, <3>2, <3>3, <3>4
  <2> QED
    BY <2>3, <2>4
<1>13. ASSUME NEW w \in Workers, Dispatch(w)
       PROVE  \E k \in Ids : Carries(k, p)'
  <2>1. CASE PostAccepted(w)
    BY <1>9, <2>1 DEF PostAccepted
  <2>2. CASE PostSkipped(w)
    BY <1>9, <2>2 DEF PostSkipped
  <2>3. CASE PostRejected(w)
    BY <1>9, <2>3 DEF PostRejected, contentVars
  <2>4. ASSUME NEW D \in SUBSET Paths, PostFailed(w, D)
        PROVE  \E k \in Ids : Carries(k, p)'
    BY <1>9, <2>4 DEF PostFailed
  <2>5. CASE MarkDeliveredThrows(w)
    BY <1>10, <2>5, AnswerEffect DEF MarkDeliveredThrows, contentVars
  <2>6. CASE Crash(w)
    BY <1>10, <2>6, DoneEffect DEF Crash, contentVars
  <2> QED
    BY <1>7, <1>8, <1>11, <1>12, <1>13, <2>1, <2>2, <2>3, <2>4, <2>5, <2>6, ThrowIsCrash DEF Dispatch
<1> QED
  BY <1>2, <1>4, <1>5, <1>6, <1>7, <1>13 DEF Next, Database

\* The inductive invariant of the outbox.
IInv == /\ TypeOK
        /\ PayloadsSound
        /\ EventIsTheRow
        /\ OnePendingPerKey
        /\ NothingForgotten

\* The inductive invariant holds initially.
LEMMA InvInit == Init => IInv
<1> SUFFICES ASSUME Init PROVE IInv
  OBVIOUS
<1>1. EventIsTheRow /\ OnePendingPerKey
  BY OnePendingInit
<1>2. NothingForgotten
  BY DEF Init, NothingForgotten
<1> QED
  BY <1>1, <1>2, TypeInit, SoundInit DEF IInv

\* Every step keeps the inductive invariant.
LEMMA InvStep == IInv /\ [Next]_vars => IInv'
BY TypeStep, SoundStep, EventStep, OnePendingStep, ForgottenStep DEF IInv

\* The inductive invariant holds in every reachable state.
LEMMA Invariance == Spec => []IInv
BY InvInit, InvStep, PTL DEF Spec

\* Whatever leases, crashes, lost answers, merges and retries do, a committed
\* change that the gateway has not been handed is carried by an undelivered row
\* that no answer in flight can settle.
THEOREM NoChangeIsForgotten == Spec => []NothingForgotten
BY Invariance, PTL DEF IInv

(***************************************************************************)
(* The outbox implements at-least-once hand-over (IsrDelivery).            *)
(***************************************************************************)
\* The step keeps row i and every page it asks for.
Keeps(i) == Live(i)' /\ Pages(row[i].payload) \subseteq Pages(row'[i].payload)

\* Every step either commits a change of pages the rows now promise, hands
\* pages over while no row changes, or leaves what is owed as it was.
LEMMA StepKinds ==
    ASSUME TypeOK, PayloadsSound, [Next]_vars
    PROVE  \/ \E P \in SUBSET Paths :
                /\ unsent' = unsent \cup P
                /\ \E i \in Ids : Live(i)' /\ P \subseteq Pages(row'[i].payload)
                /\ \A i \in Ids : Live(i) => Keeps(i)
           \/ \E D \in SUBSET Paths : unsent' = unsent \ D /\ row' = row
           \/ unsent' = unsent
<1>1. ASSUME NEW w \in Workers PROVE Pages(worker[w].payload) \subseteq Paths
  BY TreeAssumption DEF TypeOK, Worker, Payload, Pages
<1>2. ASSUME NEW write \in Writes, NEW i \in Ids,
             InsertRow(write, i) \/ MergeIntoPending(write, i),
             unsent' # unsent
      PROVE  /\ Pages(write.payload) \subseteq Paths
             /\ unsent' = unsent \cup Pages(write.payload)
             /\ Live(i)'
             /\ Pages(write.payload) \subseteq Pages(row'[i].payload)
             /\ \A j \in Ids : Live(j) => Keeps(j)
  <2>1. Change(write) /\ row'[i].status = "pending"
    BY <1>2, InsertEffect, MergeEffect
  <2>2. Pages(write.payload) \subseteq Paths
    BY WriteType, TreeAssumption DEF Payload, Pages
  <2>3. /\ Pages(write.payload) \subseteq Pages(row'[i].payload)
        /\ Live(i) => Pages(row[i].payload) \subseteq Pages(row'[i].payload)
    <3>1. CASE InsertRow(write, i)
      BY <3>1, InsertEffect, WriteSound DEF Live
    <3>2. CASE MergeIntoPending(write, i)
      <4> DEFINE new == Bound(write.payload)
      <4>1. /\ row[i].payload \in Payload
            /\ Parses(row[i].payload)
            /\ Local(row[i].payload)
            /\ row[i].payload.locale = new.locale
            /\ row'[i].payload = Bound(Merge(row[i].payload, new))
        BY <3>2, MergeEffect, WriteSound
           DEF TypeOK, Row, PayloadsSound, RowSound, Live, Mergeable
      <4>2. /\ new \in Payload
            /\ Parses(new)
            /\ Local(new)
            /\ Pages(write.payload) \subseteq Pages(new)
        BY WriteSound
      <4> HIDE DEF new
      <4>3. Pages(row[i].payload) \cup Pages(new) \subseteq Pages(row'[i].payload)
        BY <4>1, <4>2, MergeSound
      <4> QED
        BY <4>2, <4>3
    <3> QED
      BY <1>2, <3>1, <3>2
  <2>4. \A j \in Ids \ {i} : row'[j] = row[j]
    BY <1>2, InsertEffect, MergeEffect
  <2> QED
    BY <1>2, <2>1, <2>2, <2>3, <2>4 DEF Change, Live, Keeps
<1>3. ASSUME NEW w \in Workers, Dispatch(w), unsent' # unsent
      PROVE  \E D \in SUBSET Paths : unsent' = unsent \ D /\ row' = row
  <2>1. \/ PostAccepted(w)
        \/ PostSkipped(w)
        \/ \E D \in SUBSET Paths : PostFailed(w, D)
    BY <1>3, ClaimEffect, EndEffect, RetryEffect, SettleEffect
       DEF Dispatch, PostRejected, MarkDeliveredThrows, RetryThrows, Crash, contentVars
  <2> QED
    BY <1>1, <2>1 DEF PostAccepted, PostSkipped, PostFailed
<1>4. ASSUME NEW i \in Ids, Database(i) PROVE unsent' = unsent
  BY <1>4, ClockEffect, EndEffect DEF Database
<1>5. CASE \E write \in Writes, i \in Ids :
              InsertRow(write, i) \/ MergeIntoPending(write, i)
  BY <1>2, <1>5
<1> QED
  BY <1>3, <1>4, <1>5 DEF Next, vars

\* The rows promise pages of the site only.
LEMMA PromisedType == TypeOK => Promised \subseteq Paths
BY TreeAssumption DEF TypeOK, Row, Payload, Promised, Pages

\* What is owed is promised by some undelivered row.
LEMMA OwedIsPromised == NothingForgotten => unsent \subseteq Promised
BY DEF NothingForgotten, Carries, Promised

\* The outbox starts in an initial state of IsrDelivery.
LEMMA RefinesInit == Init => Delivery!Init
<1> SUFFICES ASSUME Init PROVE Delivery!Init
  OBVIOUS
<1>3. Settled("absent").payload = NoPayload
  BY DEF Settled
<1>4. \A k, reason : Legacy(k, reason).payload = NoPayload
  BY DEF Legacy, Settled
<1>1. \A i \in Ids : row[i].payload = NoPayload
  BY <1>3, <1>4 DEF Init
<1>2. Pages(NoPayload) = {}
  BY DEF Pages, NoPayload
<1> QED
  BY <1>1, <1>2 DEF Init, Delivery!Init, Promised

\* Every step of the outbox is a step of IsrDelivery or leaves it unchanged.
LEMMA RefinesStep ==
    ASSUME IInv, IInv', [Next]_vars
    PROVE  [Delivery!Next]_(Delivery!vars)
<1>5. (IInv => Promised \subseteq Paths /\ unsent \subseteq Promised)'
  BY PromisedType, OwedIsPromised, PTL DEF IInv
<1>1. /\ Promised' \subseteq Paths
      /\ unsent' \subseteq Promised'
      /\ unsent \subseteq Paths
  BY <1>5 DEF IInv, TypeOK
<1>2. CASE \E P \in SUBSET Paths :
             /\ unsent' = unsent \cup P
             /\ \E i \in Ids : Live(i)' /\ P \subseteq Pages(row'[i].payload)
             /\ \A i \in Ids : Live(i) => Keeps(i)
  <2>1. PICK P \in SUBSET Paths :
             /\ unsent' = unsent \cup P
             /\ \E i \in Ids : Live(i)' /\ P \subseteq Pages(row'[i].payload)
             /\ \A i \in Ids : Live(i) => Keeps(i)
    BY <1>2
  <2>2. P \subseteq Promised'
    BY <2>1 DEF Promised
  <2>3. Promised \subseteq Promised'
    BY <2>1 DEF Promised, Keeps
  <2> QED
    BY <1>1, <2>1, <2>2, <2>3 DEF Delivery!Next, Delivery!Change
<1>3. CASE \E D \in SUBSET Paths : unsent' = unsent \ D /\ row' = row
  <2>1. Promised' = Promised
    BY <1>3 DEF Promised, Live
  <2> QED
    BY <1>3, <2>1 DEF Delivery!Next, Delivery!HandOver
<1>4. CASE unsent' = unsent
  BY <1>1, <1>4 DEF Delivery!Next, Delivery!Reconsider
<1> QED
  BY <1>2, <1>3, <1>4, StepKinds DEF IInv

\* Abstractly the outbox is a set of promises: a change is owed until it is
\* handed over, and no promise that is still owed is ever dropped.
THEOREM OutboxImplementsDelivery == Spec => ImplementsDelivery
<1>1. Init => Delivery!Init
  BY RefinesInit
<1>2. IInv /\ IInv' /\ [Next]_vars => [Delivery!Next]_(Delivery!vars)
  BY RefinesStep
<1> QED
  BY <1>1, <1>2, Invariance, PTL DEF Spec, ImplementsDelivery, Delivery!Spec

(***************************************************************************)
(* Leases.                                                                 *)
(***************************************************************************)
\* The steps that take a row out of processing, all of them its owner's.
LEMMA LeavingProcessing ==
    ASSUME IInv, [Next]_vars, NEW i \in Ids,
           row[i].status = "processing", row'[i].status # "processing"
    PROVE  \E w \in Workers :
              /\ Owns(w)
              /\ worker[w].id = i
              /\ worker[w].pc # "idle"
              /\ \/ MarkDelivered(w) \/ FailManual(w) \/ ReturnToPending(w)
                 \/ \E j \in Ids : MergeIntoNewer(w, j)
<1>1. TypeOK /\ row[i].parses
  BY DEF IInv, PayloadsSound, RowSound
<1>2. CASE UNCHANGED vars
  BY <1>2 DEF vars
<1>3. ASSUME NEW write \in Writes, NEW j \in Ids,
             InsertRow(write, j) \/ MergeIntoPending(write, j)
      PROVE  FALSE
  BY <1>1, <1>3, InsertEffect, MergeEffect
<1>4. ASSUME NEW j \in Ids, Database(j)
      PROVE  FALSE
  BY <1>1, <1>4, ClockEffect, EndEffect DEF Database, Purge, Terminal
<1>5. ASSUME NEW w \in Workers, NEW j \in Ids, Claim(w, j) \/ ClaimUnreadable(w, j)
      PROVE  FALSE
  BY <1>1, <1>5, ClaimEffect, EndEffect DEF ClaimUnreadable
<1>6. ASSUME NEW w \in Workers, NEW j \in Ids, MergeIntoNewer(w, j)
      PROVE  Owns(w) /\ worker[w].id = i /\ worker[w].pc # "idle"
  BY <1>1, <1>6, RetryEffect
<1>7. ASSUME NEW w \in Workers, MarkDelivered(w) \/ FailManual(w) \/ ReturnToPending(w)
      PROVE  Owns(w) /\ worker[w].id = i /\ worker[w].pc # "idle"
  BY <1>1, <1>7, SettleEffect
<1>8. ASSUME NEW w \in Workers,
             \/ PostAccepted(w) \/ PostSkipped(w) \/ PostRejected(w)
             \/ \E D \in SUBSET Paths : PostFailed(w, D)
             \/ MarkDeliveredThrows(w) \/ Crash(w)
      PROVE  FALSE
  BY <1>8 DEF PostAccepted, PostSkipped, PostRejected, PostFailed,
              MarkDeliveredThrows, Crash
<1> QED
  BY <1>2, <1>3, <1>4, <1>5, <1>6, <1>7, <1>8, ThrowIsCrash DEF Next, Dispatch

\* However late a former owner reports, only the dispatcher whose token the row
\* holds takes it out of processing.
THEOREM LateReportsSettleNothing == Spec => OnlyTheLeaseSettles
<1>1. ASSUME IInv, [Next]_vars, NEW i \in Ids,
             row[i].status = "processing", row'[i].status # "processing"
      PROVE  /\ row[i].token \in Workers
             /\ worker[row[i].token].id = i
             /\ worker'[row[i].token].id # i
  <2>1. PICK w \in Workers :
              /\ Owns(w)
              /\ worker[w].id = i
              /\ worker[w].pc # "idle"
              /\ \/ MarkDelivered(w) \/ FailManual(w) \/ ReturnToPending(w)
                 \/ \E j \in Ids : MergeIntoNewer(w, j)
    BY <1>1, LeavingProcessing
  <2>2. Done(w) /\ row[i].token = w
    BY <2>1 DEF MarkDelivered, FailManual, ReturnToPending, MergeIntoNewer, Owns
  <2>3. worker'[w].id = NoId /\ NoId # i
    BY <1>1, <2>2, NobodyAssumption DEF IInv, TypeOK, Done, Idle
  <2> QED
    BY <2>1, <2>2, <2>3
<1>2. IInv /\ [Next]_vars =>
        [\A i \in Ids : row[i].status = "processing" /\ row'[i].status # "processing"
            => /\ row[i].token \in Workers
               /\ worker[row[i].token].id = i
               /\ worker'[row[i].token].id # i]_vars
  BY <1>1
<1> QED
  BY <1>2, Invariance, PTL DEF Spec, OnlyTheLeaseSettles

\* A row that retires in favour of a newer one leaves a pending row of its key
\* that asks for all its pages and offers: coalescing a retry loses nothing.
THEOREM SupersessionLosesNothing == Spec => SupersededIsCarried
<1>1. ASSUME IInv, [Next]_vars, NEW i \in Ids,
             row[i].status = "processing", row'[i].status = "superseded"
      PROVE  \E j \in Ids : /\ row'[j].status = "pending"
                            /\ row'[j].key = row[i].key
                            /\ Pages(row[i].payload) \subseteq Pages(row'[j].payload)
                            /\ row[i].payload.offers \subseteq row'[j].payload.offers
  <2>1. TypeOK /\ PayloadsSound /\ EventIsTheRow
    BY <1>1 DEF IInv
  <2>2. PICK w \in Workers :
              /\ Owns(w)
              /\ worker[w].id = i
              /\ worker[w].pc # "idle"
              /\ \/ MarkDelivered(w) \/ FailManual(w) \/ ReturnToPending(w)
                 \/ \E j \in Ids : MergeIntoNewer(w, j)
    BY <1>1, LeavingProcessing
  <2>3. ~MarkDelivered(w) /\ ~FailManual(w)
    BY <1>1, <2>1, <2>2 DEF MarkDelivered, FailManual, Settled, TypeOK
  <2>4. ~ReturnToPending(w)
    BY <1>1, <2>1, <2>2, ReturnEffect
  <2>5. PICK j \in Ids : MergeIntoNewer(w, j)
    BY <2>2, <2>3, <2>4
  <2>6. /\ worker[w].payload = row[i].payload
        /\ worker[w].key = row[i].key
    BY <2>1, <2>2 DEF EventIsTheRow
  <2>7. /\ row'[j].status = "pending"
        /\ row'[j].key = row[i].key
        /\ row'[j].payload = Bound(Merge(row[i].payload, row[j].payload))
        /\ row[j].status = "pending"
        /\ row[j].parses
        /\ Mergeable(row[i].payload, row[j].payload)
    BY <2>1, <2>5, <2>6, RetryEffect
  <2>8. /\ row[i].payload \in Payload
        /\ row[j].payload \in Payload
        /\ Parses(row[i].payload)
        /\ Parses(row[j].payload)
        /\ Local(row[i].payload)
        /\ Local(row[j].payload)
        /\ row[i].payload.locale = row[j].payload.locale
    BY <1>1, <2>1, <2>7 DEF TypeOK, Row, PayloadsSound, RowSound, Live, Mergeable
  <2>9. row[i].payload.offers \subseteq row'[j].payload.offers
    BY <2>7, <2>8, OffersSurvive
  <2> QED
    BY <2>7, <2>8, <2>9, MergeSound
<1>2. IInv /\ [Next]_vars =>
        [\A i \in Ids : row[i].status = "processing" /\ row'[i].status = "superseded"
            => \E j \in Ids : /\ row'[j].status = "pending"
                              /\ row'[j].key = row[i].key
                              /\ Pages(row[i].payload) \subseteq Pages(row'[j].payload)
                              /\ row[i].payload.offers \subseteq row'[j].payload.offers]_vars
  BY <1>1
<1> QED
  BY <1>2, Invariance, PTL DEF Spec, SupersededIsCarried
(***************************************************************************)
(* Retries find a row they can merge into.                                 *)
(***************************************************************************)
\* A payload of the kind and locale of a write; a manual one asks for no more.
OfWrite(pl, write) ==
    /\ Mergeable(pl, write.payload)
    /\ pl.manual => /\ pl.paths \subseteq write.payload.paths
                    /\ pl.offers \subseteq write.payload.offers
                    /\ pl.all <=> write.payload.all

WritesOf(key) == {write \in Writes : write.key = key}
OfKey(pl, key) == key # NoKey => /\ WritesOf(key) # {}
                                 /\ \A write \in WritesOf(key) : OfWrite(pl, write)

\* What is stored or claimed under a key is of the kind of the key's writes.
KeysSound ==
    /\ \A i \in Ids : Live(i) /\ row[i].parses => OfKey(row[i].payload, row[i].key)
    /\ \A w \in Workers : worker[w].pc # "idle" => OfKey(worker[w].payload, worker[w].key)

\* Until a row of an earlier release is claimed, and so found invalid, nothing
\* else of its key is queued or on its way.
LegacyIsAlone == \A i \in Ids :
    row[i].status = "pending" /\ ~row[i].parses /\ row[i].key # NoKey =>
        /\ \A j \in Ids \ {i} : Live(j) => row[j].key # row[i].key
        /\ \A w \in Workers : worker[w].pc # "idle" => worker[w].key # row[i].key

\* The writes of one key agree, so a bounded write is of each of them.
LEMMA WriteOfKey ==
    ASSUME NEW write \in Writes
    PROVE  OfKey(Bound(write.payload), write.key)
<1> SUFFICES ASSUME write.key # NoKey, NEW other \in WritesOf(write.key)
             PROVE  OfWrite(Bound(write.payload), other)
  BY DEF OfKey, WritesOf
<1>1. write.payload \in Payload /\ other.payload \in Payload /\ other \in Writes
  BY WriteType DEF WritesOf
<1>2. Mergeable(write.payload, other.payload)
  BY <1>1, WritesAssumption DEF WritesOf
<1>3. Mergeable(Bound(write.payload), other.payload)
  BY <1>1, <1>2, WriteSound DEF Mergeable
<1>4. write.payload.manual => write.payload = other.payload
  BY <1>1, ManualAssumption DEF WritesOf
<1>5. CanBound(write.payload)
  BY WritesAssumption
<1>6. write.payload.manual => /\ Bound(write.payload).paths \subseteq write.payload.paths
                              /\ Bound(write.payload).offers \subseteq write.payload.offers
                              /\ Bound(write.payload).all <=> write.payload.all
  BY <1>1, <1>5 DEF Bound, CanBound, Payload
<1> QED
  BY <1>3, <1>4, <1>6, WriteSound DEF OfWrite

\* Two payloads of a key are of one kind and locale, and their union stays of the
\* key; it can be bounded, but for the offers of what is no manual refresh.
LEMMA MergeOfKey ==
    ASSUME NEW p \in Payload, NEW q \in Payload, Local(p), Local(q),
           NEW key, key # NoKey, OfKey(p, key), OfKey(q, key)
    PROVE  /\ Mergeable(p, q)
           /\ ~CanBound(Merge(p, q)) => ~p.manual /\ TooManyOffers(Merge(p, q))
           /\ OfKey(Bound(Merge(p, q)), key)
<1> DEFINE m == Merge(p, q)
<1>1. \A write \in WritesOf(key) : OfWrite(p, write) /\ OfWrite(q, write)
  BY DEF OfKey
<1>2. PICK any \in WritesOf(key) : TRUE
  BY DEF OfKey
<1>3. Mergeable(p, q)
  BY <1>1, <1>2 DEF OfWrite, Mergeable
<1>4. /\ m \in Payload
      /\ m.manual = p.manual
      /\ m.locale = p.locale
      /\ m.paths = p.paths \cup q.paths
      /\ m.offers = p.offers \cup q.offers
      /\ m.all <=> p.all \/ q.all
      /\ Local(m)
  BY <1>3, PayloadTypes, MergeCovers DEF Mergeable, Merge
<1> HIDE DEF m
<1>5. ASSUME NEW write \in WritesOf(key), p.manual
      PROVE  /\ m.paths \subseteq write.payload.paths
             /\ m.offers \subseteq write.payload.offers
             /\ m.all <=> write.payload.all
             /\ Oversized(m) => m.all /\ ~TooManyOffers(m)
  <2>1. /\ m.paths \subseteq write.payload.paths
        /\ m.offers \subseteq write.payload.offers
        /\ m.all <=> write.payload.all
    BY <1>1, <1>3, <1>4, <1>5 DEF OfWrite, Mergeable
  <2>2. write.payload \in Payload /\ CanBound(write.payload) /\ write.payload.manual
    BY <1>1, <1>5, WriteType, WritesAssumption DEF WritesOf, OfWrite, Mergeable
  <2>3. IsFiniteSet(write.payload.paths) /\ IsFiniteSet(write.payload.offers)
    BY <2>2, PathsAreFinite, FS_Subset DEF Payload
  <2>4. /\ Cardinality(m.paths) \in Nat
        /\ Cardinality(write.payload.paths) \in Nat
        /\ Cardinality(m.paths) <= Cardinality(write.payload.paths)
    BY <2>1, <2>3, FS_Subset, FS_CardinalityType
  <2>5. /\ Cardinality(m.offers) \in Nat
        /\ Cardinality(write.payload.offers) \in Nat
        /\ Cardinality(m.offers) <= Cardinality(write.payload.offers)
    BY <2>1, <2>3, FS_Subset, FS_CardinalityType
  <2>6. Oversized(m) => Oversized(write.payload)
    BY <2>4, <2>5, MaxPathsAssumption DEF Oversized
  <2>7. TooManyOffers(m) => TooManyOffers(write.payload)
    BY <2>5, MaxPathsAssumption DEF TooManyOffers
  <2> QED
    BY <2>1, <2>2, <2>6, <2>7 DEF CanBound
<1>6. ~CanBound(m) => ~p.manual /\ TooManyOffers(m)
  BY <1>2, <1>4, <1>5 DEF CanBound
<1>7. /\ Bound(m).manual = p.manual
      /\ Bound(m).locale = p.locale
  BY <1>4, BoundCovers
<1>8. Bound(m).paths \subseteq m.paths /\ (Oversized(m) => m.all) => (Bound(m).all <=> m.all)
  BY <1>4 DEF Bound, Payload
<1>9. Bound(m).paths \subseteq m.paths /\ Bound(m).offers \subseteq m.offers
  BY <1>4 DEF Bound, Payload
<1>10. ASSUME NEW write \in WritesOf(key) PROVE OfWrite(Bound(m), write)
  <2>1. Mergeable(Bound(m), write.payload)
    BY <1>1, <1>7, <1>10 DEF OfWrite, Mergeable
  <2>2. p.manual => /\ Bound(m).paths \subseteq write.payload.paths
                    /\ Bound(m).offers \subseteq write.payload.offers
                    /\ Bound(m).all <=> write.payload.all
    BY <1>5, <1>8, <1>9, <1>10
  <2> QED
    BY <1>7, <2>1, <2>2 DEF OfWrite
<1> QED
  BY <1>2, <1>3, <1>6, <1>10 DEF OfKey, m

\* The deletion repair keeps a payload's kind, locale and pages.
LEMMA ReconcileOfKey ==
    ASSUME TypeOK, NEW i \in Ids, NEW key, OfKey(row[i].payload, key)
    PROVE  OfKey(ReconcileDeletedOffer(i), key)
<1>1. row[i].payload \in Payload
  BY DEF TypeOK, Row
<1>2. /\ ReconcileDeletedOffer(i).manual = row[i].payload.manual
      /\ ReconcileDeletedOffer(i).locale = row[i].payload.locale
      /\ ReconcileDeletedOffer(i).paths = row[i].payload.paths
      /\ ReconcileDeletedOffer(i).offers = row[i].payload.offers
      /\ ReconcileDeletedOffer(i).all = row[i].payload.all
  BY <1>1 DEF ReconcileDeletedOffer, Payload
<1> QED
  BY <1>2 DEF OfKey, OfWrite, Mergeable

\* Every step keeps what is queued under a key of the kind of the key.
LEMMA KeysStep ==
    ASSUME TypeOK, PayloadsSound, KeysSound, [Next]_vars
    PROVE  KeysSound'
<1> DEFINE RowOf(i) == Live(i) /\ row[i].parses => OfKey(row[i].payload, row[i].key)
<1> DEFINE CopyOf(w) == worker[w].pc # "idle" => OfKey(worker[w].payload, worker[w].key)
<1>1. /\ \A i \in Ids : RowOf(i) /\ row[i].payload \in Payload /\ Local(row[i].payload)
      /\ \A w \in Workers : CopyOf(w) /\ worker[w].payload \in Payload /\ Local(worker[w].payload)
  BY DEF KeysSound, TypeOK, Row, Worker, PayloadsSound, RowSound, WorkerSound
<1>2. SUFFICES /\ \A i \in Ids : RowOf(i)'
               /\ \A w \in Workers : CopyOf(w)'
  BY DEF KeysSound
<1>3. CASE UNCHANGED vars
  BY <1>1, <1>3 DEF vars, Live
<1>4. ASSUME NEW write \in Writes, NEW i \in Ids, InsertRow(write, i)
      PROVE  /\ \A j \in Ids : RowOf(j)'
             /\ \A w \in Workers : CopyOf(w)'
  <2>1. RowOf(i)'
    BY <1>4, InsertEffect, WriteOfKey
  <2>2. worker' = worker /\ \A j \in Ids \ {i} : row'[j] = row[j]
    BY <1>4, InsertEffect DEF Change
  <2> QED
    BY <1>1, <2>1, <2>2 DEF Live
<1>5. ASSUME NEW write \in Writes, NEW i \in Ids, MergeIntoPending(write, i)
      PROVE  /\ \A j \in Ids : RowOf(j)'
             /\ \A w \in Workers : CopyOf(w)'
  <2>1. /\ OfKey(row[i].payload, row[i].key)
        /\ row[i].key = write.key
        /\ row'[i].key = write.key
        /\ row'[i].payload = Bound(Merge(row[i].payload, Bound(write.payload)))
    BY <1>1, <1>5, MergeEffect DEF Live
  <2>2. OfKey(row'[i].payload, row'[i].key)
    BY <1>1, <2>1, WriteOfKey, WriteSound, MergeOfKey DEF OfKey
  <2>3. worker' = worker /\ \A j \in Ids \ {i} : row'[j] = row[j]
    BY <1>5, MergeEffect DEF Change
  <2> QED
    BY <1>1, <2>2, <2>3 DEF Live
<1>6. ASSUME NEW i \in Ids, BecomeDue(i) \/ Age(i) \/ LeaseExpires(i)
      PROVE  /\ \A j \in Ids : RowOf(j)'
             /\ \A w \in Workers : CopyOf(w)'
  BY <1>1, <1>6, ClockEffect DEF Live
<1>7. ASSUME NEW i \in Ids, Purge(i) \/ \E w \in Workers : ClaimUnreadable(w, i)
      PROVE  /\ \A j \in Ids : RowOf(j)'
             /\ \A w \in Workers : CopyOf(w)'
  BY <1>1, <1>7, EndEffect DEF Live
<1>8. ASSUME NEW w \in Workers, NEW i \in Ids, Claim(w, i)
      PROVE  /\ \A j \in Ids : RowOf(j)'
             /\ \A v \in Workers : CopyOf(v)'
  <2>1. OfKey(ReconcileDeletedOffer(i), row[i].key)
    BY <1>1, <1>8, ClaimEffect, ReconcileOfKey DEF Live
  <2>2. RowOf(i)' /\ CopyOf(w)'
    BY <1>8, <2>1, ClaimEffect
  <2>3. /\ \A j \in Ids \ {i} : row'[j] = row[j]
        /\ \A v \in Workers \ {w} : worker'[v] = worker[v]
    BY <1>8, ClaimEffect
  <2> QED
    BY <1>1, <2>2, <2>3 DEF Live
<1>9. ASSUME NEW w \in Workers, NEW pc, NEW e, worker[w].pc # "idle",
             Answer(w, pc, e), row' = row
      PROVE  /\ \A j \in Ids : RowOf(j)'
             /\ \A v \in Workers : CopyOf(v)'
  BY <1>1, <1>9, AnswerEffect DEF Live
<1>10. ASSUME NEW w \in Workers, Done(w)
       PROVE  \A v \in Workers : CopyOf(v)'
  BY <1>1, <1>10, DoneEffect
<1>11. ASSUME NEW w \in Workers, NEW j \in Ids, MergeIntoNewer(w, j)
       PROVE  /\ \A i \in Ids : RowOf(i)'
              /\ \A v \in Workers : CopyOf(v)'
  <2>1. /\ OfKey(worker[w].payload, row[j].key)
        /\ OfKey(row[j].payload, row[j].key)
        /\ row[j].key # NoKey
        /\ row'[j].key = row[j].key
        /\ row'[j].payload = Bound(Merge(worker[w].payload, row[j].payload))
    BY <1>1, <1>11, RetryEffect DEF Live
  <2>2. RowOf(j)'
    BY <1>1, <2>1, MergeOfKey
  <2>3. \A k \in Ids \ {j} : row'[k] = row[k] \/ row'[k].status = "superseded"
    BY <1>11, RetryEffect
  <2> QED
    BY <1>1, <1>10, <1>11, <2>2, <2>3, RetryEffect DEF Live
<1>12. ASSUME NEW w \in Workers, MarkDelivered(w) \/ FailManual(w) \/ ReturnToPending(w)
       PROVE  /\ \A i \in Ids : RowOf(i)'
              /\ \A v \in Workers : CopyOf(v)'
  <2>1. ASSUME NEW i \in Ids PROVE RowOf(i)'
    <3>1. CASE row'[i] = row[i]
      BY <1>1, <3>1 DEF Live
    <3>2. CASE row'[i] # row[i] /\ ReturnToPending(w)
      <4>1. i = worker[w].id /\ Owns(w)
        BY <3>2, SettleEffect
      <4>2. /\ row'[i].payload = row[i].payload
            /\ row'[i].parses = row[i].parses
            /\ row'[i].key = row[i].key
            /\ Live(i)
        BY <3>2, <4>1, ReturnEffect DEF Owns, Live
      <4> QED
        BY <1>1, <4>2
    <3>3. CASE row'[i] # row[i] /\ (MarkDelivered(w) \/ FailManual(w))
      <4>1. row'[i] = Settled("delivered") \/ row'[i] = Settled("failed")
        BY <3>3 DEF MarkDelivered, FailManual, TypeOK
      <4> QED
        BY <4>1 DEF Settled, Live
    <3> QED
      BY <1>12, <3>1, <3>2, <3>3
  <2> QED
    BY <1>10, <1>12, <2>1, SettleEffect
<1>13. ASSUME NEW w \in Workers, Dispatch(w)
       PROVE  /\ \A i \in Ids : RowOf(i)'
              /\ \A v \in Workers : CopyOf(v)'
  <2>1. CASE PostAccepted(w) \/ PostSkipped(w) \/ PostRejected(w)
    BY <1>9, <2>1 DEF PostAccepted, PostSkipped, PostRejected
  <2>2. ASSUME NEW D \in SUBSET Paths, PostFailed(w, D)
        PROVE  /\ \A i \in Ids : RowOf(i)'
               /\ \A v \in Workers : CopyOf(v)'
    BY <1>9, <2>2 DEF PostFailed
  <2>3. CASE MarkDeliveredThrows(w)
    BY <1>9, <2>3 DEF MarkDeliveredThrows
  <2>4. CASE Crash(w)
    BY <1>1, <1>10, <2>4 DEF Crash, Live
  <2> QED
    BY <1>7, <1>8, <1>11, <1>12, <1>13, <2>1, <2>2, <2>3, <2>4, ThrowIsCrash DEF Dispatch
<1> QED
  BY <1>3, <1>4, <1>5, <1>6, <1>7, <1>13 DEF Next, Database

\* No step puts anything beside a row of an earlier release.
LEMMA LegacyStep ==
    ASSUME TypeOK, PayloadsSound, EventIsTheRow, LegacyIsAlone, [Next]_vars
    PROVE  LegacyIsAlone'
<1> SUFFICES ASSUME NEW i \in Ids,
                    row'[i].status = "pending", ~row'[i].parses, row'[i].key # NoKey
             PROVE  /\ \A j \in Ids \ {i} : Live(j)' => row'[j].key # row'[i].key
                    /\ \A v \in Workers : worker'[v].pc # "idle" => worker'[v].key # row'[i].key
  BY DEF LegacyIsAlone
<1> DEFINE Was == /\ row[i].status = "pending"
                  /\ ~row[i].parses
                  /\ row'[i].key = row[i].key
<1> DEFINE AloneNow == /\ \A j \in Ids \ {i} : Live(j)' => row'[j].key # row'[i].key
                       /\ \A v \in Workers : worker'[v].pc # "idle" => worker'[v].key # row'[i].key
<1>1. ASSUME Was
      PROVE  /\ \A j \in Ids \ {i} : Live(j) => row[j].key # row'[i].key
             /\ \A v \in Workers : worker[v].pc # "idle" => worker[v].key # row'[i].key
  BY <1>1 DEF LegacyIsAlone
<1>2. CASE UNCHANGED vars
  BY <1>1, <1>2 DEF vars, Live
<1>3. ASSUME NEW write \in Writes, NEW k \in Ids, InsertRow(write, k)
      PROVE  AloneNow
  <2>1. k # i
    BY <1>3, InsertEffect
  <2>2. /\ row'[i] = row[i]
        /\ row'[k].key = write.key
        /\ PendingOf(write.key) = {}
        /\ worker' = worker
        /\ \A j \in Ids \ {k} : row'[j] = row[j]
    BY <1>3, <2>1, InsertEffect DEF Change
  <2>3. write.key # row'[i].key
    BY <2>2 DEF PendingOf
  <2> QED
    BY <1>1, <2>1, <2>2, <2>3 DEF Live
<1>4. ASSUME NEW write \in Writes, NEW k \in Ids, MergeIntoPending(write, k)
      PROVE  AloneNow
  <2>1. /\ k # i
        /\ row'[k].key = row[k].key
        /\ row[k].status = "pending"
        /\ worker' = worker
        /\ \A j \in Ids \ {k} : row'[j] = row[j]
    BY <1>4, MergeEffect DEF Change
  <2> QED
    BY <1>1, <2>1 DEF Live
<1>5. ASSUME NEW k \in Ids, BecomeDue(k) \/ Age(k) \/ LeaseExpires(k)
      PROVE  AloneNow
  BY <1>1, <1>5, ClockEffect DEF Live
<1>6. ASSUME NEW k \in Ids, Purge(k) \/ \E w \in Workers : ClaimUnreadable(w, k)
      PROVE  AloneNow
  BY <1>1, <1>6, EndEffect DEF Live
<1>7. ASSUME NEW w \in Workers, NEW k \in Ids, Claim(w, k)
      PROVE  AloneNow
  <2>1. /\ k # i
        /\ row'[k].key = row[k].key
        /\ Live(k)
        /\ \A j \in Ids \ {k} : row'[j] = row[j]
        /\ \A v \in Workers \ {w} : worker'[v] = worker[v]
        /\ worker'[w].key = row[k].key
    BY <1>7, ClaimEffect DEF Live
  <2> QED
    BY <1>1, <2>1 DEF Live
<1>8. ASSUME NEW w \in Workers, NEW pc, NEW e, worker[w].pc # "idle",
             Answer(w, pc, e), row' = row
      PROVE  AloneNow
  BY <1>1, <1>8, AnswerEffect DEF Live
<1>9. ASSUME NEW w \in Workers, Done(w), Was,
             \A j \in Ids \ {i} : Live(j)' => Live(j) /\ row'[j].key = row[j].key
      PROVE  AloneNow
  BY <1>1, <1>9, DoneEffect
<1>10. ASSUME NEW w \in Workers, NEW k \in Ids, MergeIntoNewer(w, k)
       PROVE  AloneNow
  <2>1. k # i
    BY <1>10, RetryEffect
  <2>2. Was
    BY <1>10, <2>1, RetryEffect
  <2>3. \A j \in Ids \ {i} : Live(j)' => Live(j) /\ row'[j].key = row[j].key
    BY <1>10, RetryEffect DEF Live
  <2> QED
    BY <1>9, <1>10, <2>2, <2>3, RetryEffect
<1>11. ASSUME NEW w \in Workers, MarkDelivered(w) \/ FailManual(w) \/ ReturnToPending(w)
       PROVE  AloneNow
  <2>1. ASSUME NEW j \in Ids, Live(j)'
        PROVE  /\ Live(j)
               /\ row'[j].key = row[j].key
               /\ row'[j].parses = row[j].parses
               /\ row'[j] = row[j] \/ row[j].parses
    <3>1. CASE row'[j] = row[j]
      BY <2>1, <3>1 DEF Live
    <3>2. CASE row'[j] # row[j] /\ ReturnToPending(w)
      <4>1. j = worker[w].id /\ Owns(w)
        BY <3>2, SettleEffect
      <4> QED
        BY <3>2, <4>1, ReturnEffect DEF Owns, Live, PayloadsSound, RowSound
    <3>3. CASE row'[j] # row[j] /\ (MarkDelivered(w) \/ FailManual(w))
      <4>1. row'[j] = Settled("delivered") \/ row'[j] = Settled("failed")
        BY <3>3 DEF MarkDelivered, FailManual, TypeOK
      <4> QED
        BY <2>1, <4>1 DEF Settled, Live
    <3> QED
      BY <1>11, <3>1, <3>2, <3>3
  <2>2. Live(i)'
    BY DEF Live
  <2> QED
    BY <1>9, <1>11, <2>1, <2>2, SettleEffect
<1>12. ASSUME NEW w \in Workers, Dispatch(w)
       PROVE  AloneNow
  <2>1. CASE PostAccepted(w) \/ PostSkipped(w) \/ PostRejected(w)
    BY <1>8, <2>1 DEF PostAccepted, PostSkipped, PostRejected
  <2>2. ASSUME NEW D \in SUBSET Paths, PostFailed(w, D) PROVE AloneNow
    BY <1>8, <2>2 DEF PostFailed
  <2>3. CASE MarkDeliveredThrows(w)
    BY <1>8, <2>3 DEF MarkDeliveredThrows
  <2>4. CASE Crash(w)
    BY <1>9, <2>4 DEF Crash, Live
  <2> QED
    BY <1>6, <1>7, <1>10, <1>11, <1>12, <2>1, <2>2, <2>3, <2>4, ThrowIsCrash DEF Dispatch
<1> QED
  BY <1>2, <1>3, <1>4, <1>5, <1>6, <1>12 DEF Next, Database

\* Nothing is queued at first but at most one row of an earlier release.
LEMMA KeysInit == Init => KeysSound /\ LegacyIsAlone
<1> SUFFICES ASSUME Init PROVE KeysSound /\ LegacyIsAlone
  OBVIOUS
<1>1. \A w \in Workers : worker[w].pc = "idle"
  BY DEF Init, Idle
<1>2. Settled("absent").status = "absent"
  BY DEF Settled
<1>3. \A k, reason : ~Legacy(k, reason).parses
  BY DEF Legacy, Settled
<1>4. CASE row = [i \in Ids |-> Settled("absent")]
  BY <1>1, <1>2, <1>4 DEF KeysSound, LegacyIsAlone, Live
<1>5. CASE \E i \in Ids, k \in Keys \cup {NoKey}, reason \in {"write", "manual"} :
             row = [j \in Ids |-> IF j = i THEN Legacy(k, reason) ELSE Settled("absent")]
  BY <1>1, <1>2, <1>3, <1>5 DEF KeysSound, LegacyIsAlone, Live
<1> QED
  BY <1>4, <1>5 DEF Init

\* scheduleRetry throws on the newer pending row it finds only if the offers of the
\* two exceed the limit: that row parses and is of the failed payload's kind and
\* language, and a manual refresh always finds room in it.
THEOREM RetriesCanMerge == Spec => []RetryCanMerge
<1> DEFINE Inv == IInv /\ KeysSound /\ LegacyIsAlone
<1>1. Init => Inv
  BY InvInit, KeysInit
<1>2. Inv /\ [Next]_vars => Inv'
  BY InvStep, KeysStep, LegacyStep DEF IInv
<1>3. Inv => RetryCanMerge
  <2> SUFFICES ASSUME Inv, NEW w \in Workers, NEW j \in Newer(w),
                      worker[w].pc = "refused", ~CanMerge(w, j)
               PROVE  /\ row[j].parses
                      /\ Mergeable(worker[w].payload, row[j].payload)
                      /\ ~worker[w].payload.manual
                      /\ TooManyOffers(Merge(worker[w].payload, row[j].payload))
    BY DEF RetryCanMerge
  <2>1. /\ j \in Ids
        /\ row[j].status = "pending"
        /\ row[j].key = worker[w].key
        /\ worker[w].key # NoKey
    BY DEF Newer, PendingOf
  <2>2. row[j].parses
    BY <2>1 DEF LegacyIsAlone
  <2>3. OfKey(row[j].payload, worker[w].key) /\ OfKey(worker[w].payload, worker[w].key)
    BY <2>1, <2>2 DEF KeysSound, Live
  <2>4. /\ row[j].payload \in Payload /\ worker[w].payload \in Payload
        /\ Local(row[j].payload) /\ Local(worker[w].payload)
    BY <2>1 DEF IInv, TypeOK, Row, Worker, PayloadsSound, RowSound, WorkerSound
  <2>5. /\ Mergeable(worker[w].payload, row[j].payload)
        /\ ~CanBound(Merge(worker[w].payload, row[j].payload)) =>
              /\ ~worker[w].payload.manual
              /\ TooManyOffers(Merge(worker[w].payload, row[j].payload))
    BY <2>1, <2>3, <2>4, MergeOfKey
  <2> QED
    BY <2>2, <2>5 DEF CanMerge
<1> QED
  BY <1>1, <1>2, <1>3, PTL DEF Spec

(***************************************************************************)
(* What is required of the gateway stays required.                         *)
(***************************************************************************)
\* A page recorded as skipped is gone: the gateway refreshed its routes before it
\* reported it, and a deleted page does not come back.
SkippedAreGone == /\ \A i \in Ids : row[i].lastError \notin routes
                  /\ \A w \in Workers : worker[w].error \notin routes

\* The errors other than a skipped page are no page's.
LEMMA NoErrorIsRoute ==
    ASSUME TypeOK
    PROVE  /\ OtherError \notin routes /\ ClientError \notin routes /\ NoError \notin routes
           /\ \A w \in Workers : worker[w].error \notin routes
                                   => Recorded(worker[w].error) \notin routes
BY ErrorAssumption DEF TypeOK, Recorded

\* What a row records as its last error comes from the row, from the dispatcher
\* that retried it, or is no page.
LEMMA ErrorEffect ==
    ASSUME TypeOK, [Next]_vars, NEW i \in Ids
    PROVE  \/ row'[i].lastError \in {row[i].lastError, OtherError, NoError}
           \/ \E w \in Workers : row'[i].lastError = Recorded(worker[w].error)
<1> DEFINE Goal == \/ row'[i].lastError \in {row[i].lastError, OtherError, NoError}
                   \/ \E w \in Workers : row'[i].lastError = Recorded(worker[w].error)
<1>1. row[i] \in Row /\ row \in [Ids -> Row]
  BY DEF TypeOK
<1>2. \A s : Settled(s).lastError = OtherError
  BY DEF Settled
<1>3. CASE row' = row
  BY <1>3
<1>4. ASSUME NEW write \in Writes, NEW k \in Ids, InsertRow(write, k)
      PROVE  Goal
  <2> DEFINE inserted == [Settled("pending") EXCEPT
               !.key = write.key, !.reason = write.reason, !.payload = Bound(write.payload),
               !.lastError = Untried(write.key)]
  <2>1. row' = [row EXCEPT ![k] = inserted]
    BY <1>4 DEF InsertRow
  <2>2. inserted.lastError \in {OtherError, NoError}
    BY DEF Settled, Untried
  <2> HIDE DEF inserted
  <2> QED
    BY <1>1, <2>1, <2>2
<1>5. ASSUME NEW write \in Writes, NEW k \in Ids, MergeIntoPending(write, k)
      PROVE  Goal
  <2> DEFINE pl == Bound(Merge(row[k].payload, Bound(write.payload)))
  <2> DEFINE merged == [row[k] EXCEPT !.payload = pl, !.reason = write.reason]
  <2>1. row' = [row EXCEPT ![k] = merged]
    BY <1>5 DEF MergeIntoPending
  <2> HIDE DEF pl
  <2>2. merged.lastError = row[k].lastError
    BY <1>1 DEF Row
  <2> HIDE DEF merged
  <2> QED
    BY <1>1, <2>1, <2>2
<1>6. ASSUME NEW k \in Ids, Age(k) \/ LeaseExpires(k)
      PROVE  Goal
  <2>1. row' = [row EXCEPT ![k] = [row[k] EXCEPT !.aged = TRUE]]
        \/ row' = [row EXCEPT ![k] = [row[k] EXCEPT !.lapsed = TRUE]]
    BY <1>6 DEF Age, LeaseExpires
  <2>2. \A r \in {[row[k] EXCEPT !.aged = TRUE], [row[k] EXCEPT !.lapsed = TRUE]} :
           r.lastError = row[k].lastError
    BY <1>1 DEF Row
  <2> QED
    BY <1>1, <2>1, <2>2
<1>7. ASSUME NEW k \in Ids, Purge(k) \/ \E w \in Workers : ClaimUnreadable(w, k)
      PROVE  Goal
  BY <1>1, <1>2, <1>7 DEF Purge, ClaimUnreadable
<1>8. ASSUME NEW w \in Workers, NEW k \in Ids, Claim(w, k)
      PROVE  Goal
  <2> DEFINE claimed == [row[k] EXCEPT !.status = "processing", !.token = w,
                                       !.lapsed = FALSE, !.payload = ReconcileDeletedOffer(k)]
  <2>1. row' = [row EXCEPT ![k] = claimed]
    BY <1>8 DEF Claim
  <2>2. claimed.lastError = row[k].lastError
    BY <1>1 DEF Row
  <2> HIDE DEF claimed
  <2> QED
    BY <1>1, <2>1, <2>2
<1>9. ASSUME NEW w \in Workers, NEW j \in Ids, MergeIntoNewer(w, j)
      PROVE  Goal
  <2> DEFINE pl == Bound(Merge(worker[w].payload, row[j].payload))
  <2> DEFINE merged == [row[j] EXCEPT
                 !.payload = pl,
                 !.attempts = IF @ > NextAttempt(w) THEN @ ELSE NextAttempt(w),
                 !.lastError = Recorded(worker[w].error)]
  <2>1. \/ row' = [row EXCEPT ![j] = merged, ![worker[w].id] = Settled("superseded")]
        \/ row' = [row EXCEPT ![j] = merged]
    BY <1>9 DEF MergeIntoNewer
  <2> HIDE DEF pl
  <2>2. merged.lastError = Recorded(worker[w].error)
    BY <1>1 DEF Row
  <2> HIDE DEF merged
  <2> QED
    BY <1>1, <1>2, <2>1, <2>2
<1>10. ASSUME NEW w \in Workers, MarkDelivered(w) \/ FailManual(w)
       PROVE  Goal
  BY <1>1, <1>2, <1>10 DEF MarkDelivered, FailManual
<1>11. ASSUME NEW w \in Workers, ReturnToPending(w)
       PROVE  Goal
  <2> DEFINE k == worker[w].id
  <2> DEFINE returned == [row[k] EXCEPT
               !.status = "pending", !.token = Nobody, !.lapsed = FALSE,
               !.attempts = NextAttempt(w),
               !.lastError = Recorded(worker[w].error)]
  <2>1. row' = [row EXCEPT ![k] = returned] \/ row' = row
    BY <1>11 DEF ReturnToPending
  <2>2. k \in Ids /\ row[k] \in Row
    BY <1>1, <1>11 DEF TypeOK, ReturnToPending
  <2>3. returned.lastError = Recorded(worker[w].error)
    BY <2>2 DEF Row
  <2> HIDE DEF returned
  <2> QED
    BY <1>1, <2>1, <2>2, <2>3
<1>12. ASSUME NEW w \in Workers, Dispatch(w)
       PROVE  Goal
  BY <1>3, <1>7, <1>8, <1>9, <1>10, <1>11, <1>12
     DEF Dispatch, PostAccepted, PostSkipped, PostRejected, PostFailed,
         MarkDeliveredThrows, RetryThrows, Crash
<1>13. ASSUME NEW k \in Ids, Database(k)
       PROVE  Goal
  BY <1>3, <1>6, <1>7, <1>13 DEF Database, BecomeDue
<1> QED
  BY <1>3, <1>4, <1>5, <1>12, <1>13 DEF Next, vars

\* A dispatcher's error is its own, no page, or a page that was skipped.
LEMMA ReportEffect ==
    ASSUME TypeOK, [Next]_vars, NEW w \in Workers
    PROVE  \/ worker'[w].error \in {worker[w].error, OtherError, ClientError}
           \/ worker'[w].error \in Skipped(worker[w].payload)
<1> DEFINE Goal == \/ worker'[w].error \in {worker[w].error, OtherError, ClientError}
                   \/ worker'[w].error \in Skipped(worker[w].payload)
<1>1. worker \in [Workers -> Worker]
  BY DEF TypeOK
<1>2. CASE worker' = worker
  BY <1>2
<1>3. ASSUME NEW v \in Workers, NEW pc, NEW e, Answer(v, pc, e),
             e \in {OtherError, ClientError} \cup Skipped(worker[v].payload)
      PROVE  Goal
  <2>1. [worker[v] EXCEPT !.pc = pc, !.error = e].error = e
    BY <1>1 DEF Worker
  <2>2. worker' = [worker EXCEPT ![v] = [worker[v] EXCEPT !.pc = pc, !.error = e]]
    BY <1>3 DEF Answer
  <2> QED
    BY <1>1, <1>3, <2>1, <2>2
<1>4. ASSUME NEW v \in Workers, Done(v)
      PROVE  Goal
  BY <1>1, <1>4 DEF Done, Idle
<1>5. ASSUME NEW v \in Workers, NEW i \in Ids, Claim(v, i)
      PROVE  Goal
  BY <1>1, <1>5 DEF Claim
<1>6. ASSUME NEW v \in Workers, Dispatch(v)
      PROVE  Goal
  <2>1. CASE PostAccepted(v) \/ PostRejected(v) \/ MarkDeliveredThrows(v)
    BY <1>3, <2>1 DEF PostAccepted, PostRejected, MarkDeliveredThrows
  <2>2. CASE PostSkipped(v)
    BY <1>3, <2>2 DEF PostSkipped
  <2>3. ASSUME NEW D \in SUBSET Paths, PostFailed(v, D) PROVE Goal
    BY <1>3, <2>3 DEF PostFailed
  <2>4. CASE MarkDelivered(v) \/ FailManual(v) \/ ReturnToPending(v) \/ Crash(v)
    BY <1>4, <2>4 DEF MarkDelivered, FailManual, ReturnToPending, Crash
  <2>5. ASSUME NEW i \in Ids, ClaimUnreadable(v, i) \/ MergeIntoNewer(v, i) PROVE Goal
    BY <1>2, <1>4, <2>5 DEF ClaimUnreadable, MergeIntoNewer
  <2> QED
    BY <1>5, <1>6, <2>1, <2>2, <2>3, <2>4, <2>5, ThrowIsCrash DEF Dispatch
<1>7. ASSUME NEW i \in Ids, Database(i)
      PROVE  worker' = worker
  BY <1>7 DEF Database, BecomeDue, Age, LeaseExpires, Purge
<1>8. ASSUME NEW write \in Writes, NEW i \in Ids,
             InsertRow(write, i) \/ MergeIntoPending(write, i)
      PROVE  worker' = worker
  BY <1>8 DEF InsertRow, MergeIntoPending, Change
<1> QED
  BY <1>2, <1>6, <1>7, <1>8 DEF Next, vars

\* Pages are deleted, never brought back under the same address.
LEMMA RoutesShrink ==
    ASSUME [Next]_vars PROVE routes' \subseteq routes
<1>1. CASE UNCHANGED vars
  BY <1>1 DEF vars
<1>2. ASSUME NEW write \in Writes, NEW i \in Ids,
             InsertRow(write, i) \/ MergeIntoPending(write, i)
      PROVE  routes' \subseteq routes
  BY <1>2 DEF InsertRow, MergeIntoPending, Change
<1>3. ASSUME NEW w \in Workers, Dispatch(w)
      PROVE  routes' = routes
  BY <1>3, ThrowIsCrash
     DEF Dispatch, Claim, ClaimUnreadable, MergeIntoNewer, PostAccepted, PostSkipped,
         PostRejected, PostFailed, MarkDelivered, MarkDeliveredThrows, FailManual,
         ReturnToPending, Crash, contentVars
<1>4. ASSUME NEW i \in Ids, Database(i)
      PROVE  routes' = routes
  BY <1>4 DEF Database, BecomeDue, Age, LeaseExpires, Purge, contentVars
<1> QED
  BY <1>1, <1>2, <1>3, <1>4 DEF Next

\* A skipped page is on no route: the gateway that does not know it refreshes.
LEMMA SkippedIsGone ==
    ASSUME NEW pl \in Payload, NEW p \in Skipped(pl)
    PROVE  p \notin routes
BY DEF Skipped, Refreshed, Required, Payload

\* Every step keeps the pages recorded as skipped off the routes.
LEMMA GoneStep ==
    ASSUME TypeOK, SkippedAreGone, [Next]_vars
    PROVE  SkippedAreGone'
<1>1. routes' \subseteq routes
  BY RoutesShrink
<1>2. ASSUME NEW i \in Ids PROVE row'[i].lastError \notin routes
  BY <1>2, ErrorEffect, NoErrorIsRoute DEF SkippedAreGone
<1>3. ASSUME NEW w \in Workers PROVE worker'[w].error \notin routes
  <2>1. worker[w].payload \in Payload
    BY DEF TypeOK, Worker
  <2> QED
    BY <2>1, ReportEffect, NoErrorIsRoute, SkippedIsGone DEF SkippedAreGone
<1> QED
  BY <1>1, <1>2, <1>3 DEF SkippedAreGone

\* No page is recorded as skipped at first.
LEMMA GoneInit == Init => SkippedAreGone
<1> SUFFICES ASSUME Init PROVE SkippedAreGone
  OBVIOUS
<1>1. OtherError \notin routes
  BY TypeInit, NoErrorIsRoute
<1>2. \A i \in Ids : row[i].lastError = OtherError
  <2>1. Settled("absent").lastError = OtherError
    BY DEF Settled
  <2>2. \A k, reason : Legacy(k, reason).lastError = OtherError
    BY DEF Legacy, Settled
  <2>3. \A i \in Ids : \/ row[i] = Settled("absent")
                       \/ \E k, reason : row[i] = Legacy(k, reason)
    BY DEF Init
  <2> QED
    BY <2>1, <2>2, <2>3
<1>3. \A w \in Workers : worker[w].error = OtherError
  BY DEF Init, Idle
<1> QED
  BY <1>1, <1>2, <1>3 DEF SkippedAreGone

\* Coalescing may add requirements or widen; it relaxes none of either side.
LEMMA MergeRequires ==
    ASSUME NEW p \in Payload, NEW q \in Payload, Local(p), Local(q), p.locale = q.locale,
           NEW page \in Required(p) \cup Required(q)
    PROVE  \/ page \in Required(Bound(Merge(p, q)))
           \/ page \in Pages(Bound(Merge(p, q))) /\ Bound(Merge(p, q)).all
<1>1. PICK m \in Payload : m = Merge(p, q)
  BY PayloadTypes
<1>2. Local(m) /\ page \in Required(m)
  BY <1>1, MergeCovers DEF Merge, Required
<1>3. page \in Pages(Bound(m))
  <2>1. page \in Pages(m)
    BY <1>2 DEF Pages, Required
  <2> QED
    BY <1>1, <1>2, <2>1, BoundCovers
<1>4. CASE Oversized(m)
  <2>1. Bound(m).all
    BY <1>4 DEF Bound, Payload
  <2> QED
    BY <1>1, <1>3, <2>1
<1>5. CASE ~Oversized(m)
  BY <1>1, <1>2, <1>5 DEF Bound
<1> QED
  BY <1>4, <1>5

\* The deletion repair relaxes only the requirement of a deleted page.
LEMMA ReconcileRelaxes ==
    ASSUME TypeOK, SkippedAreGone, NEW i \in Ids, NEW p \in Required(row[i].payload)
    PROVE  \/ p \in Required(ReconcileDeletedOffer(i))
           \/ row[i].reason = "delete" /\ p \in OfferPaths \ routes
BY DEF ReconcileDeletedOffer, Required, SkippedAreGone, TypeOK, Row, Payload

\* A page required of the gateway stays required or is widened to, unless it is the
\* detail page of a deleted offer that the gateway reported unknown.
THEOREM RequirementsAreKept == Spec => RequirementsSurvive
<1> DEFINE Inv == IInv /\ SkippedAreGone
<1> DEFINE Kept(i, p) == \/ p \in Required(row[i].payload')
                         \/ p \in Pages(row[i].payload') /\ row[i].payload'.all
                         \/ row[i].reason = "delete" /\ p \in OfferPaths \ routes
<1>1. Init => Inv
  BY InvInit, GoneInit
<1>2. Inv /\ [Next]_vars => Inv'
  BY InvStep, GoneStep DEF IInv
<1>3. ASSUME Inv, [Next]_vars, NEW i \in Ids, Live(i), Live(i)',
             NEW p \in Required(row[i].payload)
      PROVE  Kept(i, p)
  <2>1. /\ TypeOK
        /\ \A j \in Ids : row[j].payload \in Payload /\ Local(row[j].payload)
        /\ \A w \in Workers : worker[w].payload \in Payload /\ Local(worker[w].payload)
    BY <1>3 DEF IInv, TypeOK, Row, Worker, PayloadsSound, RowSound, WorkerSound
  <2>2. CASE row'[i] = row[i]
    BY <1>3, <2>2
  <2>3. ASSUME NEW write \in Writes, NEW k \in Ids, InsertRow(write, k)
        PROVE  Kept(i, p)
    BY <1>3, <2>1, <2>2, <2>3, InsertEffect DEF Live
  <2>4. ASSUME NEW write \in Writes, NEW k \in Ids, MergeIntoPending(write, k)
        PROVE  Kept(i, p)
    <3>1. CASE k = i
      <4>1. /\ row'[i].payload = Bound(Merge(row[i].payload, Bound(write.payload)))
            /\ row[i].payload.locale = Bound(write.payload).locale
        BY <2>1, <2>4, <3>1, MergeEffect, WriteSound DEF Mergeable
      <4> QED
        BY <1>3, <2>1, <4>1, WriteSound, MergeRequires
    <3> QED
      BY <2>1, <2>2, <2>4, <3>1, MergeEffect
  <2>5. ASSUME NEW k \in Ids, Database(k)
        PROVE  Kept(i, p)
    <3>1. CASE BecomeDue(k) \/ Age(k) \/ LeaseExpires(k)
      BY <1>3, <2>1, <3>1, ClockEffect
    <3>2. CASE Purge(k)
      BY <1>3, <2>1, <2>2, <3>2, EndEffect DEF Live
    <3> QED
      BY <2>5, <3>1, <3>2 DEF Database
  <2>6. ASSUME NEW w \in Workers, NEW k \in Ids, Claim(w, k)
        PROVE  Kept(i, p)
    <3>1. CASE k = i
      BY <1>3, <2>1, <2>6, <3>1, ClaimEffect, ReconcileRelaxes
    <3> QED
      BY <2>1, <2>2, <2>6, <3>1, ClaimEffect
  <2>7. ASSUME NEW w \in Workers, NEW k \in Ids, ClaimUnreadable(w, k)
        PROVE  Kept(i, p)
    BY <1>3, <2>1, <2>2, <2>7, EndEffect DEF Live
  <2>8. ASSUME NEW w \in Workers, NEW j \in Ids, MergeIntoNewer(w, j)
        PROVE  Kept(i, p)
    <3>1. CASE j = i
      <4>1. /\ row'[i].payload = Bound(Merge(worker[w].payload, row[i].payload))
            /\ worker[w].payload.locale = row[i].payload.locale
        BY <2>1, <2>8, <3>1, RetryEffect DEF Mergeable
      <4> QED
        BY <1>3, <2>1, <4>1, MergeRequires
    <3>2. CASE j # i
      BY <1>3, <2>1, <2>2, <2>8, <3>2, RetryEffect DEF Live
    <3> QED
      BY <3>1, <3>2
  <2>9. ASSUME NEW w \in Workers, ReturnToPending(w)
        PROVE  Kept(i, p)
    BY <1>3, <2>1, <2>2, <2>9, ReturnEffect, SettleEffect
  <2>10. ASSUME NEW w \in Workers, MarkDelivered(w) \/ FailManual(w)
         PROVE  Kept(i, p)
    BY <1>3, <2>1, <2>2, <2>10 DEF MarkDelivered, FailManual, Settled, Live, TypeOK
  <2>11. ASSUME NEW w \in Workers,
                \/ PostAccepted(w) \/ PostSkipped(w) \/ PostRejected(w)
                \/ \E D \in SUBSET Paths : PostFailed(w, D)
                \/ MarkDeliveredThrows(w) \/ Crash(w)
         PROVE  row' = row
    BY <2>11 DEF PostAccepted, PostSkipped, PostRejected, PostFailed,
                 MarkDeliveredThrows, Crash
  <2> QED
    BY <1>3, <2>2, <2>3, <2>4, <2>5, <2>6, <2>7, <2>8, <2>9, <2>10, <2>11, ThrowIsCrash
       DEF Next, Dispatch, vars
<1>4. Inv /\ [Next]_vars =>
        [\A i \in Ids : Live(i) /\ Live(i)' =>
            \A p \in Required(row[i].payload) :
               \/ p \in Required(row[i].payload')
               \/ p \in Pages(row[i].payload') /\ row[i].payload'.all
               \/ row[i].reason = "delete" /\ p \in OfferPaths \ routes]_vars
  BY <1>3
<1> QED
  BY <1>1, <1>2, <1>4, PTL DEF Spec, RequirementsSurvive
=============================================================================
