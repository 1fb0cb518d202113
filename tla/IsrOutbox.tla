----------------------------- MODULE IsrOutbox -----------------------------
(***************************************************************************)
(* The durable ISR outbox: content transactions that insert or coalesce an  *)
(* invalidation row, the dispatchers of several CMS processes that claim    *)
(* rows under a lease, post them to the ISR gateway and settle or retry     *)
(* them, lease expiry, crashes, and the retention cleanup.                  *)
(*                                                                          *)
(* Each store method is one database transaction under the key's advisory   *)
(* lock or a single guarded UPDATE, so each is one action; the gateway call *)
(* between claim and settlement is an action of its own, and everything     *)
(* may happen in between.  A row id is reused after cleanup: it then stands *)
(* for a new row with a new delivery_key.                                   *)
(***************************************************************************)
EXTENDS IsrPayload

CONSTANTS
    Ids,            \* row slots of the isr_outbox table
    Workers,        \* CMS processes running a dispatcher
    Keys,           \* coalescing event keys
    NoKey,          \* an unkeyed row: its event_key is a fresh UUID
    DebouncedKeys,  \* translation-isr:<locale> keys
    DelayedKeys,    \* telegram-feed:page, delayed once on insertion
    Writes,         \* the inserts content writes perform: key, reason, payload
    OfferPaths,     \* detail pages /coupon/<n>/ and /deal/<n>/
    RoutesScope,    \* the "routes" refresh scope
    ManualLimit,    \* attempts after which a manual refresh fails
    OtherError,     \* any failure but a single skipped path or a client error
    ClientError,    \* gateway returned 400, 401, 403, 404 or 413
    NoError,        \* last_error of a debounced row that no retry has touched
    Nobody,         \* no lock token
    NoId            \* an idle dispatcher holds no row

Reasons == {"write", "delete", "manual"}

Write == [key : Keys \cup {NoKey}, reason : Reasons, payload : Payload]

ASSUME KeyAssumption == NoKey \notin Keys /\ DebouncedKeys \subseteq Keys
ASSUME NobodyAssumption == Nobody \notin Workers /\ NoId \notin Ids
ASSUME ErrorAssumption ==
    /\ {OtherError, ClientError, NoError} \cap Paths = {}
    /\ NoError # OtherError
ASSUME LimitAssumption == ManualLimit \in Nat \ {0}
ASSUME OfferAssumption == OfferPaths \subseteq Paths
ASSUME WritesAssumption ==
    /\ Writes \subseteq Write
    /\ \A w \in Writes : /\ Parses(w.payload)
                         /\ Local(w.payload)
                         /\ CanBound(w.payload)
                         /\ w.payload.manual <=> w.reason = "manual"
    \* callers of one key agree on kind and locale of the payload
    /\ \A v, w \in Writes : v.key = w.key /\ v.key # NoKey
                              => Mergeable(v.payload, w.payload)
\* The key of a manual refresh is a hash of all that its payload is made of
\* (refresh-request.ts:43).
ASSUME ManualAssumption ==
    \A v, w \in Writes : v.key = w.key /\ v.key # NoKey /\ v.payload.manual
                            => v.payload = w.payload

VARIABLES
    row,       \* row[i]: the row in slot i
    ahead,     \* ahead[i]: rows due no later than i; i is in it once it is due
    worker,    \* worker[w]: what dispatcher w is doing
    routes,    \* pages the content now admits
    known,     \* external: pages in the gateway's route registry
    unsent     \* changed pages no later hand-over to the gateway covered

contentVars == <<routes, unsent>>
vars == <<row, ahead, worker, routes, known, unsent>>

Statuses == {"absent", "pending", "processing", "delivered",
             "superseded", "invalid", "failed"}
Terminal == {"delivered", "superseded", "failed"}

Row == [status    : Statuses,
        key       : Keys \cup {NoKey},
        reason    : Reasons,
        payload   : Payload,
        parses    : BOOLEAN,
        token     : Workers \cup {Nobody},
        attempts  : 0..ManualLimit,
        lastError : Paths \cup {OtherError, NoError},
        aged      : BOOLEAN,
        lapsed    : BOOLEAN]

Worker == [pc       : {"idle", "claimed", "accepted", "refused"},
           id       : Ids \cup {NoId},
           key      : Keys \cup {NoKey},
           payload  : Payload,
           attempts : 0..ManualLimit,
           error    : Paths \cup {OtherError, ClientError}]

NoPayload == [all |-> FALSE, manual |-> FALSE, locale |-> NoLocale,
              paths |-> {}, optional |-> {}, scopes |-> {}, offers |-> {}]

\* What settlement leaves of a row: nothing reads its other columns again.
Settled(status) ==
    [status |-> status, key |-> NoKey, reason |-> "write",
     payload |-> NoPayload, parses |-> TRUE, token |-> Nobody, attempts |-> 0,
     lastError |-> OtherError, aged |-> FALSE, lapsed |-> FALSE]

\* A row written by a release whose payload this one cannot parse.
Legacy(key, reason) ==
    [Settled("pending") EXCEPT !.key = key, !.reason = reason, !.parses = FALSE]

Idle == [pc |-> "idle", id |-> NoId, key |-> NoKey, payload |-> NoPayload,
         attempts |-> 0, error |-> OtherError]

(***************************************************************************)
(* Order of next_attempt_at.                                               *)
(***************************************************************************)
IsDue(i) == i \in ahead[i]
\* Row i is not due, and when it is it will come after the rows S.
Deferred(i, S) == [j \in Ids |-> IF j = i THEN S ELSE ahead[j] \ {i}]
NotDue(i) == [j \in Ids |-> IF j = i THEN {} ELSE ahead[j] \ {i}]
\* Row i becomes due after the rows S and before the other due rows.
DueAfter(i, S) ==
    [j \in Ids |-> IF j = i THEN S \cup {i}
                   ELSE IF IsDue(j) /\ j \notin S THEN ahead[j] \cup {i}
                   ELSE ahead[j] \ {i}]
DueLast(i) == DueAfter(i, {j \in Ids : IsDue(j)} \ {i})
\* The places row i may take among the due rows.
Places(i) == {{}} \cup {ahead[j] \ {i} : j \in {k \in Ids \ {i} : IsDue(k)}}

(***************************************************************************)
(* Shared predicates.                                                      *)
(***************************************************************************)
Live(i) == row[i].status \in {"pending", "processing"}
Free(i) == row[i].status = "absent"
Retried(i) == row[i].lastError # NoError
PendingOf(key) == {i \in Ids : /\ row[i].status = "pending"
                               /\ row[i].key = key
                               /\ key # NoKey}

\* Deviation: the settling UPDATE checks the status only.
OwnsByStatus(w) == row[worker[w].id].status = "processing"

\* The guard of every settling UPDATE: id, status and lock_token still match.
Owns(w) == /\ row[worker[w].id].status = "processing"
           /\ row[worker[w].id].token = w

\* Pages some undelivered row will still hand to the gateway.
Promised == UNION {Pages(row[i].payload) : i \in {j \in Ids : Live(j)}}

\* A write happens only on content that exists.
Applies(write) ==
    LET offers == write.payload.paths \cap OfferPaths
    IN IF write.reason = "delete"
       THEN offers # {} /\ offers \subseteq routes
       ELSE write.reason = "write" => offers \subseteq routes

Init ==
    /\ \/ row = [i \in Ids |-> Settled("absent")]
       \/ \E i \in Ids, k \in Keys \cup {NoKey}, reason \in {"write", "manual"} :
             row = [j \in Ids |-> IF j = i THEN Legacy(k, reason)
                                           ELSE Settled("absent")]
    /\ ahead = [i \in Ids |-> {}]
    /\ worker = [w \in Workers |-> Idle]
    /\ routes = Paths
    /\ known = Paths
    /\ unsent = {}

(***************************************************************************)
(* Content writes: the change and its outbox row commit together.          *)
(***************************************************************************)
Change(write) ==
    LET pl == write.payload
    IN /\ Applies(write)
       /\ routes' = IF write.reason = "delete" THEN routes \ (pl.paths \cap OfferPaths)
                                               ELSE routes
       /\ unsent' = IF write.reason = "manual" THEN unsent
                                               ELSE unsent \cup Pages(pl)
       /\ UNCHANGED <<worker, known>>

\* last_error on insertion.  Whether a retry has set it matters to the debounce
\* only: of other keys no error is not told apart from one that nothing reads.
Untried(key) == IF key \in DebouncedKeys THEN NoError ELSE OtherError

\* No pending row of the key: insert one, debounced or due at once.
InsertRow(write, i) ==
    /\ Free(i)
    /\ PendingOf(write.key) = {}
    /\ row' = [row EXCEPT ![i] =
                 [Settled("pending") EXCEPT !.key = write.key,
                                            !.reason = write.reason,
                                            !.payload = Bound(write.payload),
                                            !.lastError = Untried(write.key)]]
    /\ ahead' = IF write.key \in DebouncedKeys \cup DelayedKeys
                THEN Deferred(i, {j \in Ids \ {i} : IsDue(j)}) ELSE DueLast(i)
    /\ Change(write)

\* Deviation: the debounce slides without an age limit.
DebounceSlides(key, i) ==
    IF key \in DebouncedKeys THEN ahead' = NotDue(i) ELSE UNCHANGED ahead

\* Debounce slides while the row is young: no retry having set its due time, it
\* only moves back.  Of an older row it sets the due time to the age limit: Age
\* has placed the row, unless a retry put it off, when it moves to the front of
\* any rows due.
Debounce(key, i) ==
    IF key \notin DebouncedKeys THEN UNCHANGED ahead
    ELSE IF ~row[i].aged
    THEN ahead' = Deferred(i, IF Retried(i) THEN {} ELSE ahead[i] \ {i})
    ELSE IF ~Retried(i) THEN UNCHANGED ahead
    ELSE \E S \in Places(i) : (IsDue(i) => S \subseteq ahead[i]) /\ ahead' = DueAfter(i, S)

\* Deviation: the newest payload replaces the pending one.
ReplacePending(write, i) ==
    /\ i \in PendingOf(write.key)
    /\ row[i].parses
    /\ row' = [row EXCEPT ![i].payload = Bound(write.payload),
                          ![i].reason = write.reason]
    /\ Debounce(write.key, i)
    /\ Change(write)

\* The key's pending row absorbs the write.  A pending row whose payload does
\* not parse, or a union too large, makes the write throw and roll back: then
\* nothing happens.
MergeIntoPending(write, i) ==
    /\ i \in PendingOf(write.key)
    /\ row[i].parses
    /\ LET merged == Merge(row[i].payload, Bound(write.payload))
       IN /\ Mergeable(row[i].payload, write.payload)
          /\ CanBound(merged)
          /\ row' = [row EXCEPT ![i] = [@ EXCEPT !.payload = Bound(merged),
                                                 !.reason = write.reason]]
    /\ Debounce(write.key, i)
    /\ Change(write)

\* next_attempt_at of a pending row passes.
BecomeDue(i) ==
    /\ row[i].status = "pending"
    /\ ~IsDue(i)
    /\ ahead' = DueLast(i)
    /\ UNCHANGED <<row, worker, known, contentVars>>

\* TRANSLATION_DEBOUNCE_MAX_MS passes since a pending row was created: unless a
\* retry put it off, it is due at the latest now.  The next write it absorbs
\* moves it behind the rows due by now, and not behind any due later; that such
\* a write will come is decided here.
Age(i) ==
    /\ row[i].status = "pending"
    /\ row[i].key \in DebouncedKeys
    /\ ~row[i].aged
    /\ row' = [row EXCEPT ![i] = [@ EXCEPT !.aged = TRUE]]
    /\ \/ (IsDue(i) \/ Retried(i)) /\ UNCHANGED ahead
       \/ (IsDue(i) \/ ~Retried(i)) /\ ahead' = DueLast(i)
    /\ UNCHANGED <<worker, known, contentVars>>

\* A processing row's lease runs out, its owner dead or merely slow.
LeaseExpires(i) ==
    /\ row[i].status = "processing"
    /\ ~row[i].lapsed
    /\ row' = [row EXCEPT ![i] = [@ EXCEPT !.lapsed = TRUE]]
    /\ UNCHANGED <<ahead, worker, known, contentVars>>

(***************************************************************************)
(* Claiming.                                                               *)
(***************************************************************************)
Claimable(i) == \/ row[i].status = "pending" /\ IsDue(i)
                \/ row[i].status = "processing" /\ row[i].lapsed

\* claim() takes the claimable row with the smallest next_attempt_at.
First(i) == /\ Claimable(i)
            /\ \A j \in Ids \ {i} : Claimable(j) => j \notin ahead[i]

\* Deviation: any page the gateway skipped becomes optional.
RepairAnySkipped(i) ==
    LET pl == row[i].payload
        p  == row[i].lastError
    IN IF p \in Required(pl) THEN [pl EXCEPT !.optional = @ \cup {p}] ELSE pl

\* Deviation: a deletion is retried as it was.
NoRepair(i) == row[i].payload

\* A retried offer deletion whose only skipped path is the deleted detail
\* page: its absence becomes convergence.
ReconcileDeletedOffer(i) ==
    LET pl == row[i].payload
        p  == row[i].lastError
    IN IF /\ row[i].reason = "delete"
          /\ RoutesScope \in pl.scopes
          /\ p \in OfferPaths \cap Required(pl)
       THEN [pl EXCEPT !.optional = @ \cup {p}]
       ELSE pl

Claim(w, i) ==
    /\ worker[w].pc = "idle"
    /\ First(i)
    /\ row[i].parses
    /\ LET pl == ReconcileDeletedOffer(i)
       IN /\ row' = [row EXCEPT ![i] = [@ EXCEPT !.status = "processing",
                                                 !.token = w,
                                                 !.lapsed = FALSE,
                                                 !.payload = pl]]
          /\ worker' = [worker EXCEPT ![w] =
                          [pc |-> "claimed", id |-> i, key |-> row[i].key, payload |-> pl,
                           attempts |-> row[i].attempts, error |-> OtherError]]
    /\ UNCHANGED <<ahead, known, contentVars>>

ClaimUnreadable(w, i) ==
    /\ worker[w].pc = "idle"
    /\ First(i)
    /\ ~row[i].parses
    /\ row' = [row EXCEPT ![i] =
                 Settled(IF row[i].reason = "manual" THEN "failed" ELSE "invalid")]
    /\ ahead' = NotDue(i)
    /\ UNCHANGED <<worker, known, contentVars>>

(***************************************************************************)
(* The gateway call.  Before it answers, the gateway refreshes its route    *)
(* inventory when asked to or when it meets a path it does not know.        *)
(***************************************************************************)
Refreshed(pl) ==
    IF RoutesScope \in pl.scopes \/ ~(pl.paths \subseteq known)
    THEN routes ELSE known

\* Required paths unknown before and after the refresh (skippedPaths); a path
\* the refresh removes is reported in removedPaths and counts as settled.
Skipped(pl) == Required(pl) \ (known \cup Refreshed(pl))

Answer(w, pc, error) ==
    worker' = [worker EXCEPT ![w] = [@ EXCEPT !.pc = pc, !.error = error]]

\* 2xx with nothing skipped.
PostAccepted(w) ==
    LET pl == worker[w].payload
    IN /\ worker[w].pc = "claimed"
       /\ Skipped(pl) = {}
       /\ known' = Refreshed(pl)
       /\ unsent' = unsent \ Pages(pl)
       /\ Answer(w, "accepted", OtherError)
       /\ UNCHANGED <<row, ahead, routes>>

\* 2xx with skipped paths, which deliverOutboxEvent turns into an error.
PostSkipped(w) ==
    LET pl == worker[w].payload
    IN /\ worker[w].pc = "claimed"
       /\ Skipped(pl) # {}
       /\ known' = Refreshed(pl)
       /\ unsent' = unsent \ (Pages(pl) \ Skipped(pl))
       /\ \E p \in Skipped(pl) :
             Answer(w, "refused", IF Skipped(pl) = {p} THEN p ELSE OtherError)
       /\ UNCHANGED <<row, ahead, routes>>

\* A client error: the gateway took nothing in.
PostRejected(w) ==
    /\ worker[w].pc = "claimed"
    /\ Answer(w, "refused", ClientError)
    /\ UNCHANGED <<row, ahead, known, contentVars>>

\* 5xx, a network error, or the request timeout after the gateway took in D.
PostFailed(w, D) ==
    LET pl == worker[w].payload
    IN /\ worker[w].pc = "claimed"
       /\ D \subseteq Pages(pl) \ Skipped(pl)
       /\ known' \in {known, Refreshed(pl)}
       /\ unsent' = unsent \ D
       /\ Answer(w, "refused", OtherError)
       /\ UNCHANGED <<row, ahead, routes>>

(***************************************************************************)
(* Settlement.  Every UPDATE is guarded by Owns(w): after a lost lease it   *)
(* matches no row and the dispatcher only logs lease_lost.                  *)
(***************************************************************************)
Done(w) == worker' = [worker EXCEPT ![w] = Idle]

\* Deviation: delivered by row id, whoever holds the lease now.
MarkDeliveredById(w) ==
    /\ worker[w].pc = "accepted"
    /\ row' = [row EXCEPT ![worker[w].id] = Settled("delivered")]
    /\ ahead' = NotDue(worker[w].id)
    /\ Done(w)
    /\ UNCHANGED <<known, contentVars>>

MarkDelivered(w) ==
    LET i == worker[w].id
    IN /\ worker[w].pc = "accepted"
       /\ IF Owns(w)
          THEN /\ row' = [row EXCEPT ![i] = Settled("delivered")]
               /\ ahead' = NotDue(i)
          ELSE UNCHANGED <<row, ahead>>
       /\ Done(w)
       /\ UNCHANGED <<known, contentVars>>

\* The delivered UPDATE itself fails; dispatchOne's catch schedules a retry.
MarkDeliveredThrows(w) ==
    /\ worker[w].pc = "accepted"
    /\ Answer(w, "refused", OtherError)
    /\ UNCHANGED <<row, ahead, known, contentVars>>

\* attempt_count after this failure, counted for manual commands only: of any
\* other row it decides nothing but the length of the backoff.
NextAttempt(w) == IF worker[w].payload.manual /\ worker[w].attempts < ManualLimit
                  THEN worker[w].attempts + 1 ELSE worker[w].attempts

\* What a row records as last_error: only a skipped path is ever read back.
Recorded(error) == IF error = ClientError THEN OtherError ELSE error

GivesUp(w) == /\ worker[w].payload.manual
              /\ \/ NextAttempt(w) = ManualLimit
                 \/ worker[w].error = ClientError

\* scheduleRetry, first branch: a manual command fails for good.
FailManual(w) ==
    LET i == worker[w].id
    IN /\ worker[w].pc = "refused"
       /\ GivesUp(w)
       /\ IF Owns(w)
          THEN /\ row' = [row EXCEPT ![i] = Settled("failed")]
               /\ ahead' = NotDue(i)
          ELSE UNCHANGED <<row, ahead>>
       /\ Done(w)
       /\ UNCHANGED <<known, contentVars>>

\* Deviation: a retry does not look for a newer pending row.
NoNewer(w) == {}

\* Pending rows of the same key other than the one being retried.
Newer(w) == PendingOf(worker[w].key) \ {worker[w].id}

\* No newer pending row: back to pending with a backoff.
ReturnToPending(w) ==
    LET i == worker[w].id
    IN /\ worker[w].pc = "refused"
       /\ ~GivesUp(w)
       /\ Newer(w) = {}
       /\ IF Owns(w)
          THEN /\ row' = [row EXCEPT ![i] =
                             [@ EXCEPT !.status = "pending",
                                       !.token = Nobody,
                                       !.lapsed = FALSE,
                                       !.attempts = NextAttempt(w),
                                       !.lastError = Recorded(worker[w].error)]]
               /\ ahead' = NotDue(i)
          ELSE UNCHANGED <<row, ahead>>
       /\ Done(w)
       /\ UNCHANGED <<known, contentVars>>

\* Deviation: the retry retires in favour of the newer row without merging.
RetireOnly(w, j) ==
    LET i == worker[w].id
    IN /\ worker[w].pc = "refused"
       /\ ~GivesUp(w)
       /\ j \in Newer(w)
       /\ Owns(w)
       /\ row' = [row EXCEPT ![i] = Settled("superseded")]
       /\ ahead' = NotDue(i)
       /\ Done(w)
       /\ UNCHANGED <<known, contentVars>>

CanMerge(w, j) == /\ row[j].parses
                  /\ Mergeable(worker[w].payload, row[j].payload)
                  /\ CanBound(Merge(worker[w].payload, row[j].payload))

\* Deviation: the newer row keeps its own attempt count.
MergeUncounted(w, j) ==
    LET i == worker[w].id
        merged == [row[j] EXCEPT
                     !.payload = Bound(Merge(worker[w].payload, row[j].payload)),
                     !.lastError = Recorded(worker[w].error)]
    IN /\ worker[w].pc = "refused"
       /\ ~GivesUp(w)
       /\ j \in Newer(w)
       /\ CanMerge(w, j)
       /\ Owns(w)
       /\ row' = [row EXCEPT ![j] = merged, ![i] = Settled("superseded")]
       /\ ahead' = [k \in Ids |-> IF k \in {i, j} THEN {} ELSE ahead[k] \ {i, j}]
       /\ Done(w)
       /\ UNCHANGED <<known, contentVars>>

\* A newer pending row j absorbs the failed payload, even after a lost lease;
\* the own row, if still owned, retires as superseded.
MergeIntoNewer(w, j) ==
    LET i == worker[w].id
        merged == [row[j] EXCEPT
                     !.payload = Bound(Merge(worker[w].payload, row[j].payload)),
                     !.attempts = IF @ > NextAttempt(w) THEN @ ELSE NextAttempt(w),
                     !.lastError = Recorded(worker[w].error)]
    IN /\ worker[w].pc = "refused"
       /\ ~GivesUp(w)
       /\ j \in Newer(w)
       /\ CanMerge(w, j)
       /\ IF Owns(w)
          THEN /\ row' = [row EXCEPT ![j] = merged, ![i] = Settled("superseded")]
               /\ ahead' = [k \in Ids |-> IF k \in {i, j} THEN {} ELSE ahead[k] \ {i, j}]
          ELSE /\ row' = [row EXCEPT ![j] = merged]
               /\ ahead' = NotDue(j)
       /\ Done(w)
       /\ UNCHANGED <<known, contentVars>>

\* The two cannot be merged: scheduleRetry throws out of the cycle, and the row
\* stays processing until its lease lapses.
RetryThrows(w, j) ==
    /\ worker[w].pc = "refused"
    /\ ~GivesUp(w)
    /\ j \in Newer(w)
    /\ ~CanMerge(w, j)
    /\ Done(w)
    /\ UNCHANGED <<row, ahead, known, contentVars>>

\* The process dies, or a store call throws out of the dispatcher's cycle.
Crash(w) ==
    /\ worker[w].pc # "idle"
    /\ Done(w)
    /\ UNCHANGED <<row, ahead, known, contentVars>>

\* deleteDeliveredBefore: retention (days) outlives every request (minutes).
Purge(i) ==
    /\ row[i].status \in Terminal
    /\ \A w \in Workers : worker[w].id # i
    /\ row' = [row EXCEPT ![i] = Settled("absent")]
    /\ UNCHANGED <<ahead, worker, known, contentVars>>

(***************************************************************************)
(* The specification.                                                      *)
(***************************************************************************)
Dispatch(w) ==
    \/ \E i \in Ids : \/ Claim(w, i) \/ ClaimUnreadable(w, i)
                     \/ MergeIntoNewer(w, i) \/ RetryThrows(w, i)
    \/ PostAccepted(w) \/ PostSkipped(w) \/ PostRejected(w)
    \/ \E D \in SUBSET Paths : PostFailed(w, D)
    \/ MarkDelivered(w) \/ MarkDeliveredThrows(w)
    \/ FailManual(w) \/ ReturnToPending(w) \/ Crash(w)

Database(i) == BecomeDue(i) \/ Age(i) \/ LeaseExpires(i) \/ Purge(i)

Next ==
    \/ \E write \in Writes, i \in Ids :
          InsertRow(write, i) \/ MergeIntoPending(write, i)
    \/ \E w \in Workers : Dispatch(w)
    \/ \E i \in Ids : Database(i)

Spec == Init /\ [][Next]_vars

Posts(w) == \/ PostAccepted(w) \/ PostSkipped(w) \/ PostRejected(w)
            \/ \E D \in SUBSET Paths : PostFailed(w, D)

Retries(w) == \/ FailManual(w) \/ ReturnToPending(w)
              \/ \E j \in Ids : MergeIntoNewer(w, j) \/ RetryThrows(w, j)

\* Timers fire, the dispatcher polls, and goes on with what it has begun.
Scheduling ==
    /\ \A i \in Ids : /\ WF_vars(BecomeDue(i))
                      /\ WF_vars(Age(i))
                      /\ WF_vars(LeaseExpires(i))
    /\ \A w \in Workers :
          /\ WF_vars(\E i \in Ids : Claim(w, i) \/ ClaimUnreadable(w, i))
          /\ WF_vars(Posts(w) \/ MarkDelivered(w) \/ MarkDeliveredThrows(w) \/ Retries(w))

\* Outages end: processes die finitely often, a retry that throws apart; and for a page of a row offered
\* again and again the gateway answers 2xx at least once, and the database
\* confirms the delivery at least once.  Of a manual refresh the first is not
\* assumed: the gateway may refuse it for ever.
OutagesEnd ==
    /\ <>[][\A w \in Workers : Crash(w) => \E j \in Ids : RetryThrows(w, j)]_vars
    /\ \A w \in Workers, i \in Ids :
          /\ \A p \in Paths : SF_vars(/\ worker[w].id = i
                                      /\ p \in worker[w].payload.paths
                                      /\ ~worker[w].payload.manual
                                      /\ PostAccepted(w) \/ PostSkipped(w))
          /\ SF_vars(worker[w].id = i /\ MarkDelivered(w))

FairSpec == Spec /\ Scheduling /\ OutagesEnd

(***************************************************************************)
(* Properties.                                                             *)
(***************************************************************************)
TypeOK ==
    /\ row \in [Ids -> Row]
    /\ \A w \in Workers : worker[w].pc # "idle" => worker[w].id \in Ids
    /\ ahead \in [Ids -> SUBSET Ids]
    /\ worker \in [Workers -> Worker]
    /\ routes \subseteq Paths
    /\ known \subseteq Paths
    /\ unsent \subseteq Paths

\* A dispatcher has been answered for the row it still owns.
Answered(i) == \E w \in Workers : /\ worker[w].pc = "accepted"
                                  /\ worker[w].id = i
                                  /\ Owns(w)

\* No committed change is forgotten: whatever leases, crashes, merges and
\* retries did, each changed page not yet handed to the gateway is in the
\* payload of an undelivered row that is no manual command (those may give up)
\* and whose owner has no answer to it yet, so that no acknowledgement in flight
\* can settle the only row that carries it.
Carries(i, p) == /\ Live(i)
                 /\ p \in Pages(row[i].payload)
                 /\ ~row[i].payload.manual
                 /\ ~Answered(i)

NothingForgotten == \A p \in unsent : \E i \in Ids : Carries(i, p)

\* What the store writes it can read back: coalescing, bounding and the deletion
\* repair never produce a payload parseIsrOutboxPayload rejects, which would turn
\* a committed change into an invalid row that nobody delivers.
StoredPayloadsParse ==
    \A i \in Ids : Live(i) /\ row[i].parses => Parses(row[i].payload)

\* The partial unique index on pending event keys is never violated: neither an
\* insert nor a retry racing it makes a second pending row of one key.
OnePendingPerKey ==
    \A i, j \in Ids : /\ row[i].status = "pending"
                      /\ row[j].status = "pending"
                      /\ row[i].key = row[j].key
                      /\ row[i].key # NoKey
                      => i = j

\* While a dispatcher still owns its row, the payload it posts and will merge
\* is the row's own: nothing a content write does reaches a claimed row.
EventIsTheRow ==
    \A w \in Workers :
        worker[w].pc # "idle" /\ Owns(w)
            => /\ worker[w].payload = row[worker[w].id].payload
               /\ worker[w].key = row[worker[w].id].key

\* A retry throws on the newer pending row it merges into in one case only: the
\* offers of the two together exceed the limit, and then it is no manual refresh,
\* of which no attempt would be counted.  The newer row parses and is of the same
\* kind and locale, whatever writes, claims and retries of the key came between.
RetryCanMerge ==
    \A w \in Workers : \A j \in Newer(w) :
        worker[w].pc = "refused" /\ ~CanMerge(w, j)
            => /\ row[j].parses
               /\ Mergeable(worker[w].payload, row[j].payload)
               /\ ~worker[w].payload.manual
               /\ TooManyOffers(Merge(worker[w].payload, row[j].payload))

\* A page required of the gateway stays required: coalescing and retrying may
\* add requirements or widen to a full invalidation, never relax one, except
\* for the detail page of a deleted offer that the gateway reported unknown.
RequirementsSurvive ==
    [][\A i \in Ids : Live(i) /\ Live(i)' =>
          \A p \in Required(row[i].payload) :
             \/ p \in Required(row[i].payload')
             \/ p \in Pages(row[i].payload') /\ row[i].payload'.all
             \/ row[i].reason = "delete" /\ p \in OfferPaths \ routes]_vars

\* Superseding loses nothing: a row that retires in favour of a newer one
\* leaves a pending row of its key that asks for all its pages and offers.
SupersededIsCarried ==
    [][\A i \in Ids : row[i].status = "processing" /\ row'[i].status = "superseded"
          => \E j \in Ids : /\ row'[j].status = "pending"
                            /\ row'[j].key = row[i].key
                            /\ Pages(row[i].payload) \subseteq Pages(row'[j].payload)
                            /\ row[i].payload.offers \subseteq row'[j].payload.offers]_vars

\* Only the current lease settles: a row leaves processing for delivered,
\* superseded, failed or pending only in a step of the dispatcher whose token
\* the row holds, however late a previous owner reports.
OnlyTheLeaseSettles ==
    [][\A i \in Ids : row[i].status = "processing" /\ row'[i].status # "processing"
          => /\ row[i].token \in Workers
             /\ worker[row[i].token].id = i
             /\ worker'[row[i].token].id # i]_vars

Delivery == INSTANCE IsrDelivery WITH owed <- unsent, promised <- Promised

\* The outbox implements at-least-once hand-over of every committed change.
ImplementsDelivery == Delivery!Spec

\* Under gateway outages, crashes, lost answers, competing merges and the
\* sliding debounce, every change of a page the site still serves is eventually
\* handed to the gateway: no wave of writes and no older row starves it.
EveryChangeIsHandedOver ==
    \A p \in Paths : p \in unsent /\ p \in routes
                       ~> p \notin unsent \/ p \notin routes

\* The invalidation of a deleted offer converges although the gateway may have
\* dropped its detail page on an attempt whose answer was lost: no slot holds its
\* undelivered row for ever.
DeletionConverges ==
    \A i \in Ids : []<>~(Live(i) /\ row[i].reason = "delete")

\* A manual refresh ends as delivered or failed after finitely many attempts, even
\* against a gateway that never accepts it: no row retries for ever, and neither
\* does a refresh that goes on from row to row because the operator asks for the
\* same again while it is in flight.
ManualRefreshEnds ==
    LET Open(i) == Live(i) /\ row[i].reason = "manual"
        Ends(i) == Open(i) /\ row'[i].status \in {"delivered", "failed"}
    IN /\ \A i \in Ids : []<>~Open(i)
       /\ []<>(\A i \in Ids : ~Open(i)) \/ []<><<\E i \in Ids : Ends(i)>>_vars
=============================================================================
