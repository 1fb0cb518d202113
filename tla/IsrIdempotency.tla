--------------------------- MODULE IsrIdempotency ---------------------------
(***************************************************************************)
(* The ISR outbox in front of a gateway that de-duplicates: it remembers    *)
(* the pages it took in under each delivery_key (for 31 days, longer than   *)
(* any retry) and regenerates a page at most once per key.  A row keeps its *)
(* delivery_key as long as it exists, so a row slot stands for its key.     *)
(***************************************************************************)
EXTENDS IsrOutbox

VARIABLES
    seen,      \* external: pairs <<delivery key, page>> the gateway remembers
    stale      \* pages not regenerated since their content last changed

varsD == <<vars, seen, stale>>

InitD == Init /\ seen = {} /\ stale = {}

\* A content write and its outbox row, as in IsrOutbox.
WriteContent(write, i) ==
    /\ InsertRow(write, i) \/ MergeIntoPending(write, i)
    /\ stale' = IF write.reason = "manual" THEN stale
                                           ELSE stale \cup Pages(write.payload)
    /\ UNCHANGED seen

\* Of the pages D the gateway takes in, it regenerates those that are new
\* under the request's eventKey, which is the row's delivery_key.
TakeIn(w, D) ==
    LET id == worker[w].id
    IN /\ seen' = seen \cup ({id} \X D)
       /\ stale' = stale \ {p \in D : <<id, p>> \notin seen}

Post(w) ==
    LET pages == Pages(worker[w].payload)
        skipped == Skipped(worker[w].payload)
    IN \/ PostAccepted(w) /\ TakeIn(w, pages)
       \/ PostSkipped(w) /\ TakeIn(w, pages \ skipped)
       \/ PostRejected(w) /\ TakeIn(w, {})
       \/ \E D \in SUBSET pages : PostFailed(w, D) /\ TakeIn(w, D)

\* Every step of a dispatcher that does not reach the gateway.
Settle(w) ==
    /\ \/ \E i \in Ids : \/ Claim(w, i) \/ ClaimUnreadable(w, i)
                        \/ MergeIntoNewer(w, i) \/ RetryThrows(w, i)
       \/ MarkDelivered(w) \/ MarkDeliveredThrows(w)
       \/ FailManual(w) \/ ReturnToPending(w) \/ Crash(w)
    /\ UNCHANGED <<seen, stale>>

\* The slot's next row gets a delivery_key of its own.
PurgeKey(i) ==
    /\ Purge(i)
    /\ seen' = {s \in seen : s[1] # i}
    /\ UNCHANGED stale

Time(i) == /\ BecomeDue(i) \/ Age(i) \/ LeaseExpires(i)
           /\ UNCHANGED <<seen, stale>>

NextD ==
    \/ \E write \in Writes, i \in Ids : WriteContent(write, i)
    \/ \E w \in Workers : Post(w) \/ Settle(w)
    \/ \E i \in Ids : PurgeKey(i) \/ Time(i)

SpecD == InitD /\ [][NextD]_varsD

\* A redelivery is de-duplicated and nothing else: because the delivery key is
\* unique per row, no later write is mistaken for an already accepted one, so a
\* page no undelivered row asks for any more has been regenerated since its last
\* change.
NoLaterWriteSuppressed == stale \subseteq Promised
=============================================================================
