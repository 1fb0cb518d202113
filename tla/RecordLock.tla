----------------------------- MODULE RecordLock -----------------------------
(***************************************************************************)
(* The edit lock of one entry: acquire calls of browser tabs (heartbeats,   *)
(* explicit takeovers, requests a closed tab left behind), the release a    *)
(* closing tab sends, and the passing of time.                              *)
(*                                                                          *)
(* A call runs its statements one by one, each against the rows as they     *)
(* are then; `now' is read once per attempt.  Locks of different entries do *)
(* not interact and a lease belongs to one entry, so there is one key.      *)
(***************************************************************************)
EXTENDS Naturals

CONSTANTS
    Leases,       \* one per mounted edit view
    Admins,
    AdminOf,      \* AdminOf[l]: the admin whose tab holds lease l
    Calls,        \* acquire requests in flight at a time
    LockTtl,      \* LOCK_TTL_MS
    MaxAttempts,  \* MAX_ACQUIRE_ATTEMPTS
    RowIds,       \* ids of lock rows: one more than requests can remember
    MaxClock,     \* bound on the clock, not in the code
    NoRow,
    NoLease

ASSUME LeaseAssumption == AdminOf \in [Leases -> Admins] /\ NoLease \notin Leases
ASSUME TtlAssumption == LockTtl \in Nat \ {0}
ASSUME ClockAssumption == MaxClock \in Nat
ASSUME AttemptAssumption == MaxAttempts \in Nat \ {0}
ASSUME IdAssumption == RowIds \subseteq Nat
ASSUME RowAssumption == /\ NoRow \notin [id : RowIds, lease : Leases, expiresAt : Nat]
                         /\ NoRow \notin [id : RowIds, lease : Leases]

VARIABLES
    clock,
    lock,    \* the entry's row in record_locks, or NoRow
    tomb,    \* tomb[l]: expiresAt of l's cancellation, 0 if there is none
    tab,     \* tab[l]: where the edit view of l is
    call,    \* call[c]: an acquire request
    failed   \* who was to remove the row broke off (history)

vars == <<clock, lock, tomb, tab, call, failed>>

Row == [id : RowIds, lease : Leases, expiresAt : Nat]

Seen == [id : RowIds, lease : Leases]

Call == [pc       : {"idle", "check", "read", "write", "put", "reread", "finish", "undo"},
         lease    : Leases \cup {NoLease},
         takeover : BOOLEAN,
         attempt  : 1..MaxAttempts,
         now      : Nat,
         seen     : Seen \cup {NoRow}]  \* existing

TypeOK ==
    /\ clock \in Nat
    /\ lock \in Row \cup {NoRow}
    /\ tomb \in [Leases -> Nat]
    /\ tab \in [Leases -> {"open", "releasing", "closed"}]
    /\ call \in [Calls -> Call]
    /\ failed \in BOOLEAN
    /\ \A c \in Calls : call[c].pc # "idle" => call[c].lease \in Leases

CallAt(pc, l, takeover, now) ==
    [pc |-> pc, lease |-> l, takeover |-> takeover, attempt |-> 1, now |-> now, seen |-> NoRow]

IdleCall == CallAt("idle", NoLease, FALSE, 0)

Init ==
    /\ clock = 1
    /\ lock = NoRow
    /\ tomb = [l \in Leases |-> 0]
    /\ tab = [l \in Leases |-> "open"]
    /\ call = [c \in Calls |-> IdleCall]
    /\ failed = FALSE

Holds(l) == lock # NoRow /\ lock.lease = l

RemoveIf(condition) ==
    /\ lock' = IF condition THEN NoRow ELSE lock
    /\ failed' = (failed /\ ~condition)

\* A request for l breaks off that was to see to the row of l, if it has one.
Neglects(l) == failed' = (failed \/ Holds(l))

Goto(c, pc) == call' = [call EXCEPT ![c].pc = pc]
Finished(c) == call' = [call EXCEPT ![c] = IdleCall]

\* The row is ours: what the attempt was about no longer matters.
Written(c) == call' = [call EXCEPT ![c] = CallAt("finish", call[c].lease, FALSE, 0)]

\* The next attempt re-reads the clock, or the bound is hit and acquire throws.
Retry(c) ==
    IF call[c].attempt < MaxAttempts
    THEN call' = [call EXCEPT ![c].pc = "check", ![c].now = clock, ![c].seen = NoRow,
                              ![c].attempt = @ + 1]
    ELSE Finished(c)

(***************************************************************************)
(* acquire.                                                                *)
(***************************************************************************)
Expired(expiresAt, now) == expiresAt < now

\* A heartbeat or a takeover of an open tab arrives, reads the clock and sweeps
\* both tables; a request that arrives late is one that stalls here.
Begin(c, l, takeover) ==
    /\ call[c].pc = "idle" /\ tab[l] = "open"
    /\ call' = [call EXCEPT ![c] = CallAt("check", l, takeover, clock)]
    /\ RemoveIf(lock # NoRow /\ Expired(lock.expiresAt, clock))
    /\ tomb' = [l2 \in Leases |-> IF Expired(tomb[l2], clock) THEN 0 ELSE tomb[l2]]
    /\ UNCHANGED <<clock, tab>>

Cancelled(l, now) == tomb[l] > now

Check(c) ==
    /\ call[c].pc = "check"
    /\ IF Cancelled(call[c].lease, call[c].now) THEN Finished(c) ELSE Goto(c, "read")
    /\ UNCHANGED <<clock, lock, tomb, tab, failed>>

IsActive(row, now) == row.expiresAt > now

\* Deviation: a heartbeat may take the entry from another tab of its admin.
BlockedByOthers(c) ==
    /\ lock # NoRow
    /\ IsActive(lock, call[c].now)
    /\ AdminOf[lock.lease] # AdminOf[call[c].lease]

\* Another lease holds the entry and the call may not take it.
Blocked(c) ==
    /\ lock # NoRow
    /\ IsActive(lock, call[c].now)
    /\ lock.lease # call[c].lease
    /\ ~(call[c].takeover /\ AdminOf[lock.lease] = AdminOf[call[c].lease])

Read(c) ==
    /\ call[c].pc = "read"
    /\ IF Blocked(c) THEN Finished(c)
       ELSE call' = [call EXCEPT ![c].pc = "write",
                                   ![c].seen = IF lock = NoRow THEN NoRow
                                               ELSE [id |-> lock.id, lease |-> lock.lease]]
    /\ UNCHANGED <<clock, lock, tomb, tab, failed>>

\* The lock row still has the id that was read, whoever holds it.
SameRow(c) == lock # NoRow /\ lock.id = call[c].seen.id

\* The where of the update: id, holder and lease that were read.
Unchanged(c) == SameRow(c) /\ lock.lease = call[c].seen.lease

Expiry(c) == call[c].now + LockTtl

\* External: db.query().update() is three statements.  It selects a row by where
\* and answers null if there is none,
UpdateSelects(c) ==
    /\ call[c].pc = "write" /\ call[c].seen # NoRow
    /\ IF Unchanged(c)
       THEN call' = [call EXCEPT ![c].pc = "put",
                                 ![c].seen = [id |-> lock.id, lease |-> call[c].lease]]
       ELSE Retry(c)
    /\ UNCHANGED <<clock, lock, tomb, tab, failed>>

\* updates the row of that id, whoever holds it by then,
UpdateWrites(c) ==
    /\ call[c].pc = "put"
    /\ IF SameRow(c)
       THEN /\ lock' = [id |-> lock.id, lease |-> call[c].lease, expiresAt |-> Expiry(c)]
            /\ failed' = FALSE
       ELSE UNCHANGED <<lock, failed>>
    /\ call' = [call EXCEPT ![c].pc = "reread", ![c].now = 0]
    /\ UNCHANGED <<clock, tomb, tab>>

\* and answers what it then finds under the id.
UpdateAnswers(c) ==
    /\ call[c].pc = "reread"
    /\ IF SameRow(c) THEN Written(c) ELSE Retry(c)
    /\ UNCHANGED <<clock, lock, tomb, tab, failed>>

Update(c) == UpdateSelects(c) \/ UpdateWrites(c) \/ UpdateAnswers(c)

\* A new row has an id of its own: one that no request remembers will do.
NewIds ==
    LET free == RowIds \ {call[d].seen.id : d \in {c \in Calls : call[c].seen # NoRow}}
    IN {id \in free : \A other \in free : id <= other}

\* The key is unique: a row inserted since the read fails the insert.
Create(c) ==
    /\ call[c].pc = "write" /\ call[c].seen = NoRow
    /\ IF lock = NoRow
       THEN /\ \E id \in NewIds :
                  lock' = [id |-> id, lease |-> call[c].lease, expiresAt |-> Expiry(c)]
            /\ failed' = FALSE
            /\ Written(c)
       ELSE UNCHANGED <<lock, failed>> /\ Retry(c)
    /\ UNCHANGED <<clock, tomb, tab>>

\* Deviation: a committed acquire is not checked against the tab's release.
FinishUnchecked(c) ==
    /\ call[c].pc = "finish"
    /\ Finished(c)
    /\ UNCHANGED <<clock, lock, tomb, tab, failed>>

\* finishAcquire: the tab may have been closed meanwhile.
FinishAcquire(c) ==
    /\ call[c].pc = "finish"
    /\ IF Cancelled(call[c].lease, clock) THEN Goto(c, "undo") ELSE Finished(c)
    /\ UNCHANGED <<clock, lock, tomb, tab, failed>>

Undo(c) ==
    /\ call[c].pc = "undo"
    /\ RemoveIf(Holds(call[c].lease))
    /\ Finished(c)
    /\ UNCHANGED <<clock, tomb, tab>>

\* A statement fails or the process dies.
AcquireFails(c) ==
    /\ call[c].pc # "idle"
    /\ IF call[c].pc \in {"reread", "finish", "undo"} THEN Neglects(call[c].lease)
       ELSE UNCHANGED failed
    /\ Finished(c)
    /\ UNCHANGED <<clock, lock, tomb, tab>>

Acquire(c) == \/ Check(c) \/ Read(c) \/ Update(c) \/ Create(c)
              \/ FinishAcquire(c) \/ Undo(c) \/ AcquireFails(c)

(***************************************************************************)
(* release, sent once when the edit view unmounts.                         *)
(***************************************************************************)
Release(l) ==
    /\ tab[l] = "open"
    /\ tab' = [tab EXCEPT ![l] = "releasing"]
    /\ tomb' = [tomb EXCEPT ![l] = clock + LockTtl]
    /\ UNCHANGED <<clock, lock, call, failed>>

ReleaseRow(l) ==
    /\ tab[l] = "releasing"
    /\ tab' = [tab EXCEPT ![l] = "closed"]
    /\ RemoveIf(Holds(l))
    /\ UNCHANGED <<clock, tomb, call>>

\* The browser crashes, the request is lost, or its second statement fails.
ReleaseFails(l) ==
    /\ tab[l] # "closed"
    /\ tab' = [tab EXCEPT ![l] = "closed"]
    /\ IF tab[l] = "releasing" THEN Neglects(l) ELSE UNCHANGED failed
    /\ UNCHANGED <<clock, lock, tomb, call>>

Tick ==
    /\ clock < MaxClock
    /\ clock' = clock + 1
    /\ UNCHANGED <<lock, tomb, tab, call, failed>>

Next ==
    \/ \E c \in Calls, l \in Leases, takeover \in BOOLEAN : Begin(c, l, takeover)
    \/ \E c \in Calls : Acquire(c)
    \/ \E l \in Leases : Release(l) \/ ReleaseRow(l) \/ ReleaseFails(l)
    \/ Tick

Spec == Init /\ [][Next]_vars

(***************************************************************************)
(* Properties.                                                             *)
(***************************************************************************)
InFlight(l) == \E c \in Calls : call[c].pc # "idle" /\ call[c].lease = l

\* Once a closed tab's release is done and the acquires it left behind have
\* ended, the entry is not locked by it, in whatever order their statements ran:
\* nobody waits ninety seconds for a tab that is gone.
NoOrphanLock ==
    \A l \in Leases :
        /\ tab[l] = "closed" /\ ~failed
        /\ ~InFlight(l) /\ Cancelled(l, clock)
        => ~Holds(l)

\* What editors see of the lock.
Holder == IF lock = NoRow THEN NoLease ELSE lock.lease
Over == lock # NoRow /\ lock.expiresAt <= clock
Left == {l \in Leases : tab[l] # "open"}
Asker == [c \in Calls |-> call[c].lease]
Forced == {c \in Calls : call[c].takeover}
Cleared == {c \in Calls : /\ call[c].pc \in {"write", "put"}
                          /\ call[c].seen # NoRow
                          /\ SameRow(c)}

Promise == INSTANCE EditLease
           WITH holder <- Holder, over <- Over, left <- Left,
                asker <- Asker, forced <- Forced, cleared <- Cleared

\* Whatever statements of requests, takeovers and releases come between those of a
\* request: a tab loses the entry only to a request which, since the entry was last
\* free, found it held by itself, by a tab whose time was over, or by one of the same
\* administrator who asked for it; and nobody's row is removed but a closed tab's or
\* one whose time is over.
ImplementsEditLease == Promise!Spec
=============================================================================
