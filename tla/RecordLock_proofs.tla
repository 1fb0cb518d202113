-------------------------- MODULE RecordLock_proofs --------------------------
(***************************************************************************)
(* Proofs about RecordLock, for any number of tabs, administrators and      *)
(* acquire calls in flight, any time to live and any number of attempts.    *)
(***************************************************************************)
EXTENDS RecordLock, TLAPS

\* A tab is cancelled only by its own release, which closes it.
OpenIsUncancelled == \A l \in Leases : tab[l] = "open" => tomb[l] = 0

\* A call still owes the removal of a row it wrote for lease l.
Owes(c, l) ==
    /\ call[c].lease = l
    /\ call[c].pc \in {"finish", "undo"} \/ (call[c].pc = "reread" /\ SameRow(c))

Owed(l) == \E c \in Calls : Owes(c, l)

\* Of a tab that was cancelled, somebody is still going to remove the row: its
\* own release, or the late acquire that wrote it.
SomebodyCleansUp ==
    \A l \in Leases :
        /\ tab[l] # "open" /\ ~failed
        /\ tomb[l] > clock /\ Holds(l)
        => tab[l] = "releasing" \/ Owed(l)

IInv == TypeOK /\ OpenIsUncancelled /\ SomebodyCleansUp

------------------------------------------------------------------------------
(***************************************************************************)
(* Types.                                                                  *)
(***************************************************************************)
LEMMA IdleCallType == IdleCall \in Call /\ IdleCall.pc = "idle"
  BY AttemptAssumption DEF IdleCall, CallAt, Call

\* The three ways an acquire request moves on.
LEMMA GotoType ==
  ASSUME TypeOK, NEW c \in Calls, call[c].pc # "idle",
         NEW pc \in {"read", "undo"}, Goto(c, pc)
  PROVE  /\ call' \in [Calls -> Call]
         /\ \A d \in Calls : call'[d].pc # "idle" => call'[d].lease \in Leases
  BY DEF Goto, TypeOK, Call

LEMMA FinishedType ==
  ASSUME TypeOK, NEW c \in Calls, Finished(c)
  PROVE  /\ call' \in [Calls -> Call]
         /\ \A d \in Calls : call'[d].pc # "idle" => call'[d].lease \in Leases
  BY IdleCallType DEF Finished, TypeOK, Call

LEMMA RetryType ==
  ASSUME TypeOK, NEW c \in Calls, call[c].pc # "idle", Retry(c)
  PROVE  /\ call' \in [Calls -> Call]
         /\ \A d \in Calls : call'[d].pc # "idle" => call'[d].lease \in Leases
<1>1. CASE call[c].attempt < MaxAttempts
  <2>1. call[c].attempt + 1 \in 1..MaxAttempts
    BY <1>1, AttemptAssumption DEF TypeOK, Call
  <2>2. QED
    BY <1>1, <2>1 DEF Retry, TypeOK, Call
<1>2. CASE ~(call[c].attempt < MaxAttempts)
  BY <1>2, FinishedType DEF Retry
<1> QED
  BY <1>1, <1>2

LEMMA WrittenType ==
  ASSUME TypeOK, NEW c \in Calls, call[c].pc # "idle", Written(c)
  PROVE  /\ call' \in [Calls -> Call]
         /\ \A d \in Calls : call'[d].pc # "idle" => call'[d].lease \in Leases
         /\ call'[c].pc = "finish" /\ call'[c].lease = call[c].lease
<1> DEFINE r == CallAt("finish", call[c].lease, FALSE, 0)
<1>1. call[c].lease \in Leases
  BY DEF TypeOK
<1>3. r \in Call /\ r.pc = "finish" /\ r.lease = call[c].lease
  BY <1>1, AttemptAssumption DEF CallAt, Call
<1>4. call' = [call EXCEPT ![c] = r]
  BY DEF Written
<1> HIDE DEF r
<1> QED
  BY <1>1, <1>3, <1>4 DEF TypeOK

LEMMA TypeInit == Init => TypeOK
<1> SUFFICES ASSUME Init PROVE TypeOK
  OBVIOUS
<1>1. failed \in BOOLEAN
  BY Zenon DEF Init
<1> QED
  BY <1>1, IdleCallType, RowAssumption DEF Init, TypeOK

\* Each step preserves the types.
LEMMA TypeStep ==
  ASSUME TypeOK, [Next]_vars
  PROVE  TypeOK'
<1>1. ASSUME NEW c \in Calls, NEW l \in Leases, NEW takeover \in BOOLEAN,
             Begin(c, l, takeover)
      PROVE  TypeOK'
  <2> DEFINE r == CallAt("check", l, takeover, clock)
  <2>2. r \in Call /\ r.lease = l
    BY AttemptAssumption DEF TypeOK, CallAt, Call
  <2>3. call' = [call EXCEPT ![c] = r]
    BY <1>1 DEF Begin
  <2> HIDE DEF r
  <2>4. /\ call' \in [Calls -> Call]
        /\ \A d \in Calls : call'[d].pc # "idle" => call'[d].lease \in Leases
    BY <2>2, <2>3 DEF TypeOK
  <2> QED
    BY <1>1, <2>4 DEF Begin, RemoveIf, TypeOK
<1>2. ASSUME NEW c \in Calls, Check(c)
      PROVE  TypeOK'
  BY <1>2, GotoType, FinishedType DEF Check, TypeOK
<1>3. ASSUME NEW c \in Calls, Read(c)
      PROVE  TypeOK'
  <2>1. CASE Blocked(c)
    BY <1>3, <2>1, FinishedType DEF Read, TypeOK
  <2>2. CASE ~Blocked(c)
    <3> DEFINE s == IF lock = NoRow THEN NoRow ELSE [id |-> lock.id, lease |-> lock.lease]
    <3>1. s \in Seen \cup {NoRow}
      BY DEF TypeOK, Row, Seen
    <3>2. call' = [call EXCEPT ![c].pc = "write", ![c].seen = s]
      BY <1>3, <2>2 DEF Read
    <3> HIDE DEF s
    <3>3. /\ call' \in [Calls -> Call]
          /\ \A d \in Calls : call'[d].pc # "idle" => call'[d].lease \in Leases
      BY <1>3, <3>1, <3>2 DEF Read, TypeOK, Call
    <3> QED
      BY <1>3, <3>3 DEF Read, TypeOK
  <2> QED
    BY <2>1, <2>2
<1>4. ASSUME NEW c \in Calls, UpdateSelects(c)
      PROVE  TypeOK'
  <2>1. CASE Unchanged(c)
    <3> DEFINE s == [id |-> lock.id, lease |-> call[c].lease]
    <3>1. s \in Seen /\ call[c].lease \in Leases
      BY <1>4, <2>1 DEF UpdateSelects, Unchanged, SameRow, TypeOK, Row, Seen
    <3>2. call' = [call EXCEPT ![c].pc = "put", ![c].seen = s]
      BY <1>4, <2>1 DEF UpdateSelects
    <3> HIDE DEF s
    <3> DEFINE q == [call[c] EXCEPT !.pc = "put", !.seen = s]
    <3>4. q \in Call /\ q.lease = call[c].lease
      BY <3>1 DEF TypeOK, Call
    <3>5. call' = [call EXCEPT ![c] = q]
      BY <3>2
    <3> HIDE DEF q
    <3>3. /\ call' \in [Calls -> Call]
          /\ \A d \in Calls : call'[d].pc # "idle" => call'[d].lease \in Leases
      BY <3>1, <3>4, <3>5 DEF TypeOK
    <3> QED
      BY <1>4, <3>3 DEF UpdateSelects, TypeOK
  <2>2. CASE ~Unchanged(c)
    BY <1>4, <2>2, RetryType DEF UpdateSelects, TypeOK
  <2> QED
    BY <2>1, <2>2
<1>5. ASSUME NEW c \in Calls, UpdateWrites(c)
      PROVE  TypeOK'
  <2>1. call[c].lease \in Leases /\ Expiry(c) \in Nat
    BY <1>5, TtlAssumption DEF UpdateWrites, Expiry, TypeOK, Call
  <2>2. lock' \in Row \cup {NoRow}
    BY <1>5, <2>1 DEF UpdateWrites, SameRow, TypeOK, Row
  <2>4. failed' \in BOOLEAN
    BY <1>5, Zenon DEF UpdateWrites, TypeOK
  <2> DEFINE q == [call[c] EXCEPT !.pc = "reread", !.now = 0]
  <2>5. q \in Call /\ q.lease = call[c].lease
    BY DEF TypeOK, Call
  <2>6. call' = [call EXCEPT ![c] = q]
    BY <1>5 DEF UpdateWrites
  <2> HIDE DEF q
  <2>3. /\ call' \in [Calls -> Call]
        /\ \A d \in Calls : call'[d].pc # "idle" => call'[d].lease \in Leases
    BY <2>1, <2>5, <2>6 DEF TypeOK
  <2> QED
    BY <1>5, <2>2, <2>3, <2>4 DEF UpdateWrites, TypeOK
<1>12. ASSUME NEW c \in Calls, UpdateAnswers(c)
       PROVE  TypeOK'
  BY <1>12, WrittenType, RetryType DEF UpdateAnswers, TypeOK
<1>13. ASSUME NEW c \in Calls, Create(c)
       PROVE  TypeOK'
  <2>1. CASE lock = NoRow
    <3>1. lock' \in Row
      BY <1>13, <2>1, TtlAssumption DEF Create, NewIds, Expiry, TypeOK, Row, Call
    <3> QED
      BY <1>13, <2>1, <3>1, WrittenType DEF Create, TypeOK
  <2>2. CASE lock # NoRow
    BY <1>13, <2>2, RetryType DEF Create, TypeOK
  <2> QED
    BY <2>1, <2>2
<1>6. ASSUME NEW c \in Calls, FinishAcquire(c)
      PROVE  TypeOK'
  BY <1>6, GotoType, FinishedType DEF FinishAcquire, TypeOK
<1>7. ASSUME NEW c \in Calls, Undo(c)
      PROVE  TypeOK'
  BY <1>7, FinishedType DEF Undo, RemoveIf, TypeOK
<1>8. ASSUME NEW c \in Calls, AcquireFails(c)
      PROVE  TypeOK'
  BY <1>8, FinishedType DEF AcquireFails, Neglects, TypeOK
<1>9. ASSUME NEW l \in Leases, Release(l) \/ ReleaseRow(l) \/ ReleaseFails(l)
      PROVE  TypeOK'
  <2>1. failed' \in BOOLEAN
    BY <1>9, Zenon DEF Release, ReleaseRow, ReleaseFails, RemoveIf, Neglects, TypeOK
  <2> QED
    BY <1>9, <2>1, TtlAssumption DEF Release, ReleaseRow, ReleaseFails, RemoveIf, TypeOK
<1>10. CASE Tick
  BY <1>10 DEF Tick, TypeOK
<1>11. CASE UNCHANGED vars
  BY <1>11 DEF vars, TypeOK
<1> QED
  BY <1>1, <1>2, <1>3, <1>4, <1>5, <1>6, <1>7, <1>8, <1>9, <1>10, <1>11, <1>12, <1>13
  DEF Next, Acquire, Update

\* The lock's rows, the calls in flight and the tabs keep their types in every
\* behaviour (acquire and release of record-lock.ts).
THEOREM LockTypeCorrect == Spec => []TypeOK
  BY TypeInit, TypeStep, PTL DEF Spec

------------------------------------------------------------------------------
(***************************************************************************)
(* A closed tab leaves no lock behind.                                     *)
(***************************************************************************)
LEMMA InvInit == Init => IInv
  BY TypeInit DEF Init, IInv, OpenIsUncancelled, SomebodyCleansUp, Holds

\* A step that keeps the tabs, the cancellations (or sweeps them) and the clock, and
\* leaves the row to nobody but a call that will check it.
LEMMA KeepsTheDebt ==
  ASSUME IInv, tab' = tab, clock' = clock,
         \A l \in Leases : tomb'[l] = tomb[l] \/ tomb'[l] = 0,
         \A l \in Leases : ~failed' /\ Holds(l)' => Owed(l)' \/ (Holds(l) /\ ~failed),
         \A l \in Leases : ~failed' /\ Holds(l)' /\ Owed(l) /\ tomb[l] > clock => Owed(l)'
  PROVE  OpenIsUncancelled' /\ SomebodyCleansUp'
<1>1. OpenIsUncancelled'
  BY DEF IInv, OpenIsUncancelled
<1>2. ASSUME NEW l \in Leases, tab[l] # "open", ~failed', tomb'[l] > clock, Holds(l)'
      PROVE  tab[l] = "releasing" \/ Owed(l)'
  <2>1. tomb[l] > clock
    BY <1>2 DEF IInv, TypeOK
  <2>2. CASE Holds(l) /\ ~failed
    BY <1>2, <2>1, <2>2 DEF IInv, SomebodyCleansUp
  <2>3. CASE Owed(l)'
    BY <2>3
  <2> QED
    BY <1>2, <2>2, <2>3
<1>3. SomebodyCleansUp'
  BY <1>2 DEF SomebodyCleansUp
<1> QED
  BY <1>1, <1>3

\* A step of one acquire request leaves the others where they are.
LEMMA OthersStay ==
  ASSUME TypeOK, NEW c \in Calls,
         \/ \E pc \in {"read", "undo"} : Goto(c, pc)
         \/ Finished(c) \/ Retry(c) \/ Written(c)
  PROVE  \A d \in Calls \ {c} : call'[d] = call[d]
  BY DEF Goto, Finished, Retry, Written, TypeOK

\* The row is the one it was, whoever has it.
RowKeepsId == lock' = lock \/ (lock # NoRow /\ lock' # NoRow /\ lock'.id = lock.id)

LEMMA SameRowStays ==
  ASSUME RowKeepsId, NEW d \in Calls, call'[d] = call[d]
  PROVE  SameRow(d)' <=> SameRow(d)
  BY Zenon DEF RowKeepsId, SameRow

\* What the others owe they still owe.
LEMMA DebtsStay ==
  ASSUME NEW c \in Calls, NEW l \in Leases, RowKeepsId,
         \A d \in Calls \ {c} : call'[d] = call[d],
         Owed(l), ~Owes(c, l)
  PROVE  Owed(l)'
<1>1. PICK d \in Calls : Owes(d, l)
  BY DEF Owed
<1>2. d # c /\ call'[d] = call[d] /\ (SameRow(d)' <=> SameRow(d))
  BY <1>1, SameRowStays
<1> QED
  BY <1>1, <1>2, Zenon DEF Owed, Owes

LEMMA InvStep ==
  ASSUME IInv, [Next]_vars
  PROVE  IInv'
<1>0. TypeOK /\ TypeOK' /\ failed \in BOOLEAN
  BY TypeStep DEF IInv, TypeOK
\* A request that owes nothing yet writes nothing.
<1>1. ASSUME NEW c \in Calls, UNCHANGED <<clock, lock, tab, failed>>,
             \A l \in Leases : tomb'[l] = tomb[l] \/ tomb'[l] = 0,
             \A d \in Calls \ {c} : call'[d] = call[d],
             \A l \in Leases : Owes(c, l) /\ tomb[l] > clock => Owes(c, l)'
      PROVE  IInv'
  <2>1. \A l \in Leases : Owed(l) /\ tomb[l] > clock => Owed(l)'
    <3>1. ASSUME NEW l \in Leases, Owes(c, l), tomb[l] > clock
          PROVE  Owed(l)'
      BY <1>1, <3>1 DEF Owed
    <3> QED
      BY <1>1, <3>1, DebtsStay DEF RowKeepsId
  <2>2. \A l \in Leases : Holds(l)' => Holds(l)
    BY <1>1 DEF Holds
  <2> QED
    BY <1>0, <1>1, <2>1, <2>2, KeepsTheDebt DEF IInv
<1>2. ASSUME NEW c \in Calls, NEW l \in Leases, NEW takeover \in BOOLEAN,
             Begin(c, l, takeover)
      PROVE  IInv'
  <2>1. \A d \in Calls \ {c} : call'[d] = call[d]
    BY <1>0, <1>2 DEF Begin, TypeOK
  <2>2. \A k \in Leases : ~Owes(c, k)
    BY <1>2 DEF Begin, Owes
  <2>3. lock' = lock \/ lock' = NoRow
    BY <1>2 DEF Begin, RemoveIf
  <2>4. lock' # NoRow => failed' = failed
    BY <1>0, <1>2 DEF Begin, RemoveIf, TypeOK
  <2>5. ASSUME NEW k \in Leases, Holds(k)'
        PROVE  Holds(k) /\ lock' = lock /\ failed' = failed
    BY <2>3, <2>4, <2>5 DEF Holds
  <2>6. \A k \in Leases : Holds(k)' /\ Owed(k) => Owed(k)'
    BY <2>1, <2>2, <2>5, DebtsStay DEF RowKeepsId
  <2>7. \A k \in Leases : tomb'[k] = tomb[k] \/ tomb'[k] = 0
    BY <1>2 DEF Begin
  <2> QED
    BY <1>0, <1>2, <2>5, <2>6, <2>7, KeepsTheDebt DEF Begin, IInv
<1>3. ASSUME NEW c \in Calls, Check(c) \/ Read(c)
      PROVE  IInv'
  <2>1. \A d \in Calls \ {c} : call'[d] = call[d]
    BY <1>0, <1>3, OthersStay DEF Check, Read, TypeOK
  <2>2. \A k \in Leases : ~Owes(c, k)
    BY <1>3 DEF Check, Read, Owes
  <2>3. UNCHANGED <<clock, lock, tomb, tab, failed>>
    BY <1>3 DEF Check, Read
  <2> QED
    BY <1>1, <2>1, <2>2, <2>3
<1>4. ASSUME NEW c \in Calls, UpdateSelects(c)
      PROVE  IInv'
  <2>1. \A d \in Calls \ {c} : call'[d] = call[d]
    BY <1>0, <1>4, OthersStay DEF UpdateSelects, TypeOK
  <2>2. \A k \in Leases : ~Owes(c, k)
    BY <1>4 DEF UpdateSelects, Owes
  <2>3. UNCHANGED <<clock, lock, tomb, tab, failed>>
    BY <1>4 DEF UpdateSelects
  <2> QED
    BY <1>1, <2>1, <2>2, <2>3
<1>5. ASSUME NEW c \in Calls, UpdateWrites(c)
      PROVE  IInv'
  <2>1. /\ \A d \in Calls \ {c} : call'[d] = call[d]
        /\ call'[c].pc = "reread" /\ call'[c].lease = call[c].lease
        /\ call'[c].seen = call[c].seen
    BY <1>0, <1>5 DEF UpdateWrites, TypeOK, Call
  <2>2. \A k \in Leases : ~Owes(c, k)
    BY <1>5 DEF UpdateWrites, Owes
  <2>3. CASE SameRow(c)
    <3> DEFINE row == [id |-> lock.id, lease |-> call[c].lease, expiresAt |-> Expiry(c)]
    <3>1. lock' = row /\ lock # NoRow /\ lock.id = call[c].seen.id
      BY <1>5, <2>3 DEF UpdateWrites, SameRow
    <3>2. row.id = lock.id /\ row.lease = call[c].lease
      OBVIOUS
    <3>3. row # NoRow
      <4>1. call[c].lease \in Leases /\ Expiry(c) \in Nat /\ lock.id \in RowIds
        BY <1>0, <1>5, <3>1, TtlAssumption DEF UpdateWrites, Expiry, TypeOK, Call, Row
      <4>2. row \in Row
        BY <4>1 DEF Row
      <4> QED
        BY <4>2, RowAssumption DEF Row
    <3> HIDE DEF row
    <3>4. RowKeepsId
      BY <3>1, <3>2, <3>3 DEF RowKeepsId
    <3>5. SameRow(c)'
      BY <2>1, <3>1, <3>2, <3>3, Zenon DEF SameRow
    <3>6. \A k \in Leases : Owed(k) => Owed(k)'
      BY <2>1, <2>2, <3>4, DebtsStay
    <3>7. ASSUME NEW k \in Leases, Holds(k)'
          PROVE  Owed(k)'
      <4>1. call'[c].lease = k
        BY <2>1, <3>1, <3>2, <3>7, Zenon DEF Holds
      <4> QED
        BY <2>1, <3>5, <4>1, Zenon DEF Owed, Owes
    <3> QED
      BY <1>0, <1>5, <3>6, <3>7, KeepsTheDebt DEF UpdateWrites, IInv
  <2>4. CASE ~SameRow(c)
    <3>1. UNCHANGED <<clock, lock, tomb, tab, failed>>
      BY <1>5, <2>4 DEF UpdateWrites
    <3> QED
      BY <1>1, <2>1, <2>2, <3>1
  <2> QED
    BY <2>3, <2>4
<1>6. ASSUME NEW c \in Calls, UpdateAnswers(c)
      PROVE  IInv'
  <2>1. \A d \in Calls \ {c} : call'[d] = call[d]
    BY <1>0, <1>6, OthersStay DEF UpdateAnswers, TypeOK
  <2>2. ASSUME NEW k \in Leases, Owes(c, k)
        PROVE  Owes(c, k)'
    <3>1. Written(c) /\ call[c].lease = k /\ call[c].pc # "idle"
      BY <1>6, <2>2 DEF UpdateAnswers, Owes
    <3>2. call'[c].lease = k /\ call'[c].pc = "finish"
      BY <1>0, <3>1, WrittenType
    <3> QED
      BY <3>2 DEF Owes
  <2>3. UNCHANGED <<clock, lock, tomb, tab, failed>>
    BY <1>6 DEF UpdateAnswers
  <2> QED
    BY <1>1, <2>1, <2>2, <2>3
<1>7. ASSUME NEW c \in Calls, Create(c)
      PROVE  IInv'
  <2>1. \A d \in Calls \ {c} : call'[d] = call[d]
    BY <1>0, <1>7, OthersStay DEF Create, TypeOK
  <2>2. \A k \in Leases : ~Owes(c, k)
    BY <1>7 DEF Create, Owes
  <2>3. CASE lock = NoRow
    <3>1. Written(c) /\ ~failed' /\ call[c].pc # "idle" /\ UNCHANGED <<clock, tomb, tab>>
      BY <1>7, <2>3 DEF Create
    <3>2. lock'.lease = call[c].lease
      BY <1>7, <2>3 DEF Create
    <3>3. ASSUME NEW k \in Leases, Holds(k)'
          PROVE  Owed(k)'
      <4>1. call'[c].lease = k /\ call'[c].pc = "finish"
        BY <1>0, <3>1, <3>2, <3>3, WrittenType DEF Holds
      <4> QED
        BY <4>1 DEF Owed, Owes
    <3> QED
      BY <1>0, <3>1, <3>3, KeepsTheDebt DEF IInv
  <2>4. CASE lock # NoRow
    <3>1. UNCHANGED <<clock, lock, tomb, tab, failed>>
      BY <1>7, <2>4 DEF Create
    <3> QED
      BY <1>1, <2>1, <2>2, <3>1
  <2> QED
    BY <2>3, <2>4
<1>8. ASSUME NEW c \in Calls, FinishAcquire(c)
      PROVE  IInv'
  <2>1. \A d \in Calls \ {c} : call'[d] = call[d]
    BY <1>0, <1>8, OthersStay DEF FinishAcquire
  <2>2. ASSUME NEW k \in Leases, Owes(c, k), tomb[k] > clock
        PROVE  Owes(c, k)'
    <3>1. Goto(c, "undo") /\ call[c].lease = k
      BY <1>8, <2>2 DEF FinishAcquire, Cancelled, Owes
    <3>2. call'[c].lease = k /\ call'[c].pc = "undo"
      BY <1>0, <3>1 DEF Goto, TypeOK, Call
    <3> QED
      BY <3>2 DEF Owes
  <2>3. UNCHANGED <<clock, lock, tomb, tab, failed>>
    BY <1>8 DEF FinishAcquire
  <2> QED
    BY <1>1, <2>1, <2>2, <2>3
\* Whoever ends, or breaks off, has nothing to see to any more, or it shows.
<1>9. ASSUME NEW c \in Calls, Undo(c) \/ AcquireFails(c)
      PROVE  IInv'
  <2>1. \A d \in Calls \ {c} : call'[d] = call[d]
    BY <1>0, <1>9, OthersStay DEF Undo, AcquireFails
  <2>2. lock' = lock \/ lock' = NoRow
    BY <1>9 DEF Undo, RemoveIf, AcquireFails
  <2>3. ASSUME NEW k \in Leases, Holds(k)', ~failed'
        PROVE  Holds(k) /\ lock' = lock /\ ~failed /\ ~Owes(c, k)
    <3>1. Holds(k) /\ lock' = lock
      BY <2>2, <2>3 DEF Holds
    <3>2. CASE Undo(c)
      <4>1. ~Holds(call[c].lease) /\ ~failed
        BY <1>0, <2>3, <3>1, <3>2 DEF Undo, RemoveIf, Holds
      <4> QED
        BY <3>1, <4>1 DEF Owes
    <3>3. CASE AcquireFails(c)
      <4>1. ~failed /\ (call[c].pc \in {"reread", "finish", "undo"} => ~Holds(call[c].lease))
        BY <1>0, <2>3, <3>3 DEF AcquireFails, Neglects
      <4> QED
        BY <3>1, <4>1 DEF Owes
    <3> QED
      BY <1>9, <3>2, <3>3
  <2>4. ASSUME NEW k \in Leases, Holds(k)', ~failed', Owed(k)
        PROVE  Owed(k)'
    BY <2>1, <2>3, <2>4, DebtsStay DEF RowKeepsId
  <2> QED
    BY <1>0, <1>9, <2>3, <2>4, KeepsTheDebt DEF Undo, AcquireFails, IInv
<1>10. ASSUME UNCHANGED <<call, lock>>
       PROVE  \A k \in Leases : (Holds(k)' <=> Holds(k)) /\ (Owed(k)' <=> Owed(k))
  BY <1>10, Zenon DEF Holds, Owed, Owes, SameRow
<1>11. ASSUME NEW l \in Leases, Release(l)
       PROVE  IInv'
  BY <1>0, <1>10, <1>11 DEF Release, IInv, OpenIsUncancelled, SomebodyCleansUp, TypeOK
<1>12. ASSUME NEW l \in Leases, ReleaseRow(l)
       PROVE  IInv'
  <2>1. CASE Holds(l)
    <3>1. \A k \in Leases : ~Holds(k)'
      BY <1>12, <2>1 DEF ReleaseRow, RemoveIf, Holds
    <3> QED
      BY <1>0, <1>12, <3>1 DEF ReleaseRow, IInv, OpenIsUncancelled, SomebodyCleansUp, TypeOK
  <2>2. CASE ~Holds(l)
    <3>1. UNCHANGED <<call, lock>> /\ failed' = failed
      BY <1>0, <1>12, <2>2 DEF ReleaseRow, RemoveIf
    <3> QED
      BY <1>0, <1>10, <1>12, <2>2, <3>1
      DEF ReleaseRow, IInv, OpenIsUncancelled, SomebodyCleansUp, TypeOK
  <2> QED
    BY <2>1, <2>2
<1>13. ASSUME NEW l \in Leases, ReleaseFails(l)
       PROVE  IInv'
  <2>1. UNCHANGED <<call, lock>> /\ (~failed' => ~failed)
    BY <1>0, <1>13 DEF ReleaseFails, Neglects
  <2>2. tab[l] = "releasing" /\ Holds(l) => failed'
    BY <1>13 DEF ReleaseFails, Neglects
  <2> QED
    BY <1>0, <1>10, <1>13, <2>1, <2>2
    DEF ReleaseFails, IInv, OpenIsUncancelled, SomebodyCleansUp, TypeOK
<1>14. CASE Tick
  BY <1>0, <1>10, <1>14 DEF Tick, IInv, OpenIsUncancelled, SomebodyCleansUp, TypeOK
<1>15. CASE UNCHANGED vars
  BY <1>0, <1>10, <1>15 DEF vars, IInv, OpenIsUncancelled, SomebodyCleansUp
<1> QED
  BY <1>2, <1>3, <1>4, <1>5, <1>6, <1>7, <1>8, <1>9, <1>11, <1>12, <1>13, <1>14, <1>15
  DEF Next, Acquire, Update

\* A tab that has closed, and whose late acquires have ended, holds no lock,
\* in whatever order acquire's and release's statements ran.
THEOREM ClosedTabsHoldNothing == Spec => []NoOrphanLock
<1>1. IInv => NoOrphanLock
  BY DEF IInv, TypeOK, SomebodyCleansUp, NoOrphanLock, InFlight, Owed, Owes, Cancelled
<1> QED
  BY <1>1, InvInit, InvStep, PTL DEF Spec

------------------------------------------------------------------------------
(***************************************************************************)
(* The refinement of EditLease.                                            *)
(***************************************************************************)
IdleIsBlank == \A c \in Calls : call[c].pc = "idle" => call[c] = IdleCall
\* No request is ahead of the clock.
NowIsPast == \A c \in Calls : call[c].now \in Nat /\ call[c].now <= clock
\* What is undone was written for a tab that has been closed.
UndoneHasLeft == \A c \in Calls : call[c].pc = "undo" => tab[call[c].lease] # "open"

\* An update goes on with the row that was selected.
PutIsSeen == \A c \in Calls : call[c].pc = "put" => call[c].seen # NoRow

LeaseInv ==
    TypeOK /\ OpenIsUncancelled /\ IdleIsBlank /\ NowIsPast /\ UndoneHasLeft /\ PutIsSeen

\* Only request c moves, to where r says.
Moves(c, r) == r \in Call /\ call' = [call EXCEPT ![c] = r]

LEMMA IdleCallFields ==
  /\ IdleCall \in Call /\ IdleCall.pc = "idle" /\ IdleCall.lease = NoLease
  /\ IdleCall.takeover = FALSE /\ IdleCall.now = 0
  BY IdleCallType DEF IdleCall, CallAt

\* The ways a request moves on, field by field.
LEMMA GotoMoves ==
  ASSUME TypeOK, NEW c \in Calls, NEW pc \in {"read", "undo"}, Goto(c, pc)
  PROVE  \E r \in Call : /\ Moves(c, r) /\ r.pc = pc /\ r.lease = call[c].lease
                         /\ r.takeover = call[c].takeover /\ r.now = call[c].now
<1> DEFINE r == [call[c] EXCEPT !.pc = pc]
<1>1. /\ r \in Call /\ r.pc = pc /\ r.lease = call[c].lease
      /\ r.takeover = call[c].takeover /\ r.now = call[c].now
  BY DEF TypeOK, Call
<1>2. call' = [call EXCEPT ![c] = r]
  BY DEF Goto
<1> HIDE DEF r
<1> QED
  BY <1>1, <1>2, Zenon DEF Moves

LEMMA FinishedMoves ==
  ASSUME NEW c \in Calls, Finished(c)
  PROVE  Moves(c, IdleCall)
  BY IdleCallFields, Zenon DEF Finished, Moves

LEMMA RetryMoves ==
  ASSUME TypeOK, NEW c \in Calls, Retry(c)
  PROVE  \/ \E r \in Call : /\ Moves(c, r) /\ r.pc = "check" /\ r.lease = call[c].lease
                            /\ r.takeover = call[c].takeover /\ r.now = clock
         \/ Moves(c, IdleCall)
<1>1. CASE call[c].attempt < MaxAttempts
  <2> DEFINE r == [call[c] EXCEPT !.pc = "check", !.now = clock, !.seen = NoRow, !.attempt = @ + 1]
  <2>1. call[c].attempt + 1 \in 1..MaxAttempts
    BY <1>1, AttemptAssumption DEF TypeOK, Call
  <2>2. /\ r \in Call /\ r.pc = "check" /\ r.lease = call[c].lease
        /\ r.takeover = call[c].takeover /\ r.now = clock
    BY <2>1 DEF TypeOK, Call
  <2>3. call' = [call EXCEPT ![c] = r]
    BY <1>1 DEF Retry
  <2> HIDE DEF r
  <2> QED
    BY <2>2, <2>3, Zenon DEF Moves
<1>2. CASE ~(call[c].attempt < MaxAttempts)
  BY <1>2, FinishedMoves, Zenon DEF Retry
<1> QED
  BY <1>1, <1>2

LEMMA WrittenMoves ==
  ASSUME TypeOK, NEW c \in Calls, call[c].lease \in Leases, Written(c)
  PROVE  \E r \in Call : /\ Moves(c, r) /\ r.pc = "finish" /\ r.lease = call[c].lease
                         /\ r.takeover = FALSE /\ r.now = 0
<1> DEFINE r == CallAt("finish", call[c].lease, FALSE, 0)
<1>1. /\ r \in Call /\ r.pc = "finish" /\ r.lease = call[c].lease
      /\ r.takeover = FALSE /\ r.now = 0
  BY AttemptAssumption DEF CallAt, Call
<1>2. call' = [call EXCEPT ![c] = r]
  BY DEF Written
<1> HIDE DEF r
<1> QED
  BY <1>1, <1>2, Zenon DEF Moves

LEMMA BeginMoves ==
  ASSUME TypeOK, NEW c \in Calls, NEW l \in Leases, NEW takeover \in BOOLEAN,
         Begin(c, l, takeover)
  PROVE  \E r \in Call : /\ Moves(c, r) /\ r.pc = "check" /\ r.lease = l
                         /\ r.takeover = takeover /\ r.now = clock
<1> DEFINE r == CallAt("check", l, takeover, clock)
<1>1. /\ r \in Call /\ r.pc = "check" /\ r.lease = l
      /\ r.takeover = takeover /\ r.now = clock
  BY AttemptAssumption DEF TypeOK, CallAt, Call
<1>2. call' = [call EXCEPT ![c] = r]
  BY DEF Begin
<1> HIDE DEF r
<1> QED
  BY <1>1, <1>2, Zenon DEF Moves

\* Where a request that found the entry free to take goes on.
LEMMA ReadMoves ==
  ASSUME TypeOK, NEW c \in Calls, Read(c), ~Blocked(c)
  PROVE  \E r \in Call : /\ Moves(c, r) /\ r.pc = "write" /\ r.lease = call[c].lease
                         /\ r.takeover = call[c].takeover /\ r.now = call[c].now
                         /\ IF lock = NoRow THEN r.seen = NoRow
                            ELSE r.seen # NoRow /\ r.seen.id = lock.id
<1> DEFINE s == IF lock = NoRow THEN NoRow ELSE [id |-> lock.id, lease |-> lock.lease]
           r == [call[c] EXCEPT !.pc = "write", !.seen = s]
<1>1. s \in Seen \cup {NoRow}
  BY DEF TypeOK, Row, Seen
<1>2. /\ lock = NoRow => s = NoRow
      /\ lock # NoRow => s # NoRow /\ s.id = lock.id
  BY RowAssumption DEF TypeOK, Row, Seen
<1>3. call' = [call EXCEPT ![c].pc = "write", ![c].seen = s]
  BY DEF Read
<1> HIDE DEF s
<1>4. /\ r \in Call /\ r.pc = "write" /\ r.lease = call[c].lease
      /\ r.takeover = call[c].takeover /\ r.now = call[c].now /\ r.seen = s
  BY <1>1 DEF TypeOK, Call
<1>5. call' = [call EXCEPT ![c] = r]
  BY <1>3
<1> HIDE DEF r
<1>6. IF lock = NoRow THEN r.seen = NoRow ELSE r.seen # NoRow /\ r.seen.id = lock.id
  BY <1>2, <1>4, Zenon
<1> QED
  BY <1>4, <1>5, <1>6, Zenon DEF Moves

\* The update has found the row it is going to write.
LEMMA SelectMoves ==
  ASSUME TypeOK, NEW c \in Calls, UpdateSelects(c), Unchanged(c)
  PROVE  \E r \in Call : /\ Moves(c, r) /\ r.pc = "put" /\ r.lease = call[c].lease
                         /\ r.takeover = call[c].takeover /\ r.now = call[c].now
                         /\ r.seen # NoRow /\ r.seen.id = lock.id
<1> DEFINE s == [id |-> lock.id, lease |-> call[c].lease]
           r == [call[c] EXCEPT !.pc = "put", !.seen = s]
<1>1. s \in Seen /\ s # NoRow /\ s.id = lock.id
  BY RowAssumption DEF UpdateSelects, Unchanged, SameRow, TypeOK, Row, Seen
<1>2. call' = [call EXCEPT ![c].pc = "put", ![c].seen = s]
  BY DEF UpdateSelects
<1> HIDE DEF s
<1>3. /\ r \in Call /\ r.pc = "put" /\ r.lease = call[c].lease
      /\ r.takeover = call[c].takeover /\ r.now = call[c].now /\ r.seen = s
  BY <1>1 DEF TypeOK, Call
<1>4. call' = [call EXCEPT ![c] = r]
  BY <1>2
<1> HIDE DEF r
<1> QED
  BY <1>1, <1>3, <1>4, Zenon DEF Moves

LEMMA PutMoves ==
  ASSUME TypeOK, NEW c \in Calls, UpdateWrites(c)
  PROVE  \E r \in Call : /\ Moves(c, r) /\ r.pc = "reread" /\ r.lease = call[c].lease
                         /\ r.takeover = call[c].takeover /\ r.now = 0
<1> DEFINE r == [call[c] EXCEPT !.pc = "reread", !.now = 0]
<1>1. /\ r \in Call /\ r.pc = "reread" /\ r.lease = call[c].lease
      /\ r.takeover = call[c].takeover /\ r.now = 0
  BY DEF TypeOK, Call
<1>2. call' = [call EXCEPT ![c] = r]
  BY DEF UpdateWrites
<1> HIDE DEF r
<1> QED
  BY <1>1, <1>2, Zenon DEF Moves

LEMMA LeaseInvInit == Init => LeaseInv
  BY TypeInit, IdleCallFields DEF Init, LeaseInv, OpenIsUncancelled, IdleIsBlank, NowIsPast,
     UndoneHasLeft, PutIsSeen

\* A request moves on within the time, to be undone only if its tab has left.
LEMMA MoveKeepsLease ==
  ASSUME LeaseInv, NEW c \in Calls, NEW r \in Call, Moves(c, r),
         r.pc = "idle" => r = IdleCall, r.now <= clock,
         r.pc = "undo" => tab[r.lease] # "open",
         r.pc = "put" => r.seen # NoRow,
         UNCHANGED <<clock, tab>>, TypeOK', OpenIsUncancelled'
  PROVE  LeaseInv'
<1>1. \A d \in Calls : call'[d] = IF d = c THEN r ELSE call[d]
  BY DEF Moves, LeaseInv, TypeOK
<1>2. r.now \in Nat
  BY DEF Call
<1>3. IdleIsBlank'
  BY <1>1, Zenon DEF LeaseInv, IdleIsBlank, IdleCall, CallAt
<1>4. NowIsPast'
  BY <1>1, <1>2 DEF LeaseInv, NowIsPast
<1>5. UndoneHasLeft'
  BY <1>1, Zenon DEF LeaseInv, UndoneHasLeft
<1>6. PutIsSeen'
  BY <1>1, Zenon DEF LeaseInv, PutIsSeen
<1> QED
  BY <1>3, <1>4, <1>5, <1>6 DEF LeaseInv

LEMMA LeaseInvStep ==
  ASSUME LeaseInv, IInv, [Next]_vars
  PROVE  LeaseInv'
<1>0. /\ TypeOK /\ TypeOK' /\ OpenIsUncancelled'
      /\ clock \in Nat /\ 0 <= clock
  BY TypeStep, InvStep DEF LeaseInv, IInv, TypeOK
<1>1. ASSUME NEW c \in Calls, NEW l \in Leases, NEW takeover \in BOOLEAN,
             Begin(c, l, takeover)
      PROVE  LeaseInv'
  <2>1. PICK r \in Call : Moves(c, r) /\ r.pc = "check" /\ r.now = clock
    BY <1>0, <1>1, BeginMoves
  <2>2. UNCHANGED <<clock, tab>>
    BY <1>1 DEF Begin
  <2> QED
    BY <1>0, <2>1, <2>2, MoveKeepsLease
<1>2. ASSUME NEW c \in Calls, Moves(c, IdleCall), UNCHANGED <<clock, tab>>
      PROVE  LeaseInv'
  BY <1>0, <1>2, IdleCallFields, MoveKeepsLease
<1>3. ASSUME NEW c \in Calls, Check(c)
      PROVE  LeaseInv'
  BY <1>0, <1>2, <1>3, GotoMoves, FinishedMoves, MoveKeepsLease
  DEF Check, LeaseInv, NowIsPast
<1>4. ASSUME NEW c \in Calls, Read(c)
      PROVE  LeaseInv'
  BY <1>0, <1>2, <1>4, ReadMoves, FinishedMoves, MoveKeepsLease
  DEF Read, LeaseInv, NowIsPast
<1>5. ASSUME NEW c \in Calls, UNCHANGED <<clock, tab>>, call[c].lease \in Leases,
             Written(c) \/ Retry(c)
      PROVE  LeaseInv'
  <2>1. CASE Written(c)
    <3>1. PICK r \in Call : Moves(c, r) /\ r.pc = "finish" /\ r.now = 0
      BY <1>0, <1>5, <2>1, WrittenMoves
    <3> QED
      BY <1>0, <1>5, <3>1, MoveKeepsLease
  <2>2. CASE Retry(c)
    <3>1. ASSUME NEW r \in Call, Moves(c, r), r.pc = "check", r.now = clock
          PROVE  LeaseInv'
      BY <1>0, <1>5, <3>1, MoveKeepsLease
    <3> QED
      BY <1>0, <1>2, <1>5, <2>2, <3>1, RetryMoves
  <2> QED
    BY <1>5, <2>1, <2>2
<1>11. ASSUME NEW c \in Calls, UpdateSelects(c)
       PROVE  LeaseInv'
  <2>1. call[c].lease \in Leases /\ UNCHANGED <<clock, tab>>
    BY <1>0, <1>11 DEF UpdateSelects, TypeOK
  <2>2. CASE Unchanged(c)
    BY <1>0, <1>11, <2>1, <2>2, SelectMoves, MoveKeepsLease DEF LeaseInv, NowIsPast
  <2>3. CASE ~Unchanged(c)
    BY <1>5, <1>11, <2>1, <2>3 DEF UpdateSelects
  <2> QED
    BY <2>2, <2>3
<1>12. ASSUME NEW c \in Calls, UpdateWrites(c)
       PROVE  LeaseInv'
  <2>1. PICK r \in Call : Moves(c, r) /\ r.pc = "reread" /\ r.now = 0
    BY <1>0, <1>12, PutMoves
  <2>2. UNCHANGED <<clock, tab>>
    BY <1>12 DEF UpdateWrites
  <2> QED
    BY <1>0, <2>1, <2>2, MoveKeepsLease
<1>13. ASSUME NEW c \in Calls, UpdateAnswers(c) \/ Create(c)
       PROVE  LeaseInv'
  BY <1>0, <1>5, <1>13 DEF UpdateAnswers, Create, TypeOK
<1>6. ASSUME NEW c \in Calls, FinishAcquire(c)
      PROVE  LeaseInv'
  <2>1. CASE Cancelled(call[c].lease, clock)
    <3>1. tab[call[c].lease] # "open" /\ Goto(c, "undo") /\ UNCHANGED <<clock, tab>>
      BY <1>0, <1>6, <2>1 DEF FinishAcquire, Cancelled, LeaseInv, OpenIsUncancelled, TypeOK
    <3> QED
      BY <1>0, <3>1, GotoMoves, MoveKeepsLease DEF LeaseInv, NowIsPast
  <2>2. CASE ~Cancelled(call[c].lease, clock)
    BY <1>2, <1>6, <2>2, FinishedMoves DEF FinishAcquire
  <2> QED
    BY <2>1, <2>2
<1>7. ASSUME NEW c \in Calls, Undo(c) \/ AcquireFails(c)
      PROVE  LeaseInv'
  BY <1>2, <1>7, FinishedMoves DEF Undo, AcquireFails
<1>8. ASSUME UNCHANGED call, clock' >= clock, clock' \in Nat,
             \A l \in Leases : tab[l] # "open" => tab'[l] # "open"
      PROVE  LeaseInv'
  <2>1. NowIsPast'
    BY <1>0, <1>8 DEF LeaseInv, NowIsPast
  <2>2. UndoneHasLeft' /\ IdleIsBlank' /\ PutIsSeen'
    BY <1>0, <1>8 DEF LeaseInv, UndoneHasLeft, IdleIsBlank, PutIsSeen, TypeOK
  <2> QED
    BY <1>0, <2>1, <2>2 DEF LeaseInv
<1>9. ASSUME NEW l \in Leases, Release(l) \/ ReleaseRow(l) \/ ReleaseFails(l)
      PROVE  LeaseInv'
  BY <1>0, <1>8, <1>9 DEF Release, ReleaseRow, ReleaseFails, TypeOK
<1>10. CASE Tick \/ UNCHANGED vars
  BY <1>0, <1>8, <1>10 DEF Tick, vars
<1> QED
  BY <1>1, <1>3, <1>4, <1>6, <1>7, <1>9, <1>10, <1>11, <1>12, <1>13
  DEF Next, Acquire, Update

LeaseStep == Promise!Next \/ UNCHANGED Promise!vars

\* Request c found, since the entry was last free, that it may have it.
IsCleared(c) == call[c].pc \in {"write", "put"} /\ call[c].seen # NoRow /\ SameRow(c)

\* What a request's move shows.
LEMMA MoveIsSeen ==
  ASSUME TypeOK, NEW c \in Calls, NEW r \in Call, Moves(c, r)
  PROVE  /\ Asker' = [Asker EXCEPT ![c] = r.lease]
         /\ ~r.takeover => Forced' = Forced \ {c}
         /\ r.takeover => Forced' = Forced \cup {c}
<1>1. \A d \in Calls : call'[d] = IF d = c THEN r ELSE call[d]
  BY DEF Moves, TypeOK
<1>2. Asker' = [Asker EXCEPT ![c] = r.lease]
  BY <1>1 DEF Asker
<1>6. r.takeover \in BOOLEAN /\ \A d \in Calls : call[d].takeover \in BOOLEAN
  BY DEF TypeOK, Call
<1>7. ~r.takeover => Forced' = Forced \ {c}
  BY <1>1, <1>6 DEF Forced
<1>8. r.takeover => Forced' = Forced \cup {c}
  BY <1>1, <1>6 DEF Forced
<1> QED
  BY <1>2, <1>7, <1>8

\* While the row stays, the others' clearances do.
LEMMA ClearancesStay ==
  ASSUME TypeOK, NEW c \in Calls, NEW r \in Call, Moves(c, r), RowKeepsId
  PROVE  /\ IsCleared(c)' => Cleared' = Cleared \cup {c}
         /\ ~IsCleared(c)' => Cleared' = Cleared \ {c}
<1>1. \A d \in Calls \ {c} : call'[d] = call[d]
  BY DEF Moves, TypeOK
<1>2. \A d \in Calls \ {c} : IsCleared(d)' <=> IsCleared(d)
  BY <1>1, SameRowStays, Zenon DEF IsCleared
<1>3. Cleared = {d \in Calls : IsCleared(d)} /\ Cleared' = {d \in Calls : IsCleared(d)'}
  BY Zenon DEF Cleared, IsCleared
<1> HIDE DEF IsCleared
<1> QED
  BY <1>2, <1>3

\* With the row every clearance goes.
LEMMA NothingCleared ==
  /\ lock = NoRow => Cleared = {}
  /\ lock' = NoRow => Cleared' = {}
  BY DEF Cleared, SameRow

LEMMA MovedTo ==
  ASSUME TypeOK, NEW c \in Calls, NEW r \in Call, Moves(c, r)
  PROVE  call'[c] = r
  BY DEF Moves, TypeOK

LEMMA NoLongerCleared ==
  ASSUME TypeOK, NEW c \in Calls, NEW r \in Call, Moves(c, r), RowKeepsId,
         r.pc \notin {"write", "put"} \/ r.seen = NoRow
  PROVE  Cleared' = Cleared \ {c}
<1>1. ~IsCleared(c)'
  BY MovedTo, Zenon DEF IsCleared
<1> QED
  BY <1>1, ClearancesStay

LEMMA NowCleared ==
  ASSUME TypeOK, NEW c \in Calls, NEW r \in Call, Moves(c, r), UNCHANGED lock,
         r.pc \in {"write", "put"}, r.seen # NoRow, lock # NoRow, lock.id = r.seen.id
  PROVE  Cleared' = Cleared \cup {c}
<1>1. IsCleared(c)'
  BY MovedTo, Zenon DEF IsCleared, SameRow
<1>2. RowKeepsId
  BY DEF RowKeepsId
<1> QED
  BY <1>1, <1>2, ClearancesStay

\* A request that moves on without writing keeps what it is for.
LEMMA PlainMove ==
  ASSUME TypeOK, NEW c \in Calls, NEW r \in Call, Moves(c, r),
         r.lease = call[c].lease, r.takeover = call[c].takeover
  PROVE  UNCHANGED <<Asker, Forced>>
<1>1. \A d \in Calls : call'[d].lease = call[d].lease /\ call'[d].takeover = call[d].takeover
  BY DEF Moves, TypeOK
<1> QED
  BY <1>1, Zenon DEF Asker, Forced

LEMMA RowStays ==
  ASSUME UNCHANGED <<lock, clock>>
  PROVE  UNCHANGED <<Holder, Over>>
  BY Zenon DEF Holder, Over

\* Request c is cleared no longer, or was not.
LEMMA AgainIsSeen ==
  ASSUME TypeOK, NEW c \in Calls, NEW r \in Call, Moves(c, r), r.lease = call[c].lease,
         r.pc \notin {"write", "put"} \/ r.seen = NoRow,
         r.takeover = call[c].takeover \/ ~r.takeover,
         UNCHANGED <<clock, lock, tab>>
  PROVE  LeaseStep
<1>1. Cleared' = Cleared \ {c}
  BY NoLongerCleared DEF RowKeepsId
<1>2. UNCHANGED <<Holder, Over>> /\ UNCHANGED Left
  BY RowStays, Zenon DEF Left
<1>3. UNCHANGED Asker
  <2>1. \A d \in Calls : call'[d].lease = call[d].lease
    BY DEF Moves, TypeOK
  <2> QED
    BY <2>1, Zenon DEF Asker
<1>4. Forced' \in {Forced, Forced \ {c}}
  BY PlainMove, MoveIsSeen, Zenon
<1>5. Promise!MoveOn(c)
  BY <1>1, <1>2, <1>3, <1>4, Zenon DEF Promise!MoveOn
<1> QED
  BY <1>5, Zenon DEF LeaseStep, Promise!Next

LEMMA EndIsSeen ==
  ASSUME TypeOK, NEW c \in Calls, Moves(c, IdleCall), UNCHANGED <<tab>>,
         \/ UNCHANGED <<lock, clock>>
         \/ Holder = Asker[c] /\ Holder \in Left /\ lock' = NoRow
  PROVE  LeaseStep
<1>1. Asker' = [Asker EXCEPT ![c] = NoLease] /\ Forced' = Forced \ {c}
  BY MoveIsSeen, IdleCallFields
<1>2. UNCHANGED Left
  BY Zenon DEF Left
<1>3. CASE UNCHANGED <<lock, clock>>
  <2>1. Cleared' = Cleared \ {c}
    BY <1>3, NoLongerCleared, IdleCallFields DEF RowKeepsId
  <2>2. Promise!End(c)
    BY <1>1, <1>2, <1>3, <2>1, RowStays, Zenon DEF Promise!End, Promise!Keeps
  <2> QED
    BY <2>2, Zenon DEF LeaseStep, Promise!Next
<1>4. CASE Holder = Asker[c] /\ Holder \in Left /\ lock' = NoRow
  <2>1. Cleared' = {} /\ Holder' = NoLease /\ Over' = FALSE
    BY <1>4, NothingCleared, Zenon DEF Holder, Over
  <2>2. Promise!End(c)
    BY <1>1, <1>2, <1>4, <2>1, Zenon DEF Promise!End, Promise!Frees
  <2> QED
    BY <2>2, Zenon DEF LeaseStep, Promise!Next
<1> QED
  BY <1>3, <1>4

LEMMA TakeIsSeen ==
  ASSUME LeaseInv, NEW c \in Calls, NEW r \in Call, Moves(c, r),
         r.lease = call[c].lease, call[c].lease \in Leases,
         r.takeover = call[c].takeover \/ ~r.takeover,
         Holder = NoLease \/ c \in Cleared,
         Holder' = call[c].lease, Cleared' = Cleared \ {c}, UNCHANGED tab
  PROVE  LeaseStep
<1>1. Forced' \in {Forced, Forced \ {c}}
  BY PlainMove, MoveIsSeen, Zenon DEF LeaseInv
<1>2. Asker' = Asker
  <2>1. \A d \in Calls : call'[d].lease = call[d].lease
    BY DEF Moves, LeaseInv, TypeOK
  <2> QED
    BY <2>1, Zenon DEF Asker
<1>3. UNCHANGED Left /\ Over' \in BOOLEAN
  BY DEF Left, Over
<1>4. Asker[c] # NoLease /\ Holder' = Asker[c]
  BY LeaseAssumption DEF Asker
<1>5. Promise!Take(c)
  BY <1>1, <1>2, <1>3, <1>4, Zenon DEF Promise!Take
<1> QED
  BY <1>5, Zenon DEF LeaseStep, Promise!Next

LEMMA AskIsSeen ==
  ASSUME LeaseInv, NEW c \in Calls, NEW l \in Leases, NEW takeover \in BOOLEAN,
         Begin(c, l, takeover)
  PROVE  LeaseStep
<1>1. PICK r \in Call : Moves(c, r) /\ r.pc = "check" /\ r.lease = l /\ r.takeover = takeover
  BY BeginMoves DEF LeaseInv
<1>2. call[c] = IdleCall
  BY Zenon DEF Begin, LeaseInv, IdleIsBlank
<1>3. Asker[c] = NoLease /\ c \notin Cleared /\ c \notin Forced
  BY <1>2, IdleCallFields, Zenon DEF Asker, Cleared, Forced
<1>4. Asker' = [Asker EXCEPT ![c] = l] /\ Forced' \in {Forced, Forced \cup {c}}
  <2>1. /\ Asker' = [Asker EXCEPT ![c] = r.lease]
        /\ Forced' \in {Forced \ {c}, Forced \cup {c}}
    BY <1>1, MoveIsSeen, Zenon DEF LeaseInv
  <2>2. Forced \ {c} = Forced
    BY <1>3
  <2> QED
    BY <1>1, <2>1, <2>2, Zenon
<1>6. UNCHANGED Left /\ l \notin Left
  BY Zenon DEF Begin, Left
<1>7. \/ UNCHANGED <<Holder, Over>> /\ UNCHANGED Cleared
      \/ Over /\ Holder' = NoLease /\ Over' = FALSE /\ Cleared' = {}
  <2>1. CASE lock # NoRow /\ Expired(lock.expiresAt, clock)
    <3>1. lock' = NoRow /\ Over
      BY <2>1 DEF Begin, RemoveIf, Over, Expired, LeaseInv, TypeOK, Row
    <3> QED
      BY <3>1, NothingCleared, Zenon DEF Holder, Over
  <2>2. CASE ~(lock # NoRow /\ Expired(lock.expiresAt, clock))
    <3>1. UNCHANGED <<lock, clock>>
      BY <2>2 DEF Begin, RemoveIf
    <3>2. Cleared' = Cleared \ {c}
      BY <1>1, <3>1, NoLongerCleared DEF RowKeepsId, LeaseInv
    <3>3. Cleared' = Cleared
      BY <1>3, <3>2
    <3> QED
      BY <3>1, <3>3, RowStays, Zenon
  <2> QED
    BY <2>1, <2>2
<1>8. Promise!Ask(c, l)
  BY <1>3, <1>4, <1>6, <1>7, Zenon DEF Promise!Ask, Promise!Frees, Promise!Keeps
<1> QED
  BY <1>8, Zenon DEF LeaseStep, Promise!Next

\* The triage lets a request on that may have the entry.
LEMMA LookIsSeen ==
  ASSUME LeaseInv, NEW c \in Calls, Read(c), ~Blocked(c)
  PROVE  LeaseStep
<1>0. TypeOK /\ UNCHANGED <<clock, lock, tab>>
  BY DEF LeaseInv, Read
<1>1. PICK r \in Call : /\ Moves(c, r) /\ r.pc = "write" /\ r.lease = call[c].lease
                         /\ r.takeover = call[c].takeover
                         /\ IF lock = NoRow THEN r.seen = NoRow
                            ELSE r.seen # NoRow /\ r.seen.id = lock.id
  BY <1>0, ReadMoves
<1>2. CASE lock = NoRow
  BY <1>0, <1>1, <1>2, AgainIsSeen
<1>3. CASE lock # NoRow
  <2>1. UNCHANGED <<Asker, Forced>> /\ UNCHANGED <<Holder, Over>> /\ UNCHANGED Left
    BY <1>0, <1>1, PlainMove, RowStays, Zenon DEF Left
  <2>2. Cleared' = Cleared \cup {c}
    BY <1>0, <1>1, <1>3, NowCleared
  <2>3. /\ call[c].lease \in Leases /\ Asker[c] = call[c].lease /\ Asker[c] # NoLease
        /\ Holder = lock.lease /\ Holder # NoLease
    BY <1>0, <1>3, LeaseAssumption DEF Read, TypeOK, Row, Asker, Holder
  <2>4. Promise!MayHave(c)
    <3>1. CASE ~IsActive(lock, call[c].now)
      <4>1. Over
        BY <1>0, <1>3, <3>1 DEF IsActive, Over, LeaseInv, NowIsPast, TypeOK, Row
      <4> QED
        BY <4>1, Zenon DEF Promise!MayHave
    <3>2. CASE lock.lease = call[c].lease
      BY <2>3, <3>2, Zenon DEF Promise!MayHave
    <3>3. CASE call[c].takeover /\ AdminOf[lock.lease] = AdminOf[call[c].lease]
      BY <2>3, <3>3, Zenon DEF Promise!MayHave, Forced
    <3> QED
      BY <1>3, <3>1, <3>2, <3>3, Zenon DEF Blocked
  <2>5. Promise!Look(c)
    BY <2>1, <2>2, <2>3, <2>4, Zenon DEF Promise!Look
  <2> QED
    BY <2>5, Zenon DEF LeaseStep, Promise!Next
<1> QED
  BY <1>2, <1>3

\* A request whose attempt came to nothing looks again, or gives up.
LEMMA RetryIsSeen ==
  ASSUME TypeOK, NEW c \in Calls, Retry(c), UNCHANGED <<clock, lock, tab>>
  PROVE  LeaseStep
<1>1. ASSUME Moves(c, IdleCall)
      PROVE  LeaseStep
  BY <1>1, EndIsSeen
<1>2. ASSUME NEW r \in Call, Moves(c, r), r.pc = "check", r.lease = call[c].lease,
             r.takeover = call[c].takeover
      PROVE  LeaseStep
  BY <1>2, AgainIsSeen
<1> QED
  BY <1>1, <1>2, RetryMoves

\* The row of which the update selected the id passes to the request, whoever has
\* it by then.
LEMMA UpdateIsSeen ==
  ASSUME LeaseInv, NEW c \in Calls, Update(c)
  PROVE  LeaseStep
<1>0. TypeOK /\ call[c].lease \in Leases /\ UNCHANGED <<clock, tab>>
  BY DEF LeaseInv, Update, UpdateSelects, UpdateWrites, UpdateAnswers, TypeOK
<1>1. CASE UpdateSelects(c) /\ Unchanged(c)
  <2>1. PICK r \in Call : /\ Moves(c, r) /\ r.pc = "put" /\ r.lease = call[c].lease
                           /\ r.takeover = call[c].takeover
                           /\ r.seen # NoRow /\ r.seen.id = lock.id
    BY <1>0, <1>1, SelectMoves
  <2>2. UNCHANGED lock /\ lock # NoRow /\ c \in Cleared
    BY <1>1 DEF UpdateSelects, Unchanged, SameRow, Cleared
  <2>3. Cleared' = Cleared \cup {c}
    BY <1>0, <2>1, <2>2, NowCleared
  <2>4. UNCHANGED <<Asker, Forced>> /\ UNCHANGED <<Holder, Over>> /\ UNCHANGED Left
    BY <1>0, <2>1, <2>2, PlainMove, RowStays, Zenon DEF Left
  <2>5. UNCHANGED Cleared
    BY <2>2, <2>3
  <2> QED
    BY <2>4, <2>5, Zenon DEF LeaseStep, Promise!vars
<1>2. CASE UpdateSelects(c) /\ ~Unchanged(c)
  BY <1>0, <1>2, RetryIsSeen DEF UpdateSelects
<1>3. CASE UpdateWrites(c)
  <2>1. PICK r \in Call : /\ Moves(c, r) /\ r.pc = "reread" /\ r.lease = call[c].lease
                           /\ r.takeover = call[c].takeover
    BY <1>0, <1>3, PutMoves
  <2>2. CASE SameRow(c)
    <3> DEFINE row == [id |-> lock.id, lease |-> call[c].lease, expiresAt |-> Expiry(c)]
    <3>1. lock' = row /\ lock # NoRow
      BY <1>3, <2>2 DEF UpdateWrites, SameRow
    <3>2. row \in Row /\ row.id = lock.id /\ row.lease = call[c].lease
      <4>1. Expiry(c) \in Nat /\ lock.id \in RowIds
        BY <1>0, <3>1, TtlAssumption DEF Expiry, TypeOK, Call, Row
      <4> QED
        BY <1>0, <4>1 DEF Row
    <3> HIDE DEF row
    <3>3. RowKeepsId /\ Holder' = call[c].lease
      BY <3>1, <3>2, RowAssumption, Zenon DEF RowKeepsId, Holder, Row
    <3>4. Cleared' = Cleared \ {c}
      BY <1>0, <2>1, <3>3, NoLongerCleared
    <3>5. c \in Cleared
      BY <1>3, <2>2 DEF UpdateWrites, LeaseInv, PutIsSeen, Cleared
    <3> QED
      BY <1>0, <2>1, <3>3, <3>4, <3>5, TakeIsSeen
  <2>3. CASE ~SameRow(c)
    <3>1. UNCHANGED lock
      BY <1>3, <2>3 DEF UpdateWrites
    <3> QED
      BY <1>0, <2>1, <3>1, AgainIsSeen
  <2> QED
    BY <2>2, <2>3
<1>4. CASE UpdateAnswers(c)
  <2>1. UNCHANGED lock
    BY <1>4 DEF UpdateAnswers
  <2>2. CASE Written(c)
    <3>1. PICK r \in Call : /\ Moves(c, r) /\ r.pc = "finish" /\ r.lease = call[c].lease
                             /\ r.takeover = FALSE
      BY <1>0, <2>2, WrittenMoves
    <3> QED
      BY <1>0, <2>1, <3>1, AgainIsSeen
  <2>3. CASE Retry(c)
    BY <1>0, <2>1, <2>3, RetryIsSeen
  <2> QED
    BY <1>4, <2>2, <2>3 DEF UpdateAnswers
<1> QED
  BY <1>1, <1>2, <1>3, <1>4 DEF Update

\* An insert whose key is free takes a free entry.
LEMMA CreateIsSeen ==
  ASSUME LeaseInv, NEW c \in Calls, Create(c)
  PROVE  LeaseStep
<1>0. TypeOK /\ call[c].lease \in Leases /\ UNCHANGED <<clock, tab>>
  BY DEF LeaseInv, Create, TypeOK
<1>1. CASE lock = NoRow
  <2>1. PICK r \in Call : /\ Moves(c, r) /\ r.pc = "finish" /\ r.lease = call[c].lease
                           /\ r.takeover = FALSE
    BY <1>0, <1>1, WrittenMoves DEF Create
  <2>2. PICK id \in NewIds :
           lock' = [id |-> id, lease |-> call[c].lease, expiresAt |-> Expiry(c)]
    BY <1>1 DEF Create
  <2>3. /\ id \in RowIds
        /\ \A d \in Calls : call[d].seen # NoRow => call[d].seen.id # id
    BY DEF NewIds
  <2>4. lock' \in Row /\ lock'.lease = call[c].lease /\ lock'.id = id
    <3>1. Expiry(c) \in Nat
      BY <1>0, TtlAssumption DEF Expiry, TypeOK, Call
    <3> QED
      BY <1>0, <2>2, <2>3, <3>1 DEF Row
  <2>5. Holder' = call[c].lease /\ Holder = NoLease
    BY <1>1, <2>4, RowAssumption, Zenon DEF Holder, Row
  <2>6. Cleared = {}
    BY <1>1, NothingCleared
  <2>7. ASSUME NEW d \in Calls, d \in Cleared'
        PROVE  FALSE
    <3>1. d # c /\ call'[d] = call[d]
      BY <1>0, <2>1, <2>7 DEF Moves, TypeOK, Cleared
    <3>2. call[d].seen # NoRow /\ call[d].seen.id = id
      BY <2>4, <2>7, <3>1, Zenon DEF Cleared, SameRow
    <3> QED
      BY <2>3, <3>2
  <2>8. Cleared' = Cleared \ {c}
    BY <2>6, <2>7 DEF Cleared
  <2> QED
    BY <1>0, <2>1, <2>5, <2>8, TakeIsSeen
<1>2. CASE lock # NoRow
  BY <1>0, <1>2, RetryIsSeen DEF Create
<1> QED
  BY <1>1, <1>2

LEMMA RequestIsSeen ==
  ASSUME LeaseInv, NEW c \in Calls, Acquire(c)
  PROVE  LeaseStep
<1>0. TypeOK
  BY DEF LeaseInv
<1>1. ASSUME Finished(c), UNCHANGED <<clock, lock, tab>>
      PROVE  LeaseStep
  BY <1>0, <1>1, FinishedMoves, EndIsSeen
<1>2. ASSUME NEW pc \in {"read", "undo"}, Goto(c, pc), UNCHANGED <<clock, lock, tab>>
      PROVE  LeaseStep
  BY <1>0, <1>2, GotoMoves, AgainIsSeen
<1>3. CASE Check(c)
  BY <1>1, <1>2, <1>3 DEF Check
<1>4. CASE Read(c)
  BY <1>1, <1>4, LookIsSeen DEF Read
<1>5. CASE Update(c) \/ Create(c)
  BY <1>5, UpdateIsSeen, CreateIsSeen
<1>6. CASE FinishAcquire(c)
  BY <1>1, <1>2, <1>6 DEF FinishAcquire
<1>7. CASE Undo(c)
  <2>1. Moves(c, IdleCall) /\ UNCHANGED <<clock, tab>>
    BY <1>7, FinishedMoves DEF Undo
  <2>2. CASE Holds(call[c].lease)
    <3>1. Holder = Asker[c] /\ lock' = NoRow
      BY <1>7, <2>2, Zenon DEF Undo, RemoveIf, Holds, Holder, Asker
    <3>2. Holder \in Left
      BY <1>0, <1>7, <3>1 DEF Undo, LeaseInv, UndoneHasLeft, Left, Asker, TypeOK
    <3> QED
      BY <1>0, <2>1, <3>1, <3>2, EndIsSeen
  <2>3. CASE ~Holds(call[c].lease)
    <3>1. UNCHANGED lock
      BY <1>7, <2>3 DEF Undo, RemoveIf
    <3> QED
      BY <1>0, <2>1, <3>1, EndIsSeen
  <2> QED
    BY <2>2, <2>3
<1>8. CASE AcquireFails(c)
  BY <1>1, <1>8 DEF AcquireFails
<1> QED
  BY <1>3, <1>4, <1>5, <1>6, <1>7, <1>8 DEF Acquire

LEMMA LeavingIsSeen ==
  ASSUME LeaseInv, NEW l \in Leases, Release(l) \/ ReleaseRow(l) \/ ReleaseFails(l)
  PROVE  LeaseStep
<1>0. TypeOK
  BY DEF LeaseInv
<1>1. Left' = Left \cup {l}
  BY <1>0 DEF Release, ReleaseRow, ReleaseFails, Left, TypeOK
<1>2. UNCHANGED <<Asker, Forced, call>>
  BY Zenon DEF Release, ReleaseRow, ReleaseFails, Asker, Forced
<1>3. \/ UNCHANGED <<Holder, Over>> /\ UNCHANGED Cleared
      \/ /\ Holder = l /\ l \in Left
         /\ Holder' = NoLease /\ Over' = FALSE /\ Cleared' = {}
  <2>1. CASE UNCHANGED <<lock, clock>>
    BY <1>2, <2>1, RowStays, Zenon DEF Cleared, SameRow
  <2>2. CASE ReleaseRow(l) /\ Holds(l)
    <3>1. Holder = l /\ l \in Left /\ lock' = NoRow
      BY <2>2 DEF ReleaseRow, RemoveIf, Holds, Holder, Left
    <3> QED
      BY <3>1, NothingCleared, Zenon DEF Holder, Over
  <2> QED
    BY <2>1, <2>2 DEF Release, ReleaseRow, ReleaseFails, RemoveIf
<1>4. Promise!Leave(l)
  BY <1>1, <1>2, <1>3, Zenon DEF Promise!Leave, Promise!Frees, Promise!Keeps
<1> QED
  BY <1>4, Zenon DEF LeaseStep, Promise!Next

LEMMA StillIsSeen ==
  ASSUME LeaseInv, Tick \/ UNCHANGED vars
  PROVE  LeaseStep
<1>1. UNCHANGED <<lock, tab, call>>
  BY DEF Tick, vars
<1>2. UNCHANGED <<Holder, Left, Asker, Forced, Cleared>>
  BY <1>1, Zenon DEF Holder, Left, Asker, Forced, Cleared, SameRow
<1>3. CASE Over' = Over
  BY <1>2, <1>3, Zenon DEF LeaseStep, Promise!vars
<1>4. CASE Over' # Over
  <2>1. Over' /\ lock # NoRow
    BY <1>1, <1>4 DEF Over, Tick, vars, LeaseInv, TypeOK, Row
  <2>2. Holder # NoLease
    BY <2>1, LeaseAssumption DEF Holder, LeaseInv, TypeOK, Row
  <2>3. Promise!Lapse
    BY <1>2, <2>1, <2>2, Zenon DEF Promise!Lapse
  <2> QED
    BY <2>3, Zenon DEF LeaseStep, Promise!Next
<1> QED
  BY <1>3, <1>4

LEMMA PromiseInit == Init => Promise!Init
<1> SUFFICES ASSUME Init PROVE Promise!Init
  OBVIOUS
<1>1. Holder = NoLease /\ Over = FALSE /\ Left = {}
  BY Zenon DEF Init, Holder, Over, Left
<1>2. \A c \in Calls : call[c] = IdleCall
  BY DEF Init
<1>3. Asker = [c \in Calls |-> NoLease]
  BY <1>2, IdleCallFields, Zenon DEF Asker
<1>4. Forced = {}
  BY <1>2, IdleCallFields, Zenon DEF Forced
<1>5. Cleared = {}
  BY NothingCleared DEF Init
<1> QED
  BY <1>1, <1>3, <1>4, <1>5, Zenon DEF Promise!Init

\* acquire and release, statement by statement and in whatever order, implement
\* EditLease: a tab loses its lock only to a request that found, since the entry was
\* last free, that it may have it; nobody's row is removed but a closed tab's or one
\* whose time is over.
THEOREM LocksAreLeased == Spec => ImplementsEditLease
<1>1. Init => IInv /\ LeaseInv /\ Promise!Init
  BY InvInit, LeaseInvInit, PromiseInit
<1>2. IInv /\ LeaseInv /\ [Next]_vars => IInv' /\ LeaseInv'
  BY InvStep, LeaseInvStep
<1>3. IInv /\ LeaseInv /\ [Next]_vars => [Promise!Next]_(Promise!vars)
  <2>1. SUFFICES ASSUME LeaseInv, [Next]_vars PROVE LeaseStep
    BY DEF LeaseStep
  <2> QED
    BY <2>1, AskIsSeen, RequestIsSeen, LeavingIsSeen, StillIsSeen, Zenon DEF Next
<1> QED
  BY <1>1, <1>2, <1>3, PTL DEF Spec, ImplementsEditLease, Promise!Spec
=============================================================================
