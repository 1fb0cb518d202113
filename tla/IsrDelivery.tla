---------------------------- MODULE IsrDelivery ----------------------------
(***************************************************************************)
(* What the ISR outbox promises, without rows, leases or workers: a page    *)
(* whose content changed stays promised until the gateway has been handed   *)
(* an invalidation of it that was sent after the change.  Handing over too  *)
(* much or too often is allowed; dropping a promise that is still owed is   *)
(* not.                                                                     *)
(***************************************************************************)
CONSTANT Paths

VARIABLES
    owed,      \* changed pages no later hand-over has covered yet
    promised   \* pages some undelivered row will still hand over

vars == <<owed, promised>>

Init == owed = {} /\ promised = {}

\* A content write commits: its pages are owed, and promised with it.
Change(P) ==
    /\ owed' = owed \cup P
    /\ promised' \in SUBSET Paths
    /\ promised \cup P \subseteq promised'

\* The gateway takes in an invalidation of the pages D.
HandOver(D) ==
    /\ owed' = owed \ D
    /\ UNCHANGED promised

\* Promises are added, or dropped for pages that are not owed.
Reconsider ==
    /\ promised' \in SUBSET Paths
    /\ owed \cap promised \subseteq promised'
    /\ UNCHANGED owed

Next == \/ \E P \in SUBSET Paths : Change(P) \/ HandOver(P)
        \/ Reconsider

Spec == Init /\ [][Next]_vars
=============================================================================
