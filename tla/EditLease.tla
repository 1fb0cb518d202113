----------------------------- MODULE EditLease -----------------------------
(***************************************************************************)
(* The edit lock of an entry as editors may rely on it, without rows,        *)
(* tombstones or the clock: whose tab may write, how another tab may come    *)
(* to, and when the entry is free again.  Between two moments at which it is *)
(* free, the entry passes from tab to tab.                                   *)
(***************************************************************************)
CONSTANTS Leases, AdminOf, Calls, NoLease

VARIABLES
    holder,  \* the lease of the tab that has the entry, or NoLease
    over,    \* the holder's time is over
    left,    \* leases of tabs that have been closed
    asker,   \* asker[c]: the lease request c is for, or NoLease
    forced,  \* requests of administrators who ask to take the entry over
    cleared  \* requests that found, since the entry was last free, they may have it

vars == <<holder, over, left, asker, forced, cleared>>

Init ==
    /\ holder = NoLease /\ over = FALSE
    /\ left = {}
    /\ asker = [c \in Calls |-> NoLease]
    /\ forced = {}
    /\ cleared = {}

\* What anybody found while the entry was held is void.
Frees == holder' = NoLease /\ over' = FALSE /\ cleared' = {}
Keeps == UNCHANGED <<holder, over>>

\* Who asks for an entry whose holder's time is over may free it.
Ask(c, l) ==
    /\ asker[c] = NoLease /\ l \notin left
    /\ asker' = [asker EXCEPT ![c] = l]
    /\ forced' \in {forced, forced \cup {c}}
    /\ \/ Keeps /\ UNCHANGED cleared
       \/ over /\ Frees
    /\ UNCHANGED left

\* A tab that is open, and in time, has to give way only to its own administrator,
\* who says so.
MayHave(c) ==
    \/ holder = asker[c]
    \/ over
    \/ c \in forced /\ AdminOf[holder] = AdminOf[asker[c]]

Look(c) ==
    /\ asker[c] # NoLease /\ holder # NoLease
    /\ MayHave(c)
    /\ cleared' = cleared \cup {c}
    /\ UNCHANGED <<holder, over, left, asker, forced>>

\* A free entry is anybody's who asks.  An entry that is held is for whoever was
\* cleared, although its holder may have renewed its time or changed since; and a
\* late request may take it for no time at all.
Take(c) ==
    /\ asker[c] # NoLease
    /\ holder = NoLease \/ c \in cleared
    /\ holder' = asker[c]
    /\ over' \in BOOLEAN
    /\ cleared' = cleared \ {c}
    /\ forced' \in {forced, forced \ {c}}
    /\ UNCHANGED <<left, asker>>

\* What a request found may be out of date, or of no more use.
MoveOn(c) ==
    /\ cleared' = cleared \ {c}
    /\ forced' \in {forced, forced \ {c}}
    /\ UNCHANGED <<holder, over, left, asker>>

\* A request of a tab that has been closed may give back what it took.
End(c) ==
    /\ asker' = [asker EXCEPT ![c] = NoLease]
    /\ forced' = forced \ {c}
    /\ \/ Keeps /\ cleared' = cleared \ {c}
       \/ holder = asker[c] /\ holder \in left /\ Frees
    /\ UNCHANGED left

Leave(l) ==
    /\ left' = left \cup {l}
    /\ \/ Keeps /\ UNCHANGED cleared
       \/ holder = l /\ l \in left /\ Frees
    /\ UNCHANGED <<asker, forced>>

Lapse ==
    /\ holder # NoLease /\ over'
    /\ UNCHANGED <<holder, left, asker, forced, cleared>>

Next ==
    \/ \E c \in Calls : MoveOn(c) \/ Look(c) \/ End(c) \/ Take(c)
    \/ \E c \in Calls, l \in Leases : Ask(c, l)
    \/ \E l \in Leases : Leave(l)
    \/ Lapse

Spec == Init /\ [][Next]_vars
=============================================================================
