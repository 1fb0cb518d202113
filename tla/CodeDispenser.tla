--------------------------- MODULE CodeDispenser ---------------------------
(***************************************************************************)
(* What the unique coupon pools promise, without statements, row locks,     *)
(* claim tokens or retries: codes lie on a shelf until they are issued, one  *)
(* at a time and for ever; a visit that can be shown the code it was issued   *)
(* before is not issued another; nobody is turned away who did not find the    *)
(* pool empty.                                                                *)
(***************************************************************************)
CONSTANTS
    Pools, Codes,
    PoolOf,       \* PoolOf[c]: the pool of code c
    Stocked,      \* the codes on the shelf at first
    NoCode,
    Requests,
    Target,       \* Target[r]: the pool request r asks for
    Activation,   \* Activation[r]: the visit it belongs to
    NoActivation, \* a visit that cannot be told from others
    NoRequest

VARIABLES
    shelf,     \* codes that can be issued
    issuedTo,  \* issuedTo[c]: the request that was issued c
    expired,   \* codes issued too long ago to be shown again
    shown,     \* shown[r]: the code r was answered with
    dry,       \* requests that have found their pool empty
    refused,   \* requests answered that their pool is empty
    soldOut    \* pools marked as sold out

vars == <<shelf, issuedTo, expired, shown, dry, refused, soldOut>>

OnShelf(p) == {c \in shelf : PoolOf[c] = p}

Waiting(r) == shown[r] = NoCode /\ r \notin refused

\* Codes issued to the visit r belongs to.
IssuedFor(r) ==
    {c \in Codes : /\ Activation[r] # NoActivation
                   /\ issuedTo[c] # NoRequest
                   /\ Activation[issuedTo[c]] = Activation[r]}

Showable(r) == {c \in IssuedFor(r) : c \notin expired /\ PoolOf[c] = Target[r]}

\* The visit was issued nothing, or something that r can no longer be shown.
NothingToShow(r) == IssuedFor(r) = {} \/ Showable(r) # IssuedFor(r)

Init ==
    /\ shelf = Stocked
    /\ issuedTo = [c \in Codes |-> NoRequest]
    /\ expired = {}
    /\ shown = [r \in Requests |-> NoCode]
    /\ dry = {} /\ refused = {} /\ soldOut = {}

\* An import puts codes nobody ever had on the shelf.
Restock(p) ==
    /\ \E S \in SUBSET {c \in Codes \ shelf : PoolOf[c] = p /\ issuedTo[c] = NoRequest} :
          shelf' = shelf \cup S
    /\ soldOut' = soldOut \ {p}
    /\ UNCHANGED <<issuedTo, expired, shown, dry, refused>>

\* The answer may be lost.
Issue(r) ==
    /\ Waiting(r) /\ NothingToShow(r)
    /\ \E c \in OnShelf(Target[r]) :
          /\ shelf' = shelf \ {c}
          /\ issuedTo' = [issuedTo EXCEPT ![c] = r]
          /\ shown' \in {shown, [shown EXCEPT ![r] = c]}
    /\ UNCHANGED <<expired, dry, refused, soldOut>>

ShowAgain(r) ==
    /\ Waiting(r)
    /\ \E c \in Showable(r) : shown' = [shown EXCEPT ![r] = c]
    /\ dry' = dry \ {r}
    /\ UNCHANGED <<shelf, issuedTo, expired, refused, soldOut>>

FindEmpty(r) ==
    /\ Waiting(r)
    /\ OnShelf(Target[r]) = {}
    /\ dry' = dry \cup {r}
    /\ UNCHANGED <<shelf, issuedTo, expired, shown, refused, soldOut>>

\* What it found is forgotten when it tries again or fails.
StartOver(r) ==
    /\ dry' = dry \ {r}
    /\ UNCHANGED <<shelf, issuedTo, expired, shown, refused, soldOut>>

TurnAway(r) ==
    /\ Waiting(r) /\ r \in dry /\ NothingToShow(r)
    /\ refused' = refused \cup {r}
    /\ dry' = dry \ {r}
    /\ UNCHANGED <<shelf, issuedTo, expired, shown, soldOut>>

\* The pool may have been restocked since r looked.
MarkSoldOut(r) ==
    /\ r \in dry
    /\ soldOut' = soldOut \cup {Target[r]}
    /\ UNCHANGED <<shelf, issuedTo, expired, shown, dry, refused>>

\* The nightly review marks no pool that has something on the shelf.
Review ==
    /\ soldOut' \in SUBSET Pools
    /\ \A p \in soldOut' \ soldOut : OnShelf(p) = {}
    /\ UNCHANGED <<shelf, issuedTo, expired, shown, dry, refused>>

Expire(c) ==
    /\ issuedTo[c] # NoRequest
    /\ expired' = expired \cup {c}
    /\ UNCHANGED <<shelf, issuedTo, shown, dry, refused, soldOut>>

Next ==
    \/ \E r \in Requests : \/ StartOver(r) \/ FindEmpty(r) \/ ShowAgain(r) \/ Issue(r)
                           \/ TurnAway(r) \/ MarkSoldOut(r)
    \/ \E p \in Pools : Restock(p)
    \/ Review
    \/ \E c \in Codes : Expire(c)

Spec == Init /\ [][Next]_vars
=============================================================================
