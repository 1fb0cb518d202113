---------------------------- MODULE UniqueCoupon ----------------------------
(***************************************************************************)
(* Unique coupon pools: visitors' requests that draw a code, imports that   *)
(* restock a pool, and the nightly recount of every pool.                   *)
(*                                                                          *)
(* The database runs every statement in READ COMMITTED: a statement sees    *)
(* what was committed when it began, and when it had to wait for a row it   *)
(* re-evaluates its WHERE on that row's new version only, with every other  *)
(* table still as the statement first saw it.                               *)
(***************************************************************************)
EXTENDS Naturals, FiniteSets

CONSTANTS
    Pools,        \* unique_coupon_pools
    Codes,        \* rows unique_codes holds or will hold
    PoolOf,       \* PoolOf[c]: the pool code c is linked to
    Stocked,      \* codes imported before the behaviour begins
    NoCode,
    Requests,     \* calls of redeemCode
    Target,       \* Target[r]: the pool request r draws from
    Activation,   \* Activation[r]: its activation id
    NoActivation, \* a request whose activation id is missing or unusable
    NoRequest,
    MaxRetries    \* attempts of the claim loop

ASSUME CodeAssumption ==
    /\ IsFiniteSet(Codes)
    /\ Stocked \subseteq Codes
    /\ PoolOf \in [Codes -> Pools]
    /\ NoCode \notin Codes
ASSUME RequestAssumption ==
    /\ Target \in [Requests -> Pools]
    /\ NoRequest \notin Requests
ASSUME RetryAssumption == MaxRetries \in Nat \ {0}

VARIABLES
    code,      \* code[c]: the committed row of c
    pool,      \* pool[p]: the committed row of p
    request,   \* request[r]: where request r is
    import,    \* import[p]: codes the import holding p's row lock brings
    recount,   \* the nightly recount
    drawnBy    \* drawnBy[c]: the request that spent c (history)

vars == <<code, pool, request, import, recount, drawnBy>>

Tokens == {Activation[r] : r \in Requests} \cup {NoActivation}

Code == [status : {"absent", "unused", "used"},
         token  : Tokens,      \* claim_token, NoActivation for NULL
         past   : BOOLEAN]     \* used_at is outside the replay window

Pool == [exhausted : BOOLEAN,  \* exhausted_at IS NOT NULL
         total     : Nat,      \* total_codes
         used      : Nat]      \* used_codes

Request == [pc    : {"arriving", "claim", "claiming", "probe", "mark", "marking",
                     "last", "conflict", "answered", "empty", "busy", "error"},
            tries : 0..MaxRetries,
            token : Tokens,               \* claimToken
            code  : Codes \cup {NoCode}]  \* the row locked, then the answer

Recount == [pc   : {"idle", "locked", "counted", "release"},
            seen : [Pools -> Pool]]

TypeOK ==
    /\ code \in [Codes -> Code]
    /\ pool \in [Pools -> Pool]
    /\ request \in [Requests -> Request]
    /\ import \in [Pools -> SUBSET Codes]
    /\ recount \in Recount
    /\ drawnBy \in [Codes -> Requests \cup {NoRequest}]

Rows(p) == {c \in Codes : PoolOf[c] = p /\ code[c].status # "absent"}
Unused(p) == {c \in Rows(p) : code[c].status = "unused"}
Drained(p) == Unused(p) = {}

\* A claim that has not committed holds the lock of its row.
Locked(c) == \E r \in Requests : request[r].pc = "claiming" /\ request[r].code = c

Recounting == recount.pc \in {"locked", "counted"}
\* Deviation: the recount aggregates without locking the pools.
PoolFreeOfImports(p) == import[p] = {}

\* Nobody holds the row lock of pool p.
PoolFree(p) == import[p] = {} /\ ~Recounting

Idle == [pc |-> "idle",
         seen |-> [p \in Pools |-> [exhausted |-> FALSE, total |-> 0, used |-> 0]]]

Init ==
    /\ code = [c \in Codes |->
                 [status |-> IF c \in Stocked THEN "unused" ELSE "absent",
                  token |-> NoActivation, past |-> FALSE]]
    /\ pool = [p \in Pools |->
                 [exhausted |-> FALSE, used |-> 0,
                  total |-> Cardinality({c \in Stocked : PoolOf[c] = p})]]
    /\ request = [r \in Requests |->
                    [pc |-> "arriving", tries |-> 0,
                     token |-> Activation[r], code |-> NoCode]]
    /\ import = [p \in Pools |-> {}]
    /\ recount = Idle
    /\ drawnBy = [c \in Codes |-> NoRequest]

(***************************************************************************)
(* redeemCode.                                                             *)
(***************************************************************************)
Goto(r, pc) == request' = [request EXCEPT ![r].pc = pc]
With(r, pc, c) ==
    request' = [request EXCEPT ![r] = [pc |-> pc, tries |-> request[r].tries,
                                       token |-> request[r].token, code |-> c]]
Answer(r, c) == With(r, "answered", c)

\* The catch block's retry, or the last attempt's MAX_RETRIES_EXCEEDED; token is
\* what the next attempt claims with.
Retry(r, token) ==
    LET tries == request[r].tries + 1
    IN request' = [request EXCEPT
                     ![r] = [pc |-> IF tries < MaxRetries THEN "claim" ELSE "busy",
                             tries |-> tries, token |-> token, code |-> NoCode]]

\* Codes the activation of r claimed in its pool inside the replay window.
Replayable(r) ==
    {c \in Rows(Target[r]) : /\ Activation[r] # NoActivation
                             /\ code[c].token = Activation[r]
                             /\ ~code[c].past}

\* Ask for a replay: answer with the code found, else take the step Missed.
Replay(r, Missed) ==
    \/ \E c \in Replayable(r) : Answer(r, c)
    \/ Replayable(r) = {} /\ Missed

Arrive(r) ==
    /\ request[r].pc = "arriving"
    /\ Replay(r, Goto(r, "claim"))
    /\ UNCHANGED <<code, pool, import, recount, drawnBy>>

\* Deviation: neither SKIP LOCKED nor the second is_used = false.
ClaimableAnyway(r) == Unused(Target[r])

\* SELECT ... FOR UPDATE SKIP LOCKED of the claim.
Claimable(r) == {c \in Unused(Target[r]) : ~Locked(c)}

ClaimRow(r) ==
    /\ request[r].pc = "claim"
    /\ \E c \in Claimable(r) : With(r, "claiming", c)
    /\ UNCHANGED <<code, pool, import, recount, drawnBy>>

ClaimNothing(r) ==
    /\ request[r].pc = "claim"
    /\ Claimable(r) = {}
    /\ Goto(r, "probe")
    /\ UNCHANGED <<code, pool, import, recount, drawnBy>>

\* The unique index on claim_token rejects a token some committed row carries.
Taken(token) == token # NoActivation /\ \E c \in Codes : code[c].token = token

Spend(r) ==
    LET c == request[r].code
    IN /\ code' = [code EXCEPT ![c] = [status |-> "used", past |-> FALSE,
                                       token |-> request[r].token]]
       /\ drawnBy' = [drawnBy EXCEPT ![c] = r]

ClaimCommits(r) ==
    /\ request[r].pc = "claiming"
    /\ ~Taken(request[r].token)
    /\ Spend(r)
    /\ Goto(r, "answered")
    /\ UNCHANGED <<pool, import, recount>>

\* The claim commits and the connection breaks before its result arrives.
ClaimAnswerLost(r) ==
    /\ request[r].pc = "claiming"
    /\ ~Taken(request[r].token)
    /\ Spend(r)
    /\ Retry(r, request[r].token)
    /\ UNCHANGED <<pool, import, recount>>

ClaimConflicts(r) ==
    /\ request[r].pc = "claiming"
    /\ Taken(request[r].token)
    /\ With(r, "conflict", NoCode)
    /\ UNCHANGED <<code, pool, import, recount, drawnBy>>

\* Deviation: a rejected token is dropped without asking for the winner's code.
DropToken(r) ==
    /\ request[r].pc = "conflict"
    /\ Retry(r, NoActivation)
    /\ UNCHANGED <<code, pool, import, recount, drawnBy>>

\* 23505: the winner's code, or else a claim that is no longer idempotent.
ReplayConflict(r) ==
    /\ request[r].pc = "conflict"
    /\ Replay(r, Retry(r, NoActivation))
    /\ UNCHANGED <<code, pool, import, recount, drawnBy>>

\* Deviation: that every code was locked is taken for an empty pool.
ProbeNothing(r) ==
    /\ request[r].pc = "probe"
    /\ Goto(r, "mark")
    /\ UNCHANGED <<code, pool, import, recount, drawnBy>>

Probe(r) ==
    /\ request[r].pc = "probe"
    /\ IF Drained(Target[r]) THEN Goto(r, "mark") ELSE Retry(r, request[r].token)
    /\ UNCHANGED <<code, pool, import, recount, drawnBy>>

\* MARK_POOL_EXHAUSTED begins: its snapshot finds the pool drained and not
\* stamped, or the statement changes no row.
MarkBegins(r) ==
    LET p == Target[r]
    IN /\ request[r].pc = "mark"
       /\ Goto(r, IF Drained(p) /\ ~pool[p].exhausted THEN "marking" ELSE "last")
       /\ UNCHANGED <<code, pool, import, recount, drawnBy>>

\* It gets the row lock: exhausted_at IS NULL is tested again, which at most keeps
\* an earlier stamp; NOT EXISTS is not.
MarkEnds(r) ==
    LET p == Target[r]
    IN /\ request[r].pc = "marking"
       /\ PoolFree(p)
       /\ pool' = [pool EXCEPT ![p].exhausted = TRUE]
       /\ Goto(r, "last")
       /\ UNCHANGED <<code, import, recount, drawnBy>>

\* Deviation: the drained edge does not ask for a replay.
EmptyAtOnce(r) ==
    /\ request[r].pc = "last"
    /\ Goto(r, "empty")
    /\ UNCHANGED <<code, pool, import, recount, drawnBy>>

ReplayLast(r) ==
    /\ request[r].pc = "last"
    /\ Replay(r, Goto(r, "empty"))
    /\ UNCHANGED <<code, pool, import, recount, drawnBy>>

\* A statement inside the try block fails without effect.
StatementFails(r) ==
    /\ request[r].pc \in {"claim", "claiming", "probe", "mark", "marking", "last"}
    /\ Retry(r, request[r].token)
    /\ UNCHANGED <<code, pool, import, recount, drawnBy>>

Over == {"answered", "empty", "busy", "error"}

\* A statement outside the try block fails, or the process dies.
RequestFails(r) ==
    /\ request[r].pc \notin Over
    /\ With(r, "error", NoCode)
    /\ UNCHANGED <<code, pool, import, recount, drawnBy>>

Redeem(r) ==
    \/ Arrive(r) \/ ClaimRow(r) \/ ClaimNothing(r)
    \/ ClaimCommits(r) \/ ClaimConflicts(r) \/ ReplayConflict(r)
    \/ Probe(r) \/ MarkBegins(r) \/ MarkEnds(r) \/ ReplayLast(r)

(***************************************************************************)
(* importCodes: one transaction under the pool's row lock.                 *)
(***************************************************************************)
ImportBegins(p) ==
    /\ PoolFree(p)
    /\ \E S \in SUBSET {c \in Codes : PoolOf[c] = p} :
          /\ S # {}
          /\ import' = [import EXCEPT ![p] = S]
    /\ UNCHANGED <<code, pool, request, recount, drawnBy>>

\* Codes the pool already holds are skipped; only an import that adds something
\* bumps the counter and clears the stamp.
ImportCommits(p) ==
    LET new == import[p] \ Rows(p)
    IN /\ import[p] # {}
       /\ code' = [c \in Codes |-> IF c \in new
                                   THEN [code[c] EXCEPT !.status = "unused"]
                                   ELSE code[c]]
       /\ pool' = IF new = {} THEN pool
                  ELSE [pool EXCEPT ![p] = [exhausted |-> FALSE, used |-> pool[p].used,
                                             total |-> pool[p].total + Cardinality(new)]]
       /\ import' = [import EXCEPT ![p] = {}]
       /\ UNCHANGED <<request, recount, drawnBy>>

ImportAborts(p) ==
    /\ import[p] # {}
    /\ import' = [import EXCEPT ![p] = {}]
    /\ UNCHANGED <<code, pool, request, recount, drawnBy>>

(***************************************************************************)
(* The nightly recount and the release of old claim tokens.                *)
(***************************************************************************)
\* SELECT ... FOR UPDATE of every pool.
RecountLocks ==
    /\ recount.pc = "idle"
    /\ \A p \in Pools : PoolFree(p)
    /\ recount' = [pc |-> "locked", seen |-> pool]
    /\ UNCHANGED <<code, pool, request, import, drawnBy>>

Counts(p) == [exhausted |-> recount.seen[p].exhausted,
              total |-> Cardinality(Rows(p)),
              used |-> Cardinality(Rows(p) \ Unused(p))]

RecountCounts ==
    /\ recount.pc = "locked"
    /\ recount' = [pc |-> "counted", seen |-> [p \in Pools |-> Counts(p)]]
    /\ UNCHANGED <<code, pool, request, import, drawnBy>>

\* Deviation: the recount sets the stamp and never clears it.
RecountedSticky(seen) ==
    [seen EXCEPT !.exhausted = @ \/ (seen.total # 0 /\ seen.used >= seen.total)]

\* A pool without codes keeps its stamp; a drained one gets or keeps it.
Recounted(seen) ==
    [seen EXCEPT !.exhausted = IF seen.total = 0 THEN seen.exhausted
                               ELSE seen.used >= seen.total]

RecountCommits ==
    /\ recount.pc = "counted"
    /\ pool' = [p \in Pools |-> Recounted(recount.seen[p])]
    /\ recount' = [Idle EXCEPT !.pc = "release"]
    /\ UNCHANGED <<code, request, import, drawnBy>>

\* A lock or statement timeout: the night's token release is skipped too.
RecountFails ==
    /\ recount.pc # "idle"
    /\ recount' = Idle
    /\ UNCHANGED <<code, pool, request, import, drawnBy>>

\* A claim is a day old and can no longer be replayed.
WindowPasses(c) ==
    /\ code[c].status = "used" /\ ~code[c].past
    /\ code' = [code EXCEPT ![c].past = TRUE]
    /\ UNCHANGED <<pool, request, import, recount, drawnBy>>

ReleaseExpiredClaimTokens ==
    /\ recount.pc = "release"
    /\ code' = [c \in Codes |-> IF code[c].past
                                THEN [code[c] EXCEPT !.token = NoActivation]
                                ELSE code[c]]
    /\ recount' = Idle
    /\ UNCHANGED <<pool, request, import, drawnBy>>

Nightly == RecountLocks \/ RecountCounts \/ RecountCommits \/ ReleaseExpiredClaimTokens

Next ==
    \/ \E r \in Requests : Redeem(r) \/ ClaimAnswerLost(r)
                           \/ StatementFails(r) \/ RequestFails(r)
    \/ \E p \in Pools : ImportBegins(p) \/ ImportCommits(p) \/ ImportAborts(p)
    \/ Nightly \/ RecountFails
    \/ \E c \in Codes : WindowPasses(c)

Spec == Init /\ [][Next]_vars

\* Requests and imports run to their end; the nightly job runs again and again
\* and is not for ever in someone's way.
Fairness ==
    /\ \A r \in Requests : WF_vars(Redeem(r))
    /\ \A p \in Pools : WF_vars(ImportCommits(p) \/ ImportAborts(p))
    /\ SF_vars(RecountLocks) /\ SF_vars(RecountCounts) /\ SF_vars(RecountCommits)
    /\ WF_vars(ReleaseExpiredClaimTokens)

FairSpec == Spec /\ Fairness

(***************************************************************************)
(* Properties.                                                             *)
(***************************************************************************)
\* A code is shown to two visitors only if both are the same activation.
NeverIssuedTwice ==
    \A q, r \in Requests :
        /\ q # r
        /\ request[q].pc = "answered" /\ request[r].pc = "answered"
        /\ request[q].code = request[r].code
        => Activation[q] = Activation[r] /\ Activation[q] # NoActivation

DrawnFor(a) == {c \in Codes : /\ drawnBy[c] # NoRequest
                              /\ Activation[drawnBy[c]] = a}

\* However often an activation's requests are repeated, race, fail or lose their
\* answers, it spends one code while its claims can be replayed in their pool.
OneCodePerActivation ==
    \A a \in Tokens \ {NoActivation} :
        LET drawn == DrawnFor(a)
        IN /\ \A c \in drawn : ~code[c].past
           /\ \A c, d \in drawn : PoolOf[c] = PoolOf[d]
           => \A c, d \in drawn : c = d

\* The counters neither lag behind a restock nor count a code twice, whatever
\* import and recount do to each other.
CountersMatch ==
    \A p \in Pools : /\ pool[p].total = Cardinality(Rows(p))
                     /\ pool[p].used <= Cardinality(Rows(p) \ Unused(p))

\* A visitor is never told the pool is empty after the activation of the visit
\* drew a code there that can still be replayed, even if every answer to the
\* twins that drew it was lost: the loser of a race for the last code gets it.
TwinsAreNotToldEmpty ==
    [][\A r \in Requests :
          LET drawn == DrawnFor(Activation[r])
          IN /\ request[r].pc # "empty" /\ request'[r].pc = "empty"
             /\ Activation[r] # NoActivation
             /\ \A c \in drawn : ~code[c].past /\ PoolOf[c] = Target[r]
             => drawn = {}]_vars

\* What the comment on MARK_POOL_EXHAUSTED_SQL promises: a pool is stamped only
\* if it is still drained at the moment of the write.
StampOnlyIfDrained ==
    [][\A p \in Pools : ~pool[p].exhausted /\ pool'[p].exhausted => Drained(p)]_vars

\* What visitors see of the pools.
Shelf == {c \in Codes : code[c].status = "unused"}
Late == {c \in Codes : code[c].past}
Shown == [r \in Requests |-> IF request[r].pc = "answered" THEN request[r].code ELSE NoCode]
Dry == {r \in Requests : request[r].pc \in {"mark", "marking", "last"}}
Refused == {r \in Requests : request[r].pc = "empty"}
SoldOut == {p \in Pools : pool[p].exhausted}

Dispenser == INSTANCE CodeDispenser
             WITH shelf <- Shelf, issuedTo <- drawnBy, expired <- Late, shown <- Shown,
                  dry <- Dry, refused <- Refused, soldOut <- SoldOut

\* The statements of redeemCode, importCodes and the nightly jobs, in whatever
\* order they come and wherever they fail, issue codes as if each request were
\* served at once by somebody who sees everything.
ImplementsDispenser == Dispenser!Spec
=============================================================================
