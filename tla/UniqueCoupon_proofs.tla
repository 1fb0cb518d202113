------------------------- MODULE UniqueCoupon_proofs -------------------------
(***************************************************************************)
(* Proofs about UniqueCoupon, for any number of pools, codes and requests.  *)
(***************************************************************************)
EXTENDS UniqueCoupon, FiniteSetTheorems, TLAPS

\* A claim token on a code names the activation of the request that spent it.
TokensNameTheDrawer ==
    \A c \in Codes : code[c].token # NoActivation
        => drawnBy[c] \in Requests /\ Activation[drawnBy[c]] = code[c].token

\* Only spent codes carry a token.
TokensAreSpent ==
    \A c \in Codes : code[c].token # NoActivation => code[c].status = "used"

\* An import brings codes of the pool whose row it locked.
ImportsOwnPool == \A p \in Pools : \A c \in import[p] : PoolOf[c] = p

\* A request claims under its own activation or under none.
RequestTokens ==
    \A r \in Requests : request[r].token \in {Activation[r], NoActivation}

\* A code in the hands of an uncommitted claim is unspent and nobody else's.
ClaimsAreExclusive ==
    \A r \in Requests : request[r].pc = "claiming" =>
        /\ request[r].code \in Codes
        /\ code[request[r].code].status = "unused"
        /\ \A q \in Requests : /\ request[q].pc = "claiming"
                               /\ request[q].code = request[r].code
                               => q = r

\* An answered code was spent by this request, or by a twin of its activation.
DrawnForIt(r) ==
    LET c == request[r].code
    IN /\ c \in Codes
       /\ code[c].status = "used"
       /\ \/ drawnBy[c] = r
          \/ /\ drawnBy[c] \in Requests
             /\ Activation[r] # NoActivation
             /\ Activation[drawnBy[c]] = Activation[r]

AnswersAreDrawn == \A r \in Requests : request[r].pc = "answered" => DrawnForIt(r)

\* An attempt is under way only while attempts are left.
TriesBounded ==
    \A r \in Requests :
        request[r].pc \in {"arriving", "claim", "claiming", "probe", "mark", "marking",
                           "last", "conflict"}
            => request[r].tries < MaxRetries

IInv == /\ TypeOK /\ TriesBounded /\ ImportsOwnPool
        /\ TokensNameTheDrawer /\ TokensAreSpent
        /\ RequestTokens
        /\ ClaimsAreExclusive
        /\ AnswersAreDrawn

------------------------------------------------------------------------------
(***************************************************************************)
(* Types.                                                                  *)
(***************************************************************************)
LEMMA CountType ==
  ASSUME NEW S, S \subseteq Codes
  PROVE  Cardinality(S) \in Nat
  BY CodeAssumption, FS_Subset, FS_CardinalityType

LEMMA TokenType == NoActivation \in Tokens /\ \A r \in Requests : Activation[r] \in Tokens
  BY DEF Tokens

LEMMA IdleType == Idle \in Recount
  BY DEF Idle, Recount, Pool

LEMMA TypeInit == Init => TypeOK
<1> SUFFICES ASSUME Init PROVE TypeOK
  OBVIOUS
<1>1. code \in [Codes -> Code]
  BY TokenType DEF Init, Code
<1>2. pool \in [Pools -> Pool]
  <2>1. \A p \in Pools : Cardinality({c \in Stocked : PoolOf[c] = p}) \in Nat
    BY CountType, CodeAssumption
  <2> QED
    BY <2>1 DEF Init, Pool
<1>3. request \in [Requests -> Request]
  BY TokenType, RetryAssumption DEF Init, Request
<1>4. import \in [Pools -> SUBSET Codes] /\ drawnBy \in [Codes -> Requests \cup {NoRequest}]
  BY DEF Init
<1> QED
  BY <1>1, <1>2, <1>3, <1>4, IdleType DEF Init, TypeOK

\* The ways a request moves on.
LEMMA GotoType ==
  ASSUME TypeOK, TriesBounded, NEW r \in Requests,
         NEW pc \in {"claim", "probe", "mark", "marking", "last", "empty", "answered"},
         request[r].pc \notin Over, Goto(r, pc)
  PROVE  request' \in [Requests -> Request] /\ TriesBounded'
  BY DEF Goto, TypeOK, Request, TriesBounded, Over

LEMMA WithType ==
  ASSUME TypeOK, TriesBounded, NEW r \in Requests, NEW c \in Codes \cup {NoCode},
         NEW pc \in {"claiming", "conflict", "answered", "error"},
         request[r].pc \notin Over, With(r, pc, c)
  PROVE  request' \in [Requests -> Request] /\ TriesBounded'
  BY DEF With, TypeOK, Request, TriesBounded, Over

LEMMA RetryType ==
  ASSUME TypeOK, TriesBounded, NEW r \in Requests, NEW token \in Tokens,
         request[r].pc \notin Over, Retry(r, token)
  PROVE  request' \in [Requests -> Request] /\ TriesBounded'
<1>1. request[r].tries + 1 \in 0..MaxRetries
  BY RetryAssumption DEF TypeOK, Request, TriesBounded, Over
<1> QED
  BY <1>1, RetryAssumption DEF Retry, TypeOK, Request, TriesBounded

\* A request's own step, one that spends no code and moves to another state.
QuietStep(r) ==
    \/ Arrive(r) \/ ClaimRow(r) \/ ClaimNothing(r) \/ ClaimConflicts(r) \/ ReplayConflict(r)
    \/ Probe(r) \/ MarkBegins(r) \/ MarkEnds(r) \/ ReplayLast(r)
    \/ StatementFails(r) \/ RequestFails(r)

SpendingStep(r) == ClaimCommits(r) \/ ClaimAnswerLost(r)

\* What a quiet step does to the request: it is replayed a code, takes a free one
\* in hand, or holds none.
LEMMA QuietMoves ==
  ASSUME TypeOK, TriesBounded, RequestTokens, NEW r \in Requests, QuietStep(r)
  PROVE  /\ request' \in [Requests -> Request] /\ TriesBounded'
         /\ \A q \in Requests \ {r} : request'[q] = request[q]
         /\ request'[r].token \in {request[r].token, NoActivation}
         /\ request'[r].pc = "claiming" => request'[r].code \in Claimable(r)
         /\ request'[r].pc = "answered" => request'[r].code \in Replayable(r)
<1> DEFINE Moved == /\ request' \in [Requests -> Request] /\ TriesBounded'
                    /\ \A q \in Requests \ {r} : request'[q] = request[q]
                    /\ request'[r].token \in {request[r].token, NoActivation}
                    /\ request'[r].pc = "claiming" => request'[r].code \in Claimable(r)
                    /\ request'[r].pc = "answered" => request'[r].code \in Replayable(r)
<1>1. request[r].token \in Tokens /\ NoActivation \in Tokens
  BY TokenType DEF TypeOK, Request
<1>2. ASSUME request[r].pc \notin Over, NEW pc \in {"claim", "probe", "mark", "marking", "last", "empty"}, Goto(r, pc)
      PROVE  Moved
  <2>1. request' \in [Requests -> Request] /\ TriesBounded'
    BY <1>2, GotoType
  <2> QED
    BY <1>2, <2>1 DEF Goto, TypeOK, Request
<1>3. ASSUME request[r].pc \notin Over, NEW token \in {request[r].token, NoActivation},
             Retry(r, token)
      PROVE  Moved
  <2>1. request' \in [Requests -> Request] /\ TriesBounded'
    BY <1>1, <1>3, RetryType
  <2> QED
    BY <1>3, <2>1 DEF Retry, TypeOK, Request
<1>4. ASSUME request[r].pc \notin Over, NEW c \in Codes \cup {NoCode},
             NEW pc \in {"claiming", "conflict", "answered", "error"}, With(r, pc, c),
             pc = "claiming" => c \in Claimable(r), pc = "answered" => c \in Replayable(r)
      PROVE  Moved
  <2>1. request' \in [Requests -> Request] /\ TriesBounded'
    BY <1>4, WithType
  <2> QED
    BY <1>4, <2>1 DEF With, TypeOK, Request
<1>5. Replayable(r) \subseteq Codes /\ Claimable(r) \subseteq Codes
  BY DEF Replayable, Claimable, Unused, Rows
<1>6. ASSUME request[r].pc \notin Over, NEW c \in Replayable(r), Answer(r, c)
      PROVE  Moved
  BY <1>4, <1>5, <1>6 DEF Answer
<1> SUFFICES Moved
  OBVIOUS
<1> HIDE DEF Moved
<1>7. CASE Arrive(r)
  BY <1>2, <1>6, <1>7 DEF Arrive, Replay, Over
<1>8. CASE ClaimRow(r)
  BY <1>4, <1>5, <1>8 DEF ClaimRow, Over
<1>9. CASE ClaimNothing(r)
  BY <1>2, <1>9 DEF ClaimNothing, Over
<1>10. CASE ClaimConflicts(r)
  BY <1>4, <1>10 DEF ClaimConflicts, Over
<1>11. CASE ReplayConflict(r)
  BY <1>3, <1>6, <1>11 DEF ReplayConflict, Replay, Over
<1>12. CASE Probe(r)
  BY <1>2, <1>3, <1>12 DEF Probe, Over
<1>13. CASE MarkBegins(r)
  BY <1>2, <1>13 DEF MarkBegins, Over
<1>14. CASE MarkEnds(r)
  BY <1>2, <1>14 DEF MarkEnds, Over
<1>15. CASE ReplayLast(r)
  BY <1>2, <1>6, <1>15 DEF ReplayLast, Replay, Over
<1>16. CASE StatementFails(r)
  BY <1>3, <1>16 DEF StatementFails, Over
<1>17. CASE RequestFails(r)
  BY <1>4, <1>17 DEF RequestFails, Over
<1> QED
  BY <1>7, <1>8, <1>9, <1>10, <1>11, <1>12, <1>13, <1>14, <1>15, <1>16, <1>17 DEF QuietStep
------------------------------------------------------------------------------
(***************************************************************************)
(* No code is issued twice.                                                *)
(***************************************************************************)
LEMMA InvInit == Init => IInv
<1> SUFFICES ASSUME Init PROVE IInv
  OBVIOUS
<1>1. TypeOK
  BY TypeInit
<1>2. TriesBounded
  BY RetryAssumption DEF Init, TriesBounded
<1>3. /\ TokensNameTheDrawer /\ TokensAreSpent /\ RequestTokens
      /\ ClaimsAreExclusive /\ AnswersAreDrawn /\ ImportsOwnPool
  BY DEF Init, ImportsOwnPool, TokensNameTheDrawer, TokensAreSpent, RequestTokens, ClaimsAreExclusive, AnswersAreDrawn
<1> QED
  BY <1>1, <1>2, <1>3 DEF IInv

\* A replayed code was drawn by the request's own activation, and a code taken
\* in hand is in nobody else's.
LEMMA QuietInv ==
  ASSUME IInv, NEW r \in Requests, QuietStep(r)
  PROVE  IInv'
<1>1. /\ request' \in [Requests -> Request] /\ TriesBounded'
      /\ \A q \in Requests \ {r} : request'[q] = request[q]
      /\ request'[r].token \in {request[r].token, NoActivation}
      /\ request'[r].pc = "claiming" => request'[r].code \in Claimable(r)
      /\ request'[r].pc = "answered" => request'[r].code \in Replayable(r)
  BY QuietMoves DEF IInv
<1>2. UNCHANGED <<code, import, recount, drawnBy>> /\ pool' \in [Pools -> Pool]
  BY DEF QuietStep, Arrive, ClaimRow, ClaimNothing, ClaimConflicts, ReplayConflict, Probe,
         MarkBegins, MarkEnds, ReplayLast, StatementFails, RequestFails, IInv, TypeOK, Pool
<1>3. TypeOK'
  BY <1>1, <1>2 DEF IInv, TypeOK
<1>4. TokensNameTheDrawer' /\ RequestTokens'
  BY <1>1, <1>2 DEF IInv, TokensNameTheDrawer, RequestTokens
<1>5. ClaimsAreExclusive'
  <2>1. request'[r].pc = "claiming" =>
          /\ request'[r].code \in Codes
          /\ code[request'[r].code].status = "unused"
          /\ \A q \in Requests \ {r} : request[q].pc = "claiming"
               => request[q].code # request'[r].code
    BY <1>1 DEF Claimable, Unused, Rows, Locked
  <2> QED
    BY <1>1, <1>2, <2>1 DEF IInv, ClaimsAreExclusive
<1>6. AnswersAreDrawn'
  <2> SUFFICES ASSUME NEW q \in Requests, request'[q].pc = "answered"
               PROVE  DrawnForIt(q)'
    BY DEF AnswersAreDrawn
  <2>1. CASE q # r
    BY <1>1, <1>2, <2>1 DEF IInv, AnswersAreDrawn, DrawnForIt
  <2>2. CASE q = r
    <3> DEFINE c == request'[r].code
    <3>1. /\ c \in Codes /\ code[c].status # "absent"
          /\ Activation[r] # NoActivation /\ code[c].token = Activation[r]
      BY <1>1, <2>2 DEF Replayable, Rows
    <3>2. drawnBy[c] \in Requests /\ Activation[drawnBy[c]] = Activation[r]
      BY <3>1 DEF IInv, TokensNameTheDrawer
    <3>3. code[c].status = "used"
      BY <3>1 DEF IInv, TokensAreSpent
    <3> QED
      BY <1>2, <2>2, <3>1, <3>2, <3>3 DEF DrawnForIt
  <2> QED
    BY <2>1, <2>2
<1> QED
  BY <1>1, <1>2, <1>3, <1>4, <1>5, <1>6 DEF IInv, TokensAreSpent, ImportsOwnPool

\* The spent code was unspent and in this request's hands only.
LEMMA SpendingInv ==
  ASSUME IInv, NEW r \in Requests, SpendingStep(r)
  PROVE  IInv'
<1> DEFINE c == request[r].code
           s == [status |-> "used", past |-> FALSE, token |-> request[r].token]
<1>1. /\ request[r].pc = "claiming"
      /\ code' = [code EXCEPT ![c] = s] /\ drawnBy' = [drawnBy EXCEPT ![c] = r]
      /\ UNCHANGED <<pool, import, recount>>
      /\ Goto(r, "answered") \/ Retry(r, request[r].token)
  BY DEF SpendingStep, ClaimCommits, ClaimAnswerLost, Spend
<1>2. c \in Codes /\ code[c].status = "unused"
  BY <1>1 DEF IInv, ClaimsAreExclusive
<1>3. request[r].token \in Tokens /\ request[r].token \in {Activation[r], NoActivation}
  BY DEF IInv, TypeOK, Request, RequestTokens
<1>4. s \in Code /\ s.status = "used" /\ s.token = request[r].token
  BY <1>3 DEF Code
<1>5. /\ code' \in [Codes -> Code] /\ code'[c] = s
      /\ \A d \in Codes \ {c} : code'[d] = code[d]
  BY <1>1, <1>2, <1>4 DEF IInv, TypeOK
<1>6. /\ drawnBy' \in [Codes -> Requests \cup {NoRequest}] /\ drawnBy'[c] = r
      /\ \A d \in Codes \ {c} : drawnBy'[d] = drawnBy[d]
  BY <1>1, <1>2 DEF IInv, TypeOK
<1>7. request' \in [Requests -> Request] /\ TriesBounded'
  BY <1>1, <1>3, GotoType, RetryType DEF IInv, Over
<1>8. /\ \A q \in Requests \ {r} : request'[q] = request[q]
      /\ request'[r].token = request[r].token
      /\ request'[r].pc # "claiming"
      /\ request'[r].pc = "answered" => request'[r].code = c
  BY <1>1 DEF Goto, Retry, IInv, TypeOK, Request
<1> HIDE DEF c, s
<1>9. TypeOK'
  BY <1>1, <1>5, <1>6, <1>7 DEF IInv, TypeOK
<1>10. TokensNameTheDrawer' /\ TokensAreSpent' /\ RequestTokens'
  <2>1. TokensNameTheDrawer'
    BY <1>3, <1>4, <1>5, <1>6 DEF IInv, TokensNameTheDrawer
  <2>2. TokensAreSpent'
    BY <1>4, <1>5 DEF IInv, TokensAreSpent
  <2>3. RequestTokens'
    BY <1>8 DEF IInv, RequestTokens
  <2> QED
    BY <2>1, <2>2, <2>3
<1>11. ClaimsAreExclusive'
  <2>1. \A q \in Requests \ {r} : request[q].pc = "claiming" => request[q].code # c
    BY <1>1 DEF IInv, ClaimsAreExclusive, c
  <2> QED
    BY <1>5, <1>8, <2>1 DEF IInv, ClaimsAreExclusive
<1>12. AnswersAreDrawn'
  <2> SUFFICES ASSUME NEW q \in Requests, request'[q].pc = "answered"
               PROVE  DrawnForIt(q)'
    BY DEF AnswersAreDrawn
  <2>1. CASE q # r
    <3>1. request[q].pc = "answered" /\ request[q].code \in Codes
          /\ code[request[q].code].status = "used"
      BY <1>8, <2>1 DEF IInv, AnswersAreDrawn, DrawnForIt
    <3>2. request[q].code # c
      BY <1>2, <3>1
    <3> QED
      BY <1>5, <1>6, <1>8, <2>1, <3>1, <3>2 DEF IInv, AnswersAreDrawn, DrawnForIt
  <2>2. CASE q = r
    BY <1>2, <1>4, <1>5, <1>6, <1>8, <2>2 DEF DrawnForIt
  <2> QED
    BY <2>1, <2>2
<1> QED
  BY <1>1, <1>7, <1>9, <1>10, <1>11, <1>12 DEF IInv, ImportsOwnPool

\* Steps that neither move a request nor spend a code: a code may be added or
\* lose its token.
LEMMA StockInv ==
  ASSUME IInv, TypeOK', ImportsOwnPool', UNCHANGED <<request, drawnBy>>,
         \A c \in Codes : /\ code'[c].token \in {code[c].token, NoActivation}
                          /\ code[c].status # "absent" => code'[c].status = code[c].status
  PROVE  IInv'
<1>1. \A c \in Codes : code[c].status \in {"unused", "used"}
                         => code'[c].status = code[c].status
  OBVIOUS
<1>2. TriesBounded' /\ RequestTokens' /\ TokensNameTheDrawer'
  BY DEF IInv, TriesBounded, RequestTokens, TokensNameTheDrawer
<1>3. TokensAreSpent'
  BY <1>1 DEF IInv, TokensAreSpent
<1>4. ClaimsAreExclusive'
  BY <1>1 DEF IInv, ClaimsAreExclusive
<1>5. AnswersAreDrawn'
  BY <1>1 DEF IInv, AnswersAreDrawn, DrawnForIt
<1> QED
  BY <1>2, <1>3, <1>4, <1>5 DEF IInv

LEMMA InvStep ==
  ASSUME IInv, [Next]_vars
  PROVE  IInv'
<1>0. TypeOK
  BY DEF IInv
<1>1. ASSUME NEW r \in Requests,
             Redeem(r) \/ ClaimAnswerLost(r) \/ StatementFails(r) \/ RequestFails(r)
      PROVE  IInv'
  BY <1>1, QuietInv, SpendingInv DEF Redeem, QuietStep, SpendingStep
<1>2. ASSUME NEW p \in Pools, ImportBegins(p) \/ ImportAborts(p)
      PROVE  IInv'
  <2>1. TypeOK'
    BY <1>0, <1>2 DEF ImportBegins, ImportAborts, TypeOK
  <2>2. ImportsOwnPool'
    BY <1>0, <1>2 DEF ImportBegins, ImportAborts, IInv, ImportsOwnPool, TypeOK
  <2> QED
    BY <1>2, <2>1, <2>2, StockInv DEF ImportBegins, ImportAborts
<1>3. ASSUME NEW p \in Pools, ImportCommits(p)
      PROVE  IInv'
  <2> DEFINE new == import[p] \ Rows(p)
  <2>1. \A c \in new : c \in Codes /\ code[c] \in Code
    BY <1>0 DEF TypeOK
  <2>2. code' = [c \in Codes |-> IF c \in new THEN [code[c] EXCEPT !.status = "unused"]
                                              ELSE code[c]]
    BY <1>3 DEF ImportCommits
  <2>3. /\ code' \in [Codes -> Code]
        /\ \A c \in Codes : code'[c].token = code[c].token
        /\ \A c \in Codes \ new : code'[c] = code[c]
        /\ \A c \in Codes : code[c].status # "unused" /\ c \notin new => code'[c] = code[c]
    BY <1>0, <2>1, <2>2 DEF TypeOK, Code
  <2>4. Cardinality(new) \in Nat
    BY <1>0, CountType DEF TypeOK
  <2>5. pool' \in [Pools -> Pool] /\ import' \in [Pools -> SUBSET Codes]
    <3>1. pool' = IF new = {} THEN pool
                  ELSE [pool EXCEPT ![p] = [exhausted |-> FALSE, used |-> pool[p].used,
                                       total |-> pool[p].total + Cardinality(new)]]
      BY <1>3 DEF ImportCommits
    <3> HIDE DEF new
    <3> QED
      BY <1>0, <1>3, <2>4, <3>1 DEF ImportCommits, TypeOK, Pool
  <2>6. TypeOK'
    BY <1>0, <1>3, <2>3, <2>5 DEF ImportCommits, TypeOK
  <2>7. \A c \in Codes : code[c].status # "absent" => code'[c].status = code[c].status
    <3>1. \A c \in new : code[c].status = "absent"
      BY <1>0 DEF Rows, TypeOK, IInv, ImportsOwnPool
    <3> QED
      BY <2>3, <3>1
  <2>8. ImportsOwnPool'
    BY <1>0, <1>3 DEF ImportCommits, IInv, ImportsOwnPool, TypeOK
  <2> QED
    BY <1>3, <2>3, <2>6, <2>7, <2>8, StockInv DEF ImportCommits
<1>4. CASE RecountLocks
  <2>1. TypeOK'
    BY <1>0, <1>4 DEF RecountLocks, TypeOK, Recount
  <2> QED
    BY <1>4, <2>1, StockInv DEF RecountLocks, IInv, ImportsOwnPool
<1>5. CASE RecountCounts
  <2>1. ASSUME NEW p \in Pools PROVE Counts(p) \in Pool
    <3>1. Cardinality(Rows(p)) \in Nat /\ Cardinality(Rows(p) \ Unused(p)) \in Nat
      BY CountType DEF Rows
    <3> QED
      BY <1>0, <3>1 DEF Counts, TypeOK, Recount, Pool
  <2>2. TypeOK'
    BY <1>0, <1>5, <2>1 DEF RecountCounts, TypeOK, Recount
  <2> QED
    BY <1>5, <2>2, StockInv DEF RecountCounts, IInv, ImportsOwnPool
<1>6. CASE RecountCommits
  <2>1. ASSUME NEW s \in Pool PROVE Recounted(s) \in Pool
    <3> DEFINE b == IF s.total = 0 THEN s.exhausted ELSE s.used >= s.total
    <3>1. b \in BOOLEAN
      <4>1. CASE s.total = 0
        <5>1. s.exhausted \in BOOLEAN
          BY DEF Pool
        <5> QED
          BY <4>1, <5>1, Zenon
      <4>2. CASE s.total # 0 /\ s.used >= s.total
        BY <4>2
      <4>3. CASE s.total # 0 /\ ~(s.used >= s.total)
        BY <4>3
      <4> QED
        BY <4>1, <4>2, <4>3
    <3>2. Recounted(s) = [s EXCEPT !.exhausted = b]
      BY DEF Recounted
    <3> HIDE DEF b
    <3> QED
      BY <3>1, <3>2 DEF Pool
  <2>2. pool' \in [Pools -> Pool]
    BY <1>0, <1>6, <2>1 DEF RecountCommits, TypeOK, Recount
  <2>3. recount' \in Recount
    BY <1>6, IdleType DEF RecountCommits, Recount
  <2>4. TypeOK'
    BY <1>0, <1>6, <2>2, <2>3 DEF RecountCommits, TypeOK
  <2> QED
    BY <1>6, <2>4, StockInv DEF RecountCommits, IInv, ImportsOwnPool
<1>7. CASE RecountFails
  <2>1. TypeOK'
    BY <1>0, <1>7, IdleType DEF RecountFails, TypeOK
  <2> QED
    BY <1>7, <2>1, StockInv DEF RecountFails, IInv, ImportsOwnPool
<1>8. ASSUME NEW c \in Codes, WindowPasses(c)
      PROVE  IInv'
  <2>1. code' \in [Codes -> Code]
    BY <1>0, <1>8 DEF WindowPasses, TypeOK, Code
  <2>2. \A d \in Codes : code'[d].token = code[d].token /\ code'[d].status = code[d].status
    BY <1>0, <1>8 DEF WindowPasses, TypeOK, Code
  <2>3. TypeOK'
    BY <1>0, <1>8, <2>1 DEF WindowPasses, TypeOK
  <2> QED
    BY <1>8, <2>2, <2>3, StockInv DEF WindowPasses, IInv, ImportsOwnPool
<1>9. CASE ReleaseExpiredClaimTokens
  <2>1. code' \in [Codes -> Code]
    BY <1>0, <1>9, TokenType DEF ReleaseExpiredClaimTokens, TypeOK, Code
  <2>2. \A d \in Codes : /\ code'[d].token \in {code[d].token, NoActivation}
                         /\ code'[d].status = code[d].status
    BY <1>0, <1>9 DEF ReleaseExpiredClaimTokens, TypeOK, Code
  <2>3. TypeOK'
    BY <1>0, <1>9, <2>1, IdleType DEF ReleaseExpiredClaimTokens, TypeOK
  <2> QED
    BY <1>9, <2>2, <2>3, StockInv DEF ReleaseExpiredClaimTokens, IInv, ImportsOwnPool
<1>10. CASE UNCHANGED vars
  <2>1. TypeOK'
    BY <1>0, <1>10 DEF vars, TypeOK
  <2> QED
    BY <1>10, <2>1, StockInv DEF vars, IInv, ImportsOwnPool
<1> QED
  BY <1>1, <1>2, <1>3, <1>4, <1>5, <1>6, <1>7, <1>8, <1>9, <1>10 DEF Next, Nightly

LEMMA Invariance == Spec => []IInv
  BY InvInit, InvStep, PTL DEF Spec

\* Pools, codes, requests, imports and the recount keep their types, and no
\* request makes more attempts than the claim loop allows.
THEOREM CouponTypeCorrect == Spec => []TypeOK
  BY Invariance, PTL DEF IInv

\* No two visitors are shown one code, unless they are one activation: the claim
\* statement's SKIP LOCKED and is_used guard, and the replays, for any number of
\* concurrent requests.
THEOREM NoCodeIsIssuedTwice == Spec => []NeverIssuedTwice
<1>1. ASSUME IInv PROVE NeverIssuedTwice
  <2> SUFFICES ASSUME NEW q \in Requests, NEW r \in Requests, q # r,
                      request[q].pc = "answered", request[r].pc = "answered",
                      request[q].code = request[r].code
               PROVE  Activation[q] = Activation[r] /\ Activation[q] # NoActivation
    BY DEF NeverIssuedTwice
  <2>1. DrawnForIt(q) /\ DrawnForIt(r)
    BY <1>1 DEF IInv, AnswersAreDrawn
  <2> QED
    BY <2>1 DEF DrawnForIt
<1> QED
  BY <1>1, Invariance, PTL

------------------------------------------------------------------------------
(***************************************************************************)
(* One activation, one code.                                               *)
(***************************************************************************)
\* All an activation's draws are in one pool and can still be replayed.
Fresh(a) == /\ \A c \in DrawnFor(a) : ~code[c].past
            /\ \A c, d \in DrawnFor(a) : PoolOf[c] = PoolOf[d]

\* The activation of r drew a code that r cannot be replayed.
Unreplayable(r) ==
    \E c \in DrawnFor(Activation[r]) : code[c].past \/ PoolOf[c] # Target[r]

DrawnIsUsed == \A c \in Codes : drawnBy[c] # NoRequest <=> code[c].status = "used"

ClaimsAreInPool ==
    \A r \in Requests : request[r].pc = "claiming" => PoolOf[request[r].code] = Target[r]

ConflictsHaveWinners ==
    \A r \in Requests : request[r].pc = "conflict"
        => Activation[r] # NoActivation /\ DrawnFor(Activation[r]) # {}

DropsAreJustified ==
    \A r \in Requests : request[r].token # Activation[r] => Unreplayable(r)

TokensAreUnique ==
    \A c, d \in Codes : code[c].token # NoActivation /\ code[c].token = code[d].token => c = d

FreshDrawsCarryTheToken ==
    \A a \in Tokens \ {NoActivation} :
        Fresh(a) => \A c \in DrawnFor(a) : code[c].token = a

DrawInv == /\ DrawnIsUsed /\ ClaimsAreInPool /\ ConflictsHaveWinners
           /\ DropsAreJustified /\ TokensAreUnique /\ FreshDrawsCarryTheToken

LEMMA DrawInit == Init => DrawInv
<1> SUFFICES ASSUME Init PROVE DrawInv
  OBVIOUS
<1>1. \A c \in Codes : code[c].token = NoActivation /\ code[c].status # "used"
                       /\ drawnBy[c] = NoRequest
  BY DEF Init
<1>2. \A r \in Requests : request[r].pc = "arriving" /\ request[r].token = Activation[r]
  BY DEF Init
<1>3. \A a : DrawnFor(a) = {}
  BY <1>1 DEF DrawnFor
<1> QED
  BY <1>1, <1>2, <1>3
  DEF DrawInv, DrawnIsUsed, ClaimsAreInPool, ConflictsHaveWinners, DropsAreJustified,
      TokensAreUnique, FreshDrawsCarryTheToken

\* As long as the activation's draws are all replayable by r, one is replayed.
LEMMA ReplayFinds ==
  ASSUME IInv, DrawInv, NEW r \in Requests, Activation[r] # NoActivation,
         Replayable(r) = {}
  PROVE  DrawnFor(Activation[r]) = {} \/ Unreplayable(r)
<1> DEFINE a == Activation[r]
<1> SUFFICES ASSUME NEW c \in DrawnFor(a), ~Unreplayable(r)
             PROVE  FALSE
  OBVIOUS
<1>1. Fresh(a)
  BY DEF Unreplayable, Fresh
<1>2. a \in Tokens \ {NoActivation}
  BY TokenType
<1>3. code[c].token = a /\ ~code[c].past /\ PoolOf[c] = Target[r] /\ c \in Codes
  BY <1>1, <1>2 DEF DrawInv, FreshDrawsCarryTheToken, Fresh, Unreplayable, DrawnFor
<1>4. code[c].status = "used"
  BY <1>3 DEF DrawInv, DrawnIsUsed, DrawnFor
<1>5. c \in Replayable(r)
  BY <1>3, <1>4 DEF Replayable, Rows
<1> QED
  BY <1>5

\* A quiet step keeps the token, unless a conflict finds nothing to replay; and
\* a conflict has a winner.
LEMMA QuietTokens ==
  ASSUME TypeOK, NEW r \in Requests, QuietStep(r)
  PROVE  /\ \/ request'[r].token = request[r].token
            \/ request[r].pc = "conflict" /\ Replayable(r) = {}
         /\ request'[r].pc = "conflict" => Taken(request[r].token)
<1> USE DEF TypeOK, Request
<1>1. CASE ClaimConflicts(r)
  BY <1>1 DEF ClaimConflicts, With
<1>2. CASE ReplayConflict(r)
  <2>1. CASE \E c \in Replayable(r) : Answer(r, c)
    BY <2>1 DEF Answer, With
  <2>2. CASE Replayable(r) = {} /\ Retry(r, NoActivation)
    BY <1>2, <2>2 DEF Retry, ReplayConflict
  <2> QED
    BY <1>2, <2>1, <2>2 DEF ReplayConflict, Replay
<1>3. CASE Arrive(r) \/ ReplayLast(r)
  BY <1>3 DEF Arrive, ReplayLast, Replay, Answer, With, Goto
<1>4. CASE ClaimRow(r) \/ ClaimNothing(r) \/ MarkBegins(r) \/ MarkEnds(r) \/ RequestFails(r)
  BY <1>4 DEF ClaimRow, ClaimNothing, MarkBegins, MarkEnds, RequestFails, With, Goto
<1>5. CASE Probe(r) \/ StatementFails(r)
  BY <1>5 DEF Probe, StatementFails, Goto, Retry
<1> QED
  BY <1>1, <1>2, <1>3, <1>4, <1>5 DEF QuietStep

LEMMA QuietDraw ==
  ASSUME IInv, DrawInv, NEW r \in Requests, QuietStep(r)
  PROVE  DrawInv'
<1>1. /\ \A q \in Requests \ {r} : request'[q] = request[q]
      /\ request'[r].token \in {request[r].token, NoActivation}
      /\ request'[r].pc = "claiming" => request'[r].code \in Claimable(r)
  BY QuietMoves DEF IInv
<1>2. UNCHANGED <<code, drawnBy>>
  BY DEF QuietStep, Arrive, ClaimRow, ClaimNothing, ClaimConflicts, ReplayConflict, Probe,
         MarkBegins, MarkEnds, ReplayLast, StatementFails, RequestFails
<1>3. /\ \A a : DrawnFor(a)' = DrawnFor(a)
      /\ \A q \in Requests : Unreplayable(q)' <=> Unreplayable(q)
      /\ \A a : Fresh(a)' <=> Fresh(a)
  BY <1>2 DEF DrawnFor, Unreplayable, Fresh
<1>4. DrawnIsUsed' /\ TokensAreUnique' /\ FreshDrawsCarryTheToken'
  BY <1>2, <1>3 DEF DrawInv, DrawnIsUsed, TokensAreUnique, FreshDrawsCarryTheToken
<1>5. ClaimsAreInPool'
  BY <1>1 DEF DrawInv, ClaimsAreInPool, Claimable, Unused, Rows
<1>6. ConflictsHaveWinners'
  <2>1. ASSUME Taken(request[r].token)
        PROVE  Activation[r] # NoActivation /\ DrawnFor(Activation[r]) # {}
    <3>1. PICK c \in Codes : code[c].token = request[r].token /\ code[c].token # NoActivation
      BY <2>1 DEF Taken
    <3>2. request[r].token = Activation[r]
      BY <3>1 DEF IInv, RequestTokens
    <3>3. drawnBy[c] \in Requests /\ Activation[drawnBy[c]] = Activation[r]
      BY <3>1, <3>2 DEF IInv, TokensNameTheDrawer
    <3> QED
      BY <3>1, <3>2, <3>3, RequestAssumption DEF DrawnFor
  <2> QED
    BY <1>1, <1>3, <2>1, QuietTokens DEF IInv, DrawInv, ConflictsHaveWinners
<1>7. DropsAreJustified'
  <2>1. ASSUME request'[r].token # Activation[r], request[r].token = Activation[r]
        PROVE  Unreplayable(r)
    <3>1. request[r].pc = "conflict" /\ Replayable(r) = {}
      BY <2>1, QuietTokens DEF IInv
    <3> QED
      BY <3>1, ReplayFinds DEF DrawInv, ConflictsHaveWinners
  <2> QED
    BY <1>1, <1>3, <2>1 DEF DrawInv, DropsAreJustified
<1> QED
  BY <1>4, <1>5, <1>6, <1>7 DEF DrawInv

\* Draws accumulate, and a draw that cannot be replayed stays so.
LEMMA DrawsAccumulate ==
  ASSUME \A c \in Codes : drawnBy[c] # NoRequest => drawnBy'[c] = drawnBy[c],
         \A c \in Codes : drawnBy[c] # NoRequest /\ code[c].past => code'[c].past
  PROVE  /\ \A a : DrawnFor(a) \subseteq DrawnFor(a)'
         /\ \A r \in Requests : Unreplayable(r) => Unreplayable(r)'
         /\ \A a : Fresh(a)' => Fresh(a)
<1>1. \A a : DrawnFor(a) \subseteq DrawnFor(a)'
  BY DEF DrawnFor
<1>2. \A a : \A c \in DrawnFor(a) : c \in Codes /\ drawnBy[c] # NoRequest
  BY DEF DrawnFor
<1>3. \A r \in Requests : Unreplayable(r) => Unreplayable(r)'
  BY <1>1, <1>2 DEF Unreplayable
<1>4. \A a : Fresh(a)' => Fresh(a)
  BY <1>1, <1>2 DEF Fresh
<1> QED
  BY <1>1, <1>3, <1>4

LEMMA StockDraw ==
  ASSUME IInv, DrawInv, UNCHANGED <<request, drawnBy>>,
         \A c \in Codes :
            /\ code'[c].token \in {code[c].token, NoActivation}
            /\ code'[c].token # code[c].token => code[c].past
            /\ code[c].past => code'[c].past
            /\ code[c].status = "used" <=> code'[c].status = "used"
  PROVE  DrawInv'
<1>1. /\ \A a : DrawnFor(a) = DrawnFor(a)'
      /\ \A r \in Requests : Unreplayable(r) => Unreplayable(r)'
      /\ \A a : Fresh(a)' => Fresh(a)
  BY DrawsAccumulate DEF DrawnFor
<1>2. DrawnIsUsed' /\ ClaimsAreInPool' /\ ConflictsHaveWinners' /\ DropsAreJustified'
  BY <1>1 DEF DrawInv, DrawnIsUsed, ClaimsAreInPool, ConflictsHaveWinners, DropsAreJustified
<1>3. TokensAreUnique'
  BY DEF DrawInv, TokensAreUnique
<1>4. FreshDrawsCarryTheToken'
  <2> SUFFICES ASSUME NEW a \in Tokens \ {NoActivation}, Fresh(a)', NEW c \in DrawnFor(a)
               PROVE  code'[c].token = a
    BY <1>1 DEF FreshDrawsCarryTheToken
  <2>1. code[c].token = a /\ ~code'[c].past /\ c \in Codes
    BY <1>1 DEF DrawInv, FreshDrawsCarryTheToken, Fresh, DrawnFor
  <2> QED
    BY <2>1
<1> QED
  BY <1>2, <1>3, <1>4 DEF DrawInv

LEMMA SpendingDraw ==
  ASSUME IInv, DrawInv, NEW r \in Requests, SpendingStep(r)
  PROVE  DrawInv'
<1> DEFINE c == request[r].code
           s == [status |-> "used", past |-> FALSE, token |-> request[r].token]
<1>1. /\ request[r].pc = "claiming"
      /\ ~Taken(request[r].token)
      /\ code' = [code EXCEPT ![c] = s] /\ drawnBy' = [drawnBy EXCEPT ![c] = r]
      /\ Goto(r, "answered") \/ Retry(r, request[r].token)
  BY DEF SpendingStep, ClaimCommits, ClaimAnswerLost, Spend
<1>2. c \in Codes /\ code[c].status = "unused" /\ PoolOf[c] = Target[r]
  BY <1>1 DEF IInv, ClaimsAreExclusive, DrawInv, ClaimsAreInPool
<1>3. drawnBy[c] = NoRequest
  BY <1>2 DEF DrawInv, DrawnIsUsed
<1>4. s.status = "used" /\ ~s.past /\ s.token = request[r].token
  OBVIOUS
<1>5. /\ code'[c] = s /\ \A d \in Codes \ {c} : code'[d] = code[d]
      /\ drawnBy'[c] = r /\ \A d \in Codes \ {c} : drawnBy'[d] = drawnBy[d]
  BY <1>1, <1>2 DEF IInv, TypeOK
<1>6. /\ \A q \in Requests \ {r} : request'[q] = request[q]
      /\ request'[r].token = request[r].token
      /\ request'[r].pc \notin {"claiming", "conflict"}
  BY <1>1 DEF Goto, Retry, IInv, TypeOK, Request
<1> HIDE DEF c, s
<1>7. /\ \A a : DrawnFor(a) \subseteq DrawnFor(a)'
      /\ \A q \in Requests : Unreplayable(q) => Unreplayable(q)'
      /\ \A a : Fresh(a)' => Fresh(a)
  BY <1>3, <1>5, DrawsAccumulate
<1>8. /\ \A a : DrawnFor(a)' \subseteq DrawnFor(a) \cup {c}
      /\ \A a : c \in DrawnFor(a)' => a = Activation[r]
      /\ c \in DrawnFor(Activation[r])'
  BY <1>2, <1>5, RequestAssumption DEF DrawnFor
<1>9. DrawnIsUsed'
  BY <1>4, <1>5, RequestAssumption DEF DrawInv, DrawnIsUsed
<1>10. ClaimsAreInPool' /\ ConflictsHaveWinners' /\ DropsAreJustified'
  BY <1>6, <1>7 DEF DrawInv, ClaimsAreInPool, ConflictsHaveWinners, DropsAreJustified
<1>11. TokensAreUnique'
  BY <1>1, <1>4, <1>5 DEF DrawInv, TokensAreUnique, Taken
<1>12. FreshDrawsCarryTheToken'
  <2> SUFFICES ASSUME NEW a \in Tokens \ {NoActivation}, Fresh(a)', NEW d \in DrawnFor(a)'
               PROVE  code'[d].token = a
    BY DEF FreshDrawsCarryTheToken
  <2>1. CASE d # c
    <3>1. d \in DrawnFor(a) /\ d \in Codes
      BY <1>8, <2>1 DEF DrawnFor
    <3> QED
      BY <1>5, <1>7, <2>1, <3>1 DEF DrawInv, FreshDrawsCarryTheToken
  <2>2. CASE d = c
    <3>1. a = Activation[r]
      BY <1>8, <2>2
    <3>2. CASE request[r].token = Activation[r]
      BY <1>4, <1>5, <2>2, <3>1, <3>2
    <3>3. CASE request[r].token # Activation[r]
      <4>1. PICK b \in DrawnFor(a) : code[b].past \/ PoolOf[b] # Target[r]
        BY <3>1, <3>3 DEF DrawInv, DropsAreJustified, Unreplayable
      <4>2. b \in Codes /\ b # c /\ b \in DrawnFor(a)'
        BY <1>3, <1>7, <4>1 DEF DrawnFor
      <4>3. ~code[b].past /\ PoolOf[b] = PoolOf[c]
        BY <1>5, <2>2, <4>2 DEF Fresh
      <4> QED
        BY <1>2, <4>1, <4>3
    <3> QED
      BY <3>2, <3>3
  <2> QED
    BY <2>1, <2>2
<1> QED
  BY <1>9, <1>10, <1>11, <1>12 DEF DrawInv

LEMMA DrawStep ==
  ASSUME IInv, DrawInv, [Next]_vars
  PROVE  DrawInv'
<1>0. TypeOK
  BY DEF IInv
<1>1. ASSUME NEW r \in Requests,
             Redeem(r) \/ ClaimAnswerLost(r) \/ StatementFails(r) \/ RequestFails(r)
      PROVE  DrawInv'
  BY <1>1, QuietDraw, SpendingDraw DEF Redeem, QuietStep, SpendingStep
<1>2. ASSUME UNCHANGED <<code, request, drawnBy>>
      PROVE  DrawInv'
  BY <1>2, StockDraw
<1>3. ASSUME NEW p \in Pools, ImportBegins(p) \/ ImportAborts(p)
      PROVE  DrawInv'
  BY <1>2, <1>3 DEF ImportBegins, ImportAborts
<1>4. ASSUME NEW p \in Pools, ImportCommits(p)
      PROVE  DrawInv'
  <2> DEFINE new == import[p] \ Rows(p)
  <2>1. \A c \in new : c \in Codes /\ code[c] \in Code /\ code[c].status = "absent"
    BY <1>0 DEF TypeOK, Rows, IInv, ImportsOwnPool
  <2>2. code' = [c \in Codes |-> IF c \in new THEN [code[c] EXCEPT !.status = "unused"]
                                              ELSE code[c]]
    BY <1>4 DEF ImportCommits
  <2>3. \A c \in Codes : /\ code'[c].token = code[c].token
                         /\ code'[c].past = code[c].past
                         /\ code'[c].status = "used" <=> code[c].status = "used"
    BY <1>0, <2>1, <2>2 DEF TypeOK, Code
  <2> QED
    BY <1>4, <2>3, StockDraw DEF ImportCommits
<1>5. CASE RecountLocks \/ RecountCounts \/ RecountCommits \/ RecountFails \/ UNCHANGED vars
  BY <1>2, <1>5 DEF RecountLocks, RecountCounts, RecountCommits, RecountFails, vars
<1>6. ASSUME NEW c \in Codes, WindowPasses(c)
      PROVE  DrawInv'
  <2>1. \A d \in Codes : /\ code'[d].token = code[d].token
                         /\ code[d].past => code'[d].past
                         /\ code'[d].status = code[d].status
    BY <1>0, <1>6 DEF WindowPasses, TypeOK, Code
  <2> QED
    BY <1>6, <2>1, StockDraw DEF WindowPasses
<1>7. CASE ReleaseExpiredClaimTokens
  <2>1. \A d \in Codes : /\ code'[d].token \in {code[d].token, NoActivation}
                         /\ code'[d].token # code[d].token => code[d].past
                         /\ code'[d].past = code[d].past
                         /\ code'[d].status = code[d].status
    BY <1>0, <1>7 DEF ReleaseExpiredClaimTokens, TypeOK, Code
  <2> QED
    BY <1>7, <2>1, StockDraw DEF ReleaseExpiredClaimTokens
<1> QED
  BY <1>1, <1>3, <1>4, <1>5, <1>6, <1>7 DEF Next, Nightly

LEMMA DrawInvariance == Spec => [](IInv /\ DrawInv)
<1>1. Init => IInv /\ DrawInv
  BY InvInit, DrawInit
<1>2. IInv /\ DrawInv /\ [Next]_vars => (IInv /\ DrawInv)'
  BY InvStep, DrawStep
<1> QED
  BY <1>1, <1>2, PTL DEF Spec

\* An activation spends one code, however often its requests are repeated, race,
\* fail or lose their answers, as long as its claims can be replayed in their
\* pool: the token's unique index and the replay after a conflict.
THEOREM AnActivationSpendsOneCode == Spec => []OneCodePerActivation
<1>1. ASSUME IInv, DrawInv PROVE OneCodePerActivation
  <2> SUFFICES ASSUME NEW a \in Tokens \ {NoActivation}, Fresh(a),
                      NEW c \in DrawnFor(a), NEW d \in DrawnFor(a)
               PROVE  c = d
    BY DEF OneCodePerActivation, Fresh
  <2>1. code[c].token = a /\ code[d].token = a /\ c \in Codes /\ d \in Codes
    BY <1>1 DEF DrawInv, FreshDrawsCarryTheToken, DrawnFor
  <2> QED
    BY <1>1, <2>1 DEF DrawInv, TokensAreUnique
<1> QED
  BY <1>1, DrawInvariance, PTL

\* Nobody is told the pool is empty whose activation drew a code there that can
\* still be replayed: the last replay of the drained edge finds it.
THEOREM TwinsGetTheLastCode == Spec => TwinsAreNotToldEmpty
<1> DEFINE NotToldEmpty(r) ==
      LET drawn == DrawnFor(Activation[r])
      IN /\ request[r].pc # "empty" /\ request'[r].pc = "empty"
         /\ Activation[r] # NoActivation
         /\ \A c \in drawn : ~code[c].past /\ PoolOf[c] = Target[r]
         => drawn = {}
<1>1. ASSUME IInv, DrawInv, [Next]_vars, NEW r \in Requests
      PROVE  NotToldEmpty(r)
  <2> SUFFICES ASSUME request[r].pc # "empty", request'[r].pc = "empty",
                      Activation[r] # NoActivation, ~Unreplayable(r)
               PROVE  DrawnFor(Activation[r]) = {}
    BY DEF Unreplayable
  <2>1. ReplayLast(r)
    <3>1. ASSUME NEW q \in Requests, SpendingStep(q)
          PROVE  FALSE
      BY <1>1, <3>1 DEF SpendingStep, ClaimCommits, ClaimAnswerLost, Goto, Retry, IInv,
                        TypeOK, Request
    <3>2. ASSUME NEW q \in Requests, QuietStep(q)
          PROVE  ReplayLast(r)
      BY <1>1, <3>2 DEF QuietStep, Arrive, ClaimRow, ClaimNothing, ClaimConflicts,
             ReplayConflict, Probe, MarkBegins, MarkEnds, ReplayLast, StatementFails,
             RequestFails, Replay, Answer, With, Goto, Retry, IInv, TypeOK, Request
    <3>3. request' # request
      OBVIOUS
    <3> QED
      BY <1>1, <3>1, <3>2, <3>3
      DEF Next, Redeem, QuietStep, SpendingStep, Nightly, vars, ImportBegins, ImportCommits,
          ImportAborts, RecountLocks, RecountCounts, RecountCommits, RecountFails,
          WindowPasses, ReleaseExpiredClaimTokens
  <2>2. Replayable(r) = {}
    BY <1>1, <2>1 DEF ReplayLast, Replay, Answer, With, IInv, TypeOK, Request
  <2> QED
    BY <1>1, <2>2, ReplayFinds
<1>2. IInv /\ DrawInv /\ [Next]_vars => [\A r \in Requests : NotToldEmpty(r)]_vars
  BY <1>1
<1> QED
  BY <1>2, DrawInvariance, PTL DEF Spec, TwinsAreNotToldEmpty

------------------------------------------------------------------------------
(***************************************************************************)
(* The counters.                                                           *)
(***************************************************************************)
Used(p) == Rows(p) \ Unused(p)

\* The recount holds every pool's row lock while no import does.
LocksExclude == Recounting => \A p \in Pools : import[p] = {}

\* What the recount is going to write is still right.
CountsAreRight ==
    recount.pc = "counted" =>
        \A p \in Pools : /\ recount.seen[p].total = Cardinality(Rows(p))
                         /\ recount.seen[p].used <= Cardinality(Used(p))

CountInv == CountersMatch /\ LocksExclude /\ CountsAreRight

LEMMA CountInit == Init => CountInv
<1> SUFFICES ASSUME Init PROVE CountInv
  OBVIOUS
<1>1. ASSUME NEW p \in Pools
      PROVE  /\ pool[p].total = Cardinality(Rows(p))
             /\ pool[p].used <= Cardinality(Used(p))
  <2>1. Rows(p) = {c \in Stocked : PoolOf[c] = p}
    BY CodeAssumption DEF Init, Rows
  <2>2. Cardinality(Used(p)) \in Nat
    BY CountType DEF Used, Rows
  <2> QED
    BY <2>1, <2>2 DEF Init
<1> QED
  BY <1>1 DEF CountInv, CountersMatch, LocksExclude, CountsAreRight, Init, Idle, Recounting, Used

\* Steps that add no code: the counters and what the recount read stay right.
LEMMA SameStock ==
  ASSUME IInv, CountInv, recount' = recount,
         recount.pc \notin {"locked", "counted"} \/ import' = import,
         \A p \in Pools : pool'[p].total = pool[p].total /\ pool'[p].used = pool[p].used,
         \A p \in Pools : Rows(p)' = Rows(p) /\ Used(p) \subseteq Used(p)'
  PROVE  CountInv'
<1>1. ASSUME NEW p \in Pools
      PROVE  /\ Cardinality(Rows(p)') = Cardinality(Rows(p))
             /\ Cardinality(Used(p)) <= Cardinality(Used(p)')
             /\ Cardinality(Used(p)) \in Nat /\ Cardinality(Used(p)') \in Nat
             /\ pool[p].used \in Nat
             /\ recount.seen[p].used \in Nat
  <2>1. Used(p)' \subseteq Codes /\ Used(p) \subseteq Codes
    BY DEF Used, Rows
  <2>2. IsFiniteSet(Used(p)')
    BY <2>1, CodeAssumption, FS_Subset
  <2>3. Cardinality(Used(p)) <= Cardinality(Used(p)')
    BY <2>2, FS_Subset
  <2>4. pool[p].used \in Nat /\ recount.seen[p].used \in Nat
    BY DEF IInv, TypeOK, Pool, Recount
  <2> QED
    BY <2>1, <2>3, <2>4, CountType
<1>2. CountersMatch'
  <2> SUFFICES ASSUME NEW p \in Pools
               PROVE  /\ pool'[p].total = Cardinality(Rows(p)')
                      /\ pool'[p].used <= Cardinality(Used(p)')
    BY DEF CountersMatch, Used
  <2>1. /\ pool[p].total = Cardinality(Rows(p))
        /\ pool[p].used <= Cardinality(Used(p))
    BY DEF CountInv, CountersMatch, Used
  <2> QED
    BY <1>1, <2>1
<1>3. LocksExclude'
  BY DEF CountInv, LocksExclude, Recounting
<1>4. CountsAreRight'
  BY <1>1 DEF CountInv, CountsAreRight
<1> QED
  BY <1>2, <1>3, <1>4 DEF CountInv

\* Requests add no code and only ever turn unused codes into used ones.
LEMMA RequestsCount ==
  ASSUME IInv, CountInv, NEW r \in Requests, QuietStep(r) \/ SpendingStep(r)
  PROVE  CountInv'
<1>1. UNCHANGED <<recount, import>>
  BY DEF QuietStep, SpendingStep, Arrive, ClaimRow, ClaimNothing, ClaimConflicts,
         ReplayConflict, Probe, MarkBegins, MarkEnds, ReplayLast, StatementFails,
         RequestFails, ClaimCommits, ClaimAnswerLost
<1>2. \A p \in Pools : pool'[p].total = pool[p].total /\ pool'[p].used = pool[p].used
  BY DEF QuietStep, SpendingStep, Arrive, ClaimRow, ClaimNothing, ClaimConflicts,
         ReplayConflict, Probe, MarkBegins, MarkEnds, ReplayLast, StatementFails,
         RequestFails, ClaimCommits, ClaimAnswerLost, IInv, TypeOK, Pool
<1>3. ASSUME NEW p \in Pools
      PROVE  Rows(p)' = Rows(p) /\ Used(p) \subseteq Used(p)'
  <2>1. CASE QuietStep(r)
    <3>1. code' = code
      BY <2>1 DEF QuietStep, Arrive, ClaimRow, ClaimNothing, ClaimConflicts, ReplayConflict,
             Probe, MarkBegins, MarkEnds, ReplayLast, StatementFails, RequestFails
    <3> QED
      BY <3>1 DEF Rows, Used, Unused
  <2>2. CASE SpendingStep(r)
    <3> DEFINE c == request[r].code
    <3>1. c \in Codes /\ code[c].status = "unused"
      BY <2>2 DEF SpendingStep, ClaimCommits, ClaimAnswerLost, IInv, ClaimsAreExclusive
    <3>2. \A d \in Codes : code'[d].status = IF d = c THEN "used" ELSE code[d].status
      BY <2>2, <3>1 DEF SpendingStep, ClaimCommits, ClaimAnswerLost, Spend, IInv, TypeOK
    <3> QED
      BY <3>1, <3>2 DEF Rows, Used, Unused
  <2> QED
    BY <2>1, <2>2
<1> QED
  BY <1>1, <1>2, <1>3, SameStock

\* An import that adds codes adds just as many to the counter.
LEMMA ImportCounts ==
  ASSUME IInv, CountInv, NEW q \in Pools, ImportCommits(q)
  PROVE  CountInv'
<1> DEFINE new == import[q] \ Rows(q)
<1>1. UNCHANGED <<request, recount>> /\ ~Recounting
  BY DEF ImportCommits, CountInv, LocksExclude
<1>2. new \subseteq Codes /\ \A c \in new : PoolOf[c] = q /\ code[c].status = "absent"
  BY DEF IInv, ImportsOwnPool, TypeOK, Rows, Code
<1>3. \A c \in Codes : code'[c].status = IF c \in new THEN "unused" ELSE code[c].status
  BY <1>2 DEF ImportCommits, IInv, TypeOK, Code
<1>4. ASSUME NEW p \in Pools
      PROVE  /\ Rows(p)' = IF p = q THEN Rows(p) \cup new ELSE Rows(p)
             /\ Used(p)' = Used(p)
  BY <1>2, <1>3 DEF Rows, Used, Unused
<1>5. Cardinality(Rows(q) \cup new) = Cardinality(Rows(q)) + Cardinality(new)
  <2>1. Rows(q) \subseteq Codes /\ Rows(q) \cap new = {}
    BY DEF Rows
  <2>2. IsFiniteSet(Rows(q)) /\ IsFiniteSet(new)
    BY <1>2, <2>1, CodeAssumption, FS_Subset
  <2>3. Cardinality(Rows(q)) \in Nat /\ Cardinality(new) \in Nat
    BY <1>2, <2>1, CountType
  <2> HIDE DEF new
  <2>4. Cardinality(Rows(q) \cup new)
          = Cardinality(Rows(q)) + Cardinality(new) - Cardinality(Rows(q) \cap new)
    BY <2>2, FS_Union
  <2> QED
    BY <2>1, <2>3, <2>4, FS_EmptySet
<1>6. ASSUME NEW p \in Pools
      PROVE  /\ pool'[p].used = pool[p].used
             /\ p # q \/ new = {} => pool'[p].total = pool[p].total
             /\ p = q /\ new # {} => pool'[p].total = pool[p].total + Cardinality(new)
  BY DEF ImportCommits, IInv, TypeOK, Pool
<1>7. CountersMatch'
  <2> SUFFICES ASSUME NEW p \in Pools
               PROVE  /\ pool'[p].total = Cardinality(Rows(p)')
                      /\ pool'[p].used <= Cardinality(Used(p)')
    BY DEF CountersMatch, Used
  <2>1. /\ pool[p].total = Cardinality(Rows(p))
        /\ pool[p].used <= Cardinality(Used(p))
    BY DEF CountInv, CountersMatch, Used
  <2> HIDE DEF new
  <2>2. CASE p = q /\ new # {}
    BY <1>4, <1>5, <1>6, <2>1, <2>2
  <2>3. CASE p # q \/ new = {}
    BY <1>4, <1>6, <2>1, <2>3
  <2> QED
    BY <2>2, <2>3
<1> QED
  BY <1>1, <1>7 DEF CountInv, LocksExclude, CountsAreRight, Recounting

\* The recount writes what it counted, which nothing can have changed but claims.
LEMMA NightCounts ==
  ASSUME IInv, CountInv, Nightly \/ RecountFails
  PROVE  CountInv'
<1>1. \A p \in Pools : /\ pool[p].total = Cardinality(Rows(p))
                       /\ pool[p].used <= Cardinality(Used(p))
  BY DEF CountInv, CountersMatch, Used
<1>2. \A p \in Pools : Rows(p)' = Rows(p) /\ Used(p)' = Used(p)
  <2>1. \A c \in Codes : code'[c].status = code[c].status
    BY DEF Nightly, RecountLocks, RecountCounts, RecountCommits, RecountFails,
           ReleaseExpiredClaimTokens, IInv, TypeOK, Code
  <2> QED
    BY <2>1 DEF Rows, Used, Unused
<1>3. UNCHANGED import
  BY DEF Nightly, RecountLocks, RecountCounts, RecountCommits, RecountFails,
         ReleaseExpiredClaimTokens
<1>4. CASE RecountCommits
  <2>1. ASSUME NEW p \in Pools
        PROVE  /\ pool'[p].total = recount.seen[p].total
               /\ pool'[p].used = recount.seen[p].used
    BY <1>4 DEF RecountCommits, Recounted, IInv, TypeOK, Recount, Pool
  <2>2. CountersMatch'
    BY <1>2, <1>4, <2>1 DEF RecountCommits, CountInv, CountsAreRight, CountersMatch, Used
  <2>3. recount'.pc = "release"
    BY <1>4 DEF RecountCommits, Idle
  <2> QED
    BY <2>2, <2>3 DEF CountInv, LocksExclude, CountsAreRight, Recounting
<1>5. ASSUME ~RecountCommits PROVE CountersMatch'
  <2>1. pool' = pool
    BY <1>5 DEF Nightly, RecountLocks, RecountCounts, RecountFails,
                ReleaseExpiredClaimTokens
  <2> QED
    BY <1>1, <1>2, <2>1 DEF CountersMatch, Used
<1>6. CASE RecountLocks
  <2>1. recount'.pc = "locked" /\ \A p \in Pools : import'[p] = {}
    BY <1>3, <1>6 DEF RecountLocks, PoolFree
  <2>2. CountersMatch'
    BY <1>5, <1>6 DEF RecountLocks, RecountCommits
  <2> QED
    BY <2>1, <2>2 DEF CountInv, LocksExclude, CountsAreRight
<1>7. CASE RecountCounts
  <2>1. \A p \in Pools : import'[p] = {}
    BY <1>3, <1>7 DEF RecountCounts, CountInv, LocksExclude, Recounting
  <2>2. ASSUME NEW p \in Pools
        PROVE  /\ recount'.seen[p].total = Cardinality(Rows(p))
               /\ recount'.seen[p].used = Cardinality(Used(p))
               /\ Cardinality(Used(p)) \in Nat
    BY <1>7, CountType DEF RecountCounts, Counts, Used, Rows
  <2>3. CountsAreRight'
    <3> SUFFICES ASSUME NEW p \in Pools
                 PROVE  /\ recount'.seen[p].total = Cardinality(Rows(p)')
                        /\ recount'.seen[p].used <= Cardinality(Used(p)')
      BY DEF CountsAreRight
    <3> QED
      BY <1>2, <2>2
  <2>4. CountersMatch'
    BY <1>5, <1>7 DEF RecountCounts, RecountCommits
  <2> QED
    BY <2>1, <2>3, <2>4 DEF CountInv, LocksExclude
<1>8. CASE ReleaseExpiredClaimTokens \/ RecountFails
  <2>1. recount'.pc = "idle"
    BY <1>8 DEF ReleaseExpiredClaimTokens, RecountFails, Idle
  <2>2. CountersMatch'
    <3>1. CASE RecountCommits
      BY <1>4, <3>1 DEF CountInv
    <3> QED
      BY <3>1, <1>5
  <2> QED
    BY <2>1, <2>2 DEF CountInv, LocksExclude, CountsAreRight, Recounting
<1> QED
  BY <1>4, <1>6, <1>7, <1>8 DEF Nightly

LEMMA CountStep ==
  ASSUME IInv, CountInv, [Next]_vars
  PROVE  CountInv'
<1>1. ASSUME NEW r \in Requests, QuietStep(r) \/ SpendingStep(r)
      PROVE  CountInv'
  BY <1>1, RequestsCount
<1>2. ASSUME NEW p \in Pools, ImportBegins(p) \/ ImportAborts(p)
      PROVE  CountInv'
  <2>1. ~Recounting /\ UNCHANGED <<code, pool, recount>>
    BY <1>2 DEF ImportBegins, ImportAborts, PoolFree, CountInv, LocksExclude
  <2>2. \A q \in Pools : Rows(q)' = Rows(q) /\ Used(q)' = Used(q)
    BY <2>1 DEF Rows, Used, Unused
  <2> QED
    BY <2>1, <2>2, SameStock DEF Recounting
<1>3. ASSUME NEW p \in Pools, ImportCommits(p)
      PROVE  CountInv'
  BY <1>3, ImportCounts
<1>4. CASE Nightly \/ RecountFails
  BY <1>4, NightCounts
<1>5. ASSUME NEW c \in Codes, WindowPasses(c)
      PROVE  CountInv'
  <2>1. UNCHANGED <<pool, import, recount>>
    BY <1>5 DEF WindowPasses
  <2>2. \A d \in Codes : code'[d].status = code[d].status
    BY <1>5 DEF WindowPasses, IInv, TypeOK, Code
  <2>3. \A p \in Pools : Rows(p)' = Rows(p) /\ Used(p)' = Used(p)
    BY <2>2 DEF Rows, Used, Unused
  <2> QED
    BY <2>1, <2>3, SameStock
<1>6. CASE UNCHANGED vars
  <2>1. UNCHANGED <<code, pool, import, recount>>
    BY <1>6 DEF vars
  <2>2. \A p \in Pools : Rows(p)' = Rows(p) /\ Used(p)' = Used(p)
    BY <2>1 DEF Rows, Used, Unused
  <2> QED
    BY <2>1, <2>2, SameStock
<1> QED
  BY <1>1, <1>2, <1>3, <1>4, <1>5, <1>6 DEF Next, Redeem, QuietStep, SpendingStep

\* The counters of a pool are exact in what it holds and never count a code as
\* used that is not, whatever imports, claims and the nightly recount interleave.
THEOREM CountersNeverLag == Spec => []CountersMatch
<1>1. Init => IInv /\ CountInv
  BY InvInit, CountInit
<1>2. IInv /\ CountInv /\ [Next]_vars => IInv' /\ CountInv'
  BY InvStep, CountStep
<1>3. IInv /\ CountInv => CountersMatch
  BY DEF CountInv
<1> QED
  BY <1>1, <1>2, <1>3, PTL DEF Spec

------------------------------------------------------------------------------
(***************************************************************************)
(* What visitors are promised.                                             *)
(***************************************************************************)
\* Only a code that was issued can have been issued long ago.
LateIsUsed == \A c \in Codes : code[c].past => code[c].status = "used"

LEMMA LateInit == Init => LateIsUsed
  BY DEF Init, LateIsUsed

LEMMA LateStep ==
  ASSUME IInv, LateIsUsed, [Next]_vars
  PROVE  LateIsUsed'
<1>0. TypeOK
  BY DEF IInv
<1>1. ASSUME NEW r \in Requests, SpendingStep(r)
      PROVE  LateIsUsed'
  <2>1. /\ code' = [code EXCEPT ![request[r].code] =
                      [status |-> "used", past |-> FALSE, token |-> request[r].token]]
        /\ request[r].code \in Codes
    BY <1>1 DEF SpendingStep, ClaimCommits, ClaimAnswerLost, Spend, IInv, ClaimsAreExclusive
  <2> QED
    BY <1>0, <2>1 DEF LateIsUsed, TypeOK
<1>2. ASSUME UNCHANGED code PROVE LateIsUsed'
  BY <1>2 DEF LateIsUsed
<1>3. ASSUME NEW r \in Requests, QuietStep(r) PROVE LateIsUsed'
  BY <1>2, <1>3 DEF QuietStep, Arrive, ClaimRow, ClaimNothing, ClaimConflicts, ReplayConflict,
         Probe, MarkBegins, MarkEnds, ReplayLast, StatementFails, RequestFails
<1>4. ASSUME NEW p \in Pools, ImportBegins(p) \/ ImportAborts(p) PROVE LateIsUsed'
  BY <1>2, <1>4 DEF ImportBegins, ImportAborts
<1>5. ASSUME NEW p \in Pools, ImportCommits(p) PROVE LateIsUsed'
  <2>1. \A c \in Codes : \/ code'[c] = code[c]
                         \/ code'[c].past = code[c].past /\ code[c].status = "absent"
    BY <1>0, <1>5 DEF ImportCommits, IInv, ImportsOwnPool, TypeOK, Code, Rows
  <2> QED
    BY <2>1 DEF LateIsUsed
<1>6. CASE Nightly \/ RecountFails
  <2>1. \A c \in Codes : code'[c].past = code[c].past /\ code'[c].status = code[c].status
    BY <1>0, <1>6 DEF Nightly, RecountLocks, RecountCounts, RecountCommits, RecountFails,
           ReleaseExpiredClaimTokens, TypeOK, Code
  <2> QED
    BY <2>1 DEF LateIsUsed
<1>7. ASSUME NEW c \in Codes, WindowPasses(c) PROVE LateIsUsed'
  BY <1>0, <1>7 DEF WindowPasses, TypeOK, Code, LateIsUsed
<1> QED
  BY <1>1, <1>2, <1>3, <1>4, <1>5, <1>6, <1>7 DEF Next, Redeem, QuietStep, SpendingStep, vars

LEMMA DispenserInit == Init => Dispenser!Init
<1> SUFFICES ASSUME Init PROVE Dispenser!Init
  OBVIOUS
<1>1. Shelf = Stocked
  BY CodeAssumption DEF Init, Shelf
<1>2. Late = {} /\ SoldOut = {}
  BY DEF Init, Late, SoldOut
<1>3. Dry = {} /\ Refused = {} /\ Shown = [r \in Requests |-> NoCode]
  BY DEF Init, Dry, Refused, Shown
<1> QED
  BY <1>1, <1>2, <1>3 DEF Init, Dispenser!Init

\* The promise is about the same codes the statements look for.
LEMMA SameShelf ==
  ASSUME NEW p \in Pools
  PROVE  Dispenser!OnShelf(p) = Unused(p)
  BY DEF Dispenser!OnShelf, Shelf, Unused, Rows

LEMMA SameDraws ==
  ASSUME NEW r \in Requests
  PROVE  /\ Activation[r] # NoActivation => Dispenser!IssuedFor(r) = DrawnFor(Activation[r])
         /\ Dispenser!NothingToShow(r) <=>
              Activation[r] = NoActivation \/ DrawnFor(Activation[r]) = {} \/ Unreplayable(r)
<1>1. Activation[r] # NoActivation => Dispenser!IssuedFor(r) = DrawnFor(Activation[r])
  BY DEF Dispenser!IssuedFor, DrawnFor
<1>2. Activation[r] = NoActivation => Dispenser!IssuedFor(r) = {}
  BY DEF Dispenser!IssuedFor
<1>3. Dispenser!Showable(r) # Dispenser!IssuedFor(r)
        <=> \E c \in Dispenser!IssuedFor(r) : code[c].past \/ PoolOf[c] # Target[r]
  <2>1. \A c \in Dispenser!IssuedFor(r) : c \in Late <=> code[c].past
    BY DEF Dispenser!IssuedFor, Late
  <2> QED
    BY <2>1 DEF Dispenser!Showable
<1> QED
  BY <1>1, <1>2, <1>3 DEF Dispenser!NothingToShow, Unreplayable

\* A code a request finds again is one its visit was issued.
LEMMA ReplayedIsShowable ==
  ASSUME IInv, NEW r \in Requests, NEW c \in Replayable(r)
  PROVE  c \in Dispenser!Showable(r)
<1>1. c \in Codes /\ PoolOf[c] = Target[r] /\ ~code[c].past /\ c \notin Late
      /\ Activation[r] # NoActivation /\ code[c].token = Activation[r]
  BY DEF Replayable, Rows, Late
<1>2. drawnBy[c] \in Requests /\ Activation[drawnBy[c]] = Activation[r]
  BY <1>1 DEF IInv, TokensNameTheDrawer
<1> QED
  BY <1>1, <1>2, RequestAssumption DEF Dispenser!Showable, Dispenser!IssuedFor

\* Whoever finds nothing again has nothing to be shown.
LEMMA NothingFoundIsNothing ==
  ASSUME IInv, DrawInv, NEW r \in Requests, Replayable(r) = {}
  PROVE  Dispenser!NothingToShow(r)
  BY SameDraws, ReplayFinds

\* Whoever draws under its own token is the first, or else may draw again.
LEMMA DrawsAreDue ==
  ASSUME IInv, DrawInv, NEW r \in Requests, request[r].pc = "claiming",
         ~Taken(request[r].token)
  PROVE  Dispenser!NothingToShow(r)
<1> SUFFICES ASSUME Activation[r] # NoActivation, ~Unreplayable(r),
                    NEW c \in DrawnFor(Activation[r])
             PROVE  FALSE
  BY SameDraws
<1>1. request[r].token = Activation[r]
  BY DEF DrawInv, DropsAreJustified
<1>2. Fresh(Activation[r])
  BY DEF Unreplayable, Fresh
<1>3. code[c].token = Activation[r] /\ c \in Codes
  BY <1>2, TokenType DEF DrawInv, FreshDrawsCarryTheToken, DrawnFor
<1> QED
  BY <1>1, <1>3 DEF Taken

\* What visitors see depends on the rows and the requests only.
LEMMA SameView ==
  ASSUME UNCHANGED <<code, pool, request, drawnBy>>
  PROVE  UNCHANGED Dispenser!vars
  BY DEF Dispenser!vars, Shelf, Late, Shown, Dry, Refused, SoldOut

LEMMA WaitingIs ==
  ASSUME TypeOK, NEW r \in Requests, request[r].pc \notin {"answered", "empty"}
  PROVE  Dispenser!Waiting(r)
  BY DEF Dispenser!Waiting, Shown, Refused

DispenserStep == Dispenser!Next \/ UNCHANGED Dispenser!vars

\* A request that moves on without an answer.
LEMMA MovesOn ==
  ASSUME TypeOK, NEW r \in Requests, UNCHANGED <<code, drawnBy, pool>>,
         request' \in [Requests -> Request],
         \A q \in Requests \ {r} : request'[q] = request[q],
         request[r].pc \notin {"answered", "empty"},
         request'[r].pc \notin {"answered", "empty"},
         r \in Dry' => r \in Dry \/ Drained(Target[r])
  PROVE  DispenserStep
<1>1. UNCHANGED <<Shelf, drawnBy, Late, SoldOut>>
  BY DEF Shelf, Late, SoldOut
<1>2. Shown' = Shown /\ Refused' = Refused
  BY DEF Shown, Refused
<1>3. Dry' = Dry \cup {r} \/ Dry' = Dry \ {r}
  BY DEF Dry
<1>4. CASE Dry' = Dry \ {r}
  BY <1>1, <1>2, <1>4 DEF DispenserStep, Dispenser!Next, Dispenser!StartOver
<1>5. CASE Dry' = Dry \cup {r}
  <2>1. CASE r \in Dry
    <3>1. Dry' = Dry
      BY <1>5, <2>1
    <3> QED
      BY <1>1, <1>2, <3>1 DEF DispenserStep, Dispenser!vars
  <2>2. CASE r \notin Dry
    <3>1. Dispenser!OnShelf(Target[r]) = {}
      BY <1>5, <2>2, SameShelf, RequestAssumption DEF Drained
    <3> QED
      BY <1>1, <1>2, <1>5, <3>1, WaitingIs
      DEF DispenserStep, Dispenser!Next, Dispenser!FindEmpty
  <2> QED
    BY <2>1, <2>2
<1> QED
  BY <1>3, <1>4, <1>5

LEMMA ShownAgain ==
  ASSUME IInv, NEW r \in Requests, UNCHANGED <<code, drawnBy, pool>>,
         request[r].pc \notin {"answered", "empty"},
         NEW c \in Replayable(r), Answer(r, c)
  PROVE  DispenserStep
<1>1. UNCHANGED <<Shelf, drawnBy, Late, SoldOut>>
  BY DEF Shelf, Late, SoldOut
<1>2. /\ \A q \in Requests \ {r} : request'[q] = request[q]
      /\ request'[r].pc = "answered" /\ request'[r].code = c
  BY DEF Answer, With, IInv, TypeOK
<1>3. Shown' = [Shown EXCEPT ![r] = c] /\ Refused' = Refused /\ Dry' = Dry \ {r}
  BY <1>2 DEF Shown, Refused, Dry
<1> QED
  BY <1>1, <1>3, ReplayedIsShowable, WaitingIs
  DEF IInv, DispenserStep, Dispenser!Next, Dispenser!ShowAgain

LEMMA IssuedOnce ==
  ASSUME IInv, DrawInv, LateIsUsed, NEW r \in Requests, SpendingStep(r)
  PROVE  DispenserStep
<1> DEFINE c == request[r].code
           s == [status |-> "used", past |-> FALSE, token |-> request[r].token]
<1>1. /\ request[r].pc = "claiming"
      /\ ~Taken(request[r].token)
      /\ code' = [code EXCEPT ![c] = s] /\ drawnBy' = [drawnBy EXCEPT ![c] = r]
      /\ Goto(r, "answered") \/ Retry(r, request[r].token)
      /\ pool' = pool
  BY DEF SpendingStep, ClaimCommits, ClaimAnswerLost, Spend
<1>2. c \in Codes /\ code[c].status = "unused" /\ PoolOf[c] = Target[r] /\ c \in Dispenser!OnShelf(Target[r])
  BY <1>1 DEF IInv, ClaimsAreExclusive, DrawInv, ClaimsAreInPool, Dispenser!OnShelf, Shelf
<1>3. code'[c].status = "used" /\ \A d \in Codes \ {c} : code'[d] = code[d]
  BY <1>1, <1>2 DEF IInv, TypeOK
<1>4. Shelf' = Shelf \ {c}
  BY <1>2, <1>3 DEF Shelf
<1>5. Late' = Late /\ SoldOut' = SoldOut
  <2>1. ~code'[c].past
    BY <1>1, <1>2 DEF IInv, TypeOK
  <2>2. ~code[c].past
    BY <1>2 DEF LateIsUsed
  <2> QED
    BY <1>1, <1>3, <2>1, <2>2 DEF Late, SoldOut
<1>6. /\ \A q \in Requests \ {r} : request'[q] = request[q]
      /\ \/ request'[r].pc = "answered" /\ request'[r].code = c
         \/ request'[r].pc \in {"claim", "busy"}
  BY <1>1 DEF Goto, Retry, IInv, TypeOK, Request
<1> HIDE DEF c, s
<1>7. /\ Shown' \in {Shown, [Shown EXCEPT ![r] = c]}
      /\ Refused' = Refused /\ Dry' = Dry
  BY <1>1, <1>6 DEF Shown, Refused, Dry
<1>8. Dispenser!NothingToShow(r) /\ Dispenser!Waiting(r)
  BY <1>1, DrawsAreDue, WaitingIs DEF IInv
<1>9. Dispenser!Issue(r)
  BY <1>1, <1>2, <1>4, <1>5, <1>7, <1>8 DEF Dispenser!Issue
<1> QED
  BY <1>9 DEF DispenserStep, Dispenser!Next

LEMMA RequestServed ==
  ASSUME IInv, DrawInv, NEW r \in Requests, QuietStep(r)
  PROVE  DispenserStep
<1>0. TypeOK /\ TriesBounded /\ RequestTokens
  BY DEF IInv
<1>1. /\ request' \in [Requests -> Request]
      /\ \A q \in Requests \ {r} : request'[q] = request[q]
      /\ UNCHANGED <<code, drawnBy>>
      /\ request[r].pc \notin {"answered", "empty"}
  <2>1. UNCHANGED <<code, drawnBy>> /\ request[r].pc \notin {"answered", "empty"}
    BY DEF QuietStep, Arrive, ClaimRow, ClaimNothing, ClaimConflicts, ReplayConflict, Probe,
           MarkBegins, MarkEnds, ReplayLast, StatementFails, RequestFails, Over
  <2> QED
    BY <1>0, <2>1, QuietMoves
<1>2. ASSUME UNCHANGED pool, request'[r].pc \notin {"answered", "empty"},
             r \in Dry' => r \in Dry \/ Drained(Target[r])
      PROVE  DispenserStep
  BY <1>0, <1>1, <1>2, MovesOn
<1>3. ASSUME UNCHANGED pool, NEW c \in Replayable(r), Answer(r, c)
      PROVE  DispenserStep
  BY <1>1, <1>3, ShownAgain
<1> USE DEF Dry
<1>4. CASE ClaimRow(r) \/ ClaimConflicts(r) \/ RequestFails(r)
  <2>1. request'[r].pc \in {"claiming", "conflict", "error"} /\ UNCHANGED pool
    BY <1>0, <1>4 DEF ClaimRow, ClaimConflicts, RequestFails, With, TypeOK
  <2> QED
    BY <1>2, <2>1
<1>5. CASE ClaimNothing(r)
  <2>1. request'[r].pc = "probe" /\ UNCHANGED pool
    BY <1>0, <1>5 DEF ClaimNothing, Goto, TypeOK, Request
  <2> QED
    BY <1>2, <2>1
<1>6. CASE Probe(r)
  <2>1. /\ UNCHANGED pool
        /\ \/ request'[r].pc = "mark" /\ Drained(Target[r])
           \/ request'[r].pc \in {"claim", "busy"}
    BY <1>0, <1>6 DEF Probe, Goto, Retry, TypeOK, Request
  <2> QED
    BY <1>2, <2>1
<1>7. CASE MarkBegins(r)
  <2>1. UNCHANGED pool /\ request'[r].pc \in {"marking", "last"} /\ request[r].pc = "mark"
    BY <1>0, <1>7 DEF MarkBegins, Goto, TypeOK, Request
  <2> QED
    BY <1>2, <2>1
<1>8. CASE StatementFails(r)
  <2>1. UNCHANGED pool /\ request'[r].pc \in {"claim", "busy"}
    BY <1>0, <1>8 DEF StatementFails, Retry, TypeOK, Request
  <2> QED
    BY <1>2, <2>1
<1>9. CASE Arrive(r)
  <2>1. CASE Goto(r, "claim")
    <3>1. request'[r].pc = "claim" /\ UNCHANGED pool
      BY <1>0, <1>9, <2>1 DEF Arrive, Goto, TypeOK, Request
    <3> QED
      BY <1>2, <3>1
  <2> QED
    BY <1>3, <1>9, <2>1 DEF Arrive, Replay
<1>10. CASE ReplayConflict(r)
  <2>1. CASE Retry(r, NoActivation)
    <3>1. request'[r].pc \in {"claim", "busy"} /\ UNCHANGED pool
      BY <1>0, <1>10, <2>1 DEF ReplayConflict, Retry, TypeOK, Request
    <3> QED
      BY <1>2, <3>1
  <2> QED
    BY <1>3, <1>10, <2>1 DEF ReplayConflict, Replay
<1>11. CASE ReplayLast(r)
  <2>1. CASE Replayable(r) = {} /\ Goto(r, "empty")
    <3>1. /\ request'[r].pc = "empty" /\ UNCHANGED pool /\ request[r].pc = "last"
      BY <1>0, <1>11, <2>1 DEF ReplayLast, Goto, TypeOK, Request
    <3>2. UNCHANGED <<Shelf, drawnBy, Late, SoldOut>>
      BY <1>1, <3>1 DEF Shelf, Late, SoldOut
    <3>3. Shown' = Shown /\ Refused' = Refused \cup {r} /\ Dry' = Dry \ {r} /\ r \in Dry
      BY <1>1, <3>1 DEF Shown, Refused
    <3>4. Dispenser!Waiting(r) /\ Dispenser!NothingToShow(r)
      BY <1>0, <1>1, <2>1, WaitingIs, NothingFoundIsNothing
    <3> QED
      BY <3>2, <3>3, <3>4 DEF DispenserStep, Dispenser!Next, Dispenser!TurnAway
  <2> QED
    BY <1>3, <1>11, <2>1 DEF ReplayLast, Replay
<1>12. CASE MarkEnds(r)
  <2>1. /\ request'[r].pc = "last" /\ request[r].pc = "marking"
        /\ pool' = [pool EXCEPT ![Target[r]].exhausted = TRUE]
    BY <1>0, <1>12 DEF MarkEnds, Goto, TypeOK, Request
  <2>2. UNCHANGED <<Shelf, drawnBy, Late>>
    BY <1>1 DEF Shelf, Late
  <2>3. Shown' = Shown /\ Refused' = Refused /\ Dry' = Dry /\ r \in Dry
    BY <1>1, <2>1 DEF Shown, Refused
  <2>4. SoldOut' = SoldOut \cup {Target[r]}
    BY <1>0, <2>1, RequestAssumption DEF SoldOut, TypeOK, Pool
  <2> QED
    BY <2>2, <2>3, <2>4 DEF DispenserStep, Dispenser!Next, Dispenser!MarkSoldOut
<1> QED
  BY <1>4, <1>5, <1>6, <1>7, <1>8, <1>9, <1>10, <1>11, <1>12 DEF QuietStep

LEMMA Restocked ==
  ASSUME IInv, DrawInv, NEW p \in Pools, ImportCommits(p)
  PROVE  DispenserStep
<1> DEFINE new == import[p] \ Rows(p)
<1>0. TypeOK
  BY DEF IInv
<1>1. \A c \in new : c \in Codes /\ PoolOf[c] = p /\ code[c].status = "absent"
  BY DEF IInv, ImportsOwnPool, TypeOK, Rows, Code
<1>2. \A c \in Codes : /\ code'[c].status = IF c \in new THEN "unused" ELSE code[c].status
                       /\ code'[c].past = code[c].past
  BY <1>1 DEF ImportCommits, IInv, TypeOK, Code
<1>3. UNCHANGED <<request, drawnBy>>
  BY DEF ImportCommits
<1>4. Shelf' = Shelf \cup new /\ Late' = Late
  BY <1>1, <1>2 DEF Shelf, Late
<1>5. UNCHANGED <<Shown, Dry, Refused>>
  BY <1>3 DEF Shown, Dry, Refused
<1>6. new \in SUBSET {c \in Codes \ Shelf : PoolOf[c] = p /\ drawnBy[c] = NoRequest}
  BY <1>1 DEF Shelf, DrawInv, DrawnIsUsed
<1>7. CASE new = {}
  <2>1. pool' = pool
    BY <1>7 DEF ImportCommits
  <2> QED
    BY <1>3, <1>4, <1>5, <1>7, <2>1 DEF DispenserStep, Dispenser!vars, SoldOut
<1>8. CASE new # {}
  <2>1. \A q \in Pools : pool'[q].exhausted = IF q = p THEN FALSE ELSE pool[q].exhausted
    BY <1>0, <1>8 DEF ImportCommits, TypeOK, Pool
  <2>2. SoldOut' = SoldOut \ {p}
    BY <2>1 DEF SoldOut
  <2> QED
    BY <1>3, <1>4, <1>5, <1>6, <2>2 DEF DispenserStep, Dispenser!Next, Dispenser!Restock
<1> QED
  BY <1>7, <1>8

\* The recount stamps no pool that has a code left when it commits.
LEMMA ReviewedRightly ==
  ASSUME IInv, CountInv, RecountCommits
  PROVE  DispenserStep
<1>0. TypeOK
  BY DEF IInv
<1>1. UNCHANGED <<code, request, drawnBy>>
  BY DEF RecountCommits
<1>2. UNCHANGED <<Shelf, drawnBy, Late, Shown, Dry, Refused>>
  BY <1>1 DEF Shelf, Late, Shown, Dry, Refused
<1>3. ASSUME NEW p \in SoldOut' \ SoldOut
      PROVE  Dispenser!OnShelf(p) = {}
  <2>1. p \in Pools /\ Rows(p) \subseteq Codes /\ Used(p) \subseteq Rows(p)
    BY <1>3 DEF SoldOut, Used, Rows
  <2>2. /\ IsFiniteSet(Rows(p))
        /\ Cardinality(Rows(p)) \in Nat /\ Cardinality(Used(p)) \in Nat
    BY <2>1, CodeAssumption, FS_Subset, CountType
  <2>3. /\ recount.seen[p].total = Cardinality(Rows(p))
        /\ recount.seen[p].used <= Cardinality(Used(p))
        /\ recount.seen[p] \in Pool
    BY <1>0, <2>1 DEF RecountCommits, CountInv, CountsAreRight, TypeOK, Recount
  <2>4. recount.seen[p].total = 0 \/ recount.seen[p].used >= recount.seen[p].total
    <3>1. pool'[p] = Recounted(recount.seen[p])
      BY <2>1 DEF RecountCommits
    <3>2. CASE recount.seen[p].total # 0
      BY <1>3, <2>1, <2>3, <3>1, <3>2 DEF SoldOut, Recounted, Pool
    <3> QED
      BY <3>2
  <2>5. Used(p) = Rows(p)
    <3>1. CASE Cardinality(Rows(p)) = 0
      BY <2>1, <2>2, <3>1, FS_EmptySet
    <3>2. CASE Cardinality(Used(p)) >= Cardinality(Rows(p))
      BY <2>1, <2>2, <3>2, FS_Subset
    <3>3. recount.seen[p].used \in Nat
      BY <2>3 DEF Pool
    <3> QED
      BY <2>2, <2>3, <2>4, <3>1, <3>2, <3>3
  <2> QED
    BY <2>1, <2>5, SameShelf DEF Used, Unused
<1>4. SoldOut' \in SUBSET Pools
  BY DEF SoldOut
<1> QED
  BY <1>2, <1>3, <1>4 DEF DispenserStep, Dispenser!Next, Dispenser!Review

LEMMA Dispenses ==
  ASSUME IInv, DrawInv, CountInv, LateIsUsed, [Next]_vars
  PROVE  [Dispenser!Next]_(Dispenser!vars)
<1>0. TypeOK
  BY DEF IInv
<1> SUFFICES DispenserStep
  BY DEF DispenserStep
<1>1. ASSUME NEW r \in Requests, QuietStep(r) \/ SpendingStep(r) PROVE DispenserStep
  BY <1>1, RequestServed, IssuedOnce
<1>2. ASSUME UNCHANGED <<code, pool, request, drawnBy>> PROVE DispenserStep
  BY <1>2, SameView DEF DispenserStep
<1>3. ASSUME NEW p \in Pools, ImportBegins(p) \/ ImportAborts(p) PROVE DispenserStep
  BY <1>2, <1>3 DEF ImportBegins, ImportAborts
<1>4. ASSUME NEW p \in Pools, ImportCommits(p) PROVE DispenserStep
  BY <1>4, Restocked
<1>5. CASE RecountLocks \/ RecountCounts \/ RecountFails \/ UNCHANGED vars
  BY <1>2, <1>5 DEF RecountLocks, RecountCounts, RecountFails, vars
<1>6. CASE RecountCommits
  BY <1>6, ReviewedRightly
<1>7. CASE ReleaseExpiredClaimTokens
  <2>1. \A d \in Codes : /\ code'[d].past = code[d].past
                         /\ code'[d].status = code[d].status
    BY <1>0, <1>7 DEF ReleaseExpiredClaimTokens, TypeOK, Code
  <2>2. UNCHANGED <<pool, request, drawnBy>>
    BY <1>7 DEF ReleaseExpiredClaimTokens
  <2>3. UNCHANGED Dispenser!vars
    BY <2>1, <2>2 DEF Dispenser!vars, Shelf, Late, Shown, Dry, Refused, SoldOut
  <2> QED
    BY <2>3 DEF DispenserStep
<1>8. ASSUME NEW c \in Codes, WindowPasses(c) PROVE DispenserStep
  <2>1. /\ \A d \in Codes : /\ code'[d].past <=> (code[d].past \/ d = c)
                            /\ code'[d].status = code[d].status
        /\ code[c].status = "used"
    BY <1>0, <1>8 DEF WindowPasses, TypeOK, Code
  <2>2. UNCHANGED <<pool, request, drawnBy>>
    BY <1>8 DEF WindowPasses
  <2>3. Late' = Late \cup {c} /\ Shelf' = Shelf /\ drawnBy[c] # NoRequest
    BY <2>1 DEF Late, Shelf, DrawInv, DrawnIsUsed
  <2>4. UNCHANGED <<Shown, Dry, Refused, SoldOut>>
    BY <2>2 DEF Shown, Dry, Refused, SoldOut
  <2> QED
    BY <2>2, <2>3, <2>4 DEF DispenserStep, Dispenser!Next, Dispenser!Expire
<1> QED
  BY <1>1, <1>3, <1>4, <1>5, <1>6, <1>7, <1>8
  DEF Next, Redeem, QuietStep, SpendingStep, Nightly

\* Visitors are served as CodeDispenser says: every statement of a request, an
\* import or a nightly job is one step of it or shows nothing.
THEOREM CodesAreDispensed == Spec => ImplementsDispenser
<1>1. Init => IInv /\ DrawInv /\ CountInv /\ LateIsUsed
  BY InvInit, DrawInit, CountInit, LateInit
<1>2. IInv /\ DrawInv /\ CountInv /\ LateIsUsed /\ [Next]_vars
        => (IInv /\ DrawInv /\ CountInv /\ LateIsUsed)'
  BY InvStep, DrawStep, CountStep, LateStep
<1>3. IInv /\ DrawInv /\ CountInv /\ LateIsUsed /\ [Next]_vars
        => [Dispenser!Next]_(Dispenser!vars)
  BY Dispenses
<1> QED
  BY <1>1, <1>2, <1>3, DispenserInit, PTL DEF Spec, ImplementsDispenser, Dispenser!Spec
=============================================================================
