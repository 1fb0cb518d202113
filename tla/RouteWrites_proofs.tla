-------------------------- MODULE RouteWrites_proofs --------------------------
(***************************************************************************)
(* Proofs about the document write pipeline, for any number of concurrent  *)
(* saves, documents, addresses and requests.  The inductive invariant is     *)
(* built in layers, each resting on those before it:                         *)
(*   Shape      where each save stands and what it remembers;                *)
(*   LocksInv   the advisory locks a save holds at each step: a page, a       *)
(*              redirect or an entity being saved holds the identity lock;    *)
(*   RowsInv    the rows it wrote and sees have the shapes of their schemas,  *)
(*              and are documents of its own lock domain;                     *)
(*   GraphInv   the active redirects, as committed, as each save sees them,   *)
(*              and as each validated save is about to make them, have no      *)
(*              circle;                                                      *)
(*   ClashInv   what a save sees has no more clashes than what is committed,  *)
(*              but between its page and the redirects it has yet to take     *)
(*              along;                                                       *)
(*   FollowInv  how far those redirects have been taken along;                *)
(*   SerialInv  what a save is about to write, and has written, would be       *)
(*              accepted by what is committed now, so that its commit is a      *)
(*              step of UrlSpace.                                             *)
(***************************************************************************)
EXTENDS RouteWrites, FiniteSetTheorems, TLAPS

(***************************************************************************)
(* The locks.                                                              *)
(***************************************************************************)
Places == {"idle", "lock", "validate", "write", "sync", "retire", "retarget", "alias",
           "commit"}
Following == {"sync", "retire", "retarget", "alias"}
\* The save has its locks.
Locked(w) == pc[w] \notin {"idle", "lock"}

Shape ==
  /\ locks \in [Domains -> Writers \cup {Free}]
  /\ pc \in [Writers -> Places]
  /\ req \in [Writers -> Menu \cup {NoRequest}]
  /\ DOMAIN takes = Writers /\ DOMAIN wrote = Writers /\ DOMAIN before = Writers
  /\ DOMAIN after = Writers /\ DOMAIN owner = Writers
  /\ DOMAIN owned = Writers /\ DOMAIN todo = Writers

HoldsNone(w) == \A d \in Domains: locks[d] # w

\* What a save holds while it takes its locks, and once it has them.
Taking(w) ==
  \/ takes[w] = LocksOf(Page(w)) /\ HoldsNone(w)
  \/ /\ Page(w) \in Redirects /\ takes[w] = <<"redirect">>
     /\ locks["identity"] = w /\ locks["redirect"] # w /\ locks["job"] # w

Taken(w) ==
  IF Page(w) \in Jobs
    THEN locks["job"] = w /\ locks["identity"] # w /\ locks["redirect"] # w
    ELSE /\ locks["identity"] = w /\ locks["job"] # w
         /\ Page(w) \in Redirects => locks["redirect"] = w

LocksOk(w) ==
  /\ pc[w] = "idle" => HoldsNone(w)
  /\ pc[w] # "idle" => req[w] \in Menu
  /\ pc[w] = "lock" => Taking(w)
  /\ Locked(w) => Taken(w)
  /\ pc[w] \in Following => Page(w) \in Pages

LocksInv == \A w \in Writers: LocksOk(w)

LEMMA Menus ==
  ASSUME NEW q \in Menu
  PROVE  /\ q.act \in {"create", "clone", "update", "delete"}
         /\ q.doc \in Docs
         /\ q.act = "delete" => q.doc \in Pages
  BY MenuIsRequests DEF IsRequest

LEMMA Sequences ==
  /\ Head(<<"identity", "redirect">>) = "identity"
  /\ Tail(<<"identity", "redirect">>) = <<"redirect">>
  /\ Head(<<"redirect">>) = "redirect" /\ Tail(<<"redirect">>) = << >>
  /\ Head(<<"job">>) = "job" /\ Tail(<<"job">>) = << >>
  /\ Head(<<"identity">>) = "identity" /\ Tail(<<"identity">>) = << >>
  /\ <<"redirect">> # << >>
  /\ <<"identity", "redirect">> \notin {<<"identity">>, <<"redirect">>, <<"job">>}
  /\ <<"identity">> \notin {<<"redirect">>, <<"job">>}
  OBVIOUS

\* What becomes of where one save stands, and of who has a lock.
PcIs(w, place) ==
  /\ pc' \in [Writers -> Places]
  /\ \A v \in Writers \ {w}: pc'[v] = pc[v]
  /\ pc'[w] = place

LockIs(d, w) ==
  /\ locks' \in [Domains -> Writers \cup {Free}]
  /\ \A c \in Domains \ {d}: locks'[c] = locks[c]
  /\ locks'[d] = w

LEMMA GoesTo ==
  ASSUME Shape, NEW w \in Writers, NEW place \in Places, Goes(w, place)
  PROVE  PcIs(w, place)
  BY SMT DEF Shape, Goes, PcIs

LEMMA StaysAt ==
  ASSUME Shape, NEW w \in Writers, UNCHANGED pc
  PROVE  PcIs(w, pc[w])
  BY SMT DEF Shape, PcIs

LEMMA GetsLock ==
  ASSUME Shape, NEW w \in Writers, NEW d \in Domains, locks' = [locks EXCEPT ![d] = w]
  PROVE  LockIs(d, w)
  BY SMT DEF Shape, LockIs

\* The steps of a save that has its locks, up to its end.
Proceeds(w) ==
  \/ Validate(w) \/ Write(w) \/ PageUnchanged(w) \/ ReadOwned(w) \/ Retire(w)
  \/ Retired(w) \/ Retarget(w) \/ Retargeted(w) \/ CreateAlias(w)

LEMMA ProceedsEffect ==
  ASSUME Shape, NEW w \in Writers, Proceeds(w)
  PROVE  /\ Locked(w) /\ pc[w] # "commit"
         /\ \/ pc[w] = "write" /\ Page(w) \in Pages /\ PcIs(w, "sync")
            \/ pc[w] \in Following /\ \E place \in Following: PcIs(w, place)
            \/ \E place \in {"write", "commit"}: PcIs(w, place)
         /\ \/ locks' = locks
            \/ LockIs("redirect", w) /\ locks["redirect"] \in {Free, w} /\ pc[w] \in Following
         /\ UNCHANGED <<table, twinned, req, takes>>
<1> DEFINE Moves ==
      \/ pc[w] = "write" /\ Page(w) \in Pages /\ PcIs(w, "sync")
      \/ pc[w] \in Following /\ \E place \in Following: PcIs(w, place)
      \/ \E place \in {"write", "commit"}: PcIs(w, place)
           Locks ==
      \/ locks' = locks
      \/ LockIs("redirect", w) /\ locks["redirect"] \in {Free, w} /\ pc[w] \in Following
<1>0. /\ {"write", "commit"} \cup Following \subseteq Places
      /\ "redirect" \in Domains
      /\ {"sync", "retire", "retarget", "alias"} = Following
  BY DEF Places, Following, Domains
<1>1. CASE Validate(w)
  BY <1>1, <1>0, GoesTo, Zenon DEF Validate, Locked, transaction
<1>2. CASE Write(w)
  BY <1>2, <1>0, GoesTo, Zenon DEF Write, Locked, Page
<1>3. CASE PageUnchanged(w)
  BY <1>3, <1>0, GoesTo, Zenon DEF PageUnchanged, Locked, transaction
<1>4. CASE ReadOwned(w)
  <2>1. PcIs(w, "retire")
    BY <1>4, <1>0, GoesTo, Zenon DEF ReadOwned
  <2>2. QED
    BY <1>4, <1>0, <2>1, Zenon DEF ReadOwned, Locked
<1>5. CASE Retire(w)
  <2>1. PcIs(w, pc[w]) /\ pc[w] = "retire"
    BY <1>5, StaysAt, Zenon DEF Retire
  <2>2. UNCHANGED <<table, twinned, req, takes>> /\ Locks
    BY <1>5, <1>0, <2>1, GetsLock, Zenon DEF Retire, UpdatesOwned, SavesRedirect, Passes
  <2>3. QED
    BY <1>0, <2>1, <2>2, Zenon DEF Locked
<1>6. CASE Retired(w)
  <2>1. pc[w] = "retire" /\ (PcIs(w, "retarget") \/ PcIs(w, "commit"))
    BY <1>6, <1>0, GoesTo, Zenon DEF Retired
  <2>2. UNCHANGED <<table, twinned, req, takes, locks>>
    BY <1>6, Zenon DEF Retired, Passes
  <2>3. QED
    BY <1>0, <2>1, <2>2, Zenon DEF Locked
<1>7. CASE Retarget(w)
  <2>1. PcIs(w, pc[w]) /\ pc[w] = "retarget"
    BY <1>7, StaysAt, Zenon DEF Retarget
  <2>2. UNCHANGED <<table, twinned, req, takes>> /\ Locks
    BY <1>7, <1>0, <2>1, GetsLock, Zenon DEF Retarget, UpdatesOwned, SavesRedirect, Passes
  <2>3. QED
    BY <1>0, <2>1, <2>2, Zenon DEF Locked
<1>8. CASE Retargeted(w)
  <2>1. pc[w] = "retarget" /\ (PcIs(w, "alias") \/ PcIs(w, "commit"))
    BY <1>8, <1>0, GoesTo, Zenon DEF Retargeted
  <2>2. UNCHANGED <<table, twinned, req, takes, locks>>
    BY <1>8, Zenon DEF Retargeted, transaction
  <2>3. QED
    BY <1>0, <2>1, <2>2, Zenon DEF Locked
<1>9. CASE CreateAlias(w)
  <2>1. pc[w] = "alias" /\ PcIs(w, "commit")
    BY <1>9, <1>0, GoesTo, Zenon DEF CreateAlias
  <2>2. UNCHANGED <<table, twinned, req, takes>> /\ Locks
    BY <1>9, <1>0, <2>1, GetsLock, Zenon DEF CreateAlias, SavesRedirect
  <2>3. QED
    BY <1>0, <2>1, <2>2, Zenon DEF Locked
<1>10. QED
  BY <1>1, <1>2, <1>3, <1>4, <1>5, <1>6, <1>7, <1>8, <1>9 DEF Proceeds

LEMMA OthersKeepLocks ==
  ASSUME LocksInv, NEW v \in Writers, pc'[v] = pc[v], req'[v] = req[v],
         takes'[v] = takes[v], \A d \in Domains: locks'[d] = v <=> locks[d] = v
  PROVE  LocksOk(v)'
  BY Zenon DEF LocksInv, LocksOk, HoldsNone, Taking, Taken, Locked, Page, Domains

LEMMA LocksInit == Init => Shape /\ LocksInv
  BY FreeIsNoWriter, SMT DEF Init, Shape, LocksInv, LocksOk, HoldsNone, Locked, Places, Following

LEMMA LocksNext ==
  ASSUME Shape, LocksInv, [Next]_vars
  PROVE  LocksInv'
<1>1. ASSUME NEW w \in Writers, Begin(w)
      PROVE  LocksInv'
  BY <1>1, SMT
     DEF Begin, Goes, Shape, LocksInv, LocksOk, HoldsNone, Taking, Taken, Locked, Page, Following
<1>2. ASSUME NEW w \in Writers, TakeLock(w)
      PROVE  LocksInv'
  <2>0. {"identity", "redirect", "job"} \subseteq Domains /\ {"lock", "validate"} \subseteq Places
    BY DEF Domains, Places
  <2>1. pc[w] = "lock" /\ Taking(w) /\ req[w] \in Menu
    BY <1>2, Zenon DEF TakeLock, LocksInv, LocksOk
  <2>2. CASE takes[w] = <<"identity", "redirect">>
    <3>1. /\ locks["identity"] = Free /\ LockIs("identity", w) /\ PcIs(w, "lock")
          /\ takes' = [takes EXCEPT ![w] = <<"redirect">>] /\ req' = req
      BY <1>2, <2>0, <2>2, Sequences, GetsLock, GoesTo, Zenon DEF TakeLock
    <3>0. Page(w) \in Redirects /\ HoldsNone(w)
      BY <2>1, <2>2, Sequences, Zenon DEF Taking, LocksOf
    <3>2. LocksOk(w)'
      BY <2>1, <2>2, <3>0, <3>1, KindsOfDocs, SMT
      DEF Shape, Domains, LocksOk, HoldsNone, Taking, Taken, LocksOf, Locked, Page, PcIs,
          LockIs, Following
    <3>3. ASSUME NEW v \in Writers, v # w
          PROVE  LocksOk(v)'
      <4>1. /\ pc'[v] = pc[v] /\ req'[v] = req[v] /\ takes'[v] = takes[v]
            /\ \A c \in Domains: locks'[c] = v <=> locks[c] = v
        BY <3>1, <3>3, FreeIsNoWriter, SMT DEF PcIs, LockIs, Shape
      <4>2. QED
        BY <4>1, OthersKeepLocks
    <3>4. QED
      BY <3>2, <3>3 DEF LocksInv
  <2>3. CASE takes[w] = <<"redirect">>
    <3>1. /\ locks["redirect"] = Free /\ LockIs("redirect", w) /\ PcIs(w, "validate")
          /\ takes' = [takes EXCEPT ![w] = << >>] /\ req' = req
      BY <1>2, <2>0, <2>3, Sequences, GetsLock, GoesTo, Zenon DEF TakeLock
    <3>2. LocksOk(w)'
      BY <2>1, <2>3, <3>1, KindsOfDocs, SMT
      DEF Shape, Domains, LocksOk, HoldsNone, Taking, Taken, LocksOf, Locked, Page, PcIs,
          LockIs, Following
    <3>3. ASSUME NEW v \in Writers, v # w
          PROVE  LocksOk(v)'
      <4>1. /\ pc'[v] = pc[v] /\ req'[v] = req[v] /\ takes'[v] = takes[v]
            /\ \A c \in Domains: locks'[c] = v <=> locks[c] = v
        BY <3>1, <3>3, FreeIsNoWriter, SMT DEF PcIs, LockIs, Shape
      <4>2. QED
        BY <4>1, OthersKeepLocks
    <3>4. QED
      BY <3>2, <3>3 DEF LocksInv
  <2>4. CASE takes[w] = <<"job">>
    <3>1. /\ locks["job"] = Free /\ LockIs("job", w) /\ PcIs(w, "validate")
          /\ takes' = [takes EXCEPT ![w] = << >>] /\ req' = req
      BY <1>2, <2>0, <2>4, Sequences, GetsLock, GoesTo, Zenon DEF TakeLock
    <3>2. LocksOk(w)'
      BY <2>1, <2>4, <3>1, KindsOfDocs, SMT
      DEF Shape, Domains, LocksOk, HoldsNone, Taking, Taken, LocksOf, Locked, Page, PcIs,
          LockIs, Following
    <3>3. ASSUME NEW v \in Writers, v # w
          PROVE  LocksOk(v)'
      <4>1. /\ pc'[v] = pc[v] /\ req'[v] = req[v] /\ takes'[v] = takes[v]
            /\ \A c \in Domains: locks'[c] = v <=> locks[c] = v
        BY <3>1, <3>3, FreeIsNoWriter, SMT DEF PcIs, LockIs, Shape
      <4>2. QED
        BY <4>1, OthersKeepLocks
    <3>4. QED
      BY <3>2, <3>3 DEF LocksInv
  <2>5. CASE takes[w] = <<"identity">>
    <3>1. /\ locks["identity"] = Free /\ LockIs("identity", w) /\ PcIs(w, "validate")
          /\ takes' = [takes EXCEPT ![w] = << >>] /\ req' = req
      BY <1>2, <2>0, <2>5, Sequences, GetsLock, GoesTo, Zenon DEF TakeLock
    <3>0. Page(w) \notin Redirects \cup Jobs /\ HoldsNone(w)
      BY <2>1, <2>5, Sequences, Zenon DEF Taking, LocksOf
    <3>2. LocksOk(w)'
      BY <2>1, <2>5, <3>0, <3>1, KindsOfDocs, SMT
      DEF Shape, Domains, LocksOk, HoldsNone, Taking, Taken, LocksOf, Locked, Page, PcIs,
          LockIs, Following
    <3>3. ASSUME NEW v \in Writers, v # w
          PROVE  LocksOk(v)'
      <4>1. /\ pc'[v] = pc[v] /\ req'[v] = req[v] /\ takes'[v] = takes[v]
            /\ \A c \in Domains: locks'[c] = v <=> locks[c] = v
        BY <3>1, <3>3, FreeIsNoWriter, SMT DEF PcIs, LockIs, Shape
      <4>2. QED
        BY <4>1, OthersKeepLocks
    <3>4. QED
      BY <3>2, <3>3 DEF LocksInv
  <2>6. QED
    BY <2>1, <2>2, <2>3, <2>4, <2>5, Zenon DEF Taking, LocksOf
<1>3. ASSUME NEW w \in Writers, Proceeds(w)
      PROVE  LocksInv'
  BY <1>3, ProceedsEffect, KindsOfDocs, FreeIsNoWriter, SMT
     DEF Shape, Domains, LocksInv, LocksOk, HoldsNone, Taking, Taken, Locked, Page, Following,
         PcIs, LockIs
<1>4. ASSUME NEW w \in Writers, Ends(w)
      PROVE  LocksInv'
  BY <1>4, FreeIsNoWriter, SMT
     DEF Ends, Goes, Shape, Domains, LocksInv, LocksOk, HoldsNone, Taking, Taken, Locked, Page,
         Following
<1>5. ASSUME UNCHANGED <<locks, pc, req, takes>>
      PROVE  LocksInv'
  BY <1>5, SMT DEF LocksInv, LocksOk, HoldsNone, Taking, Taken, Locked, Page
<1>6. QED
  BY <1>1, <1>2, <1>3, <1>4, <1>5, Zenon
     DEF Next, Proceeds, Commit, Abort, Delete, transaction, vars

(***************************************************************************)
(* What a transaction sees.                                                *)
(***************************************************************************)
\* The rows written before the commit, and the content with them.
WroteIs(w, d, row) ==
  /\ DOMAIN wrote' = Writers
  /\ \A v \in Writers \ {w}: wrote'[v] = wrote[v]
  /\ DOMAIN wrote'[w] = DOMAIN wrote[w] \cup {d}
  /\ wrote'[w][d] = row
  /\ \A c \in DOMAIN wrote[w] \ {d}: wrote'[w][c] = wrote[w][c]

\* Table u is table t but for the row of d.
ButFor(u, t, d, row) ==
  /\ DOMAIN u = Docs /\ u[d] = row
  /\ \A c \in Docs \ {d}: u[c] = t[c]

SameTable(u, t) == DOMAIN u = Docs /\ \A d \in Docs: u[d] = t[d]

LEMMA TableRows ==
  ASSUME NEW t, DOMAIN t = Docs
  PROVE  IsTable(t) <=> \A d \in Docs: t[d] \in RowsOf(d) \cup {Absent}
  BY KindsOfDocs, SMT DEF IsTable, RowsOf, Docs

LEMMA Writes ==
  ASSUME Shape, NEW w \in Writers, NEW d, NEW row, Wrote(w, d, row)
  PROVE  WroteIs(w, d, row)
  BY SMT DEF Shape, Wrote, WroteIs

LEMMA ViewWritten ==
  ASSUME NEW w \in Writers, NEW d \in Docs, NEW row, WroteIs(w, d, row), UNCHANGED table
  PROVE  /\ ButFor(View(w)', View(w), d, row)
         /\ \A v \in Writers \ {w}: View(v)' = View(v)
<1>1. \A v \in Writers \ {w}: View(v)' = View(v)
  BY Zenon DEF View, WroteIs
<1>2. ButFor(View(w)', View(w), d, row)
  BY SMT DEF View, WroteIs, ButFor
<1>3. QED
  BY <1>1, <1>2

LEMMA ViewKept ==
  ASSUME NEW w \in Writers, wrote'[w] = wrote[w], UNCHANGED table
  PROVE  View(w)' = View(w)
  BY Zenon DEF View

LEMMA ViewFresh ==
  ASSUME NEW w \in Writers, DOMAIN wrote[w] = {}
  PROVE  SameTable(View(w), table)
  BY SMT DEF View, SameTable

LEMMA ViewDeleted ==
  ASSUME NEW d \in Docs, Delete(d), NEW w \in Writers, DOMAIN table = Docs
  PROVE  /\ ButFor(View(w)', View(w), d, Absent)
         /\ ButFor(table', table, d, Absent)
         /\ View(w)[d] = table[d]
<1>1. /\ d \notin DOMAIN wrote[w] /\ wrote' = wrote
      /\ table' = [table EXCEPT ![d] = Absent]
  BY Zenon DEF Delete, transaction
<1>2. QED
  BY <1>1, SMT DEF View, ButFor

LEMMA EndsEffect ==
  ASSUME Shape, NEW w \in Writers, Ends(w)
  PROVE  /\ PcIs(w, "idle") /\ DOMAIN wrote' = Writers /\ DOMAIN wrote'[w] = {}
         /\ \A v \in Writers \ {w}: /\ wrote'[v] = wrote[v] /\ before'[v] = before[v]
                                    /\ after'[v] = after[v] /\ owner'[v] = owner[v]
                                    /\ owned'[v] = owned[v] /\ todo'[v] = todo[v]
                                    /\ req'[v] = req[v]
<1>1. PcIs(w, "idle")
  BY GoesTo, Zenon DEF Ends, Places
<1>2. QED
  BY <1>1, SMT DEF Shape, Ends, NoRows

(***************************************************************************)
(* Shapes.                                                                 *)
(***************************************************************************)
LEMMA ShapeNext ==
  ASSUME Shape, LocksInv, [Next]_vars
  PROVE  Shape'
<1>0. {"idle", "lock", "validate"} \subseteq Places
  BY DEF Places
<1>1. ASSUME NEW w \in Writers, Begin(w)
      PROVE  Shape'
  <2>1. PICK q \in Menu: req' = [req EXCEPT ![w] = q] /\ takes' = [takes EXCEPT ![w] = LocksOf(q.doc)]
    BY <1>1, Zenon DEF Begin
  <2>2. PcIs(w, "lock") /\ UNCHANGED <<locks, wrote, before, after, owner, owned, todo>>
    BY <1>0, <1>1, GoesTo, Zenon DEF Begin
  <2>3. req' \in [Writers -> Menu \cup {NoRequest}]
    BY <2>1, SMT DEF Shape
  <2>4. DOMAIN takes' = Writers
    BY <2>1, SMT DEF Shape
  <2>5. QED
    BY <2>2, <2>3, <2>4, Zenon DEF Shape, PcIs
<1>2. ASSUME NEW w \in Writers, TakeLock(w)
      PROVE  Shape'
  <2>1. Taking(w)
    BY <1>2, Zenon DEF TakeLock, LocksInv, LocksOk
  <2>2. Head(takes[w]) \in Domains
    BY <2>1, Sequences, SMT DEF Taking, LocksOf, Domains
  <2>3. PcIs(w, "validate") \/ PcIs(w, "lock")
    BY <1>0, <1>2, GoesTo, Zenon DEF TakeLock
  <2>4. LockIs(Head(takes[w]), w)
    BY <1>2, <2>2, GetsLock, Zenon DEF TakeLock
  <2>5. /\ takes' = [takes EXCEPT ![w] = Tail(takes[w])]
        /\ UNCHANGED <<req, wrote, before, after, owner, owned, todo>>
    BY <1>2, Zenon DEF TakeLock
  <2>6. QED
    BY <2>2, <2>3, <2>4, <2>5, SMT DEF Shape, PcIs, LockIs
<1>3. ASSUME NEW w \in Writers, Proceeds(w)
      PROVE  Shape'
  <2>1. /\ pc' \in [Writers -> Places] /\ locks' \in [Domains -> Writers \cup {Free}]
        /\ UNCHANGED <<req, takes>>
    BY <1>3, ProceedsEffect, SMT DEF PcIs, LockIs, Shape
  <2>2. /\ wrote' = wrote \/ \E d, row: Wrote(w, d, row)
        /\ before' = before \/ \E x: before' = [before EXCEPT ![w] = x]
        /\ after' = after \/ \E x: after' = [after EXCEPT ![w] = x]
        /\ owner' = owner \/ \E x: owner' = [owner EXCEPT ![w] = x]
        /\ owned' = owned \/ \E x: owned' = [owned EXCEPT ![w] = x]
        /\ todo' = todo \/ \E x: todo' = [todo EXCEPT ![w] = x]
    BY <1>3, Zenon
       DEF Proceeds, Validate, Write, PageUnchanged, ReadOwned, Retire, Retired, Retarget,
           Retargeted, CreateAlias, transaction, Passes, UpdatesOwned, SavesRedirect
  <2>3. /\ DOMAIN wrote' = Writers /\ DOMAIN before' = Writers
        /\ DOMAIN after' = Writers /\ DOMAIN owner' = Writers
        /\ DOMAIN owned' = Writers /\ DOMAIN todo' = Writers
    <3>1. DOMAIN wrote' = Writers
      BY <2>2, Zenon DEF Shape, Wrote
    <3>2. DOMAIN before' = Writers
      BY <2>2, Zenon DEF Shape
    <3>3. DOMAIN after' = Writers
      BY <2>2, Zenon DEF Shape
    <3>4. DOMAIN owner' = Writers
      BY <2>2, Zenon DEF Shape
    <3>5. DOMAIN owned' = Writers
      BY <2>2, Zenon DEF Shape
    <3>6. DOMAIN todo' = Writers
      BY <2>2, Zenon DEF Shape
    <3>7. QED
      BY <3>1, <3>2, <3>3, <3>4, <3>5, <3>6
  <2>4. QED
    BY <2>1, <2>2, <2>3, Zenon DEF Shape
<1>4. ASSUME NEW w \in Writers, Ends(w)
      PROVE  Shape'
  <2>1. PcIs(w, "idle")
    BY <1>4, EndsEffect
  <2>2. /\ locks' \in [Domains -> Writers \cup {Free}]
        /\ req' \in [Writers -> Menu \cup {NoRequest}]
    BY <1>4, SMT DEF Ends, Shape
  <2>3. /\ DOMAIN wrote' = Writers /\ DOMAIN before' = Writers /\ DOMAIN takes' = Writers
        /\ DOMAIN after' = Writers /\ DOMAIN owner' = Writers
        /\ DOMAIN owned' = Writers /\ DOMAIN todo' = Writers
    BY <1>4, SMT DEF Ends, Shape
  <2>4. QED
    BY <2>1, <2>2, <2>3 DEF Shape, PcIs
<1>5. ASSUME UNCHANGED <<locks, pc, transaction>>
      PROVE  Shape'
  BY <1>5, Zenon DEF Shape, transaction
<1>6. QED
  BY <1>1, <1>2, <1>3, <1>4, <1>5, Zenon
     DEF Next, Proceeds, Commit, Abort, Delete, transaction, vars

(***************************************************************************)
(* What the steps write.                                                   *)
(***************************************************************************)
\* A redirect saved inside the transaction of a page.
NestedSave(w, r, row, touched, stored, isNew) ==
  /\ ~RedirectRefuses(View(w), r, row, touched, stored, isNew, req[w].human)
  /\ ~ShadowsPage(View(w), row, touched)
  /\ WroteIs(w, r, row)

RetiredRow(w, r) == Merge(View(w)[r], [active |-> FALSE])
RetargetedRow(w, r) == Merge(View(w)[r], [to |-> NewPath(w), active |-> TRUE])

\* One of the page's redirects is done.
TodoDone(w, r) ==
  /\ r \in todo[w]
  /\ todo'[w] = todo[w] \ {r}
  /\ \A v \in Writers \ {w}: todo'[v] = todo[v]

LEMMA Payloads ==
  /\ DOMAIN [active |-> FALSE] = {"active"}
  /\ \A path: DOMAIN [to |-> path, active |-> TRUE] = {"to", "active"}
  OBVIOUS

LEMMA QuietEffect ==
  ASSUME NEW w \in Writers,
         \/ Begin(w) \/ TakeLock(w) \/ Validate(w) \/ PageUnchanged(w) \/ ReadOwned(w)
         \/ Retired(w) \/ Retargeted(w)
  PROVE  UNCHANGED <<table, twinned, wrote>>
  BY Zenon DEF Begin, TakeLock, Validate, PageUnchanged, ReadOwned, Retired, Retargeted,
               transaction, Passes

LEMMA WriteEffect ==
  ASSUME Shape, NEW w \in Writers, Write(w)
  PROVE  /\ pc[w] = "write" /\ SourceStands(req[w])
         /\ WroteIs(w, Page(w), Result(w))
         /\ IF Page(w) \in Pages THEN PcIs(w, "sync") ELSE PcIs(w, "commit")
         /\ UNCHANGED <<table, twinned, req, owned, todo>>
<1>1. WroteIs(w, Page(w), Result(w))
  BY Writes, Zenon DEF Write
<1>2. IF Page(w) \in Pages THEN PcIs(w, "sync") ELSE PcIs(w, "commit")
  BY GoesTo, Zenon DEF Write, Places
<1>3. QED
  BY <1>1, <1>2, Zenon DEF Write

\* The page the save of a page finds before and after it wrote.
LEMMA WriteFinds ==
  ASSUME Shape, NEW w \in Writers, Write(w), DOMAIN table = Docs, Page(w) \in Docs
  PROVE  /\ \E b \in Found(table, Page(w)): before'[w] = table[b]
         /\ \E new: /\ ButFor(new, table, Page(w), Result(w))
                    /\ owner'[w] \in Found(new, Page(w)) /\ after'[w] = new[owner'[w]]
<1>1. \E b \in Found(table, Page(w)): before'[w] = table[b]
  <2>1. PICK b \in Found(table, Page(w)): before' = [before EXCEPT ![w] = table[b]]
    BY Zenon DEF Write
  <2>2. before'[w] = table[b]
    BY <2>1, SMT DEF Shape
  <2>3. QED
    BY <2>2, Zenon
<1>2. \E new: /\ ButFor(new, table, Page(w), Result(w))
             /\ owner'[w] \in Found(new, Page(w)) /\ after'[w] = new[owner'[w]]
  <2> DEFINE new == [table EXCEPT ![Page(w)] = Result(w)]
  <2>1. ButFor(new, table, Page(w), Result(w))
    BY SMT DEF ButFor
  <2>2. \E p \in Found(new, Page(w)):
          after' = [after EXCEPT ![w] = new[p]] /\ owner' = [owner EXCEPT ![w] = p]
    BY Zenon DEF Write
  <2> HIDE DEF new
  <2>3. PICK p \in Found(new, Page(w)):
          after' = [after EXCEPT ![w] = new[p]] /\ owner' = [owner EXCEPT ![w] = p]
    BY <2>2
  <2>4. after'[w] = new[p] /\ owner'[w] = p
    BY <2>3, SMT DEF Shape
  <2>5. QED
    BY <2>1, <2>3, <2>4, Zenon
<1>3. QED
  BY <1>1, <1>2

LEMMA RetireEffect ==
  ASSUME Shape, NEW w \in Writers, Retire(w)
  PROVE  /\ pc[w] = "retire" /\ PcIs(w, "retire")
         /\ \E r \in todo[w]:
              /\ TodoDone(w, r)
              /\ \/ /\ View(w)[r] # Absent
                    /\ NestedSave(w, r, RetiredRow(w, r), {"active"}, View(w)[r], FALSE)
                 \/ View(w)[r] = Absent /\ UNCHANGED wrote
         /\ UNCHANGED <<table, twinned, req, before, after, owner, owned>>
<1>1. PICK r \in todo[w]:
        /\ \/ UpdatesOwned(w, r, [active |-> FALSE])
           \/ View(w)[r] = Absent /\ Passes(w)
        /\ todo' = [todo EXCEPT ![w] = todo[w] \ {r}]
  BY Zenon DEF Retire
<1>2. pc[w] = "retire" /\ PcIs(w, "retire")
  BY StaysAt, Zenon DEF Retire
<1>3. TodoDone(w, r)
  BY <1>1, SMT DEF TodoDone, Shape
<1>4. /\ \/ /\ View(w)[r] # Absent
            /\ NestedSave(w, r, RetiredRow(w, r), {"active"}, View(w)[r], FALSE)
         \/ View(w)[r] = Absent /\ UNCHANGED wrote
      /\ UNCHANGED <<table, twinned, req, before, after, owner, owned>>
  BY <1>1, Writes, Payloads, Zenon
     DEF UpdatesOwned, SavesRedirect, NestedSave, RetiredRow, Passes
<1>5. QED
  BY <1>1, <1>2, <1>3, <1>4, Zenon

LEMMA RetargetEffect ==
  ASSUME Shape, NEW w \in Writers, Retarget(w)
  PROVE  /\ pc[w] = "retarget" /\ PcIs(w, "retarget")
         /\ \E r \in todo[w]:
              /\ TodoDone(w, r)
              /\ \/ /\ View(w)[r] # Absent
                    /\ NestedSave(w, r, RetargetedRow(w, r), {"to", "active"}, View(w)[r],
                                  FALSE)
                 \/ /\ MayPass(w, r)
                    /\ UNCHANGED wrote
         /\ UNCHANGED <<table, twinned, req, before, after, owner, owned>>
<1>1. PICK r \in todo[w]:
        /\ \/ MayLead(w, r) /\ UpdatesOwned(w, r, [to |-> NewPath(w), active |-> TRUE])
           \/ MayPass(w, r) /\ Passes(w)
        /\ todo' = [todo EXCEPT ![w] = todo[w] \ {r}]
  BY Zenon DEF Retarget
<1>2. pc[w] = "retarget" /\ PcIs(w, "retarget")
  BY StaysAt, Zenon DEF Retarget
<1>3. TodoDone(w, r)
  BY <1>1, SMT DEF TodoDone, Shape
<1>4. /\ \/ /\ View(w)[r] # Absent
            /\ NestedSave(w, r, RetargetedRow(w, r), {"to", "active"}, View(w)[r], FALSE)
         \/ /\ MayPass(w, r)
            /\ UNCHANGED wrote
      /\ UNCHANGED <<table, twinned, req, before, after, owner, owned>>
  BY <1>1, Writes, Payloads, Zenon
     DEF UpdatesOwned, SavesRedirect, NestedSave, RetargetedRow, Passes
<1>5. QED
  BY <1>1, <1>2, <1>3, <1>4, Zenon

LEMMA AliasEffect ==
  ASSUME Shape, NEW w \in Writers, CreateAlias(w)
  PROVE  /\ pc[w] = "alias" /\ PcIs(w, "commit")
         /\ \E r \in Redirects:
              /\ View(w)[r] = Absent
              /\ NestedSave(w, r, AliasRow(w), DOMAIN AliasRow(w), Absent, TRUE)
         /\ UNCHANGED <<table, twinned, req, before, after, owner, owned, todo>>
<1>1. pc[w] = "alias" /\ PcIs(w, "commit")
  BY GoesTo, Zenon DEF CreateAlias, Places
<1>2. QED
  BY <1>1, Writes, Zenon DEF CreateAlias, SavesRedirect, NestedSave

LEMMA ReadOwnedEffect ==
  ASSUME Shape, NEW w \in Writers, ReadOwned(w)
  PROVE  /\ pc[w] = "sync" /\ PcIs(w, "retire")
         /\ owned'[w] = [r \in OwnedBy(View(w), owner[w]) |-> View(w)[r]]
         /\ todo'[w] = {r \in OwnedBy(View(w), owner[w]):
                          Leads(w) => View(w)[r].from = NewPath(w)}
         /\ \A v \in Writers \ {w}: owned'[v] = owned[v] /\ todo'[v] = todo[v]
         /\ UNCHANGED <<table, twinned, req, wrote, before, after, owner>>
<1>1. pc[w] = "sync" /\ PcIs(w, "retire") /\ UNCHANGED <<table, twinned, req, wrote, before, after, owner>>
  BY GoesTo, Zenon DEF ReadOwned, Places
<1>2. /\ owned'[w] = [r \in OwnedBy(View(w), owner[w]) |-> View(w)[r]]
      /\ \A v \in Writers \ {w}: owned'[v] = owned[v]
  <2> DEFINE o == [r \in OwnedBy(View(w), owner[w]) |-> View(w)[r]]
  <2>1. owned' = [owned EXCEPT ![w] = o]
    BY Zenon DEF ReadOwned
  <2> HIDE DEF o
  <2>2. owned'[w] = o /\ \A v \in Writers \ {w}: owned'[v] = owned[v]
    BY <2>1, SMT DEF Shape
  <2>3. QED
    BY <2>2 DEF o
<1>3. /\ todo'[w] = {r \in OwnedBy(View(w), owner[w]):
                       Leads(w) => View(w)[r].from = NewPath(w)}
      /\ \A v \in Writers \ {w}: todo'[v] = todo[v]
  <2> DEFINE o == {r \in OwnedBy(View(w), owner[w]):
                     Leads(w) => View(w)[r].from = NewPath(w)}
  <2>1. todo' = [todo EXCEPT ![w] = o]
    BY Zenon DEF ReadOwned
  <2> HIDE DEF o
  <2>2. todo'[w] = o /\ \A v \in Writers \ {w}: todo'[v] = todo[v]
    BY <2>1, SMT DEF Shape
  <2>3. QED
    BY <2>2 DEF o
<1>4. QED
  BY <1>1, <1>2, <1>3

LEMMA RetiredEffect ==
  ASSUME Shape, NEW w \in Writers, Retired(w)
  PROVE  /\ pc[w] = "retire" /\ todo[w] = {}
         /\ \/ /\ Leads(w) /\ PcIs(w, "retarget")
               /\ todo'[w] = {r \in DOMAIN owned[w]: owned[w][r].from # NewPath(w)}
               /\ \A v \in Writers \ {w}: todo'[v] = todo[v]
            \/ ~Leads(w) /\ PcIs(w, "commit") /\ UNCHANGED todo
         /\ UNCHANGED <<table, twinned, req, wrote, before, after, owner, owned>>
<1> DEFINE o == {r \in DOMAIN owned[w]: owned[w][r].from # NewPath(w)}
<1>1. /\ pc[w] = "retire" /\ todo[w] = {}
      /\ \/ Leads(w) /\ Goes(w, "retarget") /\ todo' = [todo EXCEPT ![w] = o]
         \/ ~Leads(w) /\ Goes(w, "commit") /\ UNCHANGED todo
      /\ UNCHANGED <<table, twinned, req, wrote, before, after, owner, owned>>
  BY Zenon DEF Retired, Passes
<1> HIDE DEF o
<1>2. /\ Goes(w, "retarget") => PcIs(w, "retarget")
      /\ Goes(w, "commit") => PcIs(w, "commit")
  BY GoesTo, Zenon DEF Places
<1>3. todo' = [todo EXCEPT ![w] = o] =>
        todo'[w] = o /\ \A v \in Writers \ {w}: todo'[v] = todo[v]
  BY SMT DEF Shape
<1>4. QED
  BY <1>1, <1>2, <1>3, Zenon DEF o


(***************************************************************************)
(* The rows have the shapes of their schemas.                              *)
(***************************************************************************)
\* A save writes nothing before it is validated, then its document and, in its
\* domain, redirects.
WritesOk(w) ==
  /\ ~Locked(w) \/ pc[w] \in {"validate", "write"} => DOMAIN wrote[w] = {}
  /\ DOMAIN wrote[w] \subseteq Docs /\ DOMAIN wrote[w] \ Redirects \subseteq {Page(w)}
  /\ Locked(w) /\ Page(w) \in Jobs => DOMAIN wrote[w] \subseteq Jobs
  /\ Locked(w) /\ Page(w) \notin Jobs => DOMAIN wrote[w] \cap Jobs = {}
  /\ IsTable(View(w))

\* What the save of a page remembers while it takes the page's redirects along.
FollowOk(w) ==
  /\ pc[w] \in Following => /\ Page(w) \in DOMAIN wrote[w]
                            /\ before[w] \in PageRow \cup {Absent}
                            /\ after[w] \in PageRow \cup {Absent}
                            /\ owner[w] \in Pages
  /\ pc[w] \in Following \ {"sync"} => /\ owned[w] \in [DOMAIN owned[w] -> RedirectRow]
                                       /\ DOMAIN owned[w] \subseteq Redirects
                                       /\ todo[w] \subseteq DOMAIN owned[w]
  /\ pc[w] \in {"retarget", "alias"} => Leads(w)
  /\ pc[w] = "alias" => before[w] # Absent

RowsInv == IsTable(table) /\ \A w \in Writers: WritesOk(w) /\ FollowOk(w)

LEMMA RowsOfPages ==
  /\ \A p \in Pages: RowsOf(p) = PageRow /\ p \in Docs
  /\ \A r \in Redirects: RowsOf(r) = RedirectRow /\ r \in Docs
  BY KindsOfDocs, SMT DEF RowsOf, Docs

LEMMA EffectiveRows ==
  ASSUME NEW t, IsTable(t), NEW q \in Menu, q.act # "delete",
         q.act # "create" => t[q.source] # Absent
  PROVE  EffectiveRow(t, q) \in RowsOf(q.doc)
<1>1. IsRequest(q)
  BY MenuIsRequests
<1>2. CASE q.act = "create"
  BY <1>1, <1>2, Zenon DEF IsRequest, EffectiveRow
<1>3. CASE q.act \in {"clone", "update"}
  <2>1. q.source \in Docs /\ RowsOf(q.source) = RowsOf(q.doc) /\ q.act # "create"
    BY <1>1, <1>3, SMT DEF IsRequest
  <2>2. t[q.source] \in RowsOf(q.doc)
    BY <2>1, TableRows, SMT DEF IsTable
  <2>3. QED
    BY <1>1, <2>1, <2>2, Zenon DEF IsRequest, EffectiveRow
<1>4. QED
  BY <1>1, <1>2, <1>3, SMT DEF IsRequest

LEMMA TableWritten ==
  ASSUME NEW u, NEW t, IsTable(t), NEW d \in Docs, NEW row \in RowsOf(d) \cup {Absent},
         ButFor(u, t, d, row)
  PROVE  IsTable(u)
<1>1. DOMAIN u = Docs /\ DOMAIN t = Docs
  BY DEF ButFor, IsTable
<1>2. QED
  BY <1>1, TableRows, SMT DEF ButFor

LEMMA TableCopied ==
  ASSUME NEW u, NEW t, IsTable(t), SameTable(u, t)
  PROVE  IsTable(u)
  BY TableRows, SMT DEF SameTable, IsTable

LEMMA MergedRedirects ==
  ASSUME NEW row \in RedirectRow
  PROVE  /\ LET new == Merge(row, [active |-> FALSE])
            IN  /\ new \in RedirectRow
                /\ new.active = FALSE /\ new.from = row.from
                /\ new.managedBy = row.managedBy
         /\ \A path \in Paths:
              LET new == Merge(row, [to |-> path, active |-> TRUE])
              IN  /\ new \in RedirectRow
                  /\ new.active = TRUE /\ new.from = row.from /\ new.to = path
                  /\ new.managedBy = row.managedBy
<1>1. DOMAIN row = {"from", "to", "active", "managedBy"}
  BY DEF RedirectRow
<1>2. /\ Merge(row, [active |-> FALSE]).active = FALSE
      /\ Merge(row, [active |-> FALSE]).from = row.from
      /\ Merge(row, [active |-> FALSE]).managedBy = row.managedBy
  BY <1>1, Payloads, SMT DEF Merge
<1>3. Merge(row, [active |-> FALSE]) \in RedirectRow
  BY <1>1, Zenon DEF Merge, RedirectRow
<1>4. ASSUME NEW path \in Paths
      PROVE  /\ Merge(row, [to |-> path, active |-> TRUE]).active = TRUE
             /\ Merge(row, [to |-> path, active |-> TRUE]).from = row.from
             /\ Merge(row, [to |-> path, active |-> TRUE]).to = path
             /\ Merge(row, [to |-> path, active |-> TRUE]).managedBy = row.managedBy
  BY <1>1, Payloads, SMT DEF Merge
<1>5. ASSUME NEW path \in Paths
      PROVE  Merge(row, [to |-> path, active |-> TRUE]) \in RedirectRow
  BY <1>1, Zenon DEF Merge, RedirectRow
<1>6. QED
  BY <1>2, <1>3, <1>4, <1>5

\* A save that takes no step keeps what it wrote and remembers, whatever is
\* committed or deleted meanwhile.
Still(v) ==
  /\ pc'[v] = pc[v] /\ req'[v] = req[v] /\ wrote'[v] = wrote[v]
  /\ before'[v] = before[v] /\ after'[v] = after[v] /\ owner'[v] = owner[v]
  /\ owned'[v] = owned[v] /\ todo'[v] = todo[v]

LEMMA OthersRows ==
  ASSUME NEW v \in Writers, Still(v), WritesOk(v), FollowOk(v), IsTable(table)'
  PROVE  WritesOk(v)' /\ FollowOk(v)'
<1>1. IsTable(View(v))'
  <2>1. \A d \in Docs: View(v)'[d] = View(v)[d] \/ View(v)'[d] = table'[d]
    BY SMT DEF View, Still
  <2>2. DOMAIN View(v)' = Docs /\ DOMAIN View(v) = Docs /\ DOMAIN table' = Docs
    BY DEF View, IsTable
  <2>3. \A d \in Docs: View(v)[d] \in RowsOf(d) \cup {Absent} /\ table'[d] \in RowsOf(d) \cup {Absent}
    BY <2>2, TableRows, Zenon DEF WritesOk
  <2>4. \A d \in Docs: View(v)'[d] \in RowsOf(d) \cup {Absent}
    BY <2>1, <2>3, Zenon
  <2>5. QED
    BY <2>2, <2>4, TableRows, Zenon
<1>2. Locked(v)' = Locked(v) /\ Page(v)' = Page(v)
  BY Zenon DEF Still, Locked, Page
<1>3. WritesOk(v)'
  BY <1>1, <1>2, SMT DEF WritesOk, Still
<1>4. Leads(v)' = Leads(v)
  BY Zenon DEF Still, Leads
<1>5. {"sync", "retire", "retarget", "alias"} = Following
  BY DEF Following
<1>6. FollowOk(v)'
  BY <1>2, <1>4, <1>5, SMT DEF FollowOk, Still
<1>7. QED
  BY <1>3, <1>6

LEMMA RowsInit == Init => RowsInv
<1> SUFFICES ASSUME Init PROVE RowsInv
  OBVIOUS
<1>1. IsTable(table)
  BY LegacyIsContent DEF Init
<1>2. ASSUME NEW w \in Writers PROVE WritesOk(w) /\ FollowOk(w)
  <2>1. DOMAIN wrote[w] = {} /\ pc[w] = "idle"
    BY SMT DEF Init, NoRows
  <2>2. SameTable(View(w), table)
    BY <2>1, ViewFresh
  <2>3. IsTable(View(w))
    BY <1>1, <2>2, TableCopied
  <2>4. QED
    BY <2>1, <2>3, SMT DEF WritesOk, FollowOk, Locked, Following
<1>3. QED
  BY <1>1, <1>2 DEF RowsInv

\* A save that moves on without writing or forgetting.
LEMMA RowsQuiet ==
  ASSUME Shape, LocksInv, RowsInv, NEW w \in Writers, UNCHANGED <<table, wrote>>,
         DOMAIN wrote[w] = {} \/ (Locked(w) /\ pc[w] \notin {"validate", "write"} /\ Locked(w)'
                                  /\ pc'[w] \notin {"validate", "write"} /\ req' = req)
  PROVE  WritesOk(w)'
<1>1. View(w)' = View(w)
  BY ViewKept
<1>2. WritesOk(w)
  BY DEF RowsInv
<1>3. QED
  BY <1>1, <1>2, SMT DEF WritesOk, Page

LEMMA ResultRow ==
  ASSUME LocksInv, RowsInv, NEW w \in Writers, pc[w] = "write", SourceStands(req[w])
  PROVE  Result(w) \in RowsOf(Page(w)) \cup {Absent} /\ Page(w) \in Docs
<1>1. req[w] \in Menu
  BY DEF LocksInv, LocksOk
<1>2. QED
  BY <1>1, Menus, EffectiveRows, Zenon DEF RowsInv, Result, SourceStands, Page

LEMMA FoundPages ==
  ASSUME NEW t, NEW p \in Pages, NEW q \in Found(t, p)
  PROVE  q \in Pages
  BY SMT DEF Found, PagesOf, PagesIn

LEMMA RowsWrite ==
  ASSUME Shape, LocksInv, RowsInv, NEW w \in Writers, Write(w)
  PROVE  WritesOk(w)' /\ FollowOk(w)'
<1>0. pc[w] = "write" /\ SourceStands(req[w]) /\ DOMAIN table = Docs
  BY DEF Write, RowsInv, IsTable
<1>2. Result(w) \in RowsOf(Page(w)) \cup {Absent} /\ Page(w) \in Docs
  BY <1>0, ResultRow
<1>1. /\ WroteIs(w, Page(w), Result(w)) /\ UNCHANGED <<table, req>>
      /\ pc'[w] = (IF Page(w) \in Pages THEN "sync" ELSE "commit")
  BY WriteEffect, Zenon DEF PcIs
<1>3. IsTable(View(w))'
  BY <1>1, <1>2, ViewWritten, TableWritten, Zenon DEF RowsInv, WritesOk
<1>4. DOMAIN wrote'[w] = {Page(w)}
  BY <1>0, <1>1, SMT DEF RowsInv, WritesOk, WroteIs
<1>5. Page(w)' = Page(w)
  BY <1>1 DEF Page
<1>6. WritesOk(w)'
  BY <1>1, <1>2, <1>3, <1>4, <1>5, SMT DEF WritesOk, Locked
<1>7. ASSUME Page(w) \in Pages
      PROVE  /\ before'[w] \in PageRow \cup {Absent}
             /\ after'[w] \in PageRow \cup {Absent} /\ owner'[w] \in Pages
  <2>1. PICK b \in Found(table, Page(w)): before'[w] = table[b]
    BY <1>0, <1>2, WriteFinds, Zenon
  <2>2. b \in Pages
    BY <1>7, <2>1, FoundPages
  <2>3. PICK new: /\ ButFor(new, table, Page(w), Result(w))
                  /\ owner'[w] \in Found(new, Page(w)) /\ after'[w] = new[owner'[w]]
    BY <1>0, <1>2, WriteFinds, Zenon
  <2>4. owner'[w] \in Pages
    BY <1>7, <2>3, FoundPages
  <2>5. IsTable(new)
    BY <1>2, <2>3, TableWritten, Zenon DEF RowsInv
  <2>6. QED
    BY <2>1, <2>2, <2>3, <2>4, <2>5, Zenon DEF RowsInv, IsTable
<1>8. FollowOk(w)'
  BY <1>1, <1>4, <1>5, <1>7, SMT DEF FollowOk, Following
<1>9. QED
  BY <1>6, <1>8

\* A redirect of the page is saved, or turns out deleted.
LEMMA RowsNested ==
  ASSUME Shape, LocksInv, RowsInv, NEW w \in Writers, pc[w] \in Following,
         UNCHANGED <<table, req, before, after, owner, owned>>, pc'[w] \in (Following \ {"sync"}) \cup {"commit"},
         \/ UNCHANGED wrote
         \/ \E r \in Redirects, row \in RedirectRow: WroteIs(w, r, row)
  PROVE  /\ WritesOk(w)' /\ Leads(w)' = Leads(w) /\ Page(w)' = Page(w)
         /\ Page(w) \in DOMAIN wrote'[w]
<1>1. /\ Page(w) \in Pages /\ Page(w) \in DOMAIN wrote[w] /\ WritesOk(w) /\ Page(w)' = Page(w)
      /\ Page(w) \notin Redirects /\ Page(w) \notin Jobs /\ Page(w) \in Docs
  BY KindsOfDocs, SMT DEF LocksInv, LocksOk, RowsInv, FollowOk, Page, Docs
<1>2. Locked(w) /\ Locked(w)' /\ pc'[w] \notin {"validate", "write"}
      /\ pc[w] \notin {"validate", "write"}
  BY SMT DEF Locked, Following
<1>3. CASE UNCHANGED wrote
  <2>1. View(w)' = View(w)
    BY <1>3, ViewKept
  <2>2. QED
    BY <1>1, <1>2, <1>3, <2>1, SMT DEF WritesOk, Leads
<1>4. ASSUME NEW r \in Redirects, NEW row \in RedirectRow, WroteIs(w, r, row)
      PROVE  /\ WritesOk(w)' /\ Leads(w)' = Leads(w) /\ Page(w) \in DOMAIN wrote'[w]
  <2>1. r \in Docs /\ r \notin Jobs /\ RowsOf(r) = RedirectRow
    BY KindsOfDocs, RowsOfPages, SMT DEF Docs
  <2>2. ButFor(View(w)', View(w), r, row)
    BY <1>4, <2>1, ViewWritten
  <2>3. IsTable(View(w))'
    BY <1>1, <2>1, <2>2, TableWritten, Zenon DEF WritesOk
  <2>5. DOMAIN wrote'[w] = DOMAIN wrote[w] \cup {r}
    BY <1>4 DEF WroteIs
  <2>6. WritesOk(w)'
    BY <1>1, <1>2, <2>1, <2>3, <2>5, SMT DEF WritesOk
  <2>7. Leads(w)' = Leads(w)
    BY Zenon DEF Leads
  <2>8. QED
    BY <1>1, <2>5, <2>6, <2>7, SMT
<1>5. QED
  BY <1>1, <1>3, <1>4, Zenon

LEMMA RetiredRows ==
  ASSUME RowsInv, NEW w \in Writers, NEW r \in Redirects, View(w)[r] # Absent
  PROVE  /\ RetiredRow(w, r) \in RedirectRow /\ RetiredRow(w, r).active = FALSE
         /\ RetiredRow(w, r).from = View(w)[r].from
         /\ RetiredRow(w, r).managedBy = View(w)[r].managedBy
<1>1. View(w)[r] \in RedirectRow
  BY DEF RowsInv, WritesOk, IsTable
<1>2. QED
  BY <1>1, MergedRedirects, Zenon DEF RetiredRow

LEMMA NewPaths ==
  ASSUME RowsInv, NEW w \in Writers, pc[w] \in Following, Leads(w)
  PROVE  /\ after[w] \in PageRow /\ NewPath(w) \in Paths
         /\ Fold[NewPath(w)] = after[w].slug
<1>1. after[w] \in PageRow
  BY SMT DEF RowsInv, FollowOk, Leads
<1>2. after[w].slug \in Routes
  BY <1>1 DEF PageRow
<1>3. QED
  BY <1>1, <1>2, PathsOfPages DEF NewPath

LEMMA RetargetedRows ==
  ASSUME RowsInv, NEW w \in Writers, NEW r \in Redirects, View(w)[r] # Absent,
         pc[w] \in Following, Leads(w)
  PROVE  /\ RetargetedRow(w, r) \in RedirectRow /\ RetargetedRow(w, r).active = TRUE
         /\ RetargetedRow(w, r).from = View(w)[r].from
         /\ RetargetedRow(w, r).to = NewPath(w)
         /\ RetargetedRow(w, r).managedBy = View(w)[r].managedBy
<1>1. View(w)[r] \in RedirectRow
  BY DEF RowsInv, WritesOk, IsTable
<1>2. NewPath(w) \in Paths
  BY NewPaths
<1>3. QED
  BY <1>1, <1>2, MergedRedirects, Zenon DEF RetargetedRow

LEMMA AliasRows ==
  ASSUME RowsInv, NEW w \in Writers, pc[w] \in Following, Leads(w),
         before[w] \in PageRow
  PROVE  /\ AliasRow(w) \in RedirectRow
         /\ Source(AliasRow(w)) = before[w].slug
<1>1. NewPath(w) \in Paths
  BY NewPaths
<1>2. before[w].slug \in Routes
  BY DEF PageRow
<1>3. OldPath(w) \in Paths /\ Fold[OldPath(w)] = before[w].slug
  BY <1>2, PathsOfPages DEF OldPath
<1>4. owner[w] \in Pages
  BY DEF RowsInv, FollowOk
<1>5. QED
  BY <1>1, <1>3, <1>4, SMT DEF AliasRow, RedirectRow, Source

\* A step of the save w: what it did to the other saves is nothing, but for
\* what it committed.
LEMMA StepOfOne ==
  ASSUME Shape, NEW w \in Writers,
         \/ Begin(w) \/ TakeLock(w) \/ Proceeds(w) \/ Ends(w)
  PROVE  \A v \in Writers \ {w}: Still(v)
<1>0. {"lock", "validate"} \subseteq Places
  BY DEF Places
<1>1. CASE Begin(w)
  <2>1. PICK q \in Menu: req' = [req EXCEPT ![w] = q]
    BY <1>1, Zenon DEF Begin
  <2>2. PcIs(w, "lock") /\ UNCHANGED <<wrote, before, after, owner, owned, todo>>
    BY <1>0, <1>1, GoesTo, Zenon DEF Begin
  <2>3. QED
    BY <2>1, <2>2, SMT DEF Still, PcIs, Shape
<1>2. CASE TakeLock(w)
  <2>1. PcIs(w, "validate") \/ PcIs(w, "lock")
    BY <1>0, <1>2, GoesTo, Zenon DEF TakeLock
  <2>2. UNCHANGED <<req, wrote, before, after, owner, owned, todo>>
    BY <1>2, Zenon DEF TakeLock
  <2>3. QED
    BY <2>1, <2>2, SMT DEF Still, PcIs
<1>3. CASE Proceeds(w)
  <2>1. \A v \in Writers \ {w}: pc'[v] = pc[v] /\ req'[v] = req[v]
    BY <1>3, ProceedsEffect, SMT DEF PcIs
  <2>2. /\ wrote' = wrote \/ \E d, row: Wrote(w, d, row)
        /\ before' = before \/ \E x: before' = [before EXCEPT ![w] = x]
        /\ after' = after \/ \E x: after' = [after EXCEPT ![w] = x]
        /\ owner' = owner \/ \E x: owner' = [owner EXCEPT ![w] = x]
        /\ owned' = owned \/ \E x: owned' = [owned EXCEPT ![w] = x]
        /\ todo' = todo \/ \E x: todo' = [todo EXCEPT ![w] = x]
    BY <1>3, Zenon
       DEF Proceeds, Validate, Write, PageUnchanged, ReadOwned, Retire, Retired, Retarget,
           Retargeted, CreateAlias, transaction, Passes, UpdatesOwned, SavesRedirect
  <2>3. \A v \in Writers \ {w}: wrote'[v] = wrote[v]
    BY <2>2, Writes, Zenon DEF WroteIs
  <2>4. \A v \in Writers \ {w}: /\ before'[v] = before[v]
                                /\ after'[v] = after[v] /\ owner'[v] = owner[v]
                                /\ owned'[v] = owned[v] /\ todo'[v] = todo[v]
    BY <2>2, SMT DEF Shape
  <2>5. QED
    BY <2>1, <2>3, <2>4 DEF Still
<1>4. CASE Ends(w)
  BY <1>4, EndsEffect, Zenon DEF Still, PcIs
<1>5. QED
  BY <1>1, <1>2, <1>3, <1>4

LEMMA RowsProceed ==
  ASSUME Shape, LocksInv, RowsInv, NEW w \in Writers, Proceeds(w)
  PROVE  WritesOk(w)' /\ FollowOk(w)'
<1>0. /\ WritesOk(w) /\ FollowOk(w)
      /\ pc[w] \in Following => Page(w) \in Pages
  BY DEF RowsInv, LocksInv, LocksOk
<1>1. CASE Validate(w)
  <2>1. /\ pc[w] = "validate" /\ pc'[w] = "write"
        /\ UNCHANGED <<table, req, wrote, before, after, owner, owned, todo>>
    BY <1>1, Zenon DEF Validate, transaction, Shape, Goes
  <2>2. DOMAIN wrote[w] = {}
    BY <1>0, <2>1 DEF WritesOk
  <2>3. WritesOk(w)'
    BY <2>1, <2>2, RowsQuiet
  <2>4. QED
    BY <2>1, <2>3, SMT DEF FollowOk, Following
<1>2. CASE Write(w)
  BY <1>2, RowsWrite
<1>3. CASE PageUnchanged(w)
  <2>1. /\ pc[w] = "sync" /\ pc'[w] = "commit"
        /\ UNCHANGED <<table, req, wrote, before, after, owner, owned, todo>>
    BY <1>3, Zenon DEF PageUnchanged, transaction, Shape, Goes
  <2>2. WritesOk(w)'
    BY <2>1, RowsQuiet, SMT DEF Locked
  <2>3. QED
    BY <2>1, <2>2, SMT DEF FollowOk, Following
<1>4. CASE ReadOwned(w)
  <2>1. /\ pc[w] = "sync" /\ pc'[w] = "retire" /\ UNCHANGED <<table, req, wrote, before, after, owner>>
        /\ owned'[w] = [r \in OwnedBy(View(w), owner[w]) |-> View(w)[r]]
        /\ todo'[w] \subseteq OwnedBy(View(w), owner[w])
    BY <1>4, ReadOwnedEffect, SMT DEF PcIs
  <2>2. WritesOk(w)'
    BY <2>1, RowsQuiet, SMT DEF Locked
  <2>3. \A r \in OwnedBy(View(w), owner[w]): r \in Redirects /\ View(w)[r] \in RedirectRow
    BY <1>0, SMT DEF OwnedBy, WritesOk, IsTable
  <2>4. /\ DOMAIN owned'[w] = OwnedBy(View(w), owner[w])
        /\ owned'[w] \in [OwnedBy(View(w), owner[w]) -> RedirectRow]
    BY <2>1, <2>3, SMT
  <2>5. /\ Page(w) \in DOMAIN wrote[w] /\ before[w] \in PageRow \cup {Absent}
        /\ after[w] \in PageRow \cup {Absent} /\ owner[w] \in Pages
        /\ Page(w)' = Page(w)
    BY <1>0, <2>1, SMT DEF FollowOk, Following, Page
  <2>6. FollowOk(w)'
    BY <2>1, <2>3, <2>4, <2>5, SMT DEF FollowOk
  <2>7. QED
    BY <2>2, <2>6
<1>5. CASE Retire(w)
  <2>1. PICK r \in todo[w]:
           /\ TodoDone(w, r)
           /\ \/ /\ View(w)[r] # Absent
                 /\ NestedSave(w, r, RetiredRow(w, r), {"active"}, View(w)[r], FALSE)
              \/ View(w)[r] = Absent /\ UNCHANGED wrote
    BY <1>5, RetireEffect
  <2>2. pc[w] = "retire" /\ pc'[w] = "retire" /\ UNCHANGED <<table, req, before, after, owner, owned>>
    BY <1>5, RetireEffect, Zenon DEF PcIs
  <2>3. r \in Redirects
    BY <1>0, <2>2, SMT DEF FollowOk, Following
  <2>4. pc[w] \in Following /\ pc'[w] \in (Following \ {"sync"}) \cup {"commit"}
    BY <2>2 DEF Following
  <2>5. UNCHANGED wrote \/ (WroteIs(w, r, RetiredRow(w, r)) /\ RetiredRow(w, r) \in RedirectRow)
    BY <2>1, <2>3, RetiredRows, Zenon DEF NestedSave
  <2>6. WritesOk(w)' /\ Page(w)' = Page(w) /\ Page(w) \in DOMAIN wrote'[w]
    BY <2>2, <2>3, <2>4, <2>5, RowsNested, Zenon
  <2>7. todo'[w] \subseteq todo[w]
    BY <2>1, SMT DEF TodoDone
  <2>8. FollowOk(w)'
    BY <1>0, <2>2, <2>6, <2>7, SMT DEF FollowOk, Following
  <2>9. QED
    BY <2>6, <2>8
<1>6. CASE Retired(w)
  <2>1. /\ pc[w] = "retire" /\ UNCHANGED <<table, req, wrote, before, after, owner, owned>>
        /\ \/ Leads(w) /\ pc'[w] = "retarget" /\ todo'[w] \subseteq DOMAIN owned[w]
           \/ pc'[w] = "commit"
    BY <1>6, RetiredEffect, SMT DEF PcIs
  <2>2. WritesOk(w)'
    BY <2>1, RowsQuiet, SMT DEF Locked
  <2>3. pc[w] \in Following /\ pc'[w] \in (Following \ {"sync"}) \cup {"commit"}
    BY <2>1, SMT DEF Following
  <2>4. Leads(w)' = Leads(w) /\ Page(w)' = Page(w) /\ Page(w) \in DOMAIN wrote'[w]
    BY <2>1, <2>3, RowsNested
  <2>5. FollowOk(w)'
    BY <1>0, <2>1, <2>4, SMT DEF FollowOk, Following
  <2>6. QED
    BY <2>2, <2>5
<1>7. CASE Retarget(w)
  <2>1. PICK r \in todo[w]:
           /\ TodoDone(w, r)
           /\ \/ /\ View(w)[r] # Absent
                 /\ NestedSave(w, r, RetargetedRow(w, r), {"to", "active"}, View(w)[r], FALSE)
              \/ UNCHANGED wrote
    BY <1>7, RetargetEffect, Zenon
  <2>2. pc[w] = "retarget" /\ pc'[w] = "retarget" /\ UNCHANGED <<table, req, before, after, owner, owned>>
    BY <1>7, RetargetEffect, Zenon DEF PcIs
  <2>3. r \in Redirects /\ Leads(w) /\ Page(w) \in Pages
    BY <1>0, <2>2, SMT DEF FollowOk, Following
  <2>4. pc[w] \in Following /\ pc'[w] \in (Following \ {"sync"}) \cup {"commit"}
    BY <2>2 DEF Following
  <2>5. UNCHANGED wrote \/ (WroteIs(w, r, RetargetedRow(w, r)) /\ RetargetedRow(w, r) \in RedirectRow)
    BY <2>1, <2>3, <2>4, RetargetedRows, Zenon DEF NestedSave
  <2>6. WritesOk(w)' /\ Page(w)' = Page(w) /\ Page(w) \in DOMAIN wrote'[w] /\ Leads(w)' = Leads(w)
    BY <2>2, <2>3, <2>4, <2>5, RowsNested, Zenon
  <2>7. todo'[w] \subseteq todo[w]
    BY <2>1, SMT DEF TodoDone
  <2>8. FollowOk(w)'
    BY <1>0, <2>2, <2>6, <2>7, SMT DEF FollowOk, Following
  <2>9. QED
    BY <2>6, <2>8
<1>8. CASE Retargeted(w)
  <2>1. /\ pc[w] = "retarget" /\ UNCHANGED <<table, req, wrote, before, after, owner, owned, todo>>
        /\ pc'[w] = "commit" \/ (pc'[w] = "alias" /\ before[w] # Absent)
    BY <1>8, Zenon DEF Retargeted, transaction, Shape, Goes, NeedsAlias
  <2>2. WritesOk(w)'
    BY <2>1, RowsQuiet, SMT DEF Locked
  <2>3. pc[w] \in Following /\ pc'[w] \in (Following \ {"sync"}) \cup {"commit"}
    BY <2>1, SMT DEF Following
  <2>4. Leads(w)' = Leads(w) /\ Page(w)' = Page(w) /\ Page(w) \in DOMAIN wrote'[w]
    BY <2>1, <2>3, RowsNested
  <2>5. FollowOk(w)'
    BY <1>0, <2>1, <2>4, SMT DEF FollowOk, Following
  <2>6. QED
    BY <2>2, <2>5
<1>9. CASE CreateAlias(w)
  <2>1. PICK r \in Redirects: NestedSave(w, r, AliasRow(w), DOMAIN AliasRow(w), Absent, TRUE)
    BY <1>9, AliasEffect, Zenon
  <2>2. pc[w] = "alias" /\ pc'[w] = "commit" /\ UNCHANGED <<table, req, before, after, owner, owned>>
    BY <1>9, AliasEffect, Zenon DEF PcIs
  <2>3. Leads(w) /\ Page(w) \in Pages /\ before[w] \in PageRow
    BY <1>0, <2>2, SMT DEF FollowOk, Following
  <2>4. pc[w] \in Following /\ pc'[w] \in (Following \ {"sync"}) \cup {"commit"}
    BY <2>2 DEF Following
  <2>5. WroteIs(w, r, AliasRow(w)) /\ AliasRow(w) \in RedirectRow
    BY <2>1, <2>3, <2>4, AliasRows, Zenon DEF NestedSave
  <2>6. WritesOk(w)'
    BY <2>2, <2>4, <2>5, RowsNested, Zenon
  <2>7. FollowOk(w)'
    BY <2>2, SMT DEF FollowOk, Following
  <2>8. QED
    BY <2>6, <2>7
<1>10. QED
  BY <1>1, <1>2, <1>3, <1>4, <1>5, <1>6, <1>7, <1>8, <1>9, Zenon DEF Proceeds

LEMMA RowsNext ==
  ASSUME Shape, LocksInv, RowsInv, [Next]_vars
  PROVE  RowsInv'
<1>1. ASSUME NEW w \in Writers, Begin(w) \/ TakeLock(w)
      PROVE  RowsInv'
  <2>1. UNCHANGED <<table, wrote>>
    BY <1>1, QuietEffect
  <2>2. pc[w] \in {"idle", "lock"} /\ pc'[w] \in {"lock", "validate"}
    BY <1>1, Zenon DEF Begin, TakeLock, Goes, Shape
  <2>3. DOMAIN wrote[w] = {}
    BY <2>2, SMT DEF RowsInv, WritesOk, Locked
  <2>4. WritesOk(w)'
    BY <2>1, <2>3, RowsQuiet
  <2>5. FollowOk(w)'
    BY <2>2, SMT DEF FollowOk, Following
  <2>6. IsTable(table)'
    BY <2>1, Zenon DEF RowsInv
  <2>7. ASSUME NEW v \in Writers, v # w PROVE WritesOk(v)' /\ FollowOk(v)'
    BY <1>1, <2>6, <2>7, StepOfOne, OthersRows, Zenon DEF RowsInv
  <2>8. QED
    BY <2>4, <2>5, <2>6, <2>7 DEF RowsInv
<1>2. ASSUME NEW w \in Writers, Proceeds(w)
      PROVE  RowsInv'
  <2>1. WritesOk(w)' /\ FollowOk(w)'
    BY <1>2, RowsProceed
  <2>2. IsTable(table)'
    BY <1>2, ProceedsEffect, Zenon DEF RowsInv
  <2>3. ASSUME NEW v \in Writers, v # w PROVE WritesOk(v)' /\ FollowOk(v)'
    BY <1>2, <2>2, <2>3, StepOfOne, OthersRows, Zenon DEF RowsInv
  <2>4. QED
    BY <2>1, <2>2, <2>3 DEF RowsInv
<1>3. ASSUME NEW w \in Writers, Ends(w), table' = View(w) \/ UNCHANGED table
      PROVE  RowsInv'
  <2>1. IsTable(table)'
    BY <1>3, Zenon DEF RowsInv, WritesOk
  <2>2. pc'[w] = "idle" /\ DOMAIN wrote'[w] = {}
    BY <1>3, EndsEffect, Zenon DEF PcIs
  <2>3. SameTable(View(w), table)'
    BY <2>2, SMT DEF View, SameTable
  <2>4. IsTable(View(w))'
    BY <2>1, <2>3, TableCopied, Zenon
  <2>5. WritesOk(w)' /\ FollowOk(w)'
    BY <2>2, <2>4, SMT DEF WritesOk, FollowOk, Locked, Following
  <2>6. ASSUME NEW v \in Writers, v # w PROVE WritesOk(v)' /\ FollowOk(v)'
    BY <1>3, <2>1, <2>6, StepOfOne, OthersRows, Zenon DEF RowsInv
  <2>7. QED
    BY <2>1, <2>5, <2>6 DEF RowsInv
<1>4. ASSUME NEW d \in Docs, Delete(d)
      PROVE  RowsInv'
  <2>1. ButFor(table', table, d, Absent)
    BY <1>4, SMT DEF Delete, ButFor, RowsInv, IsTable
  <2>2. IsTable(table)'
    BY <2>1, TableWritten, Zenon DEF RowsInv
  <2>3. ASSUME NEW v \in Writers PROVE Still(v)
    BY <1>4, Zenon DEF Delete, transaction, Still
  <2>4. QED
    BY <2>2, <2>3, OthersRows, Zenon DEF RowsInv
<1>5. ASSUME UNCHANGED vars
      PROVE  RowsInv'
  <2>1. IsTable(table)' /\ \A v \in Writers: Still(v)
    BY <1>5, Zenon DEF RowsInv, vars, transaction, Still
  <2>2. QED
    BY <2>1, OthersRows, Zenon DEF RowsInv
<1>6. QED
  BY <1>1, <1>2, <1>3, <1>4, <1>5, Zenon
     DEF Next, Proceeds, Commit, Abort

(***************************************************************************)
(* The theorems about shapes and locks.                                    *)
(***************************************************************************)
RouteInv == Shape /\ LocksInv /\ RowsInv

\* What every reachable state of the pipeline satisfies.
THEOREM Inductive == Spec => []RouteInv
<1>1. Init => RouteInv
  BY LocksInit, RowsInit DEF RouteInv
<1>2. RouteInv /\ [Next]_vars => RouteInv'
  BY ShapeNext, LocksNext, RowsNext DEF RouteInv
<1>3. QED
  BY <1>1, <1>2, PTL DEF Spec

\* The committed documents have the shapes of their schemas, whatever saves,
\* nested saves and deletions made them.
THEOREM TypeCorrect == Spec => []TypeOK
<1>1. RouteInv => TypeOK
  BY DEF RouteInv, RowsInv, TypeOK
<1>2. QED
  BY <1>1, Inductive, PTL

LEMMA NobodyWaitsLong ==
  ASSUME Shape, LocksInv
  PROVE  NoLockCycle
<1> SUFFICES ASSUME NEW S \in SUBSET Writers, S # {}, \A w \in S: \E v \in S: WaitsOn(w, v)
             PROVE  FALSE
  BY DEF NoLockCycle
<1>0. /\ Domains = {"identity", "redirect", "job"}
      /\ {"retire", "retarget", "alias"} \subseteq Following
  BY DEF Domains, Following
\* Who waits wants one lock, and holds nothing unless it wants the redirect lock.
<1>1. ASSUME NEW w \in S
      PROVE  /\ Wanted(w) \subseteq Domains
             /\ HoldsNone(w) \/ (Wanted(w) = {"redirect"} /\ locks["identity"] = w
                                 /\ locks["job"] # w)
  <2>1. PICK v \in S: WaitsOn(w, v)
    OBVIOUS
  <2>2. Wanted(w) # {} /\ LocksOk(w)
    BY <2>1 DEF WaitsOn, LocksInv
  <2>3. CASE pc[w] = "lock"
    <3>1. Wanted(w) = {Head(takes[w])} /\ Taking(w)
      BY <2>2, <2>3, Zenon DEF Wanted, LocksOk
    <3>2. CASE takes[w] = LocksOf(Page(w)) /\ HoldsNone(w)
      BY <1>0, <3>1, <3>2, Sequences, SMT DEF LocksOf
    <3>3. CASE /\ takes[w] = <<"redirect">> /\ locks["identity"] = w /\ locks["job"] # w
      BY <1>0, <3>1, <3>3, Sequences, SMT
    <3>4. QED
      BY <3>1, <3>2, <3>3 DEF Taking
  <2>4. CASE pc[w] # "lock"
    <3>1. pc[w] \in {"retire", "retarget", "alias"} /\ Wanted(w) = {"redirect"}
      BY <2>2, <2>4, Zenon DEF Wanted
    <3>2. Page(w) \in Pages /\ Taken(w) /\ Page(w) \notin Jobs
      BY <1>0, <2>2, <3>1, KindsOfDocs, SMT DEF LocksOk, Locked
    <3>3. QED
      BY <1>0, <3>1, <3>2 DEF Taken
  <2>5. QED
    BY <2>3, <2>4
\* So only a save that wants the redirect lock is waited on, and it holds
\* identity; nobody else of S has the redirect lock.
<1>2. ASSUME NEW w \in S, NEW v \in S, WaitsOn(w, v)
      PROVE  "identity" \in Wanted(w) /\ Wanted(v) = {"redirect"} /\ locks["identity"] = v
  <2>1. PICK d \in Wanted(w): locks[d] = v
    BY <1>2 DEF WaitsOn
  <2>2. d \in Domains
    BY <1>1, <2>1
  <2>3. ~HoldsNone(v)
    BY <2>1, <2>2 DEF HoldsNone
  <2>4. Wanted(v) = {"redirect"} /\ locks["identity"] = v /\ locks["job"] # v
    BY <1>1, <2>3
  <2>5. PICK u \in S: WaitsOn(v, u)
    OBVIOUS
  <2>6. locks["redirect"] = u /\ u # v
    BY <2>4, <2>5 DEF WaitsOn
  <2>7. d = "identity"
    BY <1>0, <2>1, <2>2, <2>4, <2>6
  <2>8. QED
    BY <2>1, <2>4, <2>7
<1>3. PICK w \in S: TRUE
  OBVIOUS
<1>4. PICK v \in S: WaitsOn(w, v)
  OBVIOUS
<1>5. PICK u \in S: WaitsOn(v, u)
  OBVIOUS
<1>6. QED
  BY <1>2, <1>4, <1>5

\* No saves wait on each other's advisory locks in a circle, however many there
\* are: whoever holds the redirect lock wants nothing more, and who waits for
\* it holds identity.
THEOREM WaitsEnd == Spec => []NoLockCycle
<1>1. RouteInv => NoLockCycle
  BY NobodyWaitsLong DEF RouteInv
<1>2. QED
  BY <1>1, Inductive, PTL

(***************************************************************************)
(* The graph of active redirects.                                          *)
(***************************************************************************)
\* The redirects of S lead only to each other.
Closed(t, S) == \A s \in S: \E n \in S: Source(t[n]) = Goal(t[s])

LoopFree(t) == \A S \in SUBSET ActiveIn(t): Closed(t, S) => S = {}

\* Every active redirect of u is one of t.
NoMoreRedirects(u, t) ==
  \A r \in ActiveIn(u): /\ r \in ActiveIn(t)
                        /\ Source(u[r]) = Source(t[r]) /\ Goal(u[r]) = Goal(t[r])

LEMMA FewerRedirects ==
  ASSUME NEW u, NEW t, LoopFree(t), NoMoreRedirects(u, t)
  PROVE  LoopFree(u)
<1> SUFFICES ASSUME NEW S \in SUBSET ActiveIn(u), Closed(u, S) PROVE S = {}
  BY DEF LoopFree
<1>1. S \in SUBSET ActiveIn(t)
  BY DEF NoMoreRedirects
<1>2. Closed(t, S)
  BY SMT DEF NoMoreRedirects, Closed
<1>3. QED
  BY <1>1, <1>2 DEF LoopFree

\* An active redirect is added or changed, and the walk from it ends.
LEMMA NewRedirect ==
  ASSUME NEW u, NEW t, LoopFree(t), DOMAIN t = Docs, NEW r \in Redirects, NEW row,
         ButFor(u, t, r, row), row # Absent, row.active,
         ~OnLoop([t EXCEPT ![r] = row], r)
  PROVE  LoopFree(u)
<1> DEFINE next == [t EXCEPT ![r] = row]
<1>0. /\ Redirects \subseteq Docs
      /\ \A d \in Docs: next[d] = u[d]
      /\ \A d \in Docs \ {r}: u[d] = t[d]
      /\ u[r] = row
  BY SMT DEF ButFor, Docs
<1>1. ~OnLoop(next, r)
  OBVIOUS
<1> HIDE DEF next
<1> SUFFICES ASSUME NEW S \in SUBSET ActiveIn(u), Closed(u, S) PROVE S = {}
  BY DEF LoopFree
<1>2. ActiveIn(u) = ActiveIn(next) /\ ActiveIn(u) \subseteq Redirects
  BY <1>0, SMT DEF ActiveIn
<1>3. Closed(next, S)
  BY <1>0, <1>2, SMT DEF Closed
<1>4. r \notin S
  BY <1>1, <1>2, <1>3, SMT DEF OnLoop, Closed
<1>5. S \in SUBSET ActiveIn(t)
  BY <1>0, <1>2, <1>4, SMT DEF ActiveIn
<1>6. Closed(t, S)
  BY <1>0, <1>2, <1>4, SMT DEF Closed
<1>7. QED
  BY <1>5, <1>6 DEF LoopFree

\* The fields a payload leaves alone are those of the row it is merged over.
Untouched(row, stored, touched) ==
  /\ "from" \notin touched => row.from = stored.from
  /\ "to" \notin touched => row.to = stored.to
  /\ "active" \notin touched => row.active = stored.active

\* A redirect that was not refused adds no circle.
LEMMA SavedRedirect ==
  ASSUME NEW u, NEW t, LoopFree(t), IsTable(t), NEW r \in Redirects, NEW row \in RedirectRow,
         NEW touched, NEW stored, NEW isNew \in BOOLEAN, NEW strict \in BOOLEAN,
         ~RedirectRefuses(t, r, row, touched, stored, isNew, strict),
         isNew \/ (stored = t[r] /\ stored # Absent /\ Untouched(row, stored, touched)),
         ButFor(u, t, r, row)
  PROVE  LoopFree(u)
<1>0. /\ DOMAIN t = Docs /\ row # Absent /\ row.active \in BOOLEAN
      /\ Redirects \subseteq Docs /\ \A d \in Docs \ {r}: u[d] = t[d]
      /\ u[r] = row
  BY AbsentIsNoRow, SMT DEF IsTable, RedirectRow, ButFor, Docs
<1>1. CASE ~row.active
  <2>1. NoMoreRedirects(u, t)
    BY <1>0, <1>1, SMT DEF NoMoreRedirects, ActiveIn
  <2>2. QED
    BY <2>1, FewerRedirects
<1>2. CASE /\ row.active /\ ~isNew /\ stored.active
           /\ Source(row) = Source(stored) /\ Goal(row) = Goal(stored)
  <2>1. NoMoreRedirects(u, t)
    BY <1>0, <1>2, SMT DEF NoMoreRedirects, ActiveIn
  <2>2. QED
    BY <2>1, FewerRedirects
<1>3. CASE row.active /\ ~OnLoop([t EXCEPT ![r] = row], r)
  BY <1>0, <1>3, NewRedirect
<1>4. \/ ~row.active
      \/ /\ row.active /\ ~isNew /\ stored.active
         /\ Source(row) = Source(stored) /\ Goal(row) = Goal(stored)
      \/ row.active /\ ~OnLoop([t EXCEPT ![r] = row], r)
  <2> DEFINE loops == OnLoop([t EXCEPT ![r] = row], r)
             fromChanged == FromChanged(row, touched, stored, isNew \/ strict)
             toChanged == ToChanged(row, touched, stored, isNew \/ strict)
             activated == row.active /\ (isNew \/ ("active" \in touched /\ ~stored.active))
  <2>1. \/ ~(isNew \/ strict) /\ touched \cap {"from", "to", "active"} = {}
        \/ ~(row.active /\ (fromChanged \/ toChanged \/ activated) /\ loops)
    BY Zenon DEF RedirectRefuses, WalkRefuses
  <2>2. /\ ~fromChanged => "from" \notin touched \/ Source(row) = Source(stored)
        /\ ~toChanged => "to" \notin touched \/ row.to = stored.to
        /\ row.active /\ ~activated => ~isNew /\ ("active" \notin touched \/ stored.active)
    BY Zenon DEF FromChanged, ToChanged
  <2> HIDE DEF loops, fromChanged, toChanged, activated
  <2>3. ~isNew => stored \in RedirectRow
    BY SMT DEF IsTable
  <2>9. ~isNew => stored.active \in BOOLEAN
    BY <2>3 DEF RedirectRow
  <2>4. ASSUME ~isNew, touched \cap {"from", "to", "active"} = {}, row.active
        PROVE  stored.active /\ row.from = stored.from /\ row.to = stored.to
    BY <1>0, <2>4, <2>9 DEF Untouched
  <2>5. ASSUME ~isNew, row.active, ~fromChanged, ~toChanged, ~activated
        PROVE  /\ stored.active /\ row.to = stored.to
               /\ Source(row) = Source(stored)
    BY <1>0, <2>2, <2>5, <2>9, Zenon DEF Untouched, Source
  <2>6. CASE isNew
    BY <1>0, <2>1, <2>2, <2>6 DEF loops
  <2>7. CASE ~isNew
    BY <1>0, <2>1, <2>4, <2>5, <2>7, Zenon DEF loops, Source, Goal
  <2>8. QED
    BY <2>6, <2>7
<1>5. QED
  BY <1>1, <1>2, <1>3, <1>4

(***************************************************************************)
(* No save adds a circle, and none that was validated is about to.          *)
(***************************************************************************)
\* What the content would be with the save's document alone.
Proposed(w) == [d \in Docs |-> IF d = Page(w) THEN Result(w) ELSE table[d]]

GraphOk(w) ==
  /\ LoopFree(View(w))
  /\ pc[w] = "write" /\ SourceStands(req[w]) => LoopFree(Proposed(w))

GraphInv == LoopFree(table) /\ \A w \in Writers: GraphOk(w)

LEMMA SameRedirects ==
  ASSUME NEW u, NEW t, LoopFree(t), \A r \in Redirects: u[r] = t[r]
  PROVE  LoopFree(u)
<1>1. NoMoreRedirects(u, t)
  BY SMT DEF NoMoreRedirects, ActiveIn
<1>2. QED
  BY <1>1, FewerRedirects

LEMMA DroppedDoc ==
  ASSUME NEW u, NEW t, LoopFree(t), NEW d,
         \A c \in Docs: u[c] = t[c] \/ u[c] = Absent
  PROVE  LoopFree(u)
<1>0. Redirects \subseteq Docs
  BY DEF Docs
<1>1. NoMoreRedirects(u, t)
  BY <1>0, SMT DEF NoMoreRedirects, ActiveIn
<1>2. QED
  BY <1>1, FewerRedirects

\* A save that is not refused is not refused by the rules of its kind.
LEMMA Refusals ==
  ASSUME NEW t, NEW q, q.doc \in Docs, ~Refused(t, q)
  PROVE  /\ q.doc \in Entities =>
              ~EntityRefuses(t, q.doc, EffectiveRow(t, q), DOMAIN q.data, StoredRow(t, q),
                             q.act # "update" \/ q.human, q.act = "clone", LeftOut(q))
         /\ q.doc \in Redirects =>
              /\ ~RedirectRefuses(t, q.doc, EffectiveRow(t, q), DOMAIN q.data,
                                  StoredRow(t, q), q.act # "update", q.human)
              /\ ~ShadowsPage(t, EffectiveRow(t, q), DOMAIN q.data)
         /\ q.doc \in Jobs =>
              ~JobRefuses(t, EffectiveRow(t, q), DOMAIN q.data, q.act = "clone", LeftOut(q))
         /\ q.doc \in Pages =>
              ~PageRefuses(t, q.doc, EffectiveRow(t, q), DOMAIN q.data, StoredRow(t, q))
<1> DEFINE entity == EntityRefuses(t, q.doc, EffectiveRow(t, q), DOMAIN q.data,
                                   StoredRow(t, q), q.act # "update" \/ q.human,
                                   q.act = "clone", LeftOut(q))
           redirect == RedirectRefuses(t, q.doc, EffectiveRow(t, q), DOMAIN q.data,
                                       StoredRow(t, q), q.act # "update", q.human)
           shadow == ShadowsPage(t, EffectiveRow(t, q), DOMAIN q.data)
           job == JobRefuses(t, EffectiveRow(t, q), DOMAIN q.data, q.act = "clone", LeftOut(q))
           page == PageRefuses(t, q.doc, EffectiveRow(t, q), DOMAIN q.data, StoredRow(t, q))
<1>1. ~CASE q.doc \in Entities -> entity
         [] q.doc \in Redirects -> redirect \/ shadow
         [] q.doc \in Jobs -> job
         [] OTHER -> page
  BY Zenon DEF Refused, Refuses
<1> HIDE DEF entity, redirect, shadow, job, page
<1>2. /\ q.doc \in Entities => ~entity
      /\ q.doc \in Redirects => ~redirect /\ ~shadow
      /\ q.doc \in Jobs => ~job
      /\ q.doc \in Pages => ~page
  BY <1>1, KindsOfDocs, SMT
<1>3. QED
  BY <1>2 DEF entity, redirect, shadow, job, page

\* An effective row of a redirect save that found no objection adds no circle.
LEMMA AcceptedRedirect ==
  ASSUME Shape, LocksInv, RowsInv, NEW w \in Writers, req[w] \in Menu, Page(w) \in Redirects,
         req[w].act # "delete", SourceStands(req[w]), ~Refused(table, req[w]),
         LoopFree(table)
  PROVE  LoopFree(Proposed(w))
<1> DEFINE q == req[w]
           row == EffectiveRow(table, q)
           stored == StoredRow(table, q)
<1>0. IsRequest(q) /\ IsTable(table)
  BY MenuIsRequests DEF RowsInv
<1>1. ~RedirectRefuses(table, q.doc, row, DOMAIN q.data, stored, q.act # "update", q.human)
  BY <1>0, Refusals, Zenon DEF Page, IsRequest
<1>2. row \in RedirectRow
  BY <1>0, EffectiveRows, RowsOfPages, Zenon DEF SourceStands, Page
<1>3. ASSUME q.act = "update"
      PROVE  /\ stored = table[q.doc] /\ stored # Absent
             /\ Untouched(row, stored, DOMAIN q.data)
  <2>1. /\ stored = table[q.doc] /\ stored # Absent /\ row = Merge(stored, q.data)
    BY <1>0, <1>3, Zenon DEF IsRequest, StoredRow, SourceStands, EffectiveRow
  <2>2. stored \in RedirectRow
    BY <1>0, <2>1, SMT DEF IsTable, Page
  <2>3. DOMAIN stored = {"from", "to", "active", "managedBy"}
    BY <2>2 DEF RedirectRow
  <2> HIDE DEF row, stored
  <2>4. Untouched(row, stored, DOMAIN q.data)
    BY <2>1, <2>3, SMT DEF Untouched, Merge
  <2>5. QED
    BY <2>1, <2>4
<1>4. ButFor(Proposed(w), table, q.doc, row)
  <2>1. Result(w) = row
    BY DEF Result
  <2> HIDE DEF row, stored
  <2>2. QED
    BY <2>1, RowsOfPages, SMT DEF ButFor, Proposed, Page
<1>5. q.human \in BOOLEAN /\ (q.act # "update") \in BOOLEAN
  BY <1>0 DEF IsRequest
<1> DEFINE isNew == q.act # "update"
<1>6. isNew \/ (stored = table[q.doc] /\ stored # Absent /\ Untouched(row, stored, DOMAIN q.data))
  BY <1>3
<1>7. isNew \in BOOLEAN /\ ~RedirectRefuses(table, q.doc, row, DOMAIN q.data, stored, isNew, q.human)
  BY <1>1
<1> HIDE DEF row, stored, isNew
<1>8. QED
  BY <1>0, <1>2, <1>4, <1>5, <1>6, <1>7, SavedRedirect, Zenon DEF Page

LEMMA GraphInit == Init => GraphInv
<1> SUFFICES ASSUME Init PROVE GraphInv
  OBVIOUS
<1>1. \A r \in Redirects: table[r] = Absent
  BY LegacyIsContent, Zenon DEF Init
<1>2. ActiveIn(table) = {}
  BY <1>1, SMT DEF ActiveIn
<1>3. LoopFree(table)
  BY <1>2, SMT DEF LoopFree
<1>4. ASSUME NEW w \in Writers PROVE GraphOk(w)
  <2>1. DOMAIN wrote[w] = {} /\ pc[w] = "idle"
    BY SMT DEF Init, NoRows
  <2>2. \A r \in Redirects: View(w)[r] = table[r]
    BY <2>1, ViewFresh, RowsOfPages, Zenon DEF SameTable
  <2>3. QED
    BY <1>3, <2>1, <2>2, SameRedirects, Zenon DEF GraphOk
<1>5. QED
  BY <1>3, <1>4 DEF GraphInv

LEMMA GraphStill ==
  ASSUME NEW v \in Writers, Still(v), UNCHANGED table, GraphOk(v)
  PROVE  GraphOk(v)'
<1>1. View(v)' = View(v)
  BY ViewKept DEF Still
<1>2. Page(v)' = Page(v) /\ Result(v)' = Result(v) /\ SourceStands(req[v])' = SourceStands(req[v])
  BY Zenon DEF Page, Result, Still, SourceStands
<1>3. Proposed(v)' = Proposed(v)
  BY <1>2, Zenon DEF Proposed
<1>4. QED
  BY <1>1, <1>2, <1>3, Zenon DEF GraphOk, Still

\* A redirect of the page is saved under the locks and past the validators.
LEMMA GraphNested ==
  ASSUME RowsInv, GraphInv, NEW w \in Writers, UNCHANGED table, NEW r \in Redirects,
         NEW row \in RedirectRow, NEW touched, NEW stored, NEW isNew \in BOOLEAN,
         req[w].human \in BOOLEAN, NestedSave(w, r, row, touched, stored, isNew),
         isNew \/ (stored = View(w)[r] /\ stored # Absent /\ Untouched(row, stored, touched))
  PROVE  LoopFree(View(w))'
<1>1. LoopFree(View(w)) /\ IsTable(View(w))
  BY Zenon DEF GraphInv, GraphOk, RowsInv, WritesOk
<1>2. /\ ~RedirectRefuses(View(w), r, row, touched, stored, isNew, req[w].human)
      /\ WroteIs(w, r, row)
  BY Zenon DEF NestedSave
<1>3. ButFor(View(w)', View(w), r, row)
  BY <1>2, RowsOfPages, ViewWritten
<1>4. QED
  BY <1>1, <1>2, <1>3, SavedRedirect, Zenon

LEMMA GraphProceed ==
  ASSUME Shape, LocksInv, RowsInv, GraphInv, NEW w \in Writers, Proceeds(w)
  PROVE  GraphOk(w)'
<1>0. /\ WritesOk(w) /\ FollowOk(w) /\ GraphOk(w) /\ LoopFree(table)
      /\ pc[w] \in Following => Page(w) \in Pages
  BY DEF RowsInv, LocksInv, LocksOk, GraphInv
<1>1. CASE Validate(w)
  <2>1. /\ pc[w] = "validate" /\ pc'[w] = "write" /\ SourceStands(req[w])
        /\ req[w].act = "delete" \/ ~Refused(table, req[w])
        /\ UNCHANGED <<table, req, wrote>>
    BY <1>1, Zenon DEF Validate, transaction, Shape, Goes
  <2>2. View(w)' = View(w)
    BY <2>1, ViewKept
  <2>3. req[w] \in Menu
    BY <2>1 DEF LocksInv, LocksOk
  <2>4. LoopFree(Proposed(w))
    <3>1. CASE Page(w) \in Redirects
      <4>1. req[w].act # "delete"
        BY <2>3, <3>1, Menus, KindsOfDocs, SMT DEF Page
      <4>2. QED
        BY <1>0, <2>1, <2>3, <3>1, <4>1, AcceptedRedirect
    <3>2. CASE Page(w) \notin Redirects
      <4>1. \A r \in Redirects: Proposed(w)[r] = table[r]
        BY <3>2, RowsOfPages, SMT DEF Proposed
      <4>2. QED
        BY <1>0, <4>1, SameRedirects
    <3>3. QED
      BY <3>1, <3>2
  <2>5. Proposed(w)' = Proposed(w)
    BY <2>1, Zenon DEF Proposed, Page, Result
  <2>6. QED
    BY <1>0, <2>1, <2>2, <2>4, <2>5, Zenon DEF GraphOk
<1>2. CASE Write(w)
  <2>1. /\ pc[w] = "write" /\ SourceStands(req[w]) /\ UNCHANGED table
        /\ WroteIs(w, Page(w), Result(w)) /\ pc'[w] # "write"
    BY <1>2, WriteEffect, SMT DEF PcIs
  <2>2. LoopFree(Proposed(w)) /\ Page(w) \in Docs
    BY <1>0, <2>1, ResultRow, Zenon DEF GraphOk
  <2>3. SameTable(View(w), table)
    BY <1>0, <2>1, ViewFresh, Zenon DEF WritesOk
  <2>4. ButFor(View(w)', View(w), Page(w), Result(w))
    BY <2>1, <2>2, ViewWritten
  <2>5. \A r \in Redirects: View(w)'[r] = Proposed(w)[r]
    BY <2>3, <2>4, RowsOfPages, SMT DEF SameTable, ButFor, Proposed
  <2>6. LoopFree(View(w))'
    BY <2>2, <2>5, SameRedirects
  <2>7. QED
    BY <2>1, <2>6 DEF GraphOk
<1>3. CASE PageUnchanged(w) \/ ReadOwned(w) \/ Retired(w) \/ Retargeted(w)
  <2>1. UNCHANGED <<table, wrote>>
    BY <1>3, QuietEffect
  <2>2. View(w)' = View(w)
    BY <2>1, ViewKept
  <2>3. pc[w] \in Following
    BY <1>3, SMT DEF PageUnchanged, ReadOwned, Retired, Retargeted, Following
  <2>4. pc'[w] # "write"
    BY <1>3, Zenon DEF PageUnchanged, ReadOwned, Retired, Retargeted, Goes, Shape
  <2>5. QED
    BY <1>0, <2>2, <2>4, Zenon DEF GraphOk
<1>4. ASSUME pc[w] \in Following
      PROVE  /\ req[w].human \in BOOLEAN /\ Page(w) \in Pages
             /\ pc[w] # "sync" => todo[w] \subseteq Redirects
             /\ pc[w] \in {"retarget", "alias"} => Leads(w)
             /\ pc[w] = "alias" => before[w] \in PageRow
  <2>1. req[w] \in Menu
    BY <1>4, SMT DEF LocksInv, LocksOk, Following
  <2>2. req[w].human \in BOOLEAN
    BY <2>1, MenuIsRequests, Zenon DEF IsRequest
  <2>3. QED
    BY <1>0, <1>4, <2>2, SMT DEF FollowOk
<1>5. CASE Retire(w)
  <2>1. PICK r \in todo[w]:
          \/ /\ View(w)[r] # Absent
             /\ NestedSave(w, r, RetiredRow(w, r), {"active"}, View(w)[r], FALSE)
          \/ View(w)[r] = Absent /\ UNCHANGED wrote
    BY <1>5, RetireEffect, Zenon
  <2>2. pc[w] = "retire" /\ pc'[w] = "retire" /\ UNCHANGED table
    BY <1>5, RetireEffect, Zenon DEF PcIs
  <2>3. r \in Redirects /\ req[w].human \in BOOLEAN
    BY <1>4, <2>2, SMT DEF Following
  <2>4. CASE UNCHANGED wrote
    BY <1>0, <2>2, <2>4, ViewKept, Zenon DEF GraphOk
  <2>5. CASE View(w)[r] # Absent /\ NestedSave(w, r, RetiredRow(w, r), {"active"}, View(w)[r], FALSE)
    <3>1. RetiredRow(w, r) \in RedirectRow
      BY <2>3, <2>5, RetiredRows
    <3>2. Untouched(RetiredRow(w, r), View(w)[r], {"active"})
      <4>1. View(w)[r] \in RedirectRow
        BY <1>0, <2>3, <2>5, SMT DEF WritesOk, IsTable
      <4>2. DOMAIN View(w)[r] = {"from", "to", "active", "managedBy"}
        BY <4>1 DEF RedirectRow
      <4>3. QED
        BY <4>2, Payloads, SMT DEF Untouched, RetiredRow, Merge
    <3>3. LoopFree(View(w))'
      BY <2>2, <2>3, <2>5, <3>1, <3>2, GraphNested
    <3>4. QED
      BY <2>2, <3>3 DEF GraphOk
  <2>6. QED
    BY <2>1, <2>4, <2>5, Zenon
<1>6. CASE Retarget(w)
  <2>1. PICK r \in todo[w]:
          \/ /\ View(w)[r] # Absent
             /\ NestedSave(w, r, RetargetedRow(w, r), {"to", "active"}, View(w)[r], FALSE)
          \/ UNCHANGED wrote
    BY <1>6, RetargetEffect, Zenon
  <2>2. pc[w] = "retarget" /\ pc'[w] = "retarget" /\ UNCHANGED table
    BY <1>6, RetargetEffect, Zenon DEF PcIs
  <2>3. /\ r \in Redirects /\ req[w].human \in BOOLEAN /\ Leads(w) /\ Page(w) \in Pages
        /\ pc[w] \in Following
    BY <1>4, <2>2, SMT DEF Following
  <2>4. CASE UNCHANGED wrote
    BY <1>0, <2>2, <2>4, ViewKept, Zenon DEF GraphOk
  <2>5. CASE View(w)[r] # Absent /\ NestedSave(w, r, RetargetedRow(w, r), {"to", "active"}, View(w)[r], FALSE)
    <3>1. RetargetedRow(w, r) \in RedirectRow /\ RetargetedRow(w, r).from = View(w)[r].from
      BY <2>3, <2>5, RetargetedRows
    <3>2. Untouched(RetargetedRow(w, r), View(w)[r], {"to", "active"})
      BY <3>1 DEF Untouched
    <3>3. LoopFree(View(w))'
      BY <2>2, <2>3, <2>5, <3>1, <3>2, GraphNested
    <3>4. QED
      BY <2>2, <3>3 DEF GraphOk
  <2>6. QED
    BY <2>1, <2>4, <2>5, Zenon
<1>7. CASE CreateAlias(w)
  <2>1. PICK r \in Redirects: NestedSave(w, r, AliasRow(w), DOMAIN AliasRow(w), Absent, TRUE)
    BY <1>7, AliasEffect, Zenon
  <2>2. pc[w] = "alias" /\ pc'[w] = "commit" /\ UNCHANGED table
    BY <1>7, AliasEffect, Zenon DEF PcIs
  <2>3. /\ req[w].human \in BOOLEAN /\ Leads(w) /\ Page(w) \in Pages
        /\ before[w] \in PageRow /\ pc[w] \in Following
    BY <1>4, <2>2, SMT DEF Following
  <2>4. AliasRow(w) \in RedirectRow
    BY <2>3, AliasRows
  <2>5. LoopFree(View(w))'
    BY <2>1, <2>2, <2>3, <2>4, GraphNested
  <2>6. QED
    BY <2>2, <2>5 DEF GraphOk
<1>8. QED
  BY <1>1, <1>2, <1>3, <1>5, <1>6, <1>7, Zenon DEF Proceeds

\* Saves that hold their locks at the same time write different kinds of document:
\* at least one of them writes jobs only.
LEMMA Apart ==
  ASSUME LocksInv, NEW w \in Writers, NEW v \in Writers, v # w, Locked(w), Locked(v)
  PROVE  Page(w) \in Jobs \/ Page(v) \in Jobs
  BY Zenon DEF LocksInv, LocksOk, Taken

\* A redirect is copied or changed from a redirect.
LEMMA SourceIsRedirect ==
  ASSUME NEW t, IsTable(t), NEW q \in Menu, q.doc \in Redirects, q.act # "create",
         t[q.source] # Absent
  PROVE  q.source \in Redirects
<1>1. IsRequest(q)
  BY MenuIsRequests
<1>2. q.source \in Docs /\ RowsOf(q.source) = RedirectRow
  BY <1>1, RowsOfPages, KindsOfDocs, SMT DEF IsRequest, Docs
<1>3. t[q.source] \in RedirectRow
  BY <1>2, TableRows, SMT DEF IsTable
<1>4. "to" \in DOMAIN t[q.source]
  BY <1>3 DEF RedirectRow
<1>5. /\ \A row \in EntityRow: "to" \notin DOMAIN row
      /\ \A row \in PageRow: "to" \notin DOMAIN row
      /\ \A row \in JobRow: "to" \notin DOMAIN row
  BY DEF EntityRow, PageRow, JobRow
<1>6. QED
  BY <1>2, <1>3, <1>4, <1>5, SMT DEF IsTable, Docs

LEMMA GraphCommit ==
  ASSUME Shape, LocksInv, RowsInv, GraphInv, NEW w \in Writers, Commit(w), RowsInv',
         NEW v \in Writers, v # w
  PROVE  GraphOk(v)'
<1>0. /\ WritesOk(w) /\ WritesOk(v) /\ GraphOk(v) /\ LoopFree(View(w)) /\ Locked(w)
      /\ table' = View(w) /\ Still(v) /\ Page(v)' = Page(v) /\ IsTable(table)
  BY StepOfOne, Zenon DEF RowsInv, GraphInv, GraphOk, Commit, Locked, Still, Page
<1>1. CASE Page(w) \in Jobs
  <2>1. \A r \in Redirects: table'[r] = table[r]
    <3>1. \A r \in Redirects: r \notin Jobs
      BY KindsOfDocs
    <3>2. DOMAIN wrote[w] \subseteq Jobs
      BY <1>0, <1>1 DEF WritesOk
    <3>3. QED
      BY <1>0, <3>1, <3>2, RowsOfPages, SMT DEF View
  <2>2. \A r \in Redirects: View(v)'[r] = View(v)[r]
    BY <1>0, <2>1, RowsOfPages, SMT DEF View, Still
  <2>3. LoopFree(View(v))'
    BY <1>0, <2>2, SameRedirects, Zenon DEF GraphOk
  <2>4. ASSUME pc'[v] = "write", SourceStands(req[v])'
        PROVE  LoopFree(Proposed(v))'
    <3>1. pc[v] = "write" /\ req'[v] = req[v] /\ req[v] \in Menu
      BY <1>0, <2>4, Zenon DEF Still, LocksInv, LocksOk
    <3>2. CASE Page(v) \notin Redirects
      <4>1. \A r \in Redirects: Proposed(v)'[r] = table'[r]
        BY <1>0, <3>2, RowsOfPages, SMT DEF Proposed
      <4>2. QED
        BY <1>0, <4>1, SameRedirects, Zenon
    <3>3. CASE Page(v) \in Redirects
      <4>1. /\ req[v].act # "delete"
            /\ req[v].act # "create" => table'[req[v].source] # Absent
        BY <2>4, <3>1, <3>3, Menus, KindsOfDocs, SMT DEF Page, SourceStands
      <4>2. req[v].act # "create" => req[v].source \in Redirects
        BY <3>1, <3>3, <4>1, SourceIsRedirect, Zenon DEF RowsInv, Page
      <4>3. req[v].act # "create" => table'[req[v].source] = table[req[v].source]
        BY <2>1, <4>2
      <4>4. SourceStands(req[v])
        BY <4>1, <4>3, Zenon DEF SourceStands
      <4>5. Result(v)' = Result(v)
        BY <3>1, <4>1, <4>3, Zenon DEF Result, EffectiveRow
      <4>6. \A r \in Redirects: Proposed(v)'[r] = Proposed(v)[r]
        BY <1>0, <2>1, <4>5, RowsOfPages, SMT DEF Proposed
      <4>7. QED
        BY <1>0, <3>1, <4>4, <4>6, SameRedirects, Zenon DEF GraphOk
    <3>4. QED
      BY <3>2, <3>3
  <2>5. QED
    BY <2>3, <2>4 DEF GraphOk
<1>2. CASE Page(w) \notin Jobs
  <2>1. Locked(v) => Page(v) \in Jobs
    BY <1>0, <1>2, Apart
  <2>2. DOMAIN wrote[v] \subseteq Jobs
    BY <1>0, <2>1, SMT DEF WritesOk
  <2>3. \A r \in Redirects: View(v)'[r] = table'[r]
    <3>1. \A r \in Redirects: r \notin Jobs
      BY KindsOfDocs
    <3>2. QED
      BY <1>0, <2>2, <3>1, RowsOfPages, SMT DEF View, Still
  <2>4. LoopFree(View(v))'
    BY <1>0, <2>3, SameRedirects, Zenon
  <2>5. ASSUME pc'[v] = "write"
        PROVE  LoopFree(Proposed(v))'
    <3>1. Page(v) \in Jobs /\ Page(v) \notin Redirects
      BY <1>0, <2>1, <2>5, KindsOfDocs, SMT DEF Still, Locked
    <3>2. \A r \in Redirects: Proposed(v)'[r] = table'[r]
      BY <1>0, <3>1, RowsOfPages, SMT DEF Proposed
    <3>3. QED
      BY <1>0, <3>2, SameRedirects, Zenon
  <2>6. QED
    BY <2>4, <2>5 DEF GraphOk
<1>3. QED
  BY <1>1, <1>2

LEMMA GraphDelete ==
  ASSUME RowsInv, LocksInv, GraphInv, NEW d \in Docs, Delete(d), NEW v \in Writers
  PROVE  LoopFree(table)' /\ GraphOk(v)'
<1>0. /\ ButFor(View(v)', View(v), d, Absent) /\ ButFor(table', table, d, Absent)
      /\ Still(v) /\ GraphOk(v) /\ LoopFree(table) /\ Page(v)' = Page(v)
  <2>1. DOMAIN table = Docs
    BY DEF RowsInv, IsTable
  <2>2. QED
    BY <2>1, ViewDeleted, Zenon DEF GraphInv, Delete, transaction, Still, Page
<1>1. LoopFree(table)'
  BY <1>0, DroppedDoc, SMT DEF ButFor
<1>2. LoopFree(View(v))'
  BY <1>0, DroppedDoc, SMT DEF GraphOk, ButFor
<1>3. ASSUME pc'[v] = "write", SourceStands(req[v])'
      PROVE  LoopFree(Proposed(v))'
  <2>1. pc[v] = "write" /\ req'[v] = req[v] /\ req[v] \in Menu /\ IsRequest(req[v])
    BY <1>0, <1>3, MenuIsRequests, Zenon DEF Still, LocksInv, LocksOk
  <2>2. req[v].act # "create" => req[v].source # d /\ req[v].source \in Docs
    BY <1>0, <1>3, <2>1, SMT DEF SourceStands, ButFor, IsRequest
  <2>3. req[v].act # "create" => table'[req[v].source] = table[req[v].source]
    BY <1>0, <2>2, SMT DEF ButFor
  <2>4. SourceStands(req[v])
    BY <1>3, <2>1, <2>3, Zenon DEF SourceStands
  <2>5. Result(v)' = Result(v)
    BY <2>1, <2>3, Zenon DEF Result, EffectiveRow
  <2>6. \A c \in Docs: Proposed(v)'[c] = Proposed(v)[c] \/ Proposed(v)'[c] = Absent
    BY <1>0, <2>5, SMT DEF Proposed, ButFor
  <2>7. QED
    BY <1>0, <2>1, <2>4, <2>6, DroppedDoc, Zenon DEF GraphOk
<1>4. QED
  BY <1>1, <1>2, <1>3 DEF GraphOk

LEMMA GraphNext ==
  ASSUME Shape, LocksInv, RowsInv, GraphInv, [Next]_vars, RowsInv'
  PROVE  GraphInv'
<1>1. ASSUME NEW w \in Writers, Begin(w) \/ TakeLock(w)
      PROVE  GraphInv'
  <2>1. UNCHANGED <<table, wrote>>
    BY <1>1, QuietEffect
  <2>2. pc'[w] # "write"
    BY <1>1, Zenon DEF Begin, TakeLock, Goes, Shape
  <2>3. View(w)' = View(w)
    BY <2>1, ViewKept
  <2>4. GraphOk(w)' /\ LoopFree(table)'
    BY <2>1, <2>2, <2>3, Zenon DEF GraphInv, GraphOk
  <2>5. \A v \in Writers \ {w}: GraphOk(v)'
    BY <1>1, <2>1, StepOfOne, GraphStill, Zenon DEF GraphInv
  <2>6. QED
    BY <2>4, <2>5 DEF GraphInv
<1>2. ASSUME NEW w \in Writers, Proceeds(w)
      PROVE  GraphInv'
  <2>1. UNCHANGED table
    BY <1>2, ProceedsEffect
  <2>2. GraphOk(w)' /\ LoopFree(table)'
    BY <1>2, <2>1, GraphProceed, Zenon DEF GraphInv
  <2>3. \A v \in Writers \ {w}: GraphOk(v)'
    BY <1>2, <2>1, StepOfOne, GraphStill, Zenon DEF GraphInv
  <2>4. QED
    BY <2>2, <2>3 DEF GraphInv
<1>3. ASSUME NEW w \in Writers, Ends(w), Commit(w) \/ UNCHANGED table
      PROVE  GraphInv'
  <2>1. LoopFree(table)'
    BY <1>3, Zenon DEF GraphInv, GraphOk, Commit
  <2>2. pc'[w] = "idle" /\ DOMAIN wrote'[w] = {}
    BY <1>3, EndsEffect, Zenon DEF PcIs
  <2>3. \A r \in Redirects: View(w)'[r] = table'[r]
    BY <2>2, RowsOfPages, SMT DEF View
  <2>4. GraphOk(w)'
    BY <2>1, <2>2, <2>3, SameRedirects, Zenon DEF GraphOk
  <2>5. ASSUME NEW v \in Writers, v # w PROVE GraphOk(v)'
    BY <1>3, <2>5, StepOfOne, GraphStill, GraphCommit, Zenon DEF GraphInv
  <2>6. QED
    BY <2>1, <2>4, <2>5 DEF GraphInv
<1>4. ASSUME NEW d \in Docs, Delete(d)
      PROVE  GraphInv'
  <2>1. LoopFree(table)'
    <3>1. ButFor(table', table, d, Absent)
      BY <1>4, SMT DEF Delete, ButFor, RowsInv, IsTable
    <3>2. QED
      BY <3>1, DroppedDoc, SMT DEF ButFor, GraphInv
  <2>2. QED
    BY <1>4, <2>1, GraphDelete DEF GraphInv
<1>5. ASSUME UNCHANGED vars
      PROVE  GraphInv'
  <2>1. UNCHANGED table /\ \A v \in Writers: Still(v)
    BY <1>5, Zenon DEF vars, transaction, Still
  <2>2. QED
    BY <2>1, GraphStill, Zenon DEF GraphInv
<1>6. QED
  BY <1>1, <1>2, <1>3, <1>4, <1>5, Zenon
     DEF Next, Proceeds, Commit, Abort

\* The active redirects never lead around in a circle, whatever the number of
\* rows, editors and page renames, and whichever saves were between their
\* validation and their commit.
THEOREM NoLoopEver == Spec => []NoRedirectLoop
<1>1. Init => RouteInv /\ GraphInv
  BY LocksInit, RowsInit, GraphInit DEF RouteInv
<1>2. (RouteInv /\ GraphInv) /\ [Next]_vars => (RouteInv /\ GraphInv)'
  BY ShapeNext, LocksNext, RowsNext, GraphNext DEF RouteInv
<1>3. GraphInv => NoRedirectLoop
  BY SMT DEF GraphInv, LoopFree, Closed, NoRedirectLoop, Loops, OnLoop
<1>4. QED
  BY <1>1, <1>2, <1>3, PTL DEF Spec

(***************************************************************************)
(* Clashes.                                                                *)
(***************************************************************************)
LEMMA ClashOfTwo ==
  ASSUME NEW u, NEW t, NEW d, NEW c, u[d] = t[d], u[c] = t[c]
  PROVE  Clash(u, d, c) <=> Clash(t, d, c)
  BY Zenon DEF Clash, Stands, Claims

LEMMA ClashIsMutual ==
  ASSUME NEW t, NEW d \in Docs, NEW c \in Docs, Clash(t, d, c)
  PROVE  Clash(t, c, d) /\ t[d] # Absent /\ t[c] # Absent
<1>1. Claims(t, d) \cap Claims(t, c) = Claims(t, c) \cap Claims(t, d)
  OBVIOUS
<1>2. InOneSpace(d, c) => InOneSpace(c, d)
  BY DEF InOneSpace
<1>3. Stands(t, d) /\ Stands(t, c)
  BY DEF Clash
<1>4. QED
  BY <1>1, <1>2, <1>3, Zenon DEF Clash, Stands

\* Jobs are in a space of their own.
LEMMA ClashInSpace ==
  ASSUME NEW t, NEW d \in Docs, NEW c \in Docs, Clash(t, d, c)
  PROVE  InOneSpace(d, c)
  BY KindsOfDocs, SMT DEF Clash, InOneSpace

\* Table u adds no clash to those of t, but for clashes of p with members of R
\* and those of the documents in T.
NoMoreClashes(u, t, p, R, T) ==
  \A d, c \in Docs \ T:
    Clash(u, d, c) => Clash(t, d, c) \/ (d = p /\ c \in R) \/ (c = p /\ d \in R)

\* One row is written, and what it clashes with it clashed with before.
LEMMA OneRowWritten ==
  ASSUME NEW u, NEW t, NEW x \in Docs, NEW row, ButFor(u, t, x, row), NEW R, NEW T,
         x \notin T => \A c \in Docs \ T: Clash(u, x, c) => Clash(t, x, c) \/ c \in R
  PROVE  NoMoreClashes(u, t, x, R, T)
<1> SUFFICES ASSUME NEW d \in Docs \ T, NEW c \in Docs \ T, Clash(u, d, c)
             PROVE  Clash(t, d, c) \/ (d = x /\ c \in R) \/ (c = x /\ d \in R)
  BY DEF NoMoreClashes
<1>1. CASE d = x
  BY <1>1
<1>2. CASE c = x
  BY <1>2, ClashIsMutual
<1>3. CASE d # x /\ c # x
  <2>1. u[d] = t[d] /\ u[c] = t[c]
    BY <1>3 DEF ButFor
  <2>2. QED
    BY <2>1, ClashOfTwo
<1>4. QED
  BY <1>1, <1>2, <1>3

LEMMA SameClashes ==
  ASSUME NEW u, NEW t, \A d \in Docs: u[d] = t[d] \/ u[d] = Absent
  PROVE  \A d, c \in Docs: Clash(u, d, c) => Clash(t, d, c)
<1> SUFFICES ASSUME NEW d \in Docs, NEW c \in Docs, Clash(u, d, c) PROVE Clash(t, d, c)
  OBVIOUS
<1>1. u[d] = t[d] /\ u[c] = t[c]
  BY ClashIsMutual
<1>2. QED
  BY <1>1, ClashOfTwo

(***************************************************************************)
(* A row the validators accept clashes with nothing it did not clash with.  *)
(***************************************************************************)
LEMMA ClashOfOthers ==
  ASSUME NEW t, NEW d, NEW c, c # d, Clash(t, d, c)
  PROVE  /\ t[d] # Absent /\ (d \in Redirects => t[d].active)
         /\ t[c] # Absent /\ (c \in Redirects => t[c].active)
         /\ \/ InOneSpace(d, c) /\ Claims(t, d) \cap Claims(t, c) # {}
            \/ /\ d \in Entities /\ c \in Entities
               /\ \/ Kind[d] = Kind[c] /\ t[d].name = t[c].name
                  \/ t[d].template # Default /\ t[d].template = t[c].template
  BY Zenon DEF Clash, Stands

LEMMA SameRow ==
  ASSUME NEW u, NEW t, NEW c, u[c] = t[c]
  PROVE  Claims(u, c) = Claims(t, c)
  BY Zenon DEF Claims

LEMMA ClashOfPlain ==
  ASSUME NEW u, NEW t, NEW d, NEW c, c # d, d \notin Entities, u[c] = t[c], Clash(u, d, c)
  PROVE  /\ t[c] # Absent /\ (c \in Redirects => t[c].active) /\ InOneSpace(d, c)
         /\ Claims(u, d) \cap Claims(t, c) # {}
<1>1. Claims(u, c) = Claims(t, c)
  BY SameRow
<1>2. /\ u[c] # Absent /\ (c \in Redirects => u[c].active) /\ InOneSpace(d, c)
      /\ Claims(u, d) \cap Claims(u, c) # {}
  BY ClashOfOthers, Zenon
<1>3. QED
  BY <1>1, <1>2

\* The only document of its page.
Sole(t, p) == \A q \in PagesIn(t) \ {p}: PageKind[q] # PageKind[p]

LEMMA SoleIsFound ==
  ASSUME NEW t, NEW p \in Pages, t[p] # Absent, Sole(t, p), NEW routes, t[p].slug \in routes
  PROVE  SurelyAt(t, p, routes) /\ PageAt(t, routes)
<1>1. p \in PagesIn(t)
  BY DEF PagesIn
<1>2. SurelyAt(t, p, routes)
  BY <1>1, SMT DEF SurelyAt, Sole
<1>3. QED
  BY <1>1, <1>2 DEF PageAt

\* What a document claims.
LEMMA ClaimsOf ==
  ASSUME NEW t, NEW c \in Docs, NEW z \in Claims(t, c)
  PROVE  /\ c \in Entities => z = SlugRoute(c, t[c]) \/ z = DealPage(t[c])
         /\ c \in Redirects => z = Source(t[c])
         /\ c \in Jobs \cup Pages => z = t[c].slug
  BY KindsOfDocs, SMT DEF Claims

LEMMA AcceptedJob ==
  ASSUME NEW u, NEW t, NEW j \in Jobs, NEW row, NEW touched, NEW isClone \in BOOLEAN, NEW out,
         ~JobRefuses(t, row, touched, isClone, out), ButFor(u, t, j, row), out \subseteq {j},
         \/ isClone \/ "slug" \in touched
         \/ t[j] # Absent /\ row.slug = t[j].slug,
         NEW c \in Docs, Clash(u, j, c)
  PROVE  Clash(t, j, c)
<1>0. j \in Docs /\ j \notin Entities /\ j \notin Redirects
  BY KindsOfDocs DEF Docs
<1>1. c # j
  BY <1>0, SMT DEF Clash
<1>2. /\ t[c] # Absent /\ (c \in Redirects => t[c].active) /\ InOneSpace(j, c)
      /\ Claims(u, j) \cap Claims(t, c) # {}
  <2>1. u[c] = t[c]
    BY <1>1 DEF ButFor
  <2>2. QED
    BY <1>0, <1>1, <2>1, ClashOfPlain
<1>3. c \in Jobs
  BY <1>2 DEF InOneSpace
<1>4. Claims(u, j) = {row.slug} /\ Claims(t, c) = {t[c].slug} /\ Claims(t, j) = {t[j].slug}
  BY <1>0, <1>3, KindsOfDocs, SMT DEF Claims, ButFor
<1>5. row.slug = t[c].slug
  BY <1>2, <1>4
<1>6. ~(isClone \/ "slug" \in touched)
  BY <1>1, <1>2, <1>3, <1>5, SMT DEF JobRefuses
<1>7. t[j] # Absent /\ Claims(t, j) \cap Claims(t, c) # {}
  BY <1>4, <1>5, <1>6
<1>8. QED
  BY <1>0, <1>1, <1>2, <1>7, Zenon DEF Clash, Stands

LEMMA AcceptedPage ==
  ASSUME NEW u, NEW t, NEW p \in Pages, NEW row, row # Absent, NEW touched,
         ~PageRefuses(t, p, row, touched, t[p]), ButFor(u, t, p, row),
         Sole(t, p), NEW c \in Docs, c \in Pages => Sole(t, c), Clash(u, p, c)
  PROVE  Clash(t, p, c) \/ c \in OwnedBy(t, p)
<1>0. p \in Docs /\ p \notin Entities /\ p \notin Redirects /\ p \notin Jobs
  BY KindsOfDocs DEF Docs
<1>1. c # p
  BY <1>0, SMT DEF Clash
<1>2. /\ t[c] # Absent /\ (c \in Redirects => t[c].active) /\ InOneSpace(p, c)
      /\ Claims(u, p) \cap Claims(t, c) # {}
  <2>1. u[c] = t[c]
    BY <1>1 DEF ButFor
  <2>2. QED
    BY <1>0, <1>1, <2>1, ClashOfPlain
<1>3. Claims(u, p) = {row.slug} /\ Claims(t, p) = {t[p].slug}
  BY <1>0, KindsOfDocs, SMT DEF Claims, ButFor
<1>4. row.slug \in Claims(t, c)
  BY <1>2, <1>3
<1>5. CASE t[p] # Absent /\ row.slug = t[p].slug
  <2>1. Claims(t, p) \cap Claims(t, c) # {}
    BY <1>3, <1>4, <1>5
  <2>2. QED
    BY <1>0, <1>1, <1>2, <1>5, <2>1, Zenon DEF Clash, Stands
<1>6. CASE t[p] = Absent \/ row.slug # t[p].slug
  <2>1. /\ ~OtherPageAt(t, p, row.slug) /\ ~LiveEntityAt(t, row.slug)
        /\ \E q \in MayOwn(t, p, t[p]):
             \A r \in ActiveIn(t): Source(t[r]) = row.slug => t[r].managedBy = q
    BY <1>6, Zenon DEF PageRefuses
  <2>2. c \notin Entities
    BY <1>2, <1>4, <2>1, ClaimsOf, SMT
    DEF LiveEntityAt, SlugTaken, DealPageTaken, EntitiesIn
  <2>3. c \notin Pages
    <3>1. ASSUME c \in Pages
          PROVE  c \in PagesIn(t) /\ PageKind[c] # PageKind[p] /\ t[c].slug = row.slug
      BY <1>1, <1>2, <1>4, <3>1, ClaimsOf, SMT DEF Sole, PagesIn
    <3>2. QED
      BY <1>2, <2>1, <3>1, SoleIsFound, SMT DEF OtherPageAt
  <2>4. c \notin Jobs
    BY <1>0, <1>2 DEF InOneSpace
  <2>5. c \in Redirects
    BY <2>2, <2>3, <2>4 DEF Docs
  <2>6. MayOwn(t, p, t[p]) = {p}
    BY SMT DEF MayOwn, PagesOf, Sole, PagesIn
  <2>7. QED
    BY <1>2, <1>4, <2>1, <2>5, <2>6, ClaimsOf, SMT DEF OwnedBy, ActiveIn
<1>7. QED
  BY <1>5, <1>6

\* An active redirect that is not refused: its address is free of entities and
\* of other redirects, or it was active there before.
LEMMA AcceptedRule ==
  ASSUME NEW u, NEW t, IsTable(t), NEW r \in Redirects, NEW row \in RedirectRow,
         NEW touched, NEW stored, NEW isNew \in BOOLEAN, NEW strict \in BOOLEAN,
         ~RedirectRefuses(t, r, row, touched, stored, isNew, strict),
         ~ShadowsPage(t, row, touched), ButFor(u, t, r, row),
         isNew \/ (stored = t[r] /\ stored # Absent /\ Untouched(row, stored, touched)),
         isNew => touched \cap {"from", "active"} # {} \/ ~row.active \/ SameSource(t, r, row),
         NEW c \in Docs, c \in Pages => Sole(t, c), Clash(u, r, c)
  PROVE  Clash(t, r, c)
<1>0. /\ r \in Docs /\ r \notin Entities /\ r \notin Jobs /\ u[r] = row
      /\ row.active \in BOOLEAN
  BY KindsOfDocs DEF Docs, ButFor, RedirectRow
<1>1. c # r
  BY <1>0, SMT DEF Clash
<1>2. /\ t[c] # Absent /\ (c \in Redirects => t[c].active) /\ InOneSpace(r, c)
      /\ Claims(u, r) \cap Claims(t, c) # {}
  <2>1. u[c] = t[c]
    BY <1>1 DEF ButFor
  <2>2. QED
    BY <1>0, <1>1, <2>1, ClashOfPlain
<1>3. row.active
  BY <1>0, Zenon DEF Clash, Stands
<1>4. Claims(u, r) = {Source(row)} /\ Claims(t, r) = {Source(t[r])}
  BY <1>0, Zenon DEF Claims
<1>5. Source(row) \in Claims(t, c)
  BY <1>2, <1>4
<1>6. CASE ~isNew /\ stored.active /\ Source(row) = Source(stored)
  <2>1. stored = t[r] /\ stored # Absent
    BY <1>6
  <2>2. Claims(t, r) \cap Claims(t, c) # {}
    BY <1>4, <1>5, <1>6, <2>1
  <2>3. QED
    BY <1>1, <1>2, <1>6, <2>1, <2>2, Zenon DEF Clash, Stands
<1>7. CASE ~LiveEntityAt(t, Source(row)) /\ ~SameSource(t, r, row)
  <2>1. c \notin Entities
    BY <1>2, <1>5, <1>7, ClaimsOf, SMT
    DEF LiveEntityAt, SlugTaken, DealPageTaken, EntitiesIn
  <2>2. c \notin Redirects
    BY <1>1, <1>2, <1>5, <1>7, ClaimsOf, SMT DEF SameSource, ActiveIn
  <2>3. c \in Pages
    BY <1>0, <1>2, <2>1, <2>2 DEF Docs, InOneSpace
  <2>4. PageAt(t, {Source(row)})
    BY <1>2, <1>5, <2>3, ClaimsOf, SoleIsFound, SMT
  <2>5. touched \cap {"from", "active"} = {}
    BY <1>3, <2>4, SMT DEF ShadowsPage
  <2>6. ~isNew
    BY <1>3, <1>7, <2>5
  <2>7. stored.active /\ Source(row) = Source(stored)
    <3>1. Untouched(row, stored, touched)
      BY <2>6
    <3>2. row.from = stored.from /\ row.active = stored.active
      BY <2>5, <3>1 DEF Untouched
    <3>3. QED
      BY <1>3, <3>2, Zenon DEF Source
  <2>8. QED
    BY <1>6, <2>6, <2>7
<1>8. \/ ~LiveEntityAt(t, Source(row)) /\ ~SameSource(t, r, row)
      \/ ~isNew /\ stored.active /\ Source(row) = Source(stored)
  <2> DEFINE fromChanged == FromChanged(row, touched, stored, isNew \/ strict)
             activated == row.active /\ (isNew \/ ("active" \in touched /\ ~stored.active))
             taken == LiveEntityAt(t, Source(row)) \/ SameSource(t, r, row)
  <2>1. \/ ~(isNew \/ strict) /\ touched \cap {"from", "to", "active"} = {}
        \/ ~(row.active /\ (fromChanged \/ activated) /\ taken)
    BY Zenon DEF RedirectRefuses
  <2>2. /\ ~fromChanged => "from" \notin touched \/ Source(row) = Source(stored)
        /\ row.active /\ ~activated => ~isNew /\ ("active" \notin touched \/ stored.active)
    BY Zenon DEF FromChanged
  <2> HIDE DEF fromChanged, activated
  <2>3. ~isNew => stored.active \in BOOLEAN
    <3>1. ~isNew => stored \in RedirectRow
      BY SMT DEF IsTable
    <3>2. QED
      BY <3>1 DEF RedirectRow
  <2>4. row.active \in BOOLEAN
    BY DEF RedirectRow
  <2>5. ASSUME ~isNew, touched \cap {"from", "to", "active"} = {}
        PROVE  stored.active /\ row.from = stored.from
    BY <1>3, <2>3, <2>4, <2>5 DEF Untouched
  <2>6. ASSUME ~isNew, ~fromChanged, ~activated
        PROVE  stored.active /\ Source(row) = Source(stored)
    BY <1>3, <2>2, <2>3, <2>4, <2>6, Zenon DEF Untouched, Source
  <2>7. CASE ~taken
    BY <2>7
  <2>8. CASE taken /\ isNew
    BY <1>3, <2>1, <2>2, <2>8
  <2>9. CASE taken /\ ~isNew
    BY <1>3, <2>1, <2>5, <2>6, <2>9, Zenon DEF Source
  <2>10. QED
    BY <2>7, <2>8, <2>9
<1>9. QED
  BY <1>6, <1>7, <1>8

\* The fields of an entity the payload leaves alone.
Unmoved(row, stored, touched) ==
  /\ "slug" \notin touched => row.slug = stored.slug
  /\ "name" \notin touched => row.name = stored.name
  /\ "template" \notin touched => row.template = stored.template

LEMMA ClashOfEntity ==
  ASSUME NEW u, NEW t, NEW e \in Entities, NEW c, c # e, u[c] = t[c], Clash(u, e, c)
  PROVE  /\ t[c] # Absent /\ (c \in Redirects => t[c].active)
         /\ \/ InOneSpace(e, c) /\ Claims(u, e) \cap Claims(u, c) # {}
            \/ /\ c \in Entities
               /\ \/ Kind[e] = Kind[c] /\ u[e].name = u[c].name
                  \/ u[e].template # Default /\ u[e].template = u[c].template
<1>1. /\ u[c] # Absent /\ (c \in Redirects => u[c].active)
      /\ \/ InOneSpace(e, c) /\ Claims(u, e) \cap Claims(u, c) # {}
         \/ /\ c \in Entities
            /\ \/ Kind[e] = Kind[c] /\ u[e].name = u[c].name
               \/ u[e].template # Default /\ u[e].template = u[c].template
  BY Zenon DEF Clash, Stands
<1>2. QED
  BY <1>1

LEMMA AcceptedEntity ==
  ASSUME NEW u, NEW t, NEW e \in Entities, NEW row, row # Absent, NEW touched, NEW stored,
         NEW isNew \in BOOLEAN, NEW whole \in BOOLEAN, NEW isClone \in BOOLEAN, NEW out,
         ~EntityRefuses(t, e, row, touched, stored, whole, isClone, out), isNew => whole,
         ButFor(u, t, e, row), out \subseteq {e},
         \/ isNew /\ (isClone \/ "template" \in touched)
         \/ ~isNew /\ stored = t[e] /\ stored # Absent /\ Unmoved(row, stored, touched),
         isNew => touched \cap {"slug", "name"} # {}
                    \/ \E s \in EntitiesIn(t) \ out: DealPage(row) = DealPage(t[s]),
         NEW c \in Docs, c \in Pages => Sole(t, c), Clash(u, e, c)
  PROVE  Clash(t, e, c)
<1> DEFINE slugChanged == SlugChanged(e, row, touched, stored, whole)
           nameChanged == NameChanged(row, touched, stored, whole)
           slug == SlugRoute(e, row)
           deal == DealPage(row)
<1>0. e \in Docs /\ e \notin Redirects /\ e \notin Jobs /\ u[e] = row
  BY KindsOfDocs DEF Docs, ButFor
<1>1. /\ slugChanged => /\ ~SlugTaken(t, slug, out) /\ ~DealPageTaken(t, slug, out)
                        /\ ~RedirectedFrom(t, slug)
      /\ nameChanged => ~NameTaken(t, Kind[e], row.name, out)
      /\ slugChanged \/ nameChanged =>
           /\ slug # deal /\ ~SlugTaken(t, deal, out) /\ ~DealPageTaken(t, deal, out)
           /\ ~RedirectedFrom(t, deal)
  BY Zenon DEF EntityRefuses, IdentityRefuses
<1>2. touched \cap {"slug", "name"} # {} => ~PageAt(t, {slug, deal})
  BY Zenon DEF EntityRefuses, ReservedByPage
<1>3. \/ ~(isClone \/ "template" \in touched) \/ row.template = Default
      \/ ~TemplateTaken(t, row.template, out)
  BY Zenon DEF EntityRefuses, TemplateRefuses
<1>4. /\ ~slugChanged => ~isNew /\ ("slug" \notin touched \/ slug = SlugRoute(e, stored))
      /\ ~nameChanged => ~isNew /\ ("name" \notin touched \/ row.name = stored.name)
  BY Zenon DEF SlugChanged, NameChanged
<1> HIDE DEF slugChanged, nameChanged
\* What is not changed is as it was.
<1>5. ~isNew => stored = t[e] /\ t[e] # Absent /\ Unmoved(row, t[e], touched)
  OBVIOUS
<1>6. ~slugChanged => ~isNew /\ slug = SlugRoute(e, t[e])
  BY <1>4, <1>5, Zenon DEF Unmoved, SlugRoute
<1>7. ~nameChanged => ~isNew /\ row.name = t[e].name /\ deal = DealPage(t[e])
  BY <1>4, <1>5, Zenon DEF Unmoved, DealPage
<1>8. touched \cap {"slug", "name"} = {} =>
        ~isNew /\ slug = SlugRoute(e, t[e]) /\ deal = DealPage(t[e])
  <2>1. ASSUME isNew, touched \cap {"slug", "name"} = {} PROVE FALSE
    <3>1. DealPageTaken(t, deal, out)
      BY <2>1, SMT DEF DealPageTaken
    <3>2. QED
      BY <1>1, <1>7, <2>1, <3>1
  <2>2. ASSUME ~isNew, touched \cap {"slug", "name"} = {}
        PROVE  row.slug = t[e].slug /\ row.name = t[e].name
    BY <1>5, <2>2 DEF Unmoved
  <2>3. QED
    BY <2>1, <2>2, Zenon DEF SlugRoute, DealPage
<1>9. CASE c = e
  <2>1. slug = deal
    BY <1>0, <1>9, Zenon DEF Clash
  <2>2. ~slugChanged /\ ~nameChanged
    BY <1>1, <2>1
  <2>3. t[e] # Absent /\ SlugRoute(e, t[e]) = DealPage(t[e])
    BY <1>5, <1>6, <1>7, <2>1, <2>2
  <2>4. QED
    BY <1>0, <1>9, <2>3, Zenon DEF Clash, Stands
<1>10. CASE c # e
  <2>1. u[c] = t[c] /\ Claims(u, c) = Claims(t, c)
    BY <1>10, SameRow DEF ButFor
  <2>2. /\ t[c] # Absent /\ (c \in Redirects => t[c].active)
        /\ \/ InOneSpace(e, c) /\ Claims(u, e) \cap Claims(u, c) # {}
           \/ /\ c \in Entities
              /\ \/ Kind[e] = Kind[c] /\ u[e].name = u[c].name
                 \/ u[e].template # Default /\ u[e].template = u[c].template
    BY <1>10, <2>1, ClashOfEntity
  <2>3. c \in Entities => c \in EntitiesIn(t) \ out
    BY <1>10, <2>2 DEF EntitiesIn
  <2>4. CASE InOneSpace(e, c) /\ Claims(u, e) \cap Claims(u, c) # {}
    <3>1. Claims(u, e) = {slug, deal} /\ Claims(t, e) = {SlugRoute(e, t[e]), DealPage(t[e])}
      BY <1>0, Zenon DEF Claims
    <3>2. PICK z \in {slug, deal}: z \in Claims(t, c)
      BY <2>1, <2>4, <3>1
    <3>3. \/ c \in Entities /\ (SlugTaken(t, z, out) \/ DealPageTaken(t, z, out))
          \/ c \in Redirects /\ RedirectedFrom(t, z)
          \/ c \in Pages /\ PageAt(t, {slug, deal})
      <4>1. CASE c \in Entities
        BY <2>3, <3>2, <4>1, ClaimsOf, SMT DEF SlugTaken, DealPageTaken
      <4>2. CASE c \in Redirects
        BY <2>2, <3>2, <4>2, ClaimsOf, SMT DEF RedirectedFrom, ActiveIn
      <4>3. CASE c \in Pages
        BY <2>2, <3>2, <4>3, ClaimsOf, SoleIsFound, SMT
      <4>4. QED
        BY <1>0, <2>4, <4>1, <4>2, <4>3 DEF Docs, InOneSpace
    <3>4. ~isNew /\ z \in {SlugRoute(e, t[e]), DealPage(t[e])}
      <4>1. CASE touched \cap {"slug", "name"} = {}
        BY <1>8, <3>2, <4>1
      <4>2. CASE touched \cap {"slug", "name"} # {}
        <5>1. ~PageAt(t, {slug, deal})
          BY <1>2, <3>2, <4>2
        <5>2. CASE z = slug
          BY <1>1, <1>6, <3>3, <5>1, <5>2
        <5>3. CASE z = deal
          BY <1>1, <1>7, <3>3, <5>1, <5>3
        <5>4. QED
          BY <3>2, <5>2, <5>3
      <4>3. QED
        BY <4>1, <4>2
    <3>5. Claims(t, e) \cap Claims(t, c) # {}
      BY <3>1, <3>2, <3>4
    <3>6. QED
      BY <1>0, <1>5, <1>10, <2>2, <2>4, <3>4, <3>5, Zenon DEF Clash, Stands
  <2>5. CASE c \in Entities /\ Kind[e] = Kind[c] /\ u[e].name = u[c].name
    <3>1. NameTaken(t, Kind[e], row.name, out)
      BY <1>0, <2>1, <2>3, <2>5, SMT DEF NameTaken
    <3>2. ~isNew /\ t[e].name = t[c].name
      BY <1>0, <1>1, <1>7, <2>1, <2>5, <3>1
    <3>3. QED
      BY <1>0, <1>5, <1>10, <2>2, <2>5, <3>2, Zenon DEF Clash, Stands
  <2>6. CASE c \in Entities /\ u[e].template # Default /\ u[e].template = u[c].template
    <3>1. TemplateTaken(t, row.template, out)
      BY <1>0, <2>1, <2>3, <2>6, SMT DEF TemplateTaken
    <3>2. ~isNew /\ "template" \notin touched
      BY <1>0, <1>3, <2>6, <3>1
    <3>3. t[e].template = t[c].template /\ t[e].template # Default
      BY <1>0, <1>5, <2>1, <2>6, <3>2 DEF Unmoved
    <3>4. QED
      BY <1>0, <1>5, <1>10, <2>2, <2>6, <3>2, <3>3, Zenon DEF Clash, Stands
  <2>7. QED
    BY <2>2, <2>4, <2>5, <2>6
<1>11. QED
  BY <1>9, <1>10

\* The redirects of the page a save has yet to take along: they may clash with it.
Pending(w) ==
  IF pc[w] = "sync" THEN OwnedBy(View(w), Page(w))
  ELSE IF pc[w] = "retire" THEN
    IF Leads(w) THEN {r \in DOMAIN owned[w]: r \in todo[w] \/ owned[w][r].from # NewPath(w)}
    ELSE todo[w]
  ELSE IF pc[w] = "retarget" THEN todo[w] ELSE {}

\* Those it is going to point to the page.
Later(w) ==
  IF pc[w] = "retire" /\ Leads(w)
    THEN {r \in DOMAIN owned[w]: owned[w][r].from # NewPath(w)}
  ELSE IF pc[w] = "retarget" THEN todo[w] ELSE {}

\* The documents of a page of which there are two, once the save has written:
\* the save looks at one of them, and nothing is said of it.
Aside(w) ==
  IF Page(w) \in Jobs THEN {} ELSE Twins(PagesIn(table) \cup ({Page(w)} \cap Pages))

\* The save takes the redirects of its page along, as the page was and is.
SeesPage(w) ==
  /\ table[Page(w)] # Absent \/ View(w)[Page(w)] # Absent
  /\ Page(w) \notin Aside(w) =>
       owner[w] = Page(w) /\ after[w] = View(w)[Page(w)] /\ before[w] = table[Page(w)]

Saved(w) == pc[w] \in Following \cup {"commit"}

OwnRedirects(w) == IF Page(w) \in Pages THEN OwnedBy(table, Page(w)) ELSE {}

ClashOk(w) ==
  /\ NoMoreClashes(View(w), table, Page(w), Pending(w), Aside(w))
  /\ pc[w] = "write" /\ SourceStands(req[w]) =>
       NoMoreClashes(Proposed(w), table, Page(w), OwnRedirects(w), Aside(w))

\* What a save found stays so: its new document is new, and what it remembers of
\* the page's redirects is how they are, unless deleted.
KnownOk(w) ==
  /\ pc[w] = "write" /\ req[w].act \in {"create", "clone"} => table[Page(w)] = Absent
  /\ pc[w] = "sync" => DOMAIN wrote[w] = {Page(w)}
  /\ Saved(w) /\ Page(w) \in Pages => SeesPage(w)
  /\ pc[w] = "retire" /\ Leads(w) => \A r \in todo[w]: owned[w][r].from = NewPath(w)
  /\ \A r \in Later(w): View(w)[r] \in {owned[w][r], Absent}

ClashInv == \A w \in Writers: ClashOk(w) /\ KnownOk(w)

\* A document is copied or changed from one of its own kind.
LEMMA SourceKind ==
  ASSUME NEW t, IsTable(t), NEW q \in Menu, q.act # "create", t[q.source] # Absent
  PROVE  /\ q.doc \in Entities => q.source \in Entities /\ t[q.source] \in EntityRow
         /\ q.doc \in Redirects => q.source \in Redirects /\ t[q.source] \in RedirectRow
         /\ q.doc \in Jobs <=> q.source \in Jobs
         /\ q.doc \in Jobs => t[q.source] \in JobRow
         /\ q.doc \in Docs /\ q.source \in Docs
<1>1. IsRequest(q)
  BY MenuIsRequests
<1>2. q.source \in Docs /\ RowsOf(q.source) = RowsOf(q.doc) /\ q.doc \in Docs
  BY <1>1, SMT DEF IsRequest
<1>3. t[q.source] \in RowsOf(q.source)
  BY <1>2, TableRows, SMT DEF IsTable
<1> DEFINE D == DOMAIN t[q.source]
<1>4. \A d \in Docs: t[q.source] \in RowsOf(d) =>
        /\ d \in Entities => D = {"slug", "name", "template"}
        /\ d \in Redirects => D = {"from", "to", "active", "managedBy"}
        /\ d \in Jobs => D = {"slug"}
        /\ d \in Pages => D = {"slug", "enabled"}
  <2>1. /\ \A row \in EntityRow: DOMAIN row = {"slug", "name", "template"}
        /\ \A row \in RedirectRow: DOMAIN row = {"from", "to", "active", "managedBy"}
        /\ \A row \in JobRow: DOMAIN row = {"slug"}
        /\ \A row \in PageRow: DOMAIN row = {"slug", "enabled"}
    BY DEF EntityRow, RedirectRow, JobRow, PageRow
  <2>2. QED
    BY <2>1, KindsOfDocs, SMT DEF RowsOf
<1>5. /\ q.doc \in Entities => RowsOf(q.doc) = EntityRow
      /\ q.doc \in Redirects => RowsOf(q.doc) = RedirectRow
      /\ q.doc \in Jobs => RowsOf(q.doc) = JobRow
  BY KindsOfDocs, SMT DEF RowsOf
<1>6. /\ {"slug", "name", "template"} # {"slug"} /\ {"slug", "enabled"} # {"slug"}
      /\ {"from", "to", "active", "managedBy"} # {"slug"}
      /\ {"slug", "name", "template"} # {"slug", "enabled"}
      /\ {"slug", "name", "template"} # {"from", "to", "active", "managedBy"}
      /\ {"slug", "enabled"} # {"from", "to", "active", "managedBy"}
  OBVIOUS
<1> HIDE DEF D
<1>7. /\ q.source \in Entities => D = {"slug", "name", "template"}
      /\ q.source \in Redirects => D = {"from", "to", "active", "managedBy"}
      /\ q.source \in Jobs => D = {"slug"}
      /\ q.source \in Pages => D = {"slug", "enabled"}
      /\ q.doc \in Entities => D = {"slug", "name", "template"}
      /\ q.doc \in Redirects => D = {"from", "to", "active", "managedBy"}
      /\ q.doc \in Jobs => D = {"slug"}
      /\ q.doc \in Pages => D = {"slug", "enabled"}
  BY <1>2, <1>3, <1>4
<1>8. /\ q.source \in Entities \/ q.source \in Redirects \/ q.source \in Jobs \/ q.source \in Pages
      /\ q.doc \in Entities \/ q.doc \in Redirects \/ q.doc \in Jobs \/ q.doc \in Pages
  BY <1>2 DEF Docs
<1>9. /\ q.doc \in Entities => q.source \in Entities
      /\ q.doc \in Redirects => q.source \in Redirects
      /\ q.doc \in Jobs <=> q.source \in Jobs
  BY <1>6, <1>7, <1>8, Zenon
<1>10. QED
  BY <1>2, <1>3, <1>5, <1>9

\* The fields a payload leaves alone.
LEMMA MergedRow ==
  ASSUME NEW stored, NEW data, NEW f \in DOMAIN stored, f \notin DOMAIN data
  PROVE  Merge(stored, data)[f] = stored[f]
  BY DEF Merge

LEMMA MergedFields ==
  ASSUME NEW stored, NEW data
  PROVE  /\ stored \in EntityRow => Unmoved(Merge(stored, data), stored, DOMAIN data)
         /\ stored \in RedirectRow => Untouched(Merge(stored, data), stored, DOMAIN data)
         /\ stored \in JobRow /\ "slug" \notin DOMAIN data => Merge(stored, data).slug = stored.slug
<1>1. /\ stored \in EntityRow => DOMAIN stored = {"slug", "name", "template"}
      /\ stored \in RedirectRow => DOMAIN stored = {"from", "to", "active", "managedBy"}
      /\ stored \in JobRow => DOMAIN stored = {"slug"}
  BY DEF EntityRow, RedirectRow, JobRow
<1>2. QED
  BY <1>1, MergedRow, SMT DEF Unmoved, Untouched

LEMMA AsideSole ==
  ASSUME NEW w \in Writers, Page(w) \notin Jobs
  PROVE  /\ \A p \in Pages \ Aside(w): table[p] # Absent \/ p = Page(w) => Sole(table, p)
         /\ Aside(w) \subseteq Pages
  BY Zenon DEF Aside, Twins, Sole, PagesIn

\* A save that was validated is about to write a row that clashes with nothing
\* it did not clash with, but for a page and its own redirects.
LEMMA AcceptedSave ==
  ASSUME RowsInv, NEW w \in Writers, NEW q, q = req[w], q \in Menu, q.act # "delete",
         SourceStands(q), q.act \in {"create", "clone"} => IsFresh(table, q.doc),
         ~Refused(table, q), q.doc \notin Aside(w), NEW c \in Docs \ Aside(w),
         Clash(Proposed(w), q.doc, c)
  PROVE  Clash(table, q.doc, c) \/ (q.doc \in Pages /\ c \in OwnedBy(table, q.doc))
<1> DEFINE row == EffectiveRow(table, q)
           stored == StoredRow(table, q)
           touched == DOMAIN q.data
           isNew == q.act # "update"
           isClone == q.act = "clone"
           out == LeftOut(q)
           human == q.human
           whole == isNew \/ human
<1>1. /\ IsRequest(q) /\ IsTable(table) /\ row \in RowsOf(q.doc) /\ q.doc \in Docs
      /\ human \in BOOLEAN /\ isNew \in BOOLEAN /\ isClone \in BOOLEAN
      /\ whole \in BOOLEAN /\ (isNew => whole)
  BY MenuIsRequests, EffectiveRows, Zenon DEF RowsInv, IsRequest, SourceStands
<1>2. ButFor(Proposed(w), table, q.doc, row)
  <2>1. Result(w) = row /\ Page(w) = q.doc
    BY DEF Result, Page
  <2> HIDE DEF row
  <2>2. QED
    BY <1>1, <2>1, SMT DEF ButFor, Proposed
<1>3. /\ out = IF isNew THEN {} ELSE {q.doc}
      /\ out \subseteq {q.doc}
  BY Zenon DEF LeftOut
<1>4. /\ q.doc \in Entities =>
           ~EntityRefuses(table, q.doc, row, touched, stored, whole, isClone, out)
      /\ q.doc \in Redirects =>
           /\ ~RedirectRefuses(table, q.doc, row, touched, stored, isNew, human)
           /\ ~ShadowsPage(table, row, touched)
      /\ q.doc \in Jobs => ~JobRefuses(table, row, touched, isClone, out)
      /\ q.doc \in Pages => ~PageRefuses(table, q.doc, row, touched, stored)
  BY <1>1, Refusals, Zenon
<1>8. c # q.doc => /\ c \in Docs /\ Clash(Proposed(w), q.doc, c) /\ table[c] # Absent
                     /\ Proposed(w)[c] = table[c]
  BY <1>1, <1>2, ClashIsMutual, SMT DEF ButFor
<1>9. /\ q.doc \notin Jobs /\ c \in Pages => Sole(table, c)
      /\ q.doc \in Pages => Sole(table, q.doc)
  BY <1>8, KindsOfDocs, AsideSole, Zenon DEF Page
\* A create carries every field; an update or a clone is merged over a row.
<1>5. CASE q.act = "create"
  <2>1. /\ row = q.data /\ stored = Absent /\ isNew /\ ~isClone /\ table[q.doc] = Absent
        /\ q.data \in RowsOf(q.doc)
    BY <1>1, <1>5, Zenon DEF EffectiveRow, StoredRow, IsFresh, IsRequest
  <2>2. CASE q.doc \in Entities
    <3>1. q.data \in EntityRow
      BY <2>1, <2>2 DEF RowsOf
    <3>2. touched = {"slug", "name", "template"} /\ row # Absent
      BY <2>1, <3>1, AbsentIsNoRow DEF EntityRow
    <3>3. /\ touched \cap {"slug", "name"} # {} /\ "template" \in touched
      BY <3>2
    <3>4. /\ row # Absent
          /\ \/ isNew /\ (isClone \/ "template" \in touched)
             \/ ~isNew /\ stored = table[q.doc] /\ stored # Absent /\ Unmoved(row, stored, touched)
          /\ isNew => \/ touched \cap {"slug", "name"} # {}
                      \/ \E s \in EntitiesIn(table) \ out: DealPage(row) = DealPage(table[s])
          /\ ~EntityRefuses(table, q.doc, row, touched, stored, whole, isClone, out)
      BY <1>4, <2>1, <2>2, <3>2, <3>3, Zenon
    <3> HIDE DEF row, stored, touched, isNew, isClone, out, human, whole
    <3>5. Clash(table, q.doc, c)
      BY <1>1, <1>2, <1>3, <1>9, <2>2, <3>3, <3>4, KindsOfDocs, AcceptedEntity
    <3>6. QED
      BY <3>5
  <2>3. CASE q.doc \in Redirects
    <3>1. q.data \in RedirectRow
      BY <2>1, <2>3, RowsOfPages
    <3>2. touched \cap {"from", "active"} # {}
      BY <3>1 DEF RedirectRow
    <3>3. /\ ~RedirectRefuses(table, q.doc, row, touched, stored, isNew, human)
          /\ ~ShadowsPage(table, row, touched) /\ row \in RedirectRow
          /\ isNew \/ (stored = table[q.doc] /\ stored # Absent /\ Untouched(row, stored, touched))
          /\ isNew => \/ touched \cap {"from", "active"} # {} \/ ~row.active
                      \/ SameSource(table, q.doc, row)
      BY <1>4, <2>1, <2>3, <3>1, <3>2, Zenon
    <3> HIDE DEF row, stored, touched, isNew, isClone, out, human, whole
    <3>4. Clash(table, q.doc, c)
      BY <1>1, <1>2, <1>9, <2>3, <3>2, <3>3, KindsOfDocs, AcceptedRule
    <3>5. QED
      BY <3>4
  <2>4. CASE q.doc \in Jobs
    <3>1. RowsOf(q.doc) = JobRow
      BY <2>4, KindsOfDocs, SMT DEF RowsOf
    <3>2. "slug" \in touched
      BY <2>1, <3>1 DEF JobRow
    <3> HIDE DEF row, stored, touched, isNew, isClone, out, human, whole
    <3>3. QED
      BY <1>1, <1>2, <1>3, <1>4, <2>4, <3>2, AcceptedJob
  <2>5. CASE q.doc \in Pages
    <3>1. row # Absent
      BY <1>1, <2>5, RowsOfPages, AbsentIsNoRow
    <3>2. stored = table[q.doc]
      BY <2>1
    <3> HIDE DEF row, stored, touched, isNew, isClone, out, human, whole
    <3>3. QED
      BY <1>2, <1>4, <1>9, <2>5, <3>1, <3>2, KindsOfDocs, AcceptedPage
  <2>6. QED
    BY <1>1, <2>2, <2>3, <2>4, <2>5 DEF Docs
<1>6. CASE q.act \in {"clone", "update"}
  <2>0. q.act # "create" /\ table[q.source] # Absent
    BY <1>6 DEF SourceStands
  <2>1. /\ row = Merge(table[q.source], q.data) /\ stored = table[q.source]
        /\ stored # Absent
    BY <2>0, Zenon DEF EffectiveRow, StoredRow
  <2>2. /\ q.act = "update" => q.source = q.doc /\ ~isNew /\ ~isClone
        /\ q.act = "clone" => /\ isNew /\ isClone /\ table[q.doc] = Absent
                              /\ q.doc \notin Pages
    BY <1>1, Zenon DEF IsFresh, IsRequest
  <2>3. /\ q.doc \in Entities => q.source \in Entities /\ stored \in EntityRow
        /\ q.doc \in Redirects => q.source \in Redirects /\ stored \in RedirectRow
        /\ q.doc \in Jobs => stored \in JobRow
    BY <1>1, <2>0, <2>1, SourceKind
  <2>4. /\ q.doc \in Entities => Unmoved(row, stored, touched)
        /\ q.doc \in Redirects => Untouched(row, stored, touched)
        /\ q.doc \in Jobs /\ "slug" \notin touched => row.slug = stored.slug
    <3>1. row = Merge(stored, q.data)
      BY <2>1, Zenon
    <3> HIDE DEF row, stored
    <3>2. QED
      BY <2>3, <3>1, MergedFields
  <2>5. q.doc \in Pages => q.act = "update" /\ stored = table[q.doc]
    BY <1>6, <2>1, <2>2
  <2>6. CASE q.doc \in Entities
    <3>1. row # Absent
      BY <1>1, <2>6, AbsentIsNoRow DEF RowsOf
    <3>2. ASSUME isNew, touched \cap {"slug", "name"} = {}
          PROVE  \E s \in EntitiesIn(table) \ out: DealPage(row) = DealPage(table[s])
      <4>1. row.name = stored.name
        BY <2>4, <2>6, <3>2 DEF Unmoved
      <4>2. q.source \in EntitiesIn(table) \ out
        BY <1>3, <2>0, <2>3, <2>6, <3>2, SMT DEF EntitiesIn
      <4>3. DealPage(row) = DealPage(table[q.source])
        BY <2>1, <4>1, Zenon DEF DealPage
      <4>4. QED
        BY <4>2, <4>3
    <3>3. \/ isNew /\ (isClone \/ "template" \in touched)
          \/ ~isNew /\ stored = table[q.doc] /\ stored # Absent /\ Unmoved(row, stored, touched)
      BY <1>6, <2>1, <2>2, <2>4, <2>6
    <3>4. /\ row # Absent
          /\ \/ isNew /\ (isClone \/ "template" \in touched)
             \/ ~isNew /\ stored = table[q.doc] /\ stored # Absent /\ Unmoved(row, stored, touched)
          /\ isNew => \/ touched \cap {"slug", "name"} # {}
                      \/ \E s \in EntitiesIn(table) \ out: DealPage(row) = DealPage(table[s])
          /\ ~EntityRefuses(table, q.doc, row, touched, stored, whole, isClone, out)
      BY <1>4, <2>6, <3>1, <3>2, <3>3, Zenon
    <3>5. c \in Pages => Sole(table, c)
      BY <1>9, <2>6, KindsOfDocs
    <3> HIDE DEF row, stored, touched, isNew, isClone, out, human, whole
    <3>6. /\ ButFor(Proposed(w), table, q.doc, row) /\ out \subseteq {q.doc}
          /\ isNew \in BOOLEAN /\ isClone \in BOOLEAN /\ whole \in BOOLEAN /\ (isNew => whole)
      BY <1>1, <1>2, <1>3
    <3>7. Clash(table, q.doc, c)
      BY <2>6, <3>4, <3>5, <3>6, AcceptedEntity
    <3>8. QED
      BY <3>7
  <2>7. CASE q.doc \in Redirects
    <3>1. row \in RedirectRow /\ row.active \in BOOLEAN
      <4>1. row \in RedirectRow
        BY <1>1, <2>7, RowsOfPages
      <4>2. QED
        BY <4>1 DEF RedirectRow
    <3>2. ASSUME isNew, touched \cap {"from", "active"} = {}, row.active
          PROVE  SameSource(table, q.doc, row)
      <4>1. row.from = stored.from /\ row.active = stored.active
        BY <2>4, <2>7, <3>2 DEF Untouched
      <4>2. q.source \in ActiveIn(table) \ {q.doc}
        BY <2>1, <2>2, <2>3, <2>7, <3>2, <4>1, <1>6, SMT DEF ActiveIn
      <4>3. Source(table[q.source]) = Source(row)
        BY <2>1, <4>1, Zenon DEF Source
      <4>4. QED
        BY <4>2, <4>3 DEF SameSource
    <3>3. isNew \/ (stored = table[q.doc] /\ stored # Absent /\ Untouched(row, stored, touched))
      BY <1>6, <2>1, <2>2, <2>4, <2>7
    <3> HIDE DEF row, stored, touched, isNew, isClone, out, human, whole
    <3>4. QED
      BY <1>1, <1>2, <1>4, <1>9, <2>7, <3>1, <3>2, <3>3, KindsOfDocs, AcceptedRule
  <2>8. CASE q.doc \in Jobs
    <3>1. \/ isClone \/ "slug" \in touched
          \/ table[q.doc] # Absent /\ row.slug = table[q.doc].slug
      BY <1>6, <2>1, <2>2, <2>4, <2>8
    <3> HIDE DEF row, stored, touched, isNew, isClone, out, human, whole
    <3>2. QED
      BY <1>1, <1>2, <1>3, <1>4, <2>8, <3>1, AcceptedJob
  <2>9. CASE q.doc \in Pages
    <3>1. row # Absent
      BY <1>1, <2>9, RowsOfPages, AbsentIsNoRow
    <3>2. stored = table[q.doc]
      BY <2>5, <2>9
    <3> HIDE DEF row, stored, touched, isNew, isClone, out, human, whole
    <3>3. QED
      BY <1>2, <1>4, <1>9, <2>9, <3>1, <3>2, KindsOfDocs, AcceptedPage
  <2>10. QED
    BY <1>1, <2>6, <2>7, <2>8, <2>9 DEF Docs
<1>7. QED
  BY <1>1, <1>5, <1>6 DEF IsRequest

(***************************************************************************)
(* No save adds a clash that it does not remove before it commits.          *)
(***************************************************************************)
LEMMA ClashStill ==
  ASSUME NEW v \in Writers, Still(v), UNCHANGED table, ClashOk(v), KnownOk(v)
  PROVE  ClashOk(v)' /\ KnownOk(v)'
<1>1. View(v)' = View(v)
  BY ViewKept DEF Still
<1>2. /\ Page(v)' = Page(v) /\ Result(v)' = Result(v)
      /\ SourceStands(req[v])' = SourceStands(req[v])
  BY Zenon DEF Page, Result, Still, SourceStands
<1>3. /\ Proposed(v)' = Proposed(v) /\ OwnRedirects(v)' = OwnRedirects(v)
      /\ Aside(v)' = Aside(v)
  BY <1>2, Zenon DEF Proposed, OwnRedirects, Aside
<1>4. Leads(v)' = Leads(v) /\ NewPath(v)' = NewPath(v) /\ SeesPage(v)' = SeesPage(v)
  BY <1>1, <1>2, <1>3, Zenon DEF Leads, NewPath, SeesPage, Still
<1>5. Pending(v)' = Pending(v) /\ Later(v)' = Later(v)
  BY <1>1, <1>2, <1>4, Zenon DEF Pending, Later, Still
<1>6. ClashOk(v)'
  BY <1>1, <1>2, <1>3, <1>5, Zenon DEF ClashOk, Still
<1>7. KnownOk(v)'
  BY <1>1, <1>2, <1>3, <1>4, <1>5, Zenon DEF KnownOk, Still, Saved
<1>8. QED
  BY <1>6, <1>7

LEMMA NothingAdded ==
  ASSUME NEW u, NEW t, NEW p, NEW R, NEW T, \A d \in Docs: u[d] = t[d]
  PROVE  NoMoreClashes(u, t, p, R, T)
  BY ClashOfTwo, Zenon DEF NoMoreClashes

\* More may be pending, and a page set aside is not looked at.
LEMMA MorePending ==
  ASSUME NEW u, NEW t, NEW p, NEW R, NEW S, NEW T, NoMoreClashes(u, t, p, R, T),
         p \notin T => R \subseteq S
  PROVE  NoMoreClashes(u, t, p, S, T)
  BY SMT DEF NoMoreClashes

LEMMA AsideKept ==
  ASSUME NEW w \in Writers, UNCHANGED <<table, req>>
  PROVE  Page(w)' = Page(w) /\ Aside(w)' = Aside(w)
  BY Zenon DEF Page, Aside

LEMMA AsideStays ==
  ASSUME NEW w \in Writers, req'[w] = req[w], \A p \in Pages: table'[p] = table[p]
  PROVE  Aside(w)' = Aside(w)
<1>1. PagesIn(table') = PagesIn(table)
  BY DEF PagesIn
<1>2. Page(w)' = Page(w)
  BY Zenon DEF Page
<1>3. QED
  BY <1>1, <1>2, Zenon DEF Aside

LEMMA NoPending ==
  ASSUME NEW w, pc[w] \notin {"sync", "retire", "retarget"}
  PROVE  Pending(w) = {} /\ Later(w) = {}
  BY Zenon DEF Pending, Later

LEMMA ViewSole ==
  ASSUME RowsInv, NEW w \in Writers, Page(w) \in Pages, NEW p \in Pages \ Aside(w),
         View(w)[p] # Absent
  PROVE  Sole(View(w), p)
<1>1. ASSUME NEW q \in PagesIn(View(w)) PROVE q \in PagesIn(table) \cup {Page(w)}
  <2>1. q \in Pages /\ q \in Docs /\ q \notin Redirects /\ View(w)[q] # Absent
    BY KindsOfDocs DEF PagesIn, Docs
  <2>2. q \in DOMAIN wrote[w] => q = Page(w)
    BY <2>1, Zenon DEF RowsInv, WritesOk
  <2>3. q \notin DOMAIN wrote[w] => View(w)[q] = table[q]
    BY <2>1, Zenon DEF View
  <2>4. QED
    BY <2>1, <2>2, <2>3 DEF PagesIn
<1>2. Page(w) \notin Jobs /\ {Page(w)} \cap Pages = {Page(w)}
  BY KindsOfDocs
<1>3. p \in PagesIn(View(w))
  BY DEF PagesIn
<1>4. QED
  BY <1>1, <1>2, <1>3, Zenon DEF Aside, Twins, Sole

\* A redirect of the page is saved past the validators.
LEMMA NestedClash ==
  ASSUME RowsInv, NEW w \in Writers, Page(w) \in Pages, UNCHANGED table, NEW r \in Redirects,
         NEW row \in RedirectRow, NEW touched, NEW stored, NEW isNew \in BOOLEAN,
         req[w].human \in BOOLEAN, NestedSave(w, r, row, touched, stored, isNew),
         isNew \/ (stored = View(w)[r] /\ stored # Absent /\ Untouched(row, stored, touched)),
         isNew => touched \cap {"from", "active"} # {}
  PROVE  /\ \A d, c \in Docs \ Aside(w): Clash(View(w)', d, c) => Clash(View(w), d, c)
         /\ ButFor(View(w)', View(w), r, row)
<1>1. IsTable(View(w)) /\ r \in Docs
  BY RowsOfPages, Zenon DEF RowsInv, WritesOk
<1>2. /\ ~RedirectRefuses(View(w), r, row, touched, stored, isNew, req[w].human)
      /\ ~ShadowsPage(View(w), row, touched) /\ WroteIs(w, r, row)
  BY Zenon DEF NestedSave
<1>3. ButFor(View(w)', View(w), r, row)
  BY <1>1, <1>2, ViewWritten
<1>4. isNew => touched \cap {"from", "active"} # {} \/ ~row.active \/ SameSource(View(w), r, row)
  OBVIOUS
<1>5. ASSUME NEW c \in Docs \ Aside(w), Clash(View(w)', r, c)
      PROVE  Clash(View(w), r, c)
  <2>1. c \in Pages => View(w)[c] # Absent
    <3>1. View(w)'[c] # Absent
      BY <1>1, <1>5, ClashIsMutual
    <3>2. QED
      BY <1>3, <3>1, KindsOfDocs, SMT DEF ButFor
  <2>2. c \in Pages => Sole(View(w), c)
    BY <1>5, <2>1, ViewSole
  <2>3. QED
    BY <1>1, <1>2, <1>3, <1>4, <1>5, <2>2, AcceptedRule
<1>6. NoMoreClashes(View(w)', View(w), r, {}, Aside(w))
  BY <1>1, <1>3, <1>5, OneRowWritten
<1>7. QED
  BY <1>3, <1>6 DEF NoMoreClashes

\* Saving a redirect leaves what a save knows of its page.
LEMMA PageAsItWas ==
  ASSUME NEW w \in Writers, Page(w) \in Pages, UNCHANGED <<table, req, before, after, owner, owned>>,
         \/ UNCHANGED wrote
         \/ \E r \in Redirects: \E row: ButFor(View(w)', View(w), r, row)
  PROVE  /\ Page(w)' = Page(w) /\ Leads(w)' = Leads(w) /\ NewPath(w)' = NewPath(w)
         /\ Aside(w)' = Aside(w) /\ SeesPage(w)' = SeesPage(w)
         /\ View(w)'[Page(w)] = View(w)[Page(w)]
<1>1. Page(w)' = Page(w)
  BY Zenon DEF Page
<1>2. View(w)'[Page(w)] = View(w)[Page(w)]
  <2>1. CASE UNCHANGED wrote
    BY <2>1, ViewKept
  <2>2. ASSUME NEW r \in Redirects, NEW row, ButFor(View(w)', View(w), r, row)
        PROVE  View(w)'[Page(w)] = View(w)[Page(w)]
    BY <2>2, RowsOfPages, KindsOfDocs, SMT DEF ButFor
  <2>3. QED
    BY <2>1, <2>2
<1>3. Aside(w)' = Aside(w)
  BY AsideKept
<1>4. QED
  BY <1>1, <1>2, <1>3, Zenon DEF Leads, NewPath, SeesPage

LEMMA ClashValidate ==
  ASSUME Shape, LocksInv, RowsInv, ClashInv, NEW w \in Writers, Validate(w)
  PROVE  ClashOk(w)' /\ KnownOk(w)'
<1>1. /\ pc[w] = "validate" /\ pc'[w] = "write" /\ SourceStands(req[w])
      /\ req[w].act \in {"create", "clone"} => IsFresh(table, req[w].doc)
      /\ req[w].act = "delete" \/ ~Refused(table, req[w])
      /\ UNCHANGED <<table, req, wrote>>
  BY Zenon DEF Validate, transaction, Shape, Goes
<1>2. View(w)' = View(w) /\ Page(w)' = Page(w) /\ req[w] \in Menu /\ Page(w) \in Docs
  BY <1>1, ViewKept, Menus, Zenon DEF Page, LocksInv, LocksOk
<1>3. Pending(w) = {} /\ Pending(w)' = {} /\ Later(w)' = {}
  BY <1>1, NoPending, SMT DEF Pending, Later
<1>4. NoMoreClashes(Proposed(w), table, Page(w), OwnRedirects(w), Aside(w))
  <2>1. ButFor(Proposed(w), table, Page(w), Result(w))
    BY <1>2, SMT DEF ButFor, Proposed
  <2>2. ASSUME Page(w) \notin Aside(w), NEW c \in Docs \ Aside(w), Clash(Proposed(w), Page(w), c)
        PROVE  Clash(table, Page(w), c) \/ c \in OwnRedirects(w)
    <3>1. CASE req[w].act = "delete"
      <4>1. Proposed(w)[Page(w)] = Absent
        BY <2>1, <3>1 DEF ButFor, Result
      <4>2. QED
        BY <1>2, <2>2, <4>1, ClashIsMutual
    <3>2. CASE req[w].act # "delete"
      <4>1. \/ Clash(table, Page(w), c)
            \/ Page(w) \in Pages /\ c \in OwnedBy(table, Page(w))
        BY <1>1, <1>2, <2>2, <3>2, AcceptedSave, Zenon DEF Page
      <4>2. QED
        BY <4>1 DEF OwnRedirects
    <3>3. QED
      BY <3>1, <3>2
  <2>3. QED
    BY <1>2, <2>1, <2>2, OneRowWritten
<1>5. /\ Proposed(w)' = Proposed(w) /\ OwnRedirects(w)' = OwnRedirects(w)
      /\ Aside(w)' = Aside(w)
  BY <1>1, <1>2, Zenon DEF Proposed, Result, OwnRedirects, Aside
<1>6. ClashOk(w)'
  BY <1>1, <1>2, <1>3, <1>4, <1>5, Zenon DEF ClashInv, ClashOk
<1>7. KnownOk(w)'
  <2>1. req[w].act \in {"create", "clone"} => table[Page(w)] = Absent
    BY <1>1, Zenon DEF IsFresh, Page
  <2>2. QED
    BY <1>1, <1>2, <1>3, <2>1, SMT DEF KnownOk, Saved, Following
<1>8. QED
  BY <1>6, <1>7

\* The document a save of a page finds is the only one there is.
LEMMA FoundAlone ==
  ASSUME NEW u, NEW w \in Writers, Page(w) \in Pages \ Aside(w),
         \A q \in Pages \ {Page(w)}: u[q] = table[q], NEW b \in Found(u, Page(w))
  PROVE  b = Page(w)
<1>1. \A q \in PagesIn(table) \ {Page(w)}: PageKind[q] # PageKind[Page(w)]
  <2>1. Page(w) \notin Jobs /\ {Page(w)} \cap Pages = {Page(w)}
    BY KindsOfDocs
  <2>2. Page(w) \notin Twins(PagesIn(table) \cup {Page(w)})
    BY <2>1, Zenon DEF Aside
  <2>3. QED
    BY <2>2, Zenon DEF Twins
<1>2. \A q \in PagesIn(u) \ {Page(w)}: q \in PagesIn(table) \ {Page(w)}
  BY SMT DEF PagesIn
<1>3. PagesOf(u, PageKind[Page(w)]) \subseteq {Page(w)}
  BY <1>1, <1>2, Zenon DEF PagesOf
<1>4. QED
  BY <1>3, Zenon DEF Found

LEMMA ClashWrite ==
  ASSUME Shape, LocksInv, RowsInv, ClashInv, NEW w \in Writers, Write(w)
  PROVE  ClashOk(w)' /\ KnownOk(w)'
<1>1. /\ pc[w] = "write" /\ SourceStands(req[w]) /\ UNCHANGED <<table, req>>
      /\ WroteIs(w, Page(w), Result(w))
      /\ pc'[w] = IF Page(w) \in Pages THEN "sync" ELSE "commit"
  BY WriteEffect, Zenon DEF PcIs
<1>2. /\ NoMoreClashes(Proposed(w), table, Page(w), OwnRedirects(w), Aside(w))
      /\ Page(w) \in Docs /\ WritesOk(w) /\ Page(w)' = Page(w) /\ Aside(w)' = Aside(w)
  BY <1>1, ResultRow, AsideKept, Zenon DEF ClashInv, ClashOk, RowsInv
<1>3. DOMAIN wrote[w] = {} /\ DOMAIN wrote'[w] = {Page(w)}
  BY <1>1, <1>2, SMT DEF WritesOk, WroteIs
<1>4. \A d \in Docs: View(w)'[d] = Proposed(w)[d]
  <2>1. SameTable(View(w), table)
    BY <1>3, ViewFresh
  <2>2. ButFor(View(w)', View(w), Page(w), Result(w))
    BY <1>1, <1>2, ViewWritten
  <2>3. QED
    BY <2>1, <2>2, SMT DEF SameTable, ButFor, Proposed
<1>5. OwnRedirects(w) \subseteq Pending(w)'
  <2>1. CASE Page(w) \in Pages
    <3>1. Pending(w)' = OwnedBy(View(w)', Page(w))
      BY <1>1, <1>2, <2>1, Zenon DEF Pending
    <3>2. \A r \in Redirects: View(w)'[r] = table[r]
      BY <1>4, <2>1, RowsOfPages, KindsOfDocs, SMT DEF Proposed
    <3>3. QED
      BY <2>1, <3>1, <3>2, SMT DEF OwnRedirects, OwnedBy
  <2>2. CASE Page(w) \notin Pages
    BY <2>2 DEF OwnRedirects
  <2>3. QED
    BY <2>1, <2>2
<1>6. NoMoreClashes(View(w)', table', Page(w)', Pending(w)', Aside(w)')
  <2>1. \A d, c \in Docs: Clash(View(w)', d, c) => Clash(Proposed(w), d, c)
    BY <1>4, ClashOfTwo, Zenon
  <2>2. NoMoreClashes(View(w)', table, Page(w), Pending(w)', Aside(w))
    BY <1>2, <1>5, <2>1, SMT DEF NoMoreClashes
  <2>3. QED
    BY <1>1, <1>2, <2>2
<1>7. ClashOk(w)'
  BY <1>1, <1>6, Zenon DEF ClashOk
<1>70. ASSUME Page(w) \in Pages
       PROVE  table[Page(w)] # Absent \/ View(w)'[Page(w)] # Absent
  <2>1. IsRequest(req[w]) /\ req[w].doc = Page(w)
    BY <1>1, MenuIsRequests, Zenon DEF LocksInv, LocksOk, Page
  <2>2. CASE req[w].act = "create"
    <3>1. Result(w) \in PageRow
      BY <1>70, <2>1, <2>2, RowsOfPages, Zenon DEF Result, EffectiveRow, IsRequest
    <3>2. View(w)'[Page(w)] = Result(w)
      BY <1>2, <1>4 DEF Proposed
    <3>3. QED
      BY <3>1, <3>2, AbsentIsNoRow
  <2>3. CASE req[w].act # "create"
    <3>1. req[w].source = Page(w)
      BY <1>70, <2>1, <2>3, SMT DEF IsRequest
    <3>2. QED
      BY <1>1, <2>3, <3>1 DEF SourceStands
  <2>4. QED
    BY <2>2, <2>3
<1>8. ASSUME Page(w) \in Pages
      PROVE  SeesPage(w)'
  <2> SUFFICES ASSUME Page(w) \notin Aside(w)
               PROVE  /\ owner'[w] = Page(w) /\ after'[w] = View(w)'[Page(w)]
                      /\ before'[w] = table[Page(w)]
    BY <1>1, <1>2, <1>70, <1>8 DEF SeesPage
  <2>1. PICK b \in Found(table, Page(w)): before'[w] = table[b]
    BY <1>2, WriteFinds, Zenon DEF RowsInv, IsTable
  <2>2. before'[w] = table[Page(w)]
    BY <1>8, <2>1, FoundAlone
  <2>3. PICK new: /\ ButFor(new, table, Page(w), Result(w))
                  /\ owner'[w] \in Found(new, Page(w)) /\ after'[w] = new[owner'[w]]
    BY <1>2, WriteFinds, Zenon DEF RowsInv, IsTable
  <2>4. \A q \in Pages \ {Page(w)}: new[q] = table[q]
    BY <2>3, RowsOfPages DEF ButFor
  <2>5. owner'[w] = Page(w)
    BY <1>8, <2>3, <2>4, FoundAlone
  <2>6. after'[w] = View(w)'[Page(w)]
    BY <1>2, <1>4, <2>3, <2>5 DEF ButFor, Proposed
  <2>7. QED
    BY <2>2, <2>5, <2>6
<1>9. pc'[w] \in {"sync", "commit"} /\ (pc'[w] = "sync" => Page(w) \in Pages)
  BY <1>1
<1>10. Later(w)' = {}
  BY <1>9, Zenon DEF Later
<1>11. KnownOk(w)'
  BY <1>2, <1>3, <1>8, <1>9, <1>10, Zenon DEF KnownOk
<1>12. QED
  BY <1>7, <1>11

\* A save that leaves the page as it is.
LEMMA UnchangedSeen ==
  ASSUME ClashInv, NEW w \in Writers, pc[w] = "sync", PageIsAsBefore(w),
         Page(w) \in Pages \ Aside(w)
  PROVE  \A d \in Docs: View(w)[d] = table[d]
<1>1. DOMAIN wrote[w] = {Page(w)} /\ SeesPage(w)
  BY Zenon DEF ClashInv, KnownOk, Saved, Following
<1>2. View(w)[Page(w)] = table[Page(w)]
  BY <1>1 DEF SeesPage, PageIsAsBefore
<1>3. QED
  BY <1>1, <1>2, SMT DEF View

LEMMA ClashPageUnchanged ==
  ASSUME Shape, LocksInv, RowsInv, ClashInv, NEW w \in Writers, PageUnchanged(w)
  PROVE  ClashOk(w)' /\ KnownOk(w)'
<1>1. /\ pc[w] = "sync" /\ pc'[w] = "commit" /\ PageIsAsBefore(w)
      /\ UNCHANGED <<table, req, wrote, before, after, owner>>
  BY Zenon DEF PageUnchanged, transaction, Shape, Goes
<1>2. View(w)' = View(w) /\ Page(w)' = Page(w) /\ Aside(w)' = Aside(w) /\ Page(w) \in Pages
  BY <1>1, ViewKept, AsideKept, SMT DEF LocksInv, LocksOk, Following
<1>3. NoMoreClashes(View(w)', table', Page(w)', Pending(w)', Aside(w)')
  <2>1. CASE Page(w) \in Aside(w)
    <3>1. NoMoreClashes(View(w), table, Page(w), Pending(w), Aside(w))
      BY Zenon DEF ClashInv, ClashOk
    <3>2. NoMoreClashes(View(w), table, Page(w), Pending(w)', Aside(w))
      BY <2>1, <3>1, MorePending
    <3>3. QED
      BY <1>1, <1>2, <3>2
  <2>2. CASE Page(w) \notin Aside(w)
    <3>1. NoMoreClashes(View(w), table, Page(w), Pending(w)', Aside(w))
      BY <1>1, <1>2, <2>2, UnchangedSeen, NothingAdded
    <3>2. QED
      BY <1>1, <1>2, <3>1
  <2>3. QED
    BY <2>1, <2>2
<1>4. Later(w)' = {}
  BY <1>1, Zenon DEF Later
<1>5. Page(w) \in Pages => SeesPage(w)'
  BY <1>1, <1>2, Zenon DEF ClashInv, KnownOk, Saved, Following, SeesPage
<1>6. QED
  BY <1>1, <1>2, <1>3, <1>4, <1>5, Zenon DEF ClashOk, KnownOk

LEMMA ClashReadOwned ==
  ASSUME Shape, LocksInv, RowsInv, ClashInv, NEW w \in Writers, ReadOwned(w)
  PROVE  ClashOk(w)' /\ KnownOk(w)'
<1> DEFINE O == OwnedBy(View(w), owner[w])
<1>1. /\ pc[w] = "sync" /\ pc'[w] = "retire"
      /\ UNCHANGED <<table, req, wrote, before, after, owner>>
      /\ owned'[w] = [r \in O |-> View(w)[r]]
      /\ todo'[w] = {r \in O: Leads(w) => View(w)[r].from = NewPath(w)}
  BY ReadOwnedEffect, Zenon DEF PcIs
<1>2. /\ View(w)' = View(w) /\ Page(w)' = Page(w) /\ Aside(w)' = Aside(w)
      /\ Page(w) \in Pages
  BY <1>1, ViewKept, AsideKept, SMT DEF LocksInv, LocksOk, Following
<1>3. Leads(w)' = Leads(w) /\ NewPath(w)' = NewPath(w) /\ SeesPage(w)' = SeesPage(w)
  BY <1>1, <1>2, Zenon DEF Leads, NewPath, SeesPage
<1>31. SeesPage(w)
  BY <1>1, <1>2, Zenon DEF ClashInv, KnownOk, Saved, Following
<1>4. Page(w) \notin Aside(w) => Pending(w) = O
  BY <1>1, <1>31, Zenon DEF Pending, SeesPage
<1> HIDE DEF O
<1>5. DOMAIN owned'[w] = O /\ \A r \in O: owned'[w][r] = View(w)[r]
  BY <1>1
<1>6. O \subseteq Pending(w)'
  <2>1. Pending(w)' = IF Leads(w) THEN {r \in O: r \in todo'[w] \/ owned'[w][r].from # NewPath(w)}
                      ELSE todo'[w]
    BY <1>1, <1>3, <1>5, Zenon DEF Pending
  <2>2. CASE Leads(w)
    BY <1>1, <1>5, <2>1, <2>2
  <2>3. CASE ~Leads(w)
    BY <1>1, <2>1, <2>3
  <2>4. QED
    BY <2>2, <2>3
<1>7. NoMoreClashes(View(w)', table', Page(w)', Pending(w)', Aside(w)')
  <2>1. NoMoreClashes(View(w), table, Page(w), Pending(w), Aside(w))
    BY Zenon DEF ClashInv, ClashOk
  <2>2. NoMoreClashes(View(w), table, Page(w), Pending(w)', Aside(w))
    BY <1>4, <1>6, <2>1, MorePending
  <2>3. QED
    BY <1>1, <1>2, <2>2
<1>8. ClashOk(w)'
  BY <1>1, <1>7, Zenon DEF ClashOk
<1>9. ASSUME Leads(w)', NEW r \in todo'[w] PROVE owned'[w][r].from = NewPath(w)'
  BY <1>1, <1>3, <1>5, <1>9, SMT
<1>10. ASSUME NEW r \in Later(w)' PROVE View(w)'[r] \in {owned'[w][r], Absent}
  <2>1. Later(w)' \subseteq DOMAIN owned'[w]
    BY <1>1, SMT DEF Later
  <2>2. QED
    BY <1>2, <1>5, <2>1
<1>11. KnownOk(w)'
  BY <1>1, <1>2, <1>3, <1>31, <1>9, <1>10, Zenon DEF KnownOk
<1>12. QED
  BY <1>8, <1>11

LEMMA FollowingFacts ==
  ASSUME LocksInv, RowsInv, NEW w \in Writers, pc[w] \in {"retire", "retarget", "alias"}
  PROVE  /\ req[w].human \in BOOLEAN /\ Page(w) \in Pages /\ Page(w) \in Docs
         /\ DOMAIN owned[w] \subseteq Redirects /\ todo[w] \subseteq DOMAIN owned[w]
         /\ pc[w] \in {"retarget", "alias"} => Leads(w)
         /\ pc[w] = "alias" => before[w] \in PageRow
<1>1. pc[w] \in Following /\ pc[w] \in Following \ {"sync"} /\ FollowOk(w) /\ LocksOk(w)
  BY SMT DEF RowsInv, Following, LocksInv
<1>2. req[w] \in Menu /\ Page(w) \in Pages
  BY <1>1, Zenon DEF LocksOk
<1>3. req[w].human \in BOOLEAN
  BY <1>2, MenuIsRequests, Zenon DEF IsRequest
<1>4. QED
  BY <1>1, <1>2, <1>3, RowsOfPages, SMT DEF FollowOk

LEMMA ClashRetire ==
  ASSUME Shape, LocksInv, RowsInv, ClashInv, NEW w \in Writers, Retire(w)
  PROVE  ClashOk(w)' /\ KnownOk(w)'
<1>1. PICK r \in todo[w]:
        /\ TodoDone(w, r)
        /\ \/ /\ View(w)[r] # Absent
              /\ NestedSave(w, r, RetiredRow(w, r), {"active"}, View(w)[r], FALSE)
           \/ View(w)[r] = Absent /\ UNCHANGED wrote
  BY RetireEffect
<1>2. pc[w] = "retire" /\ pc'[w] = "retire" /\ UNCHANGED <<table, req, before, after, owner, owned>>
  BY RetireEffect, Zenon DEF PcIs
<1>3. /\ r \in Redirects /\ r \in Docs /\ Page(w) \in Pages /\ req[w].human \in BOOLEAN
      /\ r \in DOMAIN owned[w] /\ r # Page(w)
  BY <1>2, FollowingFacts, RowsOfPages, KindsOfDocs, SMT
\* The redirect is off, or gone, and the rest as it was.
<1>4. /\ \A d, c \in Docs \ Aside(w):
           Clash(View(w)', d, c) => Clash(View(w), d, c) /\ d # r /\ c # r
      /\ \A d \in Docs \ {r}: View(w)'[d] = View(w)[d]
      /\ UNCHANGED wrote \/ \E s \in Redirects: \E row: ButFor(View(w)', View(w), s, row)
  <2>1. CASE View(w)[r] = Absent /\ UNCHANGED wrote
    BY <1>2, <2>1, ViewKept, ClashIsMutual
  <2>2. CASE /\ View(w)[r] # Absent
             /\ NestedSave(w, r, RetiredRow(w, r), {"active"}, View(w)[r], FALSE)
    <3>1. RetiredRow(w, r) \in RedirectRow /\ RetiredRow(w, r).active = FALSE
      BY <1>3, <2>2, RetiredRows
    <3>2. Untouched(RetiredRow(w, r), View(w)[r], {"active"})
      <4>1. View(w)[r] \in RedirectRow
        BY <1>3, <2>2, SMT DEF RowsInv, WritesOk, IsTable
      <4>2. QED
        BY <4>1, MergedFields, Payloads, Zenon DEF RetiredRow
    <3>3. /\ \A d, c \in Docs \ Aside(w): Clash(View(w)', d, c) => Clash(View(w), d, c)
          /\ ButFor(View(w)', View(w), r, RetiredRow(w, r))
      BY <1>2, <1>3, <2>2, <3>1, <3>2, NestedClash
    <3>4. ~Stands(View(w)', r)
      BY <1>3, <3>1, <3>3, SMT DEF Stands, ButFor
    <3>5. QED
      BY <1>3, <3>3, <3>4, Zenon DEF Clash, ButFor
  <2>3. QED
    BY <1>1, <2>1, <2>2
<1>5. /\ Page(w)' = Page(w) /\ Leads(w)' = Leads(w) /\ NewPath(w)' = NewPath(w)
      /\ Aside(w)' = Aside(w) /\ SeesPage(w)' = SeesPage(w)
  BY <1>2, <1>3, <1>4, PageAsItWas
<1>6. Pending(w) \ {r} \subseteq Pending(w)' /\ Later(w)' = Later(w)
  <2>1. Pending(w) = IF Leads(w) THEN {s \in DOMAIN owned[w]: s \in todo[w] \/ owned[w][s].from # NewPath(w)}
                     ELSE todo[w]
    BY <1>2, Zenon DEF Pending
  <2>2. Pending(w)' = IF Leads(w) THEN {s \in DOMAIN owned[w]: s \in todo'[w] \/ owned[w][s].from # NewPath(w)}
                     ELSE todo'[w]
    BY <1>2, <1>5, Zenon DEF Pending
  <2>3. todo'[w] = todo[w] \ {r}
    BY <1>1 DEF TodoDone
  <2>4. Later(w)' = Later(w)
    BY <1>2, <1>5, Zenon DEF Later
  <2>5. Pending(w) \ {r} \subseteq Pending(w)'
    BY <2>1, <2>2, <2>3, SMT
  <2>6. QED
    BY <2>4, <2>5
<1>7. NoMoreClashes(View(w)', table', Page(w)', Pending(w)', Aside(w)')
  <2>1. NoMoreClashes(View(w), table, Page(w), Pending(w), Aside(w))
    BY Zenon DEF ClashInv, ClashOk
  <2>2. NoMoreClashes(View(w)', table, Page(w), Pending(w)', Aside(w))
    BY <1>4, <1>6, <2>1, SMT DEF NoMoreClashes
  <2>3. QED
    BY <1>2, <1>5, <2>2
<1>8. KnownOk(w)'
  <2>1. KnownOk(w) /\ todo'[w] = todo[w] \ {r}
    BY <1>1 DEF ClashInv, TodoDone
  <2>2. ASSUME Leads(w)', NEW s \in todo'[w] PROVE owned'[w][s].from = NewPath(w)'
    BY <1>2, <1>5, <2>1, <2>2 DEF KnownOk
  <2>3. ASSUME NEW s \in Later(w)' PROVE View(w)'[s] \in {owned'[w][s], Absent}
    <3>1. Leads(w) /\ owned[w][s].from # NewPath(w) /\ s \in DOMAIN owned[w]
      BY <1>2, <1>6, SMT DEF Later
    <3>2. s # r
      BY <1>2, <2>1, <3>1 DEF KnownOk
    <3>3. s \in Docs
      BY <1>2, <3>1, FollowingFacts, RowsOfPages, SMT
    <3>4. View(w)[s] \in {owned[w][s], Absent}
      BY <1>6, <2>1 DEF KnownOk
    <3>5. QED
      BY <1>2, <1>4, <3>2, <3>3, <3>4, SMT
  <2>4. Page(w) \in Pages => SeesPage(w)'
    BY <1>2, <1>5, <2>1, Zenon DEF KnownOk, Saved, Following
  <2>5. QED
    BY <1>2, <1>5, <2>2, <2>3, <2>4, Zenon DEF KnownOk
<1>9. QED
  BY <1>2, <1>7, <1>8, Zenon DEF ClashOk

LEMMA ClashRetired ==
  ASSUME Shape, LocksInv, RowsInv, ClashInv, NEW w \in Writers, Retired(w)
  PROVE  ClashOk(w)' /\ KnownOk(w)'
<1>1. /\ pc[w] = "retire" /\ todo[w] = {} /\ UNCHANGED <<table, req, wrote, before, after, owner, owned>>
      /\ \/ /\ Leads(w) /\ pc'[w] = "retarget"
            /\ todo'[w] = {r \in DOMAIN owned[w]: owned[w][r].from # NewPath(w)}
         \/ ~Leads(w) /\ pc'[w] = "commit"
  BY RetiredEffect, Zenon DEF PcIs
<1>2. View(w)' = View(w) /\ Page(w)' = Page(w) /\ Aside(w)' = Aside(w)
  BY <1>1, ViewKept, AsideKept
<1>3. NoMoreClashes(View(w), table, Page(w), Pending(w), Aside(w)) /\ KnownOk(w)
  BY Zenon DEF ClashInv, ClashOk
<1>31. Page(w) \in Pages => SeesPage(w)'
  BY <1>1, <1>2, <1>3, Zenon DEF KnownOk, Saved, Following, SeesPage
<1>4. CASE Leads(w)
  <2>1. Later(w) = todo'[w] /\ Later(w)' = todo'[w] /\ Pending(w)' = todo'[w]
    BY <1>1, <1>4, SMT DEF Pending, Later
  <2>2. Pending(w) = todo'[w]
    <3>1. Pending(w) = {r \in DOMAIN owned[w]: r \in todo[w] \/ owned[w][r].from # NewPath(w)}
      BY <1>1, <1>4, Zenon DEF Pending
    <3>2. QED
      BY <1>1, <1>4, <3>1
  <2>3. NoMoreClashes(View(w)', table', Page(w)', Pending(w)', Aside(w)')
    BY <1>1, <1>2, <1>3, <2>1, <2>2
  <2>4. pc'[w] = "retarget"
    BY <1>1, <1>4
  <2>5. \A r \in Later(w)': View(w)'[r] \in {owned'[w][r], Absent}
    BY <1>1, <1>2, <1>3, <2>1, Zenon DEF KnownOk
  <2>6. QED
    BY <1>2, <1>31, <2>3, <2>4, <2>5, Zenon DEF ClashOk, KnownOk
<1>5. CASE ~Leads(w)
  <2>1. Pending(w) = {}
    BY <1>1, <1>5, Zenon DEF Pending
  <2>2. NoMoreClashes(View(w)', table', Page(w)', Pending(w)', Aside(w)')
    BY <1>1, <1>2, <1>3, <2>1, SMT DEF NoMoreClashes
  <2>3. pc'[w] = "commit" /\ Later(w)' = {}
    BY <1>1, <1>5, Zenon DEF Later
  <2>4. QED
    BY <1>2, <1>31, <2>2, <2>3, Zenon DEF ClashOk, KnownOk
<1>6. QED
  BY <1>4, <1>5

LEMMA ClashRetarget ==
  ASSUME Shape, LocksInv, RowsInv, ClashInv, NEW w \in Writers, Retarget(w)
  PROVE  ClashOk(w)' /\ KnownOk(w)'
<1>1. PICK r \in todo[w]:
        /\ TodoDone(w, r)
        /\ \/ /\ View(w)[r] # Absent
              /\ NestedSave(w, r, RetargetedRow(w, r), {"to", "active"}, View(w)[r], FALSE)
           \/ (View(w)[r] = Absent \/ ~owned[w][r].active) /\ UNCHANGED wrote
  BY RetargetEffect, Zenon DEF MayPass
<1>2. pc[w] = "retarget" /\ pc'[w] = "retarget" /\ UNCHANGED <<table, req, before, after, owner, owned>>
  BY RetargetEffect, Zenon DEF PcIs
<1>3. /\ r \in Redirects /\ r \in Docs /\ Page(w) \in Pages /\ req[w].human \in BOOLEAN
      /\ r \in DOMAIN owned[w] /\ r # Page(w) /\ Leads(w) /\ Page(w) \in Docs
  BY <1>2, FollowingFacts, RowsOfPages, KindsOfDocs, SMT
<1>4. KnownOk(w) /\ todo'[w] = todo[w] \ {r} /\ Later(w) = todo[w] /\ Pending(w) = todo[w]
  BY <1>1, <1>2, SMT DEF ClashInv, TodoDone, Later, Pending
\* The redirect no longer fires at the address of the page.
<1>5. /\ \A d, c \in Docs \ Aside(w): Clash(View(w)', d, c) => Clash(View(w), d, c)
      /\ Page(w) \notin Aside(w) => ~Clash(View(w)', Page(w), r)
      /\ \A d \in Docs \ {r}: View(w)'[d] = View(w)[d]
      /\ UNCHANGED wrote \/ \E s \in Redirects: \E row: ButFor(View(w)', View(w), s, row)
  <2>1. CASE (View(w)[r] = Absent \/ ~owned[w][r].active) /\ UNCHANGED wrote
    <3>1. View(w)' = View(w)
      BY <1>2, <2>1, ViewKept
    <3>2. View(w)[r] \in {owned[w][r], Absent}
      BY <1>4 DEF KnownOk
    <3>3. ~Stands(View(w), r)
      BY <1>3, <2>1, <3>2 DEF Stands
    <3>4. QED
      BY <2>1, <3>1, <3>3, Zenon DEF Clash
  <2>2. CASE /\ View(w)[r] # Absent
             /\ NestedSave(w, r, RetargetedRow(w, r), {"to", "active"}, View(w)[r], FALSE)
    <3>1. /\ RetargetedRow(w, r) \in RedirectRow /\ RetargetedRow(w, r).active = TRUE
          /\ RetargetedRow(w, r).from = View(w)[r].from
      BY <1>2, <1>3, <2>2, RetargetedRows DEF Following
    <3>2. Untouched(RetargetedRow(w, r), View(w)[r], {"to", "active"})
      BY <3>1 DEF Untouched
    <3>3. /\ \A d, c \in Docs \ Aside(w): Clash(View(w)', d, c) => Clash(View(w), d, c)
          /\ ButFor(View(w)', View(w), r, RetargetedRow(w, r))
      BY <1>2, <1>3, <2>2, <3>1, <3>2, NestedClash
    <3>4. ~PageAt(View(w), {Source(RetargetedRow(w, r))})
      BY <2>2, <3>1, SMT DEF NestedSave, ShadowsPage
    <3> SUFFICES ASSUME Page(w) \notin Aside(w) PROVE ~Clash(View(w)', Page(w), r)
      BY <1>3, <3>3 DEF ButFor
    <3>5. View(w)[Page(w)] # Absent
      BY <1>2, <1>3, <1>4, Zenon DEF Leads, KnownOk, SeesPage, Saved, Following
    <3>6. View(w)[Page(w)].slug # Source(RetargetedRow(w, r))
      <4>1. Sole(View(w), Page(w))
        BY <1>3, <3>5, ViewSole
      <4>2. QED
        BY <1>3, <3>4, <3>5, <4>1, SoleIsFound
    <3>7. /\ Claims(View(w)', Page(w)) = {View(w)[Page(w)].slug}
          /\ Claims(View(w)', r) = {Source(RetargetedRow(w, r))}
      BY <1>3, <3>3, KindsOfDocs, SMT DEF Claims, ButFor
    <3>8. Claims(View(w)', Page(w)) \cap Claims(View(w)', r) = {}
      BY <3>6, <3>7
    <3>9. ~Clash(View(w)', Page(w), r)
      BY <1>3, <3>8, KindsOfDocs, SMT DEF Clash
    <3>10. QED
      BY <3>9
  <2>3. QED
    BY <1>1, <2>1, <2>2
<1>6. /\ Page(w)' = Page(w) /\ Leads(w)' = Leads(w) /\ NewPath(w)' = NewPath(w)
      /\ Aside(w)' = Aside(w) /\ SeesPage(w)' = SeesPage(w)
  BY <1>2, <1>3, <1>5, PageAsItWas
<1>7. Pending(w)' = todo[w] \ {r} /\ Later(w)' = todo[w] \ {r}
  BY <1>2, <1>4, SMT DEF Pending, Later
<1>8. Page(w) \notin Aside(w) => ~Clash(View(w)', r, Page(w))
  BY <1>3, <1>5, ClashIsMutual
<1>9. NoMoreClashes(View(w)', table', Page(w)', Pending(w)', Aside(w)')
  <2>1. NoMoreClashes(View(w), table, Page(w), todo[w], Aside(w))
    BY <1>4, Zenon DEF ClashInv, ClashOk
  <2>2. NoMoreClashes(View(w)', table, Page(w), todo[w] \ {r}, Aside(w))
    BY <1>3, <1>5, <1>8, <2>1, SMT DEF NoMoreClashes
  <2>3. QED
    BY <1>2, <1>6, <1>7, <2>2
<1>10. \A s \in Later(w)': View(w)'[s] \in {owned'[w][s], Absent}
  <2>1. SUFFICES ASSUME NEW s \in todo[w] \ {r} PROVE View(w)'[s] \in {owned[w][s], Absent}
    BY <1>2, <1>7
  <2>2. s \in Docs
    BY <1>2, FollowingFacts, RowsOfPages, SMT
  <2>3. View(w)[s] \in {owned[w][s], Absent}
    BY <1>4 DEF KnownOk
  <2>4. QED
    BY <1>5, <2>2, <2>3
<1>11. Page(w) \in Pages => SeesPage(w)'
  BY <1>2, <1>4, <1>6, Zenon DEF KnownOk, Saved, Following
<1>12. QED
  BY <1>2, <1>6, <1>9, <1>10, <1>11, Zenon DEF ClashOk, KnownOk

LEMMA ClashRetargeted ==
  ASSUME Shape, LocksInv, RowsInv, ClashInv, NEW w \in Writers, Retargeted(w)
  PROVE  ClashOk(w)' /\ KnownOk(w)'
<1>1. /\ pc[w] = "retarget" /\ todo[w] = {}
      /\ UNCHANGED <<table, req, wrote, before, after, owner>>
      /\ pc'[w] \in {"alias", "commit"}
  BY Zenon DEF Retargeted, transaction, Shape, Goes
<1>2. View(w)' = View(w) /\ Page(w)' = Page(w) /\ Aside(w)' = Aside(w)
  BY <1>1, ViewKept, AsideKept
<1>3. NoMoreClashes(View(w), table, Page(w), {}, Aside(w))
  <2>1. Pending(w) = {}
    BY <1>1, Zenon DEF Pending
  <2>2. QED
    BY <2>1, Zenon DEF ClashInv, ClashOk
<1>4. Pending(w)' = {} /\ Later(w)' = {}
  BY <1>1, SMT DEF Pending, Later
<1>5. NoMoreClashes(View(w)', table', Page(w)', Pending(w)', Aside(w)')
  BY <1>1, <1>2, <1>3, <1>4
<1>6. pc'[w] \notin {"write", "sync", "retire"}
  BY <1>1
<1>7. Page(w) \in Pages => SeesPage(w)'
  BY <1>1, <1>2, Zenon DEF ClashInv, KnownOk, Saved, Following, SeesPage
<1>8. QED
  BY <1>2, <1>4, <1>5, <1>6, <1>7, Zenon DEF ClashOk, KnownOk

LEMMA ClashAlias ==
  ASSUME Shape, LocksInv, RowsInv, ClashInv, NEW w \in Writers, CreateAlias(w)
  PROVE  ClashOk(w)' /\ KnownOk(w)'
<1>1. PICK r \in Redirects: NestedSave(w, r, AliasRow(w), DOMAIN AliasRow(w), Absent, TRUE)
  BY AliasEffect, Zenon
<1>2. pc[w] = "alias" /\ pc'[w] = "commit" /\ UNCHANGED <<table, req, before, after, owner, owned>>
  BY AliasEffect, Zenon DEF PcIs
<1>3. req[w].human \in BOOLEAN /\ AliasRow(w) \in RedirectRow /\ Page(w) \in Pages
  BY <1>2, FollowingFacts, AliasRows DEF Following
<1>4. DOMAIN AliasRow(w) \cap {"from", "active"} # {}
  BY DEF AliasRow
<1>5. /\ \A d, c \in Docs \ Aside(w): Clash(View(w)', d, c) => Clash(View(w), d, c)
      /\ ButFor(View(w)', View(w), r, AliasRow(w))
  BY <1>1, <1>2, <1>3, <1>4, NestedClash
<1>6. NoMoreClashes(View(w), table, Page(w), {}, Aside(w))
  <2>1. Pending(w) = {}
    BY <1>2, Zenon DEF Pending
  <2>2. QED
    BY <2>1, Zenon DEF ClashInv, ClashOk
<1>7. Pending(w)' = {} /\ Later(w)' = {}
  BY <1>2, Zenon DEF Pending, Later
<1>71. Page(w)' = Page(w) /\ Aside(w)' = Aside(w) /\ SeesPage(w)' = SeesPage(w)
  BY <1>2, <1>3, <1>5, PageAsItWas
<1>8. NoMoreClashes(View(w)', table', Page(w)', Pending(w)', Aside(w)')
  <2>1. NoMoreClashes(View(w)', table, Page(w), {}, Aside(w))
    BY <1>5, <1>6, SMT DEF NoMoreClashes
  <2>2. QED
    BY <1>2, <1>7, <1>71, <2>1
<1>81. Page(w) \in Pages => SeesPage(w)'
  BY <1>2, <1>71, Zenon DEF ClashInv, KnownOk, Saved, Following
<1>9. QED
  BY <1>2, <1>7, <1>71, <1>8, <1>81, Zenon DEF ClashOk, KnownOk

\* Two tables change alike in the documents of K, and are one in the others.
LEMMA Spliced ==
  ASSUME NEW u, NEW t, NEW u2, NEW t2, NEW p, NEW R, NEW K, NEW T, NoMoreClashes(u, t, p, R, T),
         \A d, c \in Docs: InOneSpace(d, c) => (d \in K <=> c \in K),
         \A d \in Docs: d \in K => u2[d] = u[d] /\ t2[d] = t[d],
         \A d \in Docs: d \notin K => u2[d] = t2[d]
  PROVE  NoMoreClashes(u2, t2, p, R, T)
<1> SUFFICES ASSUME NEW d \in Docs \ T, NEW c \in Docs \ T, Clash(u2, d, c)
             PROVE  Clash(t2, d, c) \/ (d = p /\ c \in R) \/ (c = p /\ d \in R)
  BY DEF NoMoreClashes
<1>1. d \in K <=> c \in K
  BY ClashInSpace
<1>2. CASE d \in K /\ c \in K
  <2>1. u2[d] = u[d] /\ u2[c] = u[c] /\ t2[d] = t[d] /\ t2[c] = t[c]
    BY <1>2
  <2>2. Clash(u, d, c)
    BY <2>1, ClashOfTwo
  <2>3. Clash(t, d, c) \/ (d = p /\ c \in R) \/ (c = p /\ d \in R)
    BY <2>2 DEF NoMoreClashes
  <2>4. Clash(t, d, c) => Clash(t2, d, c)
    BY <2>1, ClashOfTwo
  <2>5. QED
    BY <2>3, <2>4
<1>3. CASE d \notin K /\ c \notin K
  <2>1. u2[d] = t2[d] /\ u2[c] = t2[c]
    BY <1>3
  <2>2. QED
    BY <2>1, ClashOfTwo
<1>4. QED
  BY <1>1, <1>2, <1>3

LEMMA ClashCommit ==
  ASSUME Shape, LocksInv, RowsInv, ClashInv, RowsInv', NEW w \in Writers, Commit(w),
         NEW v \in Writers, v # w
  PROVE  ClashOk(v)' /\ KnownOk(v)'
<1>0. /\ WritesOk(w) /\ WritesOk(v) /\ ClashOk(v) /\ KnownOk(v) /\ Locked(w) /\ LocksOk(v)
      /\ FollowOk(v) /\ table' = View(w) /\ Still(v) /\ Page(v)' = Page(v)
      /\ IsTable(table)
  BY StepOfOne, Zenon DEF RowsInv, ClashInv, Commit, Locked, Still, Page, LocksInv
<1>1. CASE ~Locked(v)
  <2>1. DOMAIN wrote[v] = {} /\ pc'[v] \in {"idle", "lock"}
    BY <1>0, <1>1, SMT DEF WritesOk, Locked, Still
  <2>2. \A d \in Docs: View(v)'[d] = table'[d]
    BY <1>0, <2>1, SMT DEF View, Still
  <2>3. NoMoreClashes(View(v)', table', Page(v)', Pending(v)', Aside(v)')
    BY <2>2, NothingAdded
  <2>4. Later(v)' = {} /\ pc'[v] \notin {"write", "sync", "retire"} /\ ~Saved(v)'
    BY <2>1, SMT DEF Later, Saved, Following
  <2>5. QED
    BY <2>3, <2>4, Zenon DEF ClashOk, KnownOk
<1>2. CASE Locked(v) /\ Page(w) \in Jobs
  <2> DEFINE K == Docs \ Jobs
  <2>1. Page(v) \notin Jobs
    BY <1>0, <1>2, Zenon DEF LocksInv, LocksOk, Taken
  <2>2. \A d, c \in Docs: InOneSpace(d, c) => (d \in K <=> c \in K)
    BY DEF InOneSpace
  <2>3. /\ \A d \in Docs: d \in K => View(v)'[d] = View(v)[d] /\ table'[d] = table[d]
        /\ \A d \in Docs: d \notin K => View(v)'[d] = table'[d]
    <3>1. \A d \in Docs: d \in K => table'[d] = table[d]
      BY <1>0, <1>2, SMT DEF WritesOk, View
    <3>2. \A d \in Docs: d \in K => View(v)'[d] = View(v)[d]
      BY <1>0, <3>1, SMT DEF View, Still
    <3>3. \A d \in Docs: d \notin K => View(v)'[d] = table'[d]
      BY <1>0, <1>2, <2>1, SMT DEF WritesOk, View, Still
    <3>4. QED
      BY <3>1, <3>2, <3>3
  <2>4. pc[v] \in Following => Page(v) \in Pages /\ Page(v) \in Docs /\ Page(v) \in K
    BY <1>0, RowsOfPages, KindsOfDocs, SMT DEF LocksOk
  <2>5. Leads(v)' = Leads(v) /\ NewPath(v)' = NewPath(v)
    BY <1>0, Zenon DEF Leads, NewPath, Still
  <2>50. Aside(v)' = Aside(v)
    <3>1. \A p \in Pages: table'[p] = table[p]
      BY <2>3, RowsOfPages, KindsOfDocs, SMT
    <3>2. QED
      BY <1>0, <3>1, AsideStays DEF Still
  <2>51. Saved(v)' /\ Page(v)' \in Pages => SeesPage(v)'
    <3> SUFFICES ASSUME Saved(v)', Page(v)' \in Pages PROVE SeesPage(v)'
      OBVIOUS
    <3>1. SeesPage(v) /\ Page(v) \in Pages /\ Page(v) \in K
      BY <1>0, RowsOfPages, KindsOfDocs, Zenon DEF KnownOk, Saved, Still
    <3>2. View(v)'[Page(v)] = View(v)[Page(v)] /\ table'[Page(v)] = table[Page(v)]
      BY <2>3, <3>1, RowsOfPages
    <3>3. QED
      BY <1>0, <2>50, <3>1, <3>2, Zenon DEF SeesPage, Still
  <2>6. /\ OwnedBy(View(v)', Page(v)) = OwnedBy(View(v), Page(v))
        /\ OwnRedirects(v)' = OwnRedirects(v)
    <3>1. \A r \in Redirects: View(v)'[r] = View(v)[r] /\ table'[r] = table[r]
      BY <2>3, RowsOfPages, KindsOfDocs, SMT
    <3>2. OwnedBy(View(v)', Page(v)) = OwnedBy(View(v), Page(v))
      BY <3>1, SMT DEF OwnedBy
    <3>3. OwnedBy(table', Page(v)) = OwnedBy(table, Page(v))
      BY <3>1, SMT DEF OwnedBy
    <3>4. QED
      BY <1>0, <3>2, <3>3, Zenon DEF OwnRedirects
  <2> HIDE DEF K
  <2>7. {"sync", "retire", "retarget"} \subseteq Following
    BY DEF Following
  <2>8. Pending(v)' = Pending(v) /\ Later(v)' = Later(v)
    <3>1. CASE pc[v] \in {"sync", "retire", "retarget"}
      BY <1>0, <2>5, <2>6, <2>7, <3>1, Zenon DEF Pending, Later, Still
    <3>2. CASE pc[v] \notin {"sync", "retire", "retarget"}
      BY <1>0, <3>2, NoPending, SMT DEF Pending, Later, Still
    <3>3. QED
      BY <3>1, <3>2
  <2>9. NoMoreClashes(View(v)', table', Page(v)', Pending(v)', Aside(v)')
    <3>1. NoMoreClashes(View(v), table, Page(v), Pending(v), Aside(v))
      BY <1>0, Zenon DEF ClashOk
    <3>2. NoMoreClashes(View(v)', table', Page(v), Pending(v), Aside(v))
      BY <2>2, <2>3, <3>1, Spliced
    <3>3. QED
      BY <1>0, <2>8, <2>50, <3>2
  <2>10. ASSUME pc'[v] = "write", SourceStands(req[v])'
         PROVE  NoMoreClashes(Proposed(v)', table', Page(v)', OwnRedirects(v)', Aside(v)')
    <3>1. pc[v] = "write" /\ req'[v] = req[v] /\ req[v] \in Menu /\ Page(v) = req[v].doc
      BY <1>0, <2>10, Zenon DEF Still, LocksOk, Page
    <3>2. req[v].act # "create" => req[v].source \in Docs /\ req[v].source \notin Jobs
      BY <2>1, <2>10, <3>1, SourceKind, Zenon DEF RowsInv, SourceStands
    <3>3. req[v].act # "create" => table'[req[v].source] = table[req[v].source]
      BY <2>3, <3>2 DEF K
    <3>4. SourceStands(req[v]) /\ Result(v)' = Result(v)
      BY <2>10, <3>1, <3>3, Zenon DEF SourceStands, Result, EffectiveRow
    <3>5. NoMoreClashes(Proposed(v), table, Page(v), OwnRedirects(v), Aside(v))
      BY <1>0, <3>1, <3>4, Zenon DEF ClashOk
    <3>6. /\ \A d \in Docs: d \in K => Proposed(v)'[d] = Proposed(v)[d] /\ table'[d] = table[d]
          /\ \A d \in Docs: d \notin K => Proposed(v)'[d] = table'[d]
      BY <1>0, <2>1, <2>3, <3>4, SMT DEF Proposed, K
    <3>7. NoMoreClashes(Proposed(v)', table', Page(v), OwnRedirects(v), Aside(v))
      BY <2>2, <3>5, <3>6, Spliced
    <3>8. QED
      BY <1>0, <2>6, <2>50, <3>7
  <2>11. ClashOk(v)'
    BY <2>9, <2>10, Zenon DEF ClashOk
  <2>12. ASSUME NEW r \in Later(v)' PROVE View(v)'[r] \in {owned'[v][r], Absent}
    <3>1. r \in Later(v) /\ owned'[v] = owned[v]
      BY <1>0, <2>8 DEF Still
    <3>2. r \in Redirects
      BY <1>0, <3>1, SMT DEF Later, FollowOk, Following
    <3>3. r \in Docs /\ r \in K
      BY <3>2, RowsOfPages, KindsOfDocs DEF K
    <3>4. QED
      BY <1>0, <2>3, <3>1, <3>3, SMT DEF KnownOk
  <2>13. KnownOk(v)'
    <3>1. pc'[v] = "sync" => DOMAIN wrote'[v] = {Page(v)'}
      BY <1>0, SMT DEF KnownOk, Still
    <3>2. pc'[v] = "retire" /\ Leads(v)' => \A r \in todo'[v]: owned'[v][r].from = NewPath(v)'
      <4>1. SUFFICES ASSUME pc'[v] = "retire", Leads(v)'
                     PROVE  \A r \in todo'[v]: owned'[v][r].from = NewPath(v)'
        OBVIOUS
      <4>2. /\ pc[v] = "retire" /\ todo'[v] = todo[v] /\ owned'[v] = owned[v]
            /\ Leads(v) /\ NewPath(v)' = NewPath(v)
        BY <1>0, <2>5, <2>7, <4>1, Zenon DEF Still
      <4>3. QED
        BY <1>0, <4>2, Zenon DEF KnownOk
    <3>3. pc'[v] = "write" /\ req'[v].act \in {"create", "clone"} => table'[Page(v)'] = Absent
      <4>1. pc[v] = "write" => Page(v) \in Docs /\ Page(v) \in K
        <5>1. pc[v] = "write" => req[v] \in Menu
          BY <1>0, SMT DEF LocksOk
        <5>2. QED
          BY <2>1, <5>1, Menus DEF Page, K
      <4>2. QED
        BY <1>0, <2>3, <4>1, SMT DEF KnownOk, Still
    <3>4. QED
      BY <2>12, <2>51, <3>1, <3>2, <3>3, Zenon DEF KnownOk
  <2>14. QED
    BY <2>11, <2>13
<1>3. CASE Locked(v) /\ Page(w) \notin Jobs
  <2> DEFINE K == Jobs
  <2>1. Page(v) \in Jobs /\ Page(v) \notin Pages
    BY <1>0, <1>3, Apart, KindsOfDocs, SMT
  <2>2. \A d, c \in Docs: InOneSpace(d, c) => (d \in K <=> c \in K)
    BY DEF InOneSpace
  <2>3. /\ \A d \in Docs: d \in K => View(v)'[d] = View(v)[d] /\ table'[d] = table[d]
        /\ \A d \in Docs: d \notin K => View(v)'[d] = table'[d]
    <3>1. \A d \in Docs: d \in K => table'[d] = table[d]
      BY <1>0, <1>3, SMT DEF WritesOk, View
    <3>2. \A d \in Docs: d \in K => View(v)'[d] = View(v)[d]
      BY <1>0, <3>1, SMT DEF View, Still
    <3>3. \A d \in Docs: d \notin K => View(v)'[d] = table'[d]
      BY <1>0, <1>3, <2>1, SMT DEF WritesOk, View, Still
    <3>4. QED
      BY <3>1, <3>2, <3>3
  <2>4. pc'[v] = pc[v] /\ pc[v] \notin Following
    BY <1>0, <2>1 DEF LocksOk, Still
  <2>5. Pending(v) = {} /\ Pending(v)' = {} /\ Later(v)' = {}
    BY <2>4, NoPending, SMT DEF Pending, Later, Following
  <2>6. OwnRedirects(v)' = {} /\ OwnRedirects(v) = {} /\ Aside(v)' = Aside(v)
    BY <1>0, <2>1, Zenon DEF OwnRedirects, Aside
  <2> HIDE DEF K
  <2>9. NoMoreClashes(View(v)', table', Page(v)', Pending(v)', Aside(v)')
    <3>1. NoMoreClashes(View(v), table, Page(v), {}, Aside(v))
      BY <1>0, <2>5, Zenon DEF ClashOk
    <3>2. NoMoreClashes(View(v)', table', Page(v), {}, Aside(v))
      BY <2>2, <2>3, <3>1, Spliced
    <3>3. QED
      BY <1>0, <2>5, <2>6, <3>2
  <2>10. ASSUME pc'[v] = "write", SourceStands(req[v])'
         PROVE  NoMoreClashes(Proposed(v)', table', Page(v)', OwnRedirects(v)', Aside(v)')
    <3>1. pc[v] = "write" /\ req'[v] = req[v] /\ req[v] \in Menu /\ Page(v) = req[v].doc
      BY <1>0, <2>10, Zenon DEF Still, LocksOk, Page
    <3>2. req[v].act # "create" => req[v].source \in Docs /\ req[v].source \in Jobs
      BY <2>1, <2>10, <3>1, SourceKind, Zenon DEF RowsInv, SourceStands
    <3>3. req[v].act # "create" => table'[req[v].source] = table[req[v].source]
      BY <2>3, <3>2 DEF K
    <3>4. SourceStands(req[v]) /\ Result(v)' = Result(v)
      BY <2>10, <3>1, <3>3, Zenon DEF SourceStands, Result, EffectiveRow
    <3>5. NoMoreClashes(Proposed(v), table, Page(v), {}, Aside(v))
      BY <1>0, <2>6, <3>1, <3>4, Zenon DEF ClashOk
    <3>6. /\ \A d \in Docs: d \in K => Proposed(v)'[d] = Proposed(v)[d] /\ table'[d] = table[d]
          /\ \A d \in Docs: d \notin K => Proposed(v)'[d] = table'[d]
      BY <1>0, <2>1, <2>3, <3>4, SMT DEF Proposed, K
    <3>7. NoMoreClashes(Proposed(v)', table', Page(v), {}, Aside(v))
      BY <2>2, <3>5, <3>6, Spliced
    <3>8. QED
      BY <1>0, <2>6, <3>7
  <2>11. ClashOk(v)'
    BY <2>9, <2>10, Zenon DEF ClashOk
  <2>12. pc'[v] = "write" /\ req'[v].act \in {"create", "clone"} => table'[Page(v)'] = Absent
    <3>1. pc[v] = "write" => Page(v) \in Docs
      <4>1. pc[v] = "write" => req[v] \in Menu
        BY <1>0, SMT DEF LocksOk
      <4>2. QED
        BY <4>1, Menus DEF Page
    <3>2. QED
      BY <1>0, <2>1, <2>3, <3>1, SMT DEF KnownOk, Still, K
  <2>13. KnownOk(v)'
    BY <1>0, <2>1, <2>4, <2>5, <2>12, SMT DEF KnownOk, Following
  <2>14. QED
    BY <2>11, <2>13
<1>4. QED
  BY <1>1, <1>2, <1>3

\* A document is deleted that neither table has any more.
LEMMA DroppedClash ==
  ASSUME NEW u, NEW t, NEW u2, NEW t2, NEW p, NEW R, NEW Q, NEW d, NEW T,
         NoMoreClashes(u, t, p, R, T), \A c \in Docs: c # d => u2[c] = u[c] /\ t2[c] = t[c],
         u2[d] = Absent, R \ {d} \subseteq Q
  PROVE  NoMoreClashes(u2, t2, p, Q, T)
<1> SUFFICES ASSUME NEW x \in Docs \ T, NEW y \in Docs \ T, Clash(u2, x, y)
             PROVE  Clash(t2, x, y) \/ (x = p /\ y \in Q) \/ (y = p /\ x \in Q)
  BY DEF NoMoreClashes
<1>1. x # d /\ y # d
  BY ClashIsMutual
<1>2. u2[x] = u[x] /\ u2[y] = u[y] /\ t2[x] = t[x] /\ t2[y] = t[y]
  BY <1>1
<1>3. Clash(u, x, y)
  BY <1>2, ClashOfTwo
<1>4. Clash(t, x, y) \/ (x = p /\ y \in R) \/ (y = p /\ x \in R)
  BY <1>3 DEF NoMoreClashes
<1>5. Clash(t, x, y) => Clash(t2, x, y)
  BY <1>2, ClashOfTwo
<1>6. QED
  BY <1>1, <1>4, <1>5

LEMMA ClashDelete ==
  ASSUME RowsInv, LocksInv, ClashInv, NEW d \in Docs, Delete(d), NEW v \in Writers
  PROVE  ClashOk(v)' /\ KnownOk(v)'
<1>0. /\ ButFor(View(v)', View(v), d, Absent) /\ ButFor(table', table, d, Absent)
      /\ View(v)[d] = table[d] /\ table[d] # Absent /\ d \notin Pages
      /\ Still(v) /\ ClashOk(v) /\ KnownOk(v) /\ Page(v)' = Page(v) /\ LocksOk(v)
      /\ FollowOk(v) /\ before' = before
  <2>1. DOMAIN table = Docs
    BY DEF RowsInv, IsTable
  <2>2. QED
    BY <2>1, ViewDeleted, Zenon
    DEF ClashInv, LocksInv, RowsInv, Delete, transaction, Still, Page
<1>1. /\ \A c \in Docs: c # d => View(v)'[c] = View(v)[c] /\ table'[c] = table[c]
      /\ View(v)'[d] = Absent /\ table'[d] = Absent
  BY <1>0 DEF ButFor
<1>2. pc[v] \in Following => Page(v) \in Pages /\ Page(v) \in Docs /\ Page(v) # d
  BY <1>0, RowsOfPages DEF LocksOk
<1>3. /\ Leads(v)' = Leads(v) /\ NewPath(v)' = NewPath(v)
      /\ Aside(v)' = Aside(v)
  <2>1. Leads(v)' = Leads(v) /\ NewPath(v)' = NewPath(v)
    BY <1>0, Zenon DEF Leads, NewPath, Still
  <2>2. \A p \in Pages: table'[p] = table[p]
    BY <1>0, <1>1, RowsOfPages
  <2>3. QED
    BY <1>0, <2>1, <2>2, AsideStays DEF Still
<1>4. \A r \in Redirects: r # d => View(v)'[r] = View(v)[r] /\ table'[r] = table[r]
  BY <1>1, RowsOfPages
<1>5. {"sync", "retire", "retarget"} \subseteq Following
  BY DEF Following
<1>6. Pending(v) \ {d} \subseteq Pending(v)' /\ Later(v)' = Later(v)
  <2>1. CASE pc[v] = "sync"
    <3>1. OwnedBy(View(v), Page(v)) \ {d} \subseteq OwnedBy(View(v)', Page(v))
      BY <1>4, SMT DEF OwnedBy
    <3>2. QED
      BY <1>0, <2>1, <3>1, Zenon DEF Pending, Later, Still
  <2>2. CASE pc[v] \in {"retire", "retarget"}
    <3>1. Pending(v)' = Pending(v) /\ Later(v)' = Later(v)
      BY <1>0, <1>3, <1>5, <2>2, Zenon DEF Pending, Later, Still
    <3>2. QED
      BY <3>1
  <2>3. CASE pc[v] \notin {"sync", "retire", "retarget"}
    BY <1>0, <2>3, NoPending, SMT DEF Pending, Later, Still
  <2>4. QED
    BY <2>1, <2>2, <2>3
<1>7. NoMoreClashes(View(v)', table', Page(v)', Pending(v)', Aside(v)')
  <2>1. NoMoreClashes(View(v), table, Page(v), Pending(v), Aside(v))
    BY <1>0, Zenon DEF ClashOk
  <2>2. NoMoreClashes(View(v)', table', Page(v), Pending(v)', Aside(v))
    BY <1>1, <1>6, <2>1, DroppedClash
  <2>3. QED
    BY <1>0, <1>3, <2>2
<1>8. ASSUME pc'[v] = "write", SourceStands(req[v])'
      PROVE  NoMoreClashes(Proposed(v)', table', Page(v)', OwnRedirects(v)', Aside(v)')
  <2>1. pc[v] = "write" /\ req'[v] = req[v] /\ req[v] \in Menu /\ IsRequest(req[v])
    BY <1>0, <1>8, MenuIsRequests, Zenon DEF Still, LocksOk
  <2>2. req[v].act # "create" => req[v].source # d /\ req[v].source \in Docs
    BY <1>1, <1>8, <2>1, SMT DEF SourceStands, IsRequest
  <2>3. req[v].act # "create" => table'[req[v].source] = table[req[v].source]
    BY <1>1, <2>2
  <2>4. SourceStands(req[v])
    BY <1>8, <2>1, <2>3, Zenon DEF SourceStands
  <2>5. Result(v)' = Result(v)
    BY <2>1, <2>3, Zenon DEF Result, EffectiveRow
  <2>6. Page(v) # d
    <3>1. req[v].act \in {"create", "clone"} => table[Page(v)] = Absent
      BY <1>0, <2>1, Zenon DEF KnownOk
    <3>2. req[v].act \in {"update", "delete"} => Page(v) = req[v].source
      BY <2>1, Zenon DEF IsRequest, Page
    <3>3. req[v].act \in {"create", "clone", "update", "delete"}
      BY <2>1, Menus
    <3>4. QED
      BY <1>0, <2>2, <3>1, <3>2, <3>3
  <2>7. /\ \A c \in Docs: c # d => Proposed(v)'[c] = Proposed(v)[c]
        /\ Proposed(v)'[d] = Absent
    BY <1>0, <1>1, <2>5, <2>6, SMT DEF Proposed
  <2>8. OwnRedirects(v) \ {d} \subseteq OwnRedirects(v)'
    <3>1. OwnedBy(table, Page(v)) \ {d} \subseteq OwnedBy(table', Page(v))
      BY <1>4, SMT DEF OwnedBy
    <3>2. CASE Page(v) \in Pages
      BY <1>0, <3>1, <3>2, Zenon DEF OwnRedirects
    <3>3. CASE Page(v) \notin Pages
      BY <3>3, Zenon DEF OwnRedirects
    <3>4. QED
      BY <3>2, <3>3
  <2>9. NoMoreClashes(Proposed(v), table, Page(v), OwnRedirects(v), Aside(v))
    BY <1>0, <2>1, <2>4, Zenon DEF ClashOk
  <2>10. NoMoreClashes(Proposed(v)', table', Page(v), OwnRedirects(v)', Aside(v))
    BY <1>1, <2>7, <2>8, <2>9, DroppedClash
  <2>11. QED
    BY <1>0, <1>3, <2>10
<1>9. ClashOk(v)'
  BY <1>7, <1>8, Zenon DEF ClashOk
<1>10. KnownOk(v)'
  <2>1. pc'[v] = "write" /\ req'[v].act \in {"create", "clone"} => table'[Page(v)'] = Absent
    <3>1. SUFFICES ASSUME pc'[v] = "write", req'[v].act \in {"create", "clone"}
                   PROVE  table'[Page(v)'] = Absent
      OBVIOUS
    <3>2. pc[v] = "write" /\ req'[v] = req[v] /\ req[v] \in Menu
      BY <1>0, <3>1, Zenon DEF Still, LocksOk
    <3>3. table[Page(v)] = Absent /\ Page(v) \in Docs
      BY <1>0, <3>1, <3>2, Menus, Zenon DEF KnownOk, Page
    <3>4. QED
      BY <1>0, <1>1, <3>3
  <2>2. pc'[v] = "sync" => DOMAIN wrote'[v] = {Page(v)'}
    BY <1>0, SMT DEF KnownOk, Still
  <2>20. Saved(v)' /\ Page(v)' \in Pages => SeesPage(v)'
    <3> SUFFICES ASSUME Saved(v)', Page(v)' \in Pages PROVE SeesPage(v)'
      OBVIOUS
    <3>1. SeesPage(v) /\ Page(v) \in Pages
      BY <1>0, Zenon DEF KnownOk, Saved, Still
    <3>2. View(v)'[Page(v)] = View(v)[Page(v)] /\ table'[Page(v)] = table[Page(v)]
      BY <1>0, <1>1, <3>1, RowsOfPages
    <3>3. QED
      BY <1>0, <1>3, <3>1, <3>2, Zenon DEF SeesPage, Still
  <2>3. pc'[v] = "retire" /\ Leads(v)' => \A r \in todo'[v]: owned'[v][r].from = NewPath(v)'
    <3>1. SUFFICES ASSUME pc'[v] = "retire", Leads(v)'
                   PROVE  \A r \in todo'[v]: owned'[v][r].from = NewPath(v)'
      OBVIOUS
    <3>2. /\ pc[v] = "retire" /\ todo'[v] = todo[v] /\ owned'[v] = owned[v]
          /\ Leads(v) /\ NewPath(v)' = NewPath(v)
      BY <1>0, <1>3, <1>5, <3>1, Zenon DEF Still
    <3>3. QED
      BY <1>0, <3>2, Zenon DEF KnownOk
  <2>4. \A r \in Later(v)': View(v)'[r] \in {owned'[v][r], Absent}
    <3>1. SUFFICES ASSUME NEW r \in Later(v)' PROVE View(v)'[r] \in {owned'[v][r], Absent}
      OBVIOUS
    <3>2. r \in Later(v) /\ owned'[v] = owned[v]
      BY <1>0, <1>6 DEF Still
    <3>3. r \in Redirects
      BY <1>0, <3>2, SMT DEF Later, FollowOk, Following
    <3>4. View(v)[r] \in {owned[v][r], Absent}
      BY <1>0, <3>2, Zenon DEF KnownOk
    <3>5. QED
      BY <1>1, <1>4, <3>2, <3>3, <3>4
  <2>5. QED
    BY <2>1, <2>2, <2>20, <2>3, <2>4, Zenon DEF KnownOk
<1>11. QED
  BY <1>9, <1>10

LEMMA ClashInit == Init => ClashInv
<1> SUFFICES ASSUME Init, NEW w \in Writers PROVE ClashOk(w) /\ KnownOk(w)
  BY DEF ClashInv
<1>1. DOMAIN wrote[w] = {} /\ pc[w] = "idle"
  BY SMT DEF Init, NoRows
<1>2. \A d \in Docs: View(w)[d] = table[d]
  BY <1>1, ViewFresh, Zenon DEF SameTable
<1>3. NoMoreClashes(View(w), table, Page(w), Pending(w), Aside(w))
  BY <1>2, NothingAdded
<1>4. Later(w) = {}
  BY <1>1, NoPending
<1>5. QED
  BY <1>1, <1>3, <1>4, SMT DEF ClashOk, KnownOk, Saved, Following

\* A save that has written nothing and is not about to.
LEMMA ClashFresh ==
  ASSUME NEW w \in Writers, DOMAIN wrote'[w] = {}, pc'[w] \in {"idle", "lock", "validate"}
  PROVE  ClashOk(w)' /\ KnownOk(w)'
<1>1. \A d \in Docs: View(w)'[d] = table'[d]
  BY SMT DEF View
<1>2. NoMoreClashes(View(w)', table', Page(w)', Pending(w)', Aside(w)')
  BY <1>1, NothingAdded
<1>3. Later(w)' = {}
  BY SMT DEF Later
<1>4. pc'[w] \notin {"write", "sync", "retire"} /\ ~Saved(w)'
  BY DEF Saved, Following
<1>5. QED
  BY <1>2, <1>3, <1>4, Zenon DEF ClashOk, KnownOk

LEMMA ClashNext ==
  ASSUME Shape, LocksInv, RowsInv, ClashInv, [Next]_vars, RowsInv'
  PROVE  ClashInv'
<1>1. ASSUME NEW w \in Writers, Begin(w) \/ TakeLock(w)
      PROVE  ClashInv'
  <2>1. UNCHANGED <<table, wrote>>
    BY <1>1, QuietEffect
  <2>2. pc[w] \in {"idle", "lock"} /\ pc'[w] \in {"lock", "validate"}
    BY <1>1, Zenon DEF Begin, TakeLock, Goes, Shape
  <2>3. DOMAIN wrote'[w] = {}
    BY <2>1, <2>2, SMT DEF RowsInv, WritesOk, Locked
  <2>4. ClashOk(w)' /\ KnownOk(w)'
    BY <2>2, <2>3, ClashFresh
  <2>5. ASSUME NEW v \in Writers, v # w PROVE ClashOk(v)' /\ KnownOk(v)'
    BY <1>1, <2>1, <2>5, StepOfOne, ClashStill, Zenon DEF ClashInv
  <2>6. QED
    BY <2>4, <2>5 DEF ClashInv
<1>2. ASSUME NEW w \in Writers, Proceeds(w)
      PROVE  ClashInv'
  <2>1. UNCHANGED table
    BY <1>2, ProceedsEffect
  <2>2. ClashOk(w)' /\ KnownOk(w)'
    BY <1>2, ClashValidate, ClashWrite, ClashPageUnchanged, ClashReadOwned, ClashRetire,
       ClashRetired, ClashRetarget, ClashRetargeted, ClashAlias, Zenon DEF Proceeds
  <2>3. ASSUME NEW v \in Writers, v # w PROVE ClashOk(v)' /\ KnownOk(v)'
    BY <1>2, <2>1, <2>3, StepOfOne, ClashStill, Zenon DEF ClashInv
  <2>4. QED
    BY <2>2, <2>3 DEF ClashInv
<1>3. ASSUME NEW w \in Writers, Ends(w), Commit(w) \/ UNCHANGED table
      PROVE  ClashInv'
  <2>1. pc'[w] = "idle" /\ DOMAIN wrote'[w] = {}
    BY <1>3, EndsEffect, Zenon DEF PcIs
  <2>2. ClashOk(w)' /\ KnownOk(w)'
    BY <2>1, ClashFresh
  <2>3. ASSUME NEW v \in Writers, v # w PROVE ClashOk(v)' /\ KnownOk(v)'
    BY <1>3, <2>3, StepOfOne, ClashStill, ClashCommit, Zenon DEF ClashInv
  <2>4. QED
    BY <2>2, <2>3 DEF ClashInv
<1>4. ASSUME NEW d \in Docs, Delete(d)
      PROVE  ClashInv'
  BY <1>4, ClashDelete DEF ClashInv
<1>5. ASSUME UNCHANGED vars
      PROVE  ClashInv'
  <2>1. UNCHANGED table /\ \A v \in Writers: Still(v)
    BY <1>5, Zenon DEF vars, transaction, Still
  <2>2. QED
    BY <2>1, ClashStill, Zenon DEF ClashInv
<1>6. QED
  BY <1>1, <1>2, <1>3, <1>4, <1>5, Zenon
     DEF Next, Proceeds, Commit, Abort

\* What a commit may clash with anew is a page of which there is another one.
LEMMA AsideTwins ==
  ASSUME ClashInv, NEW w \in Writers, Commit(w), NEW p \in Aside(w)
  PROVE  p \in Twins(PagesIn(table) \cup PagesIn(table'))
<1>1. /\ table' = View(w) /\ (Page(w) \in Pages => SeesPage(w))
  BY Zenon DEF Commit, ClashInv, KnownOk, Saved
<1>2. /\ p \in PagesIn(table) \cup ({Page(w)} \cap Pages)
      /\ \E q \in (PagesIn(table) \cup ({Page(w)} \cap Pages)) \ {p}:
           PageKind[q] = PageKind[p]
  BY Zenon DEF Aside, Twins
<1>3. \A q \in {Page(w)} \cap Pages: q \in PagesIn(table) \cup PagesIn(table')
  BY <1>1, SMT DEF SeesPage, PagesIn
<1>4. QED
  BY <1>2, <1>3, SMT DEF Twins

LEMMA ClashesStep ==
  ASSUME Shape, RowsInv, ClashInv, [Next]_vars
  PROVE  [\A x \in Clashes(table') \ Clashes(table): {x[1], x[2]} \cap Excused # {}]_table
<1>1. ASSUME NEW w \in Writers, Commit(w)
      PROVE  \A x \in Clashes(table') \ Clashes(table): {x[1], x[2]} \cap Excused # {}
  <2>1. pc[w] = "commit" /\ table' = View(w) /\ ClashOk(w)
    BY <1>1, Zenon DEF Commit, ClashInv
  <2>2. NoMoreClashes(table', table, Page(w), {}, Aside(w))
    BY <2>1, NoPending, Zenon DEF ClashOk
  <2>3. SUFFICES ASSUME NEW d \in Docs, NEW c \in Docs, Clash(table', d, c), ~Clash(table, d, c)
                 PROVE  {d, c} \cap Excused # {}
    BY SMT DEF Clashes
  <2>4. d \in Aside(w) \/ c \in Aside(w)
    BY <2>2, <2>3 DEF NoMoreClashes
  <2>5. QED
    BY <1>1, <2>4, AsideTwins DEF Excused
<1>2. ASSUME NEW d \in Docs, Delete(d)
      PROVE  Clashes(table') \subseteq Clashes(table)
  <2>1. ButFor(table', table, d, Absent)
    BY <1>2, SMT DEF Delete, ButFor, RowsInv, IsTable
  <2>2. \A c \in Docs: table'[c] = table[c] \/ table'[c] = Absent
    BY <2>1 DEF ButFor
  <2>3. \A c, e \in Docs: Clash(table', c, e) => Clash(table, c, e)
    BY <2>2, SameClashes
  <2>4. QED
    BY <2>3, SMT DEF Clashes
<1>3. ASSUME NEW w \in Writers, Begin(w) \/ TakeLock(w) \/ Proceeds(w) \/ Abort(w)
      PROVE  UNCHANGED table
  BY <1>3, QuietEffect, ProceedsEffect, Zenon DEF Abort
<1>4. UNCHANGED vars => UNCHANGED table
  BY DEF vars
<1>5. QED
  BY <1>1, <1>2, <1>3, <1>4, Zenon DEF Next, Proceeds

\* No save adds a clash to the committed documents, however its validation, its
\* writes and its nested saves interleave with other saves and deletions, but
\* for clashes of a page of which there are two documents.
THEOREM NothingClashes == Spec => NoNewClash
<1>1. Init => RouteInv /\ ClashInv
  BY LocksInit, RowsInit, ClashInit DEF RouteInv
<1>2. (RouteInv /\ ClashInv) /\ [Next]_vars => (RouteInv /\ ClashInv)'
  BY ShapeNext, LocksNext, RowsNext, ClashNext DEF RouteInv
<1>3. (RouteInv /\ ClashInv) /\ [Next]_vars =>
        [\A x \in Clashes(table') \ Clashes(table): {x[1], x[2]} \cap Excused # {}]_table
  BY ClashesStep DEF RouteInv
<1>4. QED
  BY <1>1, <1>2, <1>3, PTL DEF Spec, NoNewClash

(***************************************************************************)
(* The redirects of a page follow it.                                      *)
(***************************************************************************)
\* The pages of which there are two documents are known to have had two.
TwinsKnown == Twins(PagesIn(table)) \subseteq twinned

Sought == Entities \cup (Pages \ twinned)

\* No page clashes with an entity or a page, but for those that had a second
\* document: legacy content, which may clash, has no pages.
PageFree == \A p \in Pages \ twinned, c \in Sought: ~Clash(table, p, c)

\* The save of a page that has written the page, the only document of it.
Moves(w) == Saved(w) /\ Page(w) \in Pages /\ Page(w) \notin Aside(w) \cup twinned

\* No entity and no other page has the address the page had, but for one that
\* had a second document.
OldAddressFree(w) ==
  \A c \in Sought \ {Page(w)}:
    View(w)[c] # Absent => before[w].slug \notin Claims(View(w), c)

AddressOk(w) ==
  Moves(w) => /\ Page(w) \in DOMAIN wrote[w]
              /\ before[w] # Absent => OldAddressFree(w)

Settled(w, r) == View(w)[r].active => Leads(w) /\ View(w)[r].to = NewPath(w)

\* A redirect of the page leads from its old address to its new one, or was to.
IsTrail(w, r) ==
  /\ r \in DOMAIN wrote[w] /\ r \in OwnedBy(View(w), Page(w))
  /\ View(w)[r].active /\ View(w)[r].from = OldPath(w) /\ View(w)[r].to = NewPath(w)

WasTrail(w, r) == owned[w][r].from = OldPath(w) /\ View(w)[r] = Absent

\* A page that had a second document is at the old address.
PageStands(w) ==
  \E p \in Pages \cap twinned: View(w)[p] # Absent /\ View(w)[p].slug = before[w].slug

Trail(w) == \/ \E r \in Redirects: IsTrail(w, r)
            \/ \E r \in DOMAIN owned[w] \cap Redirects: WasTrail(w, r)
            \/ PageStands(w)

OnTheWay(w) ==
  \A r \in OwnedBy(View(w), Page(w)):
    /\ r \in DOMAIN owned[w]
    /\ \/ r \in todo[w] \/ ~View(w)[r].active
       \/ Leads(w) /\ owned[w][r].from # NewPath(w)

AliasesOk(w) ==
  Moves(w) =>
    /\ pc[w] \in {"retire", "retarget"} =>
         \A r \in DOMAIN owned[w]: owned[w][r].managedBy = Page(w)
    /\ pc[w] = "retire" => OnTheWay(w)
    /\ pc[w] = "retarget" =>
         /\ \A r \in OwnedBy(View(w), Page(w)): r \in todo[w] \/ Settled(w, r)
         /\ RenamedInPublic(w) =>
              \/ \A r \in DOMAIN owned[w]: owned[w][r].from = OldPath(w) => r \in todo[w]
              \/ Trail(w)
    /\ pc[w] = "alias" => \A r \in OwnedBy(View(w), Page(w)): Settled(w, r)
    /\ pc[w] = "commit" /\ before[w] # after[w] =>
         /\ \A r \in OwnedBy(View(w), Page(w)): Settled(w, r)
         /\ RenamedInPublic(w) => Trail(w)

FollowInv == TwinsKnown /\ PageFree /\ \A w \in Writers: AddressOk(w) /\ AliasesOk(w)

\* What others commit or delete takes at most rows of other documents away, and
\* no page.
Undisturbed(v) ==
  /\ \A c \in Docs \ Jobs:
       \/ View(v)'[c] = View(v)[c]
       \/ View(v)'[c] = Absent /\ c \notin DOMAIN wrote[v]
  /\ \A p \in Pages: table'[p] = table[p] /\ View(v)'[p] = View(v)[p]
  /\ twinned \subseteq twinned'

\* What the save of a page, the only document of it, knows of the page.
LEMMA MovesFacts ==
  ASSUME RowsInv, ClashInv, NEW w \in Writers, Moves(w)
  PROVE  /\ Page(w) \in Pages /\ owner[w] = Page(w) /\ after[w] = View(w)[Page(w)]
         /\ before[w] = table[Page(w)]
         /\ before[w] \in PageRow \cup {Absent} /\ after[w] \in PageRow \cup {Absent}
<1>1. /\ Page(w) \in Pages /\ owner[w] = Page(w) /\ after[w] = View(w)[Page(w)]
      /\ before[w] = table[Page(w)]
  BY Zenon DEF Moves, ClashInv, KnownOk, SeesPage
<1>2. IsTable(table) /\ IsTable(View(w))
  BY Zenon DEF RowsInv, WritesOk
<1>3. QED
  BY <1>1, <1>2, SMT DEF IsTable

\* A step of the save of a page before which the page was the only document, too.
LEMMA MovesOn ==
  ASSUME LocksInv, RowsInv, ClashInv, FollowInv, NEW w \in Writers, pc[w] \in Following,
         UNCHANGED <<table, req>>, twinned \subseteq twinned', Moves(w)'
  PROVE  /\ Moves(w) /\ Page(w) \in Pages /\ AddressOk(w) /\ AliasesOk(w)
         /\ owner[w] = Page(w) /\ after[w] = View(w)[Page(w)]
         /\ before[w] \in PageRow \cup {Absent} /\ after[w] \in PageRow \cup {Absent}
<1>1. Page(w)' = Page(w) /\ Aside(w)' = Aside(w)
  BY AsideKept
<1>2. Moves(w)
  BY <1>1, SMT DEF Moves, Saved
<1>3. QED
  BY <1>2, MovesFacts DEF FollowInv

LEMMA AddressKept ==
  ASSUME NEW w \in Writers, AddressOk(w), Moves(w), Page(w)' = Page(w), before'[w] = before[w],
         DOMAIN wrote[w] \subseteq DOMAIN wrote'[w],
         twinned \subseteq twinned',
         \A c \in Entities \cup Pages: View(w)'[c] = View(w)[c] \/ View(w)'[c] = Absent
  PROVE  AddressOk(w)'
<1>1. ASSUME OldAddressFree(w), NEW c \in Sought' \ {Page(w)}, View(w)'[c] # Absent
      PROVE  before[w].slug \notin Claims(View(w)', c)
  <2>1. View(w)'[c] = View(w)[c] /\ c \in Sought
    BY <1>1 DEF Sought
  <2>2. Claims(View(w)', c) = Claims(View(w), c)
    BY <2>1, SameRow
  <2>3. QED
    BY <1>1, <2>1, <2>2 DEF OldAddressFree
<1>2. OldAddressFree(w) => OldAddressFree(w)'
  BY <1>1 DEF OldAddressFree
<1>3. QED
  BY <1>2 DEF AddressOk

LEMMA PageKept ==
  ASSUME NEW v \in Writers, Still(v), Moves(v), AddressOk(v), Undisturbed(v)
  PROVE  /\ Page(v)' = Page(v) /\ after'[v] = after[v] /\ Leads(v)' = Leads(v)
         /\ NewPath(v)' = NewPath(v) /\ OldPath(v)' = OldPath(v)
         /\ RenamedInPublic(v)' = RenamedInPublic(v)
<1>1. Page(v)' = Page(v) /\ OldPath(v)' = OldPath(v) /\ after'[v] = after[v]
  BY Zenon DEF Page, OldPath, Still
<1>2. Leads(v)' = Leads(v) /\ NewPath(v)' = NewPath(v)
  BY <1>1, Zenon DEF Leads, NewPath
<1>3. RenamedInPublic(v)' = RenamedInPublic(v)
  BY <1>1, <1>2, Zenon DEF RenamedInPublic, Still
<1>4. QED
  BY <1>1, <1>2, <1>3

LEMMA TrailKept ==
  ASSUME NEW v \in Writers, Still(v), Moves(v), AddressOk(v), Undisturbed(v), Trail(v)
  PROVE  Trail(v)'
<1>0. \A r \in Redirects: \/ View(v)'[r] = View(v)[r]
                          \/ View(v)'[r] = Absent /\ r \notin DOMAIN wrote[v]
  BY RowsOfPages, KindsOfDocs DEF Undisturbed
<1>1. ASSUME NEW r \in Redirects, IsTrail(v, r) PROVE IsTrail(v, r)'
  <2>1. View(v)'[r] = View(v)[r] /\ wrote'[v] = wrote[v]
    BY <1>0, <1>1 DEF IsTrail, Still
  <2>2. r \in OwnedBy(View(v)', Page(v)')
    BY <1>1, <2>1, PageKept, SMT DEF IsTrail, OwnedBy
  <2>3. QED
    BY <1>1, <2>1, <2>2, PageKept, Zenon DEF IsTrail
<1>2. ASSUME NEW r \in DOMAIN owned[v] \cap Redirects, WasTrail(v, r)
      PROVE  WasTrail(v, r)' /\ r \in DOMAIN owned'[v]
  BY <1>0, <1>2, PageKept, Zenon DEF WasTrail, Still
<1>3. PageStands(v) => PageStands(v)'
  <2>1. before'[v] = before[v] /\ \A p \in Pages: View(v)'[p] = View(v)[p]
    BY Zenon DEF Still, Undisturbed
  <2>2. QED
    BY <2>1, SMT DEF PageStands, Undisturbed
<1>4. QED
  BY <1>1, <1>2, <1>3 DEF Trail

LEMMA FollowStill ==
  ASSUME NEW v \in Writers, Still(v), AddressOk(v), AliasesOk(v),
         Saved(v) /\ Page(v) \in Pages => Undisturbed(v)
  PROVE  AddressOk(v)' /\ AliasesOk(v)'
<1> SUFFICES ASSUME Moves(v)' PROVE AddressOk(v)' /\ AliasesOk(v)'
  BY Zenon DEF AddressOk, AliasesOk
<1>1. Page(v)' = Page(v) /\ pc'[v] = pc[v] /\ Saved(v) /\ Page(v) \in Pages
  BY Zenon DEF Page, Still, Moves, Saved
<1>2. Undisturbed(v) /\ Aside(v)' = Aside(v)
  BY <1>1, AsideStays DEF Undisturbed, Still
<1>3. Moves(v)
  BY <1>1, <1>2 DEF Moves, Undisturbed
<1>4. QED
  <2>1. \A c \in Entities \cup Pages: View(v)'[c] = View(v)[c] \/ View(v)'[c] = Absent
    BY <1>2, KindsOfDocs DEF Undisturbed, Docs
  <2>2. AddressOk(v)'
    BY <1>1, <1>2, <1>3, <2>1, AddressKept, Zenon DEF Still, Undisturbed
  <2>3. /\ \A r \in OwnedBy(View(v)', Page(v)'): /\ r \in OwnedBy(View(v), Page(v))
                                                  /\ View(v)'[r] = View(v)[r]
    <3>1. \A r \in Redirects: View(v)'[r] = View(v)[r] \/ View(v)'[r] = Absent
      BY <1>2, RowsOfPages, KindsOfDocs DEF Undisturbed
    <3>2. QED
      BY <1>1, <3>1, SMT DEF OwnedBy
  <2>4. \A r \in OwnedBy(View(v)', Page(v)'): Settled(v, r) => Settled(v, r)'
    BY <1>2, <1>3, <2>3, PageKept, Zenon DEF Settled
  <2>5. OnTheWay(v) => OnTheWay(v)'
    BY <1>2, <1>3, <2>3, PageKept, Zenon DEF OnTheWay, Still
  <2>6. Trail(v) => Trail(v)'
    BY <1>2, <1>3, TrailKept
  <2>7. QED
    BY <1>2, <1>3, <2>2, <2>3, <2>4, <2>5, <2>6, PageKept, Zenon DEF AliasesOk, Still

LEMMA FollowWrite ==
  ASSUME Shape, LocksInv, RowsInv, ClashInv, FollowInv, NEW w \in Writers, Write(w)
  PROVE  AddressOk(w)' /\ AliasesOk(w)'
<1>1. /\ pc[w] = "write" /\ UNCHANGED <<table, twinned, req>>
      /\ WroteIs(w, Page(w), Result(w))
      /\ pc'[w] = IF Page(w) \in Pages THEN "sync" ELSE "commit"
  BY WriteEffect, Zenon DEF PcIs
<1>2. /\ Page(w)' = Page(w) /\ Aside(w)' = Aside(w) /\ Page(w) \in DOMAIN wrote'[w]
      /\ KnownOk(w)'
  BY <1>1, AsideKept, ClashWrite DEF WroteIs
<1> SUFFICES ASSUME Moves(w)' PROVE AddressOk(w)' /\ AliasesOk(w)'
  BY Zenon DEF AddressOk, AliasesOk
<1>3. /\ Page(w) \in Pages /\ Page(w) \notin Aside(w) \cup twinned
      /\ before'[w] = table[Page(w)]
  <2>1. SeesPage(w)' /\ Page(w) \in Pages /\ Page(w) \notin Aside(w) \cup twinned
    BY <1>1, <1>2, Zenon DEF Moves, KnownOk
  <2>2. QED
    BY <1>1, <1>2, <2>1, Zenon DEF SeesPage
<1>4. AliasesOk(w)'
  BY <1>1, <1>3, SMT DEF AliasesOk
<1>5. \A c \in Docs: c # Page(w) => View(w)'[c] = table[c]
  <2>1. SameTable(View(w), table)
    BY <1>1, ViewFresh, Zenon DEF RowsInv, WritesOk
  <2>2. ButFor(View(w)', View(w), Page(w), Result(w))
    BY <1>1, <1>3, RowsOfPages, ViewWritten
  <2>3. QED
    BY <2>1, <2>2 DEF SameTable, ButFor
<1>6. ASSUME before'[w] # Absent, NEW c \in Sought \ {Page(w)}, View(w)'[c] # Absent
      PROVE  before'[w].slug \notin Claims(View(w)', c)
  <2>1. c \in Docs /\ Page(w) \in Docs /\ InOneSpace(Page(w), c)
        /\ c \notin Redirects /\ Page(w) \notin Redirects /\ Page(w) \notin Entities
    BY <1>3, <1>6, KindsOfDocs DEF Docs, InOneSpace, Sought
  <2>2. View(w)'[c] = table[c]
    BY <1>5, <1>6, <2>1
  <2>3. Claims(View(w)', c) = Claims(table, c)
    BY <2>2, SameRow
  <2>4. ~Clash(table, Page(w), c)
    BY <1>3, <1>6 DEF FollowInv, PageFree
  <2>5. Stands(table, Page(w)) /\ Stands(table, c)
    BY <1>3, <1>6, <2>1, <2>2, Zenon DEF Stands
  <2>6. Claims(table, Page(w)) \cap Claims(table, c) = {}
    BY <1>6, <2>1, <2>4, <2>5, Zenon DEF Clash
  <2>7. before'[w].slug \in Claims(table, Page(w))
    BY <1>3, <2>1, SMT DEF Claims
  <2>8. QED
    BY <2>3, <2>6, <2>7
<1>7. before'[w] # Absent => OldAddressFree(w)'
  <2>1. Sought' = Sought
    BY <1>1 DEF Sought
  <2>2. QED
    BY <1>2, <1>6, <2>1, Zenon DEF OldAddressFree
<1>8. QED
  BY <1>2, <1>4, <1>7, Zenon DEF AddressOk

\* A step of the page's save that leaves the content, the page and what it was.
LEMMA QuietAddress ==
  ASSUME NEW w \in Writers, AddressOk(w), Moves(w), twinned \subseteq twinned',
         UNCHANGED <<table, req, wrote, before, after, owner>>
  PROVE  /\ AddressOk(w)' /\ View(w)' = View(w) /\ Page(w)' = Page(w)
         /\ Leads(w)' = Leads(w) /\ NewPath(w)' = NewPath(w)
         /\ OldPath(w)' = OldPath(w) /\ RenamedInPublic(w)' = RenamedInPublic(w)
<1>1. View(w)' = View(w) /\ Page(w)' = Page(w) /\ OldPath(w)' = OldPath(w)
  BY ViewKept, Zenon DEF Page, OldPath
<1>2. Leads(w)' = Leads(w) /\ NewPath(w)' = NewPath(w)
  BY Zenon DEF Leads, NewPath
<1>3. RenamedInPublic(w)' = RenamedInPublic(w)
  BY <1>2, Zenon DEF RenamedInPublic
<1>4. AddressOk(w)'
  BY <1>1, AddressKept
<1>5. QED
  BY <1>1, <1>2, <1>3, <1>4

\* The old address and the new one are spelled differently.
LEMMA PathsDiffer ==
  ASSUME RowsInv, ClashInv, NEW w \in Writers, Moves(w), RenamedInPublic(w)
  PROVE  /\ OldPath(w) # NewPath(w) /\ Leads(w) /\ before[w] # Absent
         /\ Fold[OldPath(w)] = before[w].slug /\ before[w].slug # after[w].slug
         /\ Fold[NewPath(w)] = after[w].slug /\ NewPath(w) \in Paths
<1>1. /\ Leads(w) /\ before[w] # Absent /\ before[w] \in PageRow /\ after[w] \in PageRow
      /\ before[w].slug # after[w].slug
  BY MovesFacts, Zenon DEF RenamedInPublic, Leads
<1>2. before[w].slug \in Routes /\ after[w].slug \in Routes
  BY <1>1 DEF PageRow
<1>3. Fold[OldPath(w)] = before[w].slug
  BY <1>2, PathsOfPages DEF OldPath
<1>4. Fold[NewPath(w)] = after[w].slug /\ NewPath(w) \in Paths
  BY <1>2, PathsOfPages DEF NewPath
<1>5. QED
  BY <1>1, <1>3, <1>4

LEMMA FollowReadOwned ==
  ASSUME Shape, LocksInv, RowsInv, ClashInv, FollowInv, NEW w \in Writers, ReadOwned(w)
  PROVE  AddressOk(w)' /\ AliasesOk(w)'
<1> DEFINE O == OwnedBy(View(w), owner[w])
<1>1. /\ pc[w] = "sync" /\ pc'[w] = "retire" /\ UNCHANGED <<table, twinned, req, wrote, before, after, owner>>
      /\ owned'[w] = [r \in O |-> View(w)[r]]
      /\ todo'[w] = {r \in O: Leads(w) => View(w)[r].from = NewPath(w)}
  BY ReadOwnedEffect, Zenon DEF PcIs
<1> SUFFICES ASSUME Moves(w)' PROVE AddressOk(w)' /\ AliasesOk(w)'
  BY Zenon DEF AddressOk, AliasesOk
<1>2. Moves(w) /\ AddressOk(w) /\ owner[w] = Page(w)
  BY <1>1, MovesOn, SMT DEF Following
<1>3. /\ AddressOk(w)' /\ View(w)' = View(w) /\ Page(w)' = Page(w)
      /\ Leads(w)' = Leads(w) /\ NewPath(w)' = NewPath(w)
  BY <1>1, <1>2, QuietAddress
<1>4. DOMAIN owned'[w] = O /\ \A r \in O: owned'[w][r] = View(w)[r]
  BY <1>1
<1>5. \A r \in O: View(w)[r].managedBy = Page(w)
  BY <1>2, SMT DEF OwnedBy
<1>6. OwnedBy(View(w)', Page(w)') = O
  BY <1>2, <1>3, Zenon
<1>7. \A r \in O: r \in todo'[w] \/ (Leads(w) /\ View(w)[r].from # NewPath(w))
  BY <1>1, SMT
<1> HIDE DEF O
<1>8. OnTheWay(w)'
  BY <1>3, <1>4, <1>6, <1>7, Zenon DEF OnTheWay
<1>9. QED
  BY <1>1, <1>3, <1>4, <1>5, <1>8, Zenon DEF AliasesOk

LEMMA FollowRetired ==
  ASSUME Shape, LocksInv, RowsInv, ClashInv, FollowInv, NEW w \in Writers, Retired(w)
  PROVE  AddressOk(w)' /\ AliasesOk(w)'
<1>1. /\ pc[w] = "retire" /\ todo[w] = {} /\ UNCHANGED <<table, twinned, req, wrote, before, after, owner, owned>>
      /\ \/ /\ Leads(w) /\ pc'[w] = "retarget"
            /\ todo'[w] = {r \in DOMAIN owned[w]: owned[w][r].from # NewPath(w)}
         \/ ~Leads(w) /\ pc'[w] = "commit"
  BY RetiredEffect, Zenon DEF PcIs
<1> SUFFICES ASSUME Moves(w)' PROVE AddressOk(w)' /\ AliasesOk(w)'
  BY Zenon DEF AddressOk, AliasesOk
<1>2. Moves(w) /\ AddressOk(w) /\ AliasesOk(w)
  BY <1>1, MovesOn, SMT DEF Following
<1>3. /\ AddressOk(w)' /\ View(w)' = View(w) /\ Page(w)' = Page(w) /\ Leads(w)' = Leads(w)
      /\ NewPath(w)' = NewPath(w) /\ OldPath(w)' = OldPath(w)
      /\ RenamedInPublic(w)' = RenamedInPublic(w)
  BY <1>1, <1>2, QuietAddress
<1>4. /\ OnTheWay(w)
      /\ \A r \in DOMAIN owned[w]: owned[w][r].managedBy = Page(w)
  BY <1>1, <1>2, Zenon DEF AliasesOk
<1>5. CASE Leads(w)
  <2>1. \A r \in OwnedBy(View(w), Page(w)): r \in todo'[w] \/ Settled(w, r)
    BY <1>1, <1>4, <1>5, SMT DEF OnTheWay, Settled
  <2>2. \A r \in OwnedBy(View(w)', Page(w)'): r \in todo'[w] \/ Settled(w, r)'
    BY <1>3, <2>1, Zenon DEF Settled
  <2>3. RenamedInPublic(w) => \A r \in DOMAIN owned[w]: owned[w][r].from = OldPath(w) => r \in todo'[w]
    BY <1>1, <1>2, <1>4, <1>5, PathsDiffer
  <2>4. QED
    BY <1>1, <1>3, <1>4, <1>5, <2>2, <2>3, Zenon DEF AliasesOk
<1>6. CASE ~Leads(w)
  <2>1. \A r \in OwnedBy(View(w)', Page(w)'): Settled(w, r)'
    BY <1>1, <1>3, <1>4, <1>6, Zenon DEF OnTheWay, Settled
  <2>2. ~RenamedInPublic(w)
    BY <1>6, Zenon DEF RenamedInPublic
  <2>3. QED
    BY <1>1, <1>3, <1>6, <2>1, <2>2, Zenon DEF AliasesOk
<1>7. QED
  BY <1>5, <1>6

LEMMA FollowRetargeted ==
  ASSUME Shape, LocksInv, RowsInv, ClashInv, FollowInv, NEW w \in Writers, Retargeted(w)
  PROVE  AddressOk(w)' /\ AliasesOk(w)'
<1>1. /\ pc[w] = "retarget" /\ todo[w] = {} /\ UNCHANGED <<table, twinned, req, wrote, before, after, owner, owned>>
      /\ \/ NeedsAlias(w) /\ pc'[w] = "alias"
         \/ ~NeedsAlias(w) /\ pc'[w] = "commit"
  BY Zenon DEF Retargeted, transaction, Shape, Goes
<1> SUFFICES ASSUME Moves(w)' PROVE AddressOk(w)' /\ AliasesOk(w)'
  BY Zenon DEF AddressOk, AliasesOk
<1>2. Moves(w) /\ AddressOk(w) /\ AliasesOk(w)
  BY <1>1, MovesOn, SMT DEF Following
<1>3. /\ AddressOk(w)' /\ View(w)' = View(w) /\ Page(w)' = Page(w) /\ Leads(w)' = Leads(w)
      /\ NewPath(w)' = NewPath(w) /\ OldPath(w)' = OldPath(w)
      /\ RenamedInPublic(w)' = RenamedInPublic(w)
  BY <1>1, <1>2, QuietAddress
<1>4. \A r \in OwnedBy(View(w)', Page(w)'): Settled(w, r)'
  BY <1>1, <1>2, <1>3, Zenon DEF AliasesOk, Settled
<1>5. CASE NeedsAlias(w)
  BY <1>1, <1>3, <1>4, <1>5, Zenon DEF AliasesOk
<1>6. CASE ~NeedsAlias(w)
  <2>1. RenamedInPublic(w) => \E r \in DOMAIN owned[w]: owned[w][r].from = OldPath(w)
    BY <1>6, Zenon DEF NeedsAlias, RenamedInPublic
  <2>2. RenamedInPublic(w) => Trail(w)
    BY <1>1, <1>2, <2>1, Zenon DEF AliasesOk
  <2>3. Trail(w) => Trail(w)'
    BY <1>1, <1>3, Zenon DEF Trail, IsTrail, WasTrail, PageStands
  <2>4. QED
    BY <1>1, <1>3, <1>4, <1>6, <2>2, <2>3, Zenon DEF AliasesOk
<1>7. QED
  BY <1>5, <1>6

LEMMA FollowPageUnchanged ==
  ASSUME Shape, LocksInv, RowsInv, ClashInv, FollowInv, NEW w \in Writers, PageUnchanged(w)
  PROVE  AddressOk(w)' /\ AliasesOk(w)'
<1>1. /\ pc[w] = "sync" /\ pc'[w] = "commit" /\ before[w] = after[w]
      /\ UNCHANGED <<table, twinned, req, wrote, before, after, owner>>
  BY Zenon DEF PageUnchanged, PageIsAsBefore, transaction, Shape, Goes
<1> SUFFICES ASSUME Moves(w)' PROVE AddressOk(w)' /\ AliasesOk(w)'
  BY Zenon DEF AddressOk, AliasesOk
<1>2. Moves(w) /\ AddressOk(w)
  BY <1>1, MovesOn, SMT DEF Following
<1>3. AddressOk(w)'
  BY <1>1, <1>2, QuietAddress
<1>4. QED
  BY <1>1, <1>3, Zenon DEF AliasesOk

\* A redirect saved inside the page's transaction leaves the page, its old address
\* and the other redirects of the page.
LEMMA NestedAddress ==
  ASSUME NEW w \in Writers, AddressOk(w), Moves(w),
         UNCHANGED <<table, twinned, req, before, after, owner, owned>>, NEW r \in Redirects,
         NEW row, WroteIs(w, r, row)
  PROVE  /\ AddressOk(w)' /\ View(w)'[r] = row /\ r \in DOMAIN wrote'[w]
         /\ \A s \in Redirects \ {r}: View(w)'[s] = View(w)[s]
         /\ PageStands(w) => PageStands(w)'
         /\ Page(w)' = Page(w) /\ Leads(w)' = Leads(w)
         /\ NewPath(w)' = NewPath(w) /\ OldPath(w)' = OldPath(w)
         /\ RenamedInPublic(w)' = RenamedInPublic(w)
         /\ \A s \in OwnedBy(View(w)', Page(w)'):
              s # r => s \in OwnedBy(View(w), Page(w)) /\ (Settled(w, s) => Settled(w, s)')
<1>1. ButFor(View(w)', View(w), r, row)
  BY RowsOfPages, ViewWritten
<1>2. /\ Page(w)' = Page(w) /\ Leads(w)' = Leads(w)
      /\ NewPath(w)' = NewPath(w) /\ OldPath(w)' = OldPath(w)
  BY Zenon DEF Page, Leads, NewPath, OldPath
<1>3. RenamedInPublic(w)' = RenamedInPublic(w)
  BY <1>2, Zenon DEF RenamedInPublic
<1>4. \A s \in Redirects \ {r}: View(w)'[s] = View(w)[s]
  BY <1>1, RowsOfPages DEF ButFor
<1>5. View(w)'[r] = row /\ r \in DOMAIN wrote'[w] /\ DOMAIN wrote[w] \subseteq DOMAIN wrote'[w]
  BY <1>1 DEF ButFor, WroteIs
<1>6. \A c \in Entities \cup Pages: View(w)'[c] = View(w)[c]
  BY <1>1, KindsOfDocs DEF ButFor, Docs
<1>7. AddressOk(w)' /\ (PageStands(w) => PageStands(w)')
  <2>1. AddressOk(w)'
    BY <1>2, <1>5, <1>6, AddressKept
  <2>2. PageStands(w) => PageStands(w)'
    BY <1>6, SMT DEF PageStands
  <2>3. QED
    BY <2>1, <2>2
<1>8. ASSUME NEW s \in OwnedBy(View(w)', Page(w)'), s # r
      PROVE  s \in OwnedBy(View(w), Page(w)) /\ (Settled(w, s) => Settled(w, s)')
  <2>1. s \in Redirects /\ View(w)'[s] # Absent /\ View(w)'[s].managedBy = Page(w)
    BY <1>2, <1>8, SMT DEF OwnedBy
  <2>2. View(w)'[s] = View(w)[s]
    BY <1>4, <1>8, <2>1
  <2>3. s \in OwnedBy(View(w), Page(w))
    BY <2>1, <2>2, SMT DEF OwnedBy
  <2>4. QED
    BY <1>2, <2>2, <2>3, Zenon DEF Settled
<1>9. QED
  BY <1>2, <1>3, <1>4, <1>5, <1>7, <1>8

LEMMA FollowRetire ==
  ASSUME Shape, LocksInv, RowsInv, ClashInv, FollowInv, NEW w \in Writers, Retire(w)
  PROVE  AddressOk(w)' /\ AliasesOk(w)'
<1>1. PICK r \in todo[w]:
        /\ TodoDone(w, r)
        /\ \/ /\ View(w)[r] # Absent
              /\ NestedSave(w, r, RetiredRow(w, r), {"active"}, View(w)[r], FALSE)
           \/ View(w)[r] = Absent /\ UNCHANGED wrote
  BY RetireEffect
<1>2. /\ pc[w] = "retire" /\ pc'[w] = "retire"
      /\ UNCHANGED <<table, twinned, req, before, after, owner, owned>>
  BY RetireEffect, Zenon DEF PcIs
<1> SUFFICES ASSUME Moves(w)' PROVE AddressOk(w)' /\ AliasesOk(w)'
  BY Zenon DEF AddressOk, AliasesOk
<1>31. Moves(w) /\ AddressOk(w) /\ AliasesOk(w)
  BY <1>2, MovesOn, SMT DEF Following
<1>3. /\ r \in Redirects /\ Moves(w) /\ AddressOk(w) /\ AliasesOk(w)
      /\ todo'[w] = todo[w] \ {r}
  BY <1>1, <1>2, <1>31, FollowingFacts, SMT DEF TodoDone
<1>4. OnTheWay(w) /\ \A s \in DOMAIN owned[w]: owned[w][s].managedBy = Page(w)
  BY <1>2, <1>3, Zenon DEF AliasesOk
<1>5. CASE View(w)[r] = Absent /\ UNCHANGED wrote
  <2>1. /\ AddressOk(w)' /\ View(w)' = View(w) /\ Page(w)' = Page(w) /\ Leads(w)' = Leads(w)
        /\ NewPath(w)' = NewPath(w)
    BY <1>2, <1>3, <1>5, QuietAddress
  <2>2. r \notin OwnedBy(View(w), Page(w))
    BY <1>5 DEF OwnedBy
  <2>3. OnTheWay(w)'
    BY <1>2, <1>3, <1>4, <2>1, <2>2, SMT DEF OnTheWay
  <2>4. QED
    BY <1>2, <1>4, <2>1, <2>3, Zenon DEF AliasesOk
<1>6. CASE /\ View(w)[r] # Absent
           /\ NestedSave(w, r, RetiredRow(w, r), {"active"}, View(w)[r], FALSE)
  <2>1. WroteIs(w, r, RetiredRow(w, r))
    BY <1>6, Zenon DEF NestedSave
  <2>2. RetiredRow(w, r).active = FALSE /\ RetiredRow(w, r).managedBy = View(w)[r].managedBy
    BY <1>3, <1>6, RetiredRows
  <2>3. /\ AddressOk(w)' /\ View(w)'[r] = RetiredRow(w, r)
        /\ \A s \in Redirects \ {r}: View(w)'[s] = View(w)[s]
        /\ Page(w)' = Page(w) /\ Leads(w)' = Leads(w) /\ NewPath(w)' = NewPath(w)
    BY <1>2, <1>3, <2>1, NestedAddress
  <2>4. ASSUME NEW s \in OwnedBy(View(w)', Page(w)')
        PROVE  /\ s \in DOMAIN owned[w]
               /\ \/ s \in todo'[w] \/ ~View(w)'[s].active
                  \/ Leads(w) /\ owned[w][s].from # NewPath(w)
    <3>1. s \in Redirects /\ View(w)'[s] # Absent /\ View(w)'[s].managedBy = Page(w)
      BY <2>3, SMT DEF OwnedBy
    <3>2. CASE s = r
      <4>1. r \in DOMAIN owned[w]
        BY <1>2, <1>3, FollowingFacts
      <4>2. QED
        BY <2>2, <2>3, <3>2, <4>1
    <3>3. CASE s # r
      <4>1. View(w)'[s] = View(w)[s] /\ s \in OwnedBy(View(w), Page(w))
        BY <2>3, <3>1, <3>3, SMT DEF OwnedBy
      <4>2. QED
        BY <1>3, <1>4, <3>3, <4>1 DEF OnTheWay
    <3>4. QED
      BY <3>2, <3>3
  <2>5. OnTheWay(w)'
    BY <1>2, <2>3, <2>4, Zenon DEF OnTheWay
  <2>6. QED
    BY <1>2, <1>4, <2>3, <2>5, Zenon DEF AliasesOk
<1>7. QED
  BY <1>1, <1>5, <1>6

\* Nothing but the page itself had the address it was renamed from.
LEMMA OldAddressIsFree ==
  ASSUME RowsInv, ClashInv, NEW w \in Writers, Moves(w), AddressOk(w), RenamedInPublic(w),
         NEW row, row.from = OldPath(w)
  PROVE  SurelyReactivates(View(w), row) \/ PageStands(w)
<1>0. /\ after[w] = View(w)[Page(w)] /\ OldAddressFree(w) /\ Page(w) \in Pages
      /\ Page(w) \notin Entities
  BY KindsOfDocs, MovesFacts, PathsDiffer DEF AddressOk
<1>1. Source(row) = before[w].slug /\ before[w].slug # after[w].slug
  BY PathsDiffer DEF Source
<1>2. ASSUME LiveEntityAt(View(w), Source(row)) PROVE FALSE
  <2>1. PICK e \in EntitiesIn(View(w)): \/ SlugRoute(e, View(w)[e]) = before[w].slug
                                         \/ DealPage(View(w)[e]) = before[w].slug
    BY <1>1, <1>2, SMT DEF LiveEntityAt, SlugTaken, DealPageTaken
  <2>2. e \in Entities /\ View(w)[e] # Absent /\ e # Page(w) /\ e \in Sought
    BY <1>0 DEF EntitiesIn, Sought
  <2>3. before[w].slug \in Claims(View(w), e)
    BY <2>1, <2>2, SMT DEF Claims
  <2>4. QED
    BY <1>0, <2>2, <2>3 DEF OldAddressFree
<1>3. ASSUME NEW q \in PagesIn(View(w)), View(w)[q].slug = before[w].slug
      PROVE  PageStands(w)
  <2>1. q \in Pages /\ View(w)[q] # Absent /\ q \notin Entities /\ q \notin Redirects
    BY KindsOfDocs DEF PagesIn
  <2>2. q # Page(w)
    BY <1>0, <1>1, <1>3
  <2>3. before[w].slug \in Claims(View(w), q)
    BY <1>3, <2>1, SMT DEF Claims
  <2>4. q \in twinned
    BY <1>0, <2>1, <2>2, <2>3 DEF OldAddressFree, Sought
  <2>5. QED
    BY <1>3, <2>1, <2>4 DEF PageStands
<1>4. QED
  BY <1>1, <1>2, <1>3, Zenon DEF SurelyReactivates

LEMMA FollowRetarget ==
  ASSUME Shape, LocksInv, RowsInv, ClashInv, FollowInv, NEW w \in Writers, Retarget(w)
  PROVE  AddressOk(w)' /\ AliasesOk(w)'
<1>1. PICK r \in todo[w]:
        /\ TodoDone(w, r)
        /\ \/ /\ View(w)[r] # Absent
              /\ NestedSave(w, r, RetargetedRow(w, r), {"to", "active"}, View(w)[r], FALSE)
           \/ MayPass(w, r) /\ UNCHANGED wrote
  BY RetargetEffect
<1>2. /\ pc[w] = "retarget" /\ pc'[w] = "retarget"
      /\ UNCHANGED <<table, twinned, req, before, after, owner, owned>>
  BY RetargetEffect, Zenon DEF PcIs
<1> SUFFICES ASSUME Moves(w)' PROVE AddressOk(w)' /\ AliasesOk(w)'
  BY Zenon DEF AddressOk, AliasesOk
<1>31. Moves(w) /\ AddressOk(w) /\ AliasesOk(w) /\ pc[w] \in Following
  BY <1>2, MovesOn, SMT DEF Following
<1>3. /\ r \in Redirects /\ r \in DOMAIN owned[w] /\ Leads(w) /\ pc[w] \in Following
      /\ Moves(w) /\ AddressOk(w) /\ AliasesOk(w) /\ todo'[w] = todo[w] \ {r}
      /\ DOMAIN owned[w] \subseteq Redirects
  BY <1>1, <1>2, <1>31, FollowingFacts, SMT DEF TodoDone
<1>4. /\ \A s \in OwnedBy(View(w), Page(w)): s \in todo[w] \/ Settled(w, s)
      /\ RenamedInPublic(w) =>
           \/ \A s \in DOMAIN owned[w]: owned[w][s].from = OldPath(w) => s \in todo[w]
           \/ Trail(w)
      /\ \A s \in DOMAIN owned[w]: owned[w][s].managedBy = Page(w)
  BY <1>2, <1>3, Zenon DEF AliasesOk
<1>5. View(w)[r] \in {owned[w][r], Absent}
  BY <1>2, SMT DEF ClashInv, KnownOk, Later
\* The redirect is settled, and if it was to be the trail of the page, there is one.
<1>7. SUFFICES /\ AddressOk(w)' /\ Page(w)' = Page(w) /\ OldPath(w)' = OldPath(w)
               /\ RenamedInPublic(w)' = RenamedInPublic(w)
               /\ \A s \in OwnedBy(View(w)', Page(w)'): s \in todo'[w] \/ Settled(w, s)'
               /\ RenamedInPublic(w) /\ owned[w][r].from = OldPath(w) => Trail(w)'
               /\ Trail(w) => Trail(w)'
  BY <1>2, <1>3, <1>4, SMT DEF AliasesOk
<1>8. CASE MayPass(w, r) /\ UNCHANGED wrote
  <2>1. /\ AddressOk(w)' /\ View(w)' = View(w) /\ Page(w)' = Page(w) /\ Leads(w)' = Leads(w)
        /\ NewPath(w)' = NewPath(w) /\ OldPath(w)' = OldPath(w)
        /\ RenamedInPublic(w)' = RenamedInPublic(w)
    BY <1>2, <1>3, <1>8, QuietAddress
  <2>2. r \in OwnedBy(View(w), Page(w)) => Settled(w, r)
    BY <1>5, <1>8 DEF OwnedBy, Settled, MayPass
  <2>3. \A s \in OwnedBy(View(w)', Page(w)'): s \in todo'[w] \/ Settled(w, s)'
    BY <1>3, <1>4, <2>1, <2>2, Zenon DEF Settled
  <2>4. ASSUME RenamedInPublic(w), owned[w][r].from = OldPath(w)
        PROVE  WasTrail(w, r) \/ PageStands(w)
    <3>1. SurelyReactivates(View(w), owned[w][r]) \/ PageStands(w)
      BY <1>3, <2>4, OldAddressIsFree
    <3>2. QED
      BY <1>8, <2>4, <3>1 DEF WasTrail, MayPass
  <2>5. Trail(w) => Trail(w)'
    BY <1>2, <1>8, <2>1, Zenon DEF Trail, IsTrail, WasTrail, PageStands
  <2>6. WasTrail(w, r) \/ PageStands(w) => Trail(w)
    BY <1>3 DEF Trail
  <2>7. QED
    BY <2>1, <2>3, <2>4, <2>5, <2>6
<1>9. CASE /\ View(w)[r] # Absent
           /\ NestedSave(w, r, RetargetedRow(w, r), {"to", "active"}, View(w)[r], FALSE)
  <2> DEFINE row == RetargetedRow(w, r)
  <2>1. WroteIs(w, r, row) /\ View(w)[r] = owned[w][r]
    BY <1>5, <1>9, Zenon DEF NestedSave
  <2>2. /\ row \in RedirectRow /\ row.active = TRUE /\ row.from = View(w)[r].from
        /\ row.to = NewPath(w) /\ row.managedBy = View(w)[r].managedBy
    BY <1>3, <1>9, RetargetedRows
  <2> HIDE DEF row
  <2>3. /\ AddressOk(w)' /\ View(w)'[r] = row /\ r \in DOMAIN wrote'[w]
        /\ \A s \in Redirects \ {r}: View(w)'[s] = View(w)[s]
        /\ PageStands(w) => PageStands(w)'
        /\ Page(w)' = Page(w) /\ Leads(w)' = Leads(w)
        /\ NewPath(w)' = NewPath(w) /\ OldPath(w)' = OldPath(w)
        /\ RenamedInPublic(w)' = RenamedInPublic(w)
        /\ \A s \in OwnedBy(View(w)', Page(w)'):
             s # r => s \in OwnedBy(View(w), Page(w)) /\ (Settled(w, s) => Settled(w, s)')
    BY <1>2, <1>3, <2>1, NestedAddress
  <2>4. \A s \in OwnedBy(View(w)', Page(w)'): s \in todo'[w] \/ Settled(w, s)'
    <3>1. Settled(w, r)'
      BY <1>3, <2>2, <2>3 DEF Settled
    <3>2. QED
      BY <1>3, <1>4, <2>3, <3>1
  <2>5. ASSUME View(w)[r].from = OldPath(w) PROVE IsTrail(w, r)'
    <3>1. row # Absent /\ row.managedBy = Page(w)
      BY <1>3, <1>4, <2>1, <2>2, AbsentIsNoRow
    <3>2. r \in OwnedBy(View(w)', Page(w)')
      BY <1>3, <2>3, <3>1, SMT DEF OwnedBy
    <3>3. QED
      BY <2>2, <2>3, <2>5, <3>2, Zenon DEF IsTrail
  <2>6. ASSUME RenamedInPublic(w), owned[w][r].from = OldPath(w) PROVE Trail(w)'
    BY <1>3, <2>1, <2>5, <2>6, Zenon DEF Trail
  <2>7. ASSUME Trail(w) PROVE Trail(w)'
    <3>1. CASE View(w)[r].from = OldPath(w)
      BY <1>3, <2>5, <3>1, Zenon DEF Trail
    <3>2. ASSUME View(w)[r].from # OldPath(w), NEW s \in Redirects, IsTrail(w, s)
          PROVE  IsTrail(w, s)'
      <4>1. s # r
        BY <3>2 DEF IsTrail
      <4>2. View(w)'[s] = View(w)[s] /\ s \in DOMAIN wrote'[w]
        BY <2>1, <2>3, <3>2, <4>1 DEF IsTrail, WroteIs
      <4>3. s \in OwnedBy(View(w)', Page(w)')
        BY <2>3, <3>2, <4>2, SMT DEF IsTrail, OwnedBy
      <4>4. QED
        BY <2>3, <3>2, <4>2, <4>3, Zenon DEF IsTrail
    <3>3. ASSUME NEW s \in DOMAIN owned[w] \cap Redirects, WasTrail(w, s)
          PROVE  WasTrail(w, s)'
      BY <1>2, <1>9, <2>3, <3>3, Zenon DEF WasTrail
    <3>4. PageStands(w) => PageStands(w)'
      BY <2>3
    <3>5. QED
      BY <1>2, <2>7, <3>1, <3>2, <3>3, <3>4 DEF Trail
  <2>8. QED
    BY <2>3, <2>4, <2>6, <2>7
<1>10. QED
  BY <1>1, <1>8, <1>9

LEMMA FollowAlias ==
  ASSUME Shape, LocksInv, RowsInv, ClashInv, FollowInv, NEW w \in Writers, CreateAlias(w)
  PROVE  AddressOk(w)' /\ AliasesOk(w)'
<1>1. PICK r \in Redirects:
        /\ View(w)[r] = Absent
        /\ NestedSave(w, r, AliasRow(w), DOMAIN AliasRow(w), Absent, TRUE)
  BY AliasEffect
<1>2. /\ pc[w] = "alias" /\ pc'[w] = "commit"
      /\ UNCHANGED <<table, twinned, req, before, after, owner, owned>>
  BY AliasEffect, Zenon DEF PcIs
<1> SUFFICES ASSUME Moves(w)' PROVE AddressOk(w)' /\ AliasesOk(w)'
  BY Zenon DEF AddressOk, AliasesOk
<1>31. /\ Moves(w) /\ AddressOk(w) /\ AliasesOk(w) /\ owner[w] = Page(w)
       /\ pc[w] \in Following
  BY <1>2, MovesOn, SMT DEF Following
<1>3. /\ Leads(w) /\ before[w] \in PageRow /\ pc[w] \in Following
      /\ Moves(w) /\ AddressOk(w) /\ AliasesOk(w) /\ owner[w] = Page(w)
  BY <1>2, <1>31, FollowingFacts
<1>4. /\ AliasRow(w) \in RedirectRow /\ AliasRow(w) # Absent /\ AliasRow(w).active
      /\ AliasRow(w).from = OldPath(w) /\ AliasRow(w).to = NewPath(w)
      /\ AliasRow(w).managedBy = Page(w)
  <2>1. AliasRow(w) \in RedirectRow
    BY <1>3, AliasRows
  <2>2. QED
    BY <1>3, <2>1, AbsentIsNoRow DEF AliasRow
<1>5. WroteIs(w, r, AliasRow(w))
  BY <1>1, Zenon DEF NestedSave
<1>6. /\ AddressOk(w)' /\ View(w)'[r] = AliasRow(w) /\ r \in DOMAIN wrote'[w]
      /\ Page(w)' = Page(w) /\ Leads(w)' = Leads(w)
      /\ NewPath(w)' = NewPath(w) /\ OldPath(w)' = OldPath(w)
      /\ \A s \in OwnedBy(View(w)', Page(w)'):
           s # r => s \in OwnedBy(View(w), Page(w)) /\ (Settled(w, s) => Settled(w, s)')
  BY <1>2, <1>3, <1>5, NestedAddress
<1>7. \A s \in OwnedBy(View(w)', Page(w)'): Settled(w, s)'
  <2>1. Settled(w, r)'
    BY <1>3, <1>4, <1>6, Zenon DEF Settled
  <2>2. \A s \in OwnedBy(View(w), Page(w)): Settled(w, s)
    BY <1>2, <1>3, Zenon DEF AliasesOk
  <2>3. QED
    BY <1>6, <2>1, <2>2
<1>8. Trail(w)'
  <2>1. r \in OwnedBy(View(w)', Page(w)')
    BY <1>4, <1>6, SMT DEF OwnedBy
  <2>2. IsTrail(w, r)'
    BY <1>4, <1>6, <2>1, Zenon DEF IsTrail
  <2>3. QED
    BY <2>2, Zenon DEF Trail
<1>9. QED
  BY <1>2, <1>6, <1>7, <1>8, Zenon DEF AliasesOk

\* The commit of another save does not reach the documents of a page's save.
LEMMA CommitElsewhere ==
  ASSUME LocksInv, RowsInv, NEW w \in Writers, Commit(w), NEW v \in Writers, v # w, Saved(v),
         Page(v) \in Pages
  PROVE  Undisturbed(v)
<1>1. Locked(v) /\ Locked(w) /\ Page(v) \notin Jobs /\ WritesOk(w) /\ wrote'[v] = wrote[v]
  <2>1. Locked(v) /\ Locked(w) /\ Page(v) \notin Jobs /\ WritesOk(w)
    BY KindsOfDocs, SMT DEF Saved, Locked, Following, Commit, RowsInv
  <2>2. wrote' = [wrote EXCEPT ![w] = NoRows]
    BY Zenon DEF Commit, Ends
  <2>3. QED
    BY <2>1, <2>2, SMT
<1>2. Page(w) \in Jobs
  BY <1>1, Zenon DEF LocksInv, LocksOk, Taken
<1>3. DOMAIN wrote[w] \subseteq Jobs /\ table' = View(w)
  BY <1>1, <1>2, Zenon DEF WritesOk, Commit
<1>4. \A d \in Docs \ Jobs: table'[d] = table[d]
  BY <1>3, SMT DEF View
<1>5. \A d \in Docs \ Jobs: View(v)'[d] = View(v)[d]
  BY <1>1, <1>4, SMT DEF View
<1>6. \A p \in Pages: p \in Docs \ Jobs
  BY KindsOfDocs, RowsOfPages
<1>7. twinned \subseteq twinned'
  BY DEF Commit
<1>8. QED
  BY <1>4, <1>5, <1>6, <1>7 DEF Undisturbed

LEMMA DeletedElsewhere ==
  ASSUME RowsInv, NEW d \in Docs, Delete(d), NEW v \in Writers
  PROVE  Undisturbed(v) /\ Still(v)
<1>1. /\ ButFor(View(v)', View(v), d, Absent) /\ d \notin DOMAIN wrote[v] /\ Still(v)
      /\ ButFor(table', table, d, Absent) /\ d \notin Pages /\ twinned' = twinned
  BY ViewDeleted, Zenon DEF RowsInv, IsTable, Delete, transaction, Still
<1>2. QED
  BY <1>1, RowsOfPages DEF Undisturbed, ButFor

LEMMA FollowInit == Init => FollowInv
<1> SUFFICES ASSUME Init PROVE FollowInv
  OBVIOUS
<1>1. PageFree /\ TwinsKnown
  <2>1. \A p \in Pages: table[p] = Absent
    BY LegacyIsContent, Zenon DEF Init
  <2>2. PageFree
    BY <2>1, Zenon DEF PageFree, Clash, Stands
  <2>3. TwinsKnown
    BY <2>1, SMT DEF TwinsKnown, Twins, PagesIn
  <2>4. QED
    BY <2>2, <2>3
<1>2. ASSUME NEW w \in Writers PROVE AddressOk(w) /\ AliasesOk(w)
  <2>1. pc[w] = "idle"
    BY SMT DEF Init
  <2>2. QED
    BY <2>1, SMT DEF AddressOk, AliasesOk, Moves, Saved, Following
<1>3. QED
  BY <1>1, <1>2 DEF FollowInv

\* The pages a step changes, and whose second document it adds.
LEMMA PagesStep ==
  ASSUME Shape, LocksInv, RowsInv, [Next]_vars
  PROVE  /\ \/ \A p \in Pages: table'[p] = table[p]
            \/ /\ \E d: \A p \in Pages \ {d}: table'[p] = table[p]
               /\ Twins(PagesIn(table')) \subseteq twinned'
         /\ twinned \subseteq twinned'
<1>1. ASSUME NEW w \in Writers, Commit(w)
      PROVE  /\ \E d: \A p \in Pages \ {d}: table'[p] = table[p]
             /\ Twins(PagesIn(table')) \subseteq twinned' /\ twinned \subseteq twinned'
  <2>1. table' = View(w) /\ twinned' = twinned \cup Twins(PagesIn(View(w)))
    BY <1>1, Zenon DEF Commit
  <2>2. \A p \in Pages \ {Page(w)}: p \notin DOMAIN wrote[w] /\ p \in Docs
    BY KindsOfDocs, RowsOfPages DEF RowsInv, WritesOk
  <2>3. \A p \in Pages \ {Page(w)}: table'[p] = table[p]
    BY <2>1, <2>2 DEF View
  <2>4. QED
    BY <2>1, <2>3
<1>2. ASSUME NEW d \in Docs, Delete(d)
      PROVE  (\A p \in Pages: table'[p] = table[p]) /\ twinned' = twinned
  <2>1. /\ d \notin Pages /\ twinned' = twinned
        /\ table' = [table EXCEPT ![d] = Absent]
    BY <1>2, Zenon DEF Delete
  <2>2. \A p \in Pages: p \in DOMAIN table
    BY RowsOfPages DEF RowsInv, IsTable
  <2>3. QED
    BY <2>1, <2>2
<1>3. ASSUME NEW w \in Writers, Begin(w) \/ TakeLock(w) \/ Proceeds(w) \/ Abort(w)
      PROVE  UNCHANGED <<table, twinned>>
  BY <1>3, QuietEffect, ProceedsEffect, Zenon DEF Abort
<1>4. UNCHANGED vars => UNCHANGED <<table, twinned>>
  BY DEF vars
<1>5. CASE UNCHANGED <<table, twinned>>
  BY <1>5
<1>6. QED
  BY <1>1, <1>2, <1>3, <1>4, <1>5, Zenon DEF Next, Proceeds

\* A page that is excused is known to have had a second document.
LEMMA ExcusedKnown ==
  ASSUME Shape, LocksInv, RowsInv, TwinsKnown, [Next]_vars
  PROVE  TwinsKnown' /\ Excused \cap PagesIn(table') \subseteq twinned'
<1>1. CASE \A p \in Pages: table'[p] = table[p]
  <2>1. PagesIn(table') = PagesIn(table)
    BY <1>1 DEF PagesIn
  <2>2. twinned \subseteq twinned'
    BY PagesStep
  <2>3. QED
    BY <2>1, <2>2 DEF TwinsKnown, Excused
<1>2. CASE \E p \in Pages: table'[p] # table[p]
  <2>1. /\ \E d: \A p \in Pages \ {d}: table'[p] = table[p]
        /\ Twins(PagesIn(table')) \subseteq twinned' /\ twinned \subseteq twinned'
    BY <1>2, PagesStep
  <2>2. PICK d: \A p \in Pages \ {d}: table'[p] = table[p]
    BY <2>1
  <2>3. ASSUME NEW p \in Excused, p \in PagesIn(table') PROVE p \in twinned'
    <3>1. PICK q \in (PagesIn(table) \cup PagesIn(table')) \ {p}: PageKind[q] = PageKind[p]
      BY SMT DEF Excused, Twins
    <3>2. CASE q \in PagesIn(table')
      <4>1. p \in Twins(PagesIn(table'))
        BY <2>3, <3>1, <3>2, SMT DEF Twins
      <4>2. QED
        BY <2>1, <4>1
    <3>3. CASE q \notin PagesIn(table')
      <4>1. q = d /\ q \in PagesIn(table)
        BY <2>2, <3>1, <3>3 DEF PagesIn
      <4>2. p \in PagesIn(table)
        BY <2>2, <2>3, <3>1, <4>1 DEF PagesIn
      <4>3. p \in Twins(PagesIn(table))
        BY <3>1, <4>1, <4>2, SMT DEF Twins
      <4>4. QED
        BY <2>1, <4>3 DEF TwinsKnown
    <3>4. QED
      BY <3>2, <3>3
  <2>4. QED
    BY <2>1, <2>3 DEF TwinsKnown
<1>3. QED
  BY <1>1, <1>2

LEMMA FollowNext ==
  ASSUME Shape, LocksInv, RowsInv, ClashInv, FollowInv, [Next]_vars
  PROVE  FollowInv'
<1>0. PageFree' /\ TwinsKnown'
  <2>1. /\ TwinsKnown' /\ Excused \cap PagesIn(table') \subseteq twinned'
        /\ twinned \subseteq twinned'
    BY ExcusedKnown, PagesStep DEF FollowInv
  <2>2. ASSUME NEW p \in Pages \ twinned', NEW c \in Sought', Clash(table', p, c) PROVE FALSE
    <3>1. <<p, c>> \in Docs \X Docs /\ c \in Sought /\ p \in Pages \ twinned
      BY <2>1, <2>2, RowsOfPages DEF Sought, Docs
    <3>2. ~Clash(table, p, c)
      BY <3>1 DEF FollowInv, PageFree
    <3>3. <<p, c>> \in Clashes(table') \ Clashes(table)
      BY <2>2, <3>1, <3>2 DEF Clashes
    <3>4. table # table'
      BY <2>2, <3>2
    <3>5. {p, c} \cap Excused # {}
      BY <3>3, <3>4, ClashesStep
    <3>6. table'[p] # Absent /\ table'[c] # Absent
      BY <2>2, Zenon DEF Clash, Stands
    <3>7. Excused \subseteq Pages
      BY DEF Excused, Twins, PagesIn
    <3>8. c \notin Excused
      BY <2>1, <2>2, <3>6, <3>7, KindsOfDocs DEF Sought, PagesIn
    <3>9. p \notin Excused
      BY <2>1, <2>2, <3>6 DEF PagesIn
    <3>10. QED
      BY <3>5, <3>8, <3>9
  <2>3. QED
    BY <2>1, <2>2 DEF PageFree
<1>1. ASSUME NEW w \in Writers, pc'[w] \in {"idle", "lock", "validate", "write"}
      PROVE  AddressOk(w)' /\ AliasesOk(w)'
  BY <1>1, SMT DEF AddressOk, AliasesOk, Moves, Saved, Following
<1>2. ASSUME NEW v \in Writers, Still(v), UNCHANGED table
      PROVE  AddressOk(v)' /\ AliasesOk(v)'
  <2>1. View(v)' = View(v) /\ twinned \subseteq twinned'
    BY <1>2, ViewKept, PagesStep DEF Still
  <2>2. Undisturbed(v)
    BY <1>2, <2>1, Zenon DEF Undisturbed
  <2>3. QED
    BY <1>2, <2>2, FollowStill DEF FollowInv
<1>3. ASSUME NEW w \in Writers, Begin(w) \/ TakeLock(w) \/ Validate(w)
      PROVE  FollowInv'
  <2>1. pc'[w] \in {"lock", "validate", "write"}
    BY <1>3, Zenon DEF Begin, TakeLock, Validate, Goes, Shape
  <2>2. UNCHANGED table
    BY <1>3, QuietEffect, Zenon DEF Validate
  <2>3. \A v \in Writers \ {w}: Still(v)
    BY <1>3, StepOfOne DEF Proceeds
  <2>4. QED
    BY <1>0, <1>1, <1>2, <2>1, <2>2, <2>3 DEF FollowInv
<1>4. ASSUME NEW w \in Writers, Proceeds(w), ~Validate(w)
      PROVE  FollowInv'
  <2>1. AddressOk(w)' /\ AliasesOk(w)'
    BY <1>4, FollowWrite, FollowPageUnchanged, FollowReadOwned, FollowRetire, FollowRetired,
       FollowRetarget, FollowRetargeted, FollowAlias, Zenon DEF Proceeds
  <2>2. UNCHANGED table /\ \A v \in Writers \ {w}: Still(v)
    BY <1>4, ProceedsEffect, StepOfOne
  <2>3. QED
    BY <1>0, <1>2, <2>1, <2>2 DEF FollowInv
<1>5. ASSUME NEW w \in Writers, Ends(w), Commit(w) \/ UNCHANGED table
      PROVE  FollowInv'
  <2>1. pc'[w] = "idle" /\ \A v \in Writers \ {w}: Still(v)
    BY <1>5, EndsEffect, StepOfOne DEF PcIs
  <2>2. ASSUME NEW v \in Writers, v # w, Commit(w)
        PROVE  AddressOk(v)' /\ AliasesOk(v)'
    BY <2>1, <2>2, CommitElsewhere, FollowStill DEF FollowInv
  <2>3. QED
    BY <1>0, <1>1, <1>2, <1>5, <2>1, <2>2 DEF FollowInv
<1>6. ASSUME NEW d \in Docs, Delete(d)
      PROVE  FollowInv'
  <2>1. ASSUME NEW v \in Writers PROVE AddressOk(v)' /\ AliasesOk(v)'
    BY <1>6, DeletedElsewhere, FollowStill DEF FollowInv
  <2>2. QED
    BY <1>0, <2>1 DEF FollowInv
<1>7. ASSUME UNCHANGED vars
      PROVE  FollowInv'
  <2>1. UNCHANGED table /\ \A v \in Writers: Still(v)
    BY <1>7, Zenon DEF vars, transaction, Still
  <2>2. QED
    BY <1>0, <1>2, <2>1 DEF FollowInv
<1>8. QED
  BY <1>3, <1>4, <1>5, <1>6, <1>7, Zenon DEF Next, Proceeds, Commit, Abort

LEMMA Followed ==
  ASSUME LocksInv, RowsInv, ClashInv, FollowInv, NEW w \in Writers
  PROVE  PageFollowed(w)
<1> DEFINE Gone == \E r \in DOMAIN owned[w]: owned[w][r].from = OldPath(w) /\ table'[r] = Absent
           Kept == \E q \in PagesIn(table') \cap twinned: table'[q].slug = before[w].slug
<1> SUFFICES ASSUME Commit(w), Page(w) \in Pages \ twinned', before[w] # after[w]
             PROVE  /\ \A r \in OwnedBy(table', Page(w)) \cap ActiveIn(table'):
                         LeadsHome(table', r, Page(w))
                    /\ RenamedInPublic(w) =>
                         \/ Forwarded(table', before[w].slug, Page(w))
                         \/ Gone \/ Kept
  BY Zenon DEF PageFollowed
<1>1. /\ pc[w] = "commit" /\ table' = View(w) /\ AliasesOk(w) /\ SeesPage(w) /\ Saved(w)
      /\ twinned' = twinned \cup Twins(PagesIn(table'))
  BY Zenon DEF Commit, FollowInv, ClashInv, KnownOk, Saved
<1>2. Moves(w)
  <2>1. ASSUME Page(w) \in Aside(w) PROVE FALSE
    <3>1. PICK q \in PagesIn(table): q # Page(w) /\ PageKind[q] = PageKind[Page(w)]
      BY <2>1, SMT DEF Aside, Twins
    <3>2. q \in Pages /\ q \notin DOMAIN wrote[w] /\ q \in Docs
      BY <3>1, KindsOfDocs, RowsOfPages DEF RowsInv, WritesOk, PagesIn
    <3>3. q \in PagesIn(table')
      BY <1>1, <3>1, <3>2 DEF PagesIn, View
    <3>4. CASE table[Page(w)] # Absent
      <4>1. Page(w) \in Twins(PagesIn(table))
        BY <3>1, <3>4, SMT DEF Twins, PagesIn
      <4>2. QED
        BY <1>1, <4>1 DEF FollowInv, TwinsKnown
    <3>5. CASE View(w)[Page(w)] # Absent
      <4>1. Page(w) \in Twins(PagesIn(table'))
        BY <1>1, <3>1, <3>3, <3>5, SMT DEF Twins, PagesIn
      <4>2. QED
        BY <1>1, <4>1
    <3>6. QED
      BY <1>1, <3>4, <3>5 DEF SeesPage
  <2>2. QED
    BY <1>1, <2>1 DEF Moves
<1>3. /\ \A r \in OwnedBy(View(w), Page(w)): Settled(w, r)
      /\ RenamedInPublic(w) => Trail(w)
  BY <1>1, <1>2, Zenon DEF AliasesOk
<1>4. ASSUME NEW r \in Redirects, Leads(w), View(w)[r].to = NewPath(w)
      PROVE  LeadsHome(table', r, Page(w))
  <2>1. after[w] \in PageRow /\ after[w] = table'[Page(w)]
    BY <1>1, <1>2, <1>4, MovesFacts DEF Leads
  <2>2. after[w].slug \in Routes
    BY <2>1 DEF PageRow
  <2>3. NewPath(w) \in Paths /\ Fold[NewPath(w)] = after[w].slug
    BY <2>2, PathsOfPages DEF NewPath
  <2>4. Goal(View(w)[r]) = after[w].slug
    BY <1>4, <2>3, ExternalIsNoPath, Zenon DEF Goal
  <2>5. QED
    BY <1>1, <1>4, <2>1, <2>4, Zenon DEF LeadsHome, Leads
<1>5. ASSUME NEW r \in OwnedBy(View(w), Page(w)) \cap ActiveIn(View(w))
      PROVE  LeadsHome(table', r, Page(w))
  <2>1. r \in Redirects /\ View(w)[r].active
    BY DEF ActiveIn
  <2>2. QED
    BY <1>3, <1>4, <2>1 DEF Settled
<1>6. ASSUME RenamedInPublic(w), NEW r \in Redirects, IsTrail(w, r)
      PROVE  Forwarded(table', before[w].slug, Page(w))
  <2>1. Source(View(w)[r]) = before[w].slug /\ Leads(w)
    BY <1>2, <1>6, PathsDiffer DEF Source, IsTrail
  <2>2. r \in OwnedBy(View(w), Page(w)) \cap ActiveIn(View(w))
    BY <1>6 DEF IsTrail, OwnedBy, ActiveIn
  <2>3. QED
    BY <1>1, <1>5, <2>1, <2>2, Zenon DEF Forwarded
<1>7. ASSUME NEW r \in DOMAIN owned[w] \cap Redirects, WasTrail(w, r)
      PROVE  Gone
  BY <1>1, <1>7, Zenon DEF WasTrail
<1>8. PageStands(w) => Kept
  BY <1>1, SMT DEF PageStands, PagesIn
<1> HIDE DEF Gone, Kept
<1>9. QED
  BY <1>1, <1>3, <1>5, <1>6, <1>7, <1>8, Zenon DEF Trail

\* A page saved with another address or visibility leaves no redirect of its own
\* active that does not lead to it, and its old address leads there: whatever the
\* redirects and renames before it, and whatever is deleted while it is saved.
THEOREM AliasesFollow == Spec => AliasesFollowThePage
<1>1. Init => RouteInv /\ ClashInv /\ FollowInv
  BY LocksInit, RowsInit, ClashInit, FollowInit DEF RouteInv
<1>2. (RouteInv /\ ClashInv /\ FollowInv) /\ [Next]_vars => (RouteInv /\ ClashInv /\ FollowInv)'
  BY ShapeNext, LocksNext, RowsNext, ClashNext, FollowNext DEF RouteInv
<1>3. (RouteInv /\ ClashInv /\ FollowInv) => [\A w \in Writers: PageFollowed(w)]_table
  BY Followed DEF RouteInv
<1>4. QED
  BY <1>1, <1>2, <1>3, PTL DEF Spec, AliasesFollowThePage

(***************************************************************************)
(* One save after the other.                                                *)
(***************************************************************************)
\* What is about to be written would be accepted now.
ReadyOk(w) ==
  pc[w] = "write" /\ SourceStands(req[w]) =>
    /\ req[w].act \in {"create", "clone"} => IsFresh(table, Page(w))
    /\ req[w].act # "delete" => ~Refused(table, req[w])

\* The save has written its document over a row it may go out from, and what it
\* wrote is accepted by what is committed.
IsSaved(w, stored) ==
  /\ wrote[w][Page(w)] = RowOf(req[w], stored) /\ Accepts(req[w], stored)
  /\ req[w].act = "clone" => stored \in RowsOf(Page(w))

SavedOk(w) ==
  Saved(w) =>
    /\ Page(w) \in DOMAIN wrote[w]
    /\ IF req[w].act = "delete"
         THEN table[Page(w)] # Absent /\ wrote[w][Page(w)] = Absent
         ELSE \E stored \in Originals(req[w]): IsSaved(w, stored)
    /\ IF Page(w) \in Pages
         THEN DOMAIN wrote[w] \subseteq Redirects \cup {Page(w)}
         ELSE DOMAIN wrote[w] = {Page(w)}

\* The save has written the page, the only document of it.
Follows(w) == Saved(w) /\ Page(w) \in Pages /\ Page(w) \notin Aside(w)

\* The redirects it wrote are those of its page, taken along, or their alias.
GoesAlong(w, r, row) ==
  /\ row # Absent /\ before[w] # after[w]
  /\ \/ /\ table[r] # Absent /\ table[r].managedBy = Page(w)
        /\ row = TakenAlong(table[r], after[w])
     \/ table[r] = Absent /\ IsAlias(Page(w), after[w], row)

TakenOk(w) ==
  Follows(w) => \A r \in Redirects \cap DOMAIN wrote[w]: GoesAlong(w, r, wrote[w][r])

\* Those it has yet to look at are as it found them, unless deleted; the others
\* it did not write are not active.
Remaining(w) == IF pc[w] \in {"retire", "retarget"} THEN todo[w] \cup Later(w) ELSE {}

InForce(w) == OwnedBy(View(w), Page(w)) \cap ActiveIn(View(w))

AsFound(w, r) ==
  /\ r \in DOMAIN owned[w] /\ r \notin DOMAIN wrote[w]
  /\ table[r] \in {owned[w][r], Absent} /\ owned[w][r].managedBy = Page(w)

ToTakeOk(w) ==
  Follows(w) =>
    /\ pc[w] \in Following \ {"sync"} => before[w] # after[w]
    /\ \A r \in Remaining(w): AsFound(w, r)
    /\ pc[w] = "retarget" => \A r \in todo[w]: owned[w][r].from # NewPath(w)
    /\ pc[w] = "alias" => RenamedInPublic(w)
    /\ pc[w] # "sync" /\ before[w] # after[w] =>
         InForce(w) \subseteq DOMAIN wrote[w] \cup Remaining(w)

SerialInv == \A w \in Writers: ReadyOk(w) /\ SavedOk(w) /\ TakenOk(w) /\ ToTakeOk(w)

\* Table u is table t without some documents of the addresses d is compared with.
Thinned(u, t, d) ==
  /\ DOMAIN u = Docs /\ DOMAIN t = Docs
  /\ \A c \in Docs: InOneSpace(c, d) => u[c] = t[c] \/ (u[c] = Absent /\ c \notin Pages)

\* Fewer documents object to less.
LEMMA FewerEntities ==
  ASSUME NEW u, NEW t, NEW d \in Docs \ Jobs, Thinned(u, t, d)
  PROVE  /\ \A e \in EntitiesIn(u): e \in EntitiesIn(t) /\ u[e] = t[e]
         /\ \A r \in ActiveIn(u): r \in ActiveIn(t) /\ u[r] = t[r]
         /\ PagesIn(u) = PagesIn(t) /\ \A p \in PagesIn(t): u[p] = t[p]
<1>1. \A c \in Docs \ Jobs: u[c] = t[c] \/ (u[c] = Absent /\ c \notin Pages)
  BY DEF Thinned, InOneSpace
<1>2. Entities \cup Redirects \cup Pages \subseteq Docs \ Jobs
  BY KindsOfDocs, SMT DEF Docs
<1>3. \A p \in Pages: u[p] = t[p]
  BY <1>1, <1>2
<1>4. QED
  BY <1>1, <1>2, <1>3, SMT DEF EntitiesIn, ActiveIn, PagesIn

LEMMA FewerQueries ==
  ASSUME NEW u, NEW t, NEW d \in Docs \ Jobs, Thinned(u, t, d)
  PROVE  /\ \A route, out: SlugTaken(u, route, out) => SlugTaken(t, route, out)
         /\ \A route, out: DealPageTaken(u, route, out) => DealPageTaken(t, route, out)
         /\ \A kind, name, out: NameTaken(u, kind, name, out) => NameTaken(t, kind, name, out)
         /\ \A template, out: TemplateTaken(u, template, out) => TemplateTaken(t, template, out)
         /\ \A route: RedirectedFrom(u, route) => RedirectedFrom(t, route)
         /\ \A routes: PageAt(u, routes) => PageAt(t, routes)
         /\ \A route: LiveEntityAt(u, route) => LiveEntityAt(t, route)
         /\ \A p, route: OtherPageAt(u, p, route) => OtherPageAt(t, p, route)
         /\ \A r, row: SameSource(u, r, row) => SameSource(t, r, row)
<1>1. /\ \A e \in EntitiesIn(u): e \in EntitiesIn(t) /\ u[e] = t[e]
      /\ \A r \in ActiveIn(u): r \in ActiveIn(t) /\ u[r] = t[r]
      /\ PagesIn(u) = PagesIn(t) /\ \A p \in PagesIn(t): u[p] = t[p]
  BY FewerEntities
<1>2. /\ \A route, out: SlugTaken(u, route, out) => SlugTaken(t, route, out)
      /\ \A route, out: DealPageTaken(u, route, out) => DealPageTaken(t, route, out)
  BY <1>1, Zenon DEF SlugTaken, DealPageTaken
<1>3. /\ \A kind, name, out: NameTaken(u, kind, name, out) => NameTaken(t, kind, name, out)
      /\ \A template, out: TemplateTaken(u, template, out) => TemplateTaken(t, template, out)
  BY <1>1, Zenon DEF NameTaken, TemplateTaken
<1>4. /\ \A route: RedirectedFrom(u, route) => RedirectedFrom(t, route)
      /\ \A r, row: SameSource(u, r, row) => SameSource(t, r, row)
  BY <1>1, Zenon DEF RedirectedFrom, SameSource
<1>5. /\ \A routes: PageAt(u, routes) => PageAt(t, routes)
      /\ \A p, route: OtherPageAt(u, p, route) => OtherPageAt(t, p, route)
  <2>1. \A p, routes: SurelyAt(u, p, routes) => SurelyAt(t, p, routes)
    BY <1>1, Zenon DEF SurelyAt
  <2>2. QED
    BY <1>1, <2>1, Zenon DEF PageAt, OtherPageAt
<1>6. \A route: LiveEntityAt(u, route) => LiveEntityAt(t, route)
  BY <1>2, Zenon DEF LiveEntityAt
<1>7. QED
  BY <1>2, <1>3, <1>4, <1>5, <1>6

\* A walk along fewer redirects is a walk along more.
LEMMA FewerWalks ==
  ASSUME NEW u, NEW t, \A s \in ActiveIn(u): s \in ActiveIn(t) /\ u[s] = t[s],
         NEW r, WalkRefuses(u, r)
  PROVE  WalkRefuses(t, r)
<1>1. \A s \in ActiveIn(u): s \in ActiveIn(t) /\ Source(u[s]) = Source(t[s]) /\ Goal(u[s]) = Goal(t[s])
  OBVIOUS
<1>2. CASE OnLoop(u, r)
  <2>1. PICK S \in SUBSET ActiveIn(u):
          r \in S /\ \A s \in S: \E n \in S: Source(u[n]) = Goal(u[s])
    BY <1>2 DEF OnLoop
  <2>2. S \in SUBSET ActiveIn(t) /\ \A s \in S: \E n \in S: Source(t[n]) = Goal(t[s])
    BY <1>1, <2>1, SMT
  <2>3. QED
    BY <2>1, <2>2 DEF OnLoop, WalkRefuses
<1>3. CASE TooLong(u, r)
  <2> DEFINE H == MaxHops + 1
  <2>1. H \in Nat /\ H \in 1..H
    BY LimitsAreNumbers, SMT
  <2>2. PICK walk \in Walks(u, r, H): Goal(u[walk[H]]) # External
    BY <1>3 DEF TooLong
  <2> HIDE DEF H
  <2>3. /\ walk \in [1..H -> ActiveIn(u)] /\ walk[1] = r
        /\ \A i \in 2..H: Source(u[walk[i]]) = Goal(u[walk[i - 1]])
    BY <2>2 DEF Walks
  <2>4. \A i \in 1..H: walk[i] \in ActiveIn(u)
    BY <2>3
  <2>5. walk \in [1..H -> ActiveIn(t)]
    BY <1>1, <2>3
  <2>6. \A i \in 2..H: i \in 1..H /\ i - 1 \in 1..H
    BY <2>1, SMT
  <2>7. \A i \in 2..H: Source(t[walk[i]]) = Goal(t[walk[i - 1]])
    BY <1>1, <2>3, <2>4, <2>6
  <2>8. walk \in Walks(t, r, H)
    BY <2>3, <2>5, <2>7 DEF Walks
  <2>9. Goal(t[walk[H]]) # External
    BY <1>1, <2>1, <2>2, <2>4
  <2>10. QED
    BY <2>8, <2>9 DEF TooLong, WalkRefuses, H
<1>4. QED
  BY <1>2, <1>3 DEF WalkRefuses

LEMMA FewerRules ==
  ASSUME NEW u, NEW t, \A s \in ActiveIn(u): s \in ActiveIn(t),
         IsFiniteSet(ActiveIn(t)), Cardinality(ActiveIn(u)) >= MaxActive
  PROVE  Cardinality(ActiveIn(t)) >= MaxActive
<1>1. ActiveIn(u) \in SUBSET ActiveIn(t)
  OBVIOUS
<1>2. /\ Cardinality(ActiveIn(u)) <= Cardinality(ActiveIn(t))
      /\ IsFiniteSet(ActiveIn(u))
  BY <1>1, FS_Subset
<1>3. Cardinality(ActiveIn(u)) \in Nat /\ Cardinality(ActiveIn(t)) \in Nat
  BY <1>2, FS_CardinalityType
<1>4. QED
  BY <1>2, <1>3, LimitsAreNumbers, SMT

LEMMA FewerRedirectRefusals ==
  ASSUME NEW u, NEW t, NEW r \in Redirects, Thinned(u, t, r), IsFiniteSet(ActiveIn(t)),
         NEW row, NEW touched, NEW stored, NEW isNew, NEW strict,
         RedirectRefuses(u, r, row, touched, stored, isNew, strict)
  PROVE  RedirectRefuses(t, r, row, touched, stored, isNew, strict)
<1>1. r \in Docs \ Jobs
  BY KindsOfDocs, SMT DEF Docs
<1>2. /\ LiveEntityAt(u, Source(row)) => LiveEntityAt(t, Source(row))
      /\ SameSource(u, r, row) => SameSource(t, r, row)
  BY <1>1, FewerQueries
<1>3. Cardinality(ActiveIn(u)) >= MaxActive => Cardinality(ActiveIn(t)) >= MaxActive
  BY <1>1, FewerEntities, FewerRules
<1>4. WalkRefuses([u EXCEPT ![r] = row], r) => WalkRefuses([t EXCEPT ![r] = row], r)
  <2>1. PICK x : x = [u EXCEPT ![r] = row]
    OBVIOUS
  <2>2. PICK y : y = [t EXCEPT ![r] = row]
    OBVIOUS
  <2>3. /\ x[r] = row /\ y[r] = row
        /\ \A c \in Docs \ {r}: x[c] = u[c] /\ y[c] = t[c]
    BY <1>1, <2>1, <2>2 DEF Thinned
  <2>4. \A s \in ActiveIn(u): s \in ActiveIn(t) /\ u[s] = t[s]
    BY <1>1, FewerEntities
  <2>5. \A s \in ActiveIn(x): s \in ActiveIn(y) /\ x[s] = y[s]
    <3>1. Redirects \subseteq Docs
      BY DEF Docs
    <3>2. QED
      BY <2>3, <2>4, <3>1, SMT DEF ActiveIn
  <2>6. WalkRefuses(x, r) => WalkRefuses(y, r)
    BY <2>5, FewerWalks
  <2>7. QED
    BY <2>1, <2>2, <2>6
<1>5. QED
  BY <1>2, <1>3, <1>4, Zenon DEF RedirectRefuses

LEMMA FewerEntityRefusals ==
  ASSUME NEW u, NEW t, NEW e \in Entities, Thinned(u, t, e),
         NEW row, NEW touched, NEW stored, NEW whole, NEW isClone, NEW out,
         EntityRefuses(u, e, row, touched, stored, whole, isClone, out)
  PROVE  EntityRefuses(t, e, row, touched, stored, whole, isClone, out)
<1>1. e \in Docs \ Jobs
  BY KindsOfDocs, SMT DEF Docs
<1>2. /\ \A route: SlugTaken(u, route, out) => SlugTaken(t, route, out)
      /\ \A route: DealPageTaken(u, route, out) => DealPageTaken(t, route, out)
      /\ \A kind, name: NameTaken(u, kind, name, out) => NameTaken(t, kind, name, out)
      /\ \A template: TemplateTaken(u, template, out) => TemplateTaken(t, template, out)
      /\ \A route: RedirectedFrom(u, route) => RedirectedFrom(t, route)
      /\ \A routes: PageAt(u, routes) => PageAt(t, routes)
  BY <1>1, FewerQueries
<1>3. \A slugChanged, nameChanged:
        IdentityRefuses(u, e, row, slugChanged, nameChanged, out) =>
          IdentityRefuses(t, e, row, slugChanged, nameChanged, out)
  BY <1>2, Zenon DEF IdentityRefuses
<1>4. ReservedByPage(u, e, row, touched) => ReservedByPage(t, e, row, touched)
  BY <1>2, Zenon DEF ReservedByPage
<1>5. TemplateRefuses(u, row, touched, isClone, out) => TemplateRefuses(t, row, touched, isClone, out)
  BY <1>2, Zenon DEF TemplateRefuses
<1>6. QED
  BY <1>3, <1>4, <1>5, Zenon DEF EntityRefuses

LEMMA FewerPageRefusals ==
  ASSUME NEW u, NEW t, NEW p \in Pages, Thinned(u, t, p),
         NEW row, NEW touched, NEW stored, PageRefuses(u, p, row, touched, stored)
  PROVE  PageRefuses(t, p, row, touched, stored)
<1>1. p \in Docs \ Jobs
  BY KindsOfDocs, SMT DEF Docs
<1>2. /\ OtherPageAt(u, p, row.slug) => OtherPageAt(t, p, row.slug)
      /\ LiveEntityAt(u, row.slug) => LiveEntityAt(t, row.slug)
  BY <1>1, FewerQueries
<1> DEFINE Shadowed(x) == \A q \in MayOwn(x, p, stored):
                            \E r \in ActiveIn(x): Source(x[r]) = row.slug /\ x[r].managedBy # q
           Moved == stored = Absent \/ row.slug # stored.slug
           Named == PageKind[p] = "subscription" /\ "slug" \in touched
<1>4. \A x: PageRefuses(x, p, row, touched, stored) <=>
              \/ /\ Moved
                 /\ \/ row.slug \in Reserved
                    \/ OtherPageAt(x, p, row.slug)
                    \/ LiveEntityAt(x, row.slug)
                    \/ Shadowed(x)
              \/ Named /\ OtherPageAt(x, p, row.slug)
  BY Zenon DEF PageRefuses
<1>5. Shadowed(u) => Shadowed(t)
  <2>1. /\ \A r \in ActiveIn(u): r \in ActiveIn(t) /\ u[r] = t[r]
        /\ PagesIn(u) = PagesIn(t)
    BY <1>1, FewerEntities
  <2>2. MayOwn(u, p, stored) = MayOwn(t, p, stored)
    BY <2>1, Zenon DEF MayOwn, PagesOf
  <2>3. QED
    BY <2>1, <2>2, Zenon
<1> HIDE DEF Shadowed, Moved, Named
<1>6. QED
  BY <1>2, <1>4, <1>5

LEMMA FewerJobRefusals ==
  ASSUME NEW u, NEW t, NEW j \in Jobs, Thinned(u, t, j),
         NEW row, NEW touched, NEW isClone, NEW out, JobRefuses(u, row, touched, isClone, out)
  PROVE  JobRefuses(t, row, touched, isClone, out)
<1>1. \A i \in Jobs: u[i] = t[i] \/ u[i] = Absent
  BY DEF Thinned, InOneSpace, Docs
<1>2. QED
  BY <1>1, SMT DEF JobRefuses

\* A save accepted by the content is accepted by the content with less in it.
LEMMA FewerRefusals ==
  ASSUME NEW u, NEW t, NEW q, q.doc \in Docs, Thinned(u, t, q.doc), IsFiniteSet(ActiveIn(t)),
         NEW row, NEW stored, ~Refuses(t, q, row, stored)
  PROVE  ~Refuses(u, q, row, stored)
<1> DEFINE Entity(x) == EntityRefuses(x, q.doc, row, DOMAIN q.data, stored,
                                      q.act # "update" \/ q.human, q.act = "clone", LeftOut(q))
           Redirect(x) == RedirectRefuses(x, q.doc, row, DOMAIN q.data, stored,
                                          q.act # "update", q.human)
           Shadow(x) == ShadowsPage(x, row, DOMAIN q.data)
           Job(x) == JobRefuses(x, row, DOMAIN q.data, q.act = "clone", LeftOut(q))
           Page_(x) == PageRefuses(x, q.doc, row, DOMAIN q.data, stored)
<1>1. \A x: Refuses(x, q, row, stored) <=>
              CASE q.doc \in Entities -> Entity(x)
                [] q.doc \in Redirects -> Redirect(x) \/ Shadow(x)
                [] q.doc \in Jobs -> Job(x)
                [] OTHER -> Page_(x)
  BY Zenon DEF Refuses
<1>2. q.doc \in Entities => (Entity(u) => Entity(t))
  BY FewerEntityRefusals
<1>3. q.doc \in Redirects => (Redirect(u) => Redirect(t))
  BY FewerRedirectRefusals
<1>4. q.doc \in Redirects => (Shadow(u) => Shadow(t))
  <2> SUFFICES ASSUME q.doc \in Redirects PROVE Shadow(u) => Shadow(t)
    OBVIOUS
  <2>1. q.doc \in Docs \ Jobs
    BY KindsOfDocs, SMT
  <2>2. PageAt(u, {Source(row)}) => PageAt(t, {Source(row)})
    BY <2>1, FewerQueries
  <2>3. QED
    BY <2>2, Zenon DEF ShadowsPage
<1>5. q.doc \in Jobs => (Job(u) => Job(t))
  BY FewerJobRefusals
<1>6. q.doc \in Pages => (Page_(u) => Page_(t))
  BY FewerPageRefusals
<1>7. q.doc \in Entities \/ q.doc \in Redirects \/ q.doc \in Jobs \/ q.doc \in Pages
  BY DEF Docs
<1> HIDE DEF Entity, Redirect, Shadow, Job, Page_
<1>8. QED
  BY <1>1, <1>2, <1>3, <1>4, <1>5, <1>6, <1>7, KindsOfDocs, SMT

LEMMA StillFresh ==
  ASSUME NEW u, NEW t, NEW d \in Docs, Thinned(u, t, d), IsFresh(t, d)
  PROVE  IsFresh(u, d)
<1>1. u[d] = Absent
  BY DEF IsFresh, Thinned, InOneSpace
<1>2. CASE d \in Pages
  <2>1. d \in Docs \ Jobs
    BY <1>2, KindsOfDocs, SMT
  <2>2. \A r \in Redirects: u[r] = t[r] \/ u[r] = Absent
    BY <2>1, RowsOfPages, KindsOfDocs DEF Thinned, InOneSpace
  <2>3. QED
    BY <1>1, <2>2, Zenon DEF IsFresh
<1>3. QED
  BY <1>1, <1>2 DEF IsFresh

LEMMA OneSpace ==
  ASSUME NEW t, IsTable(t), NEW q \in Menu, q.act # "create", t[q.source] # Absent
  PROVE  q.source \in Docs /\ InOneSpace(q.source, q.doc)
  BY SourceKind DEF InOneSpace

LEMMA StillAccepted ==
  ASSUME NEW u, NEW t, IsTable(u), NEW q \in Menu, Thinned(u, t, q.doc),
         IsFiniteSet(ActiveIn(t)), q.act # "create" => u[q.source] # Absent, ~Refused(t, q)
  PROVE  ~Refused(u, q)
<1>1. q.doc \in Docs
  BY Menus
<1>2. q.act # "create" => u[q.source] = t[q.source]
  BY OneSpace DEF Thinned
<1>3. EffectiveRow(u, q) = EffectiveRow(t, q) /\ StoredRow(u, q) = StoredRow(t, q)
  BY <1>2, Zenon DEF EffectiveRow, StoredRow
<1>4. QED
  BY <1>1, <1>3, FewerRefusals, Zenon DEF Refused

\* What others commit or delete takes at most documents away that the save did
\* not write.
Spared(v) ==
  /\ Thinned(table', table, Page(v))
  /\ \A c \in DOMAIN wrote[v]: table'[c] = table[c]

SerialOk(w) == ReadyOk(w) /\ SavedOk(w) /\ TakenOk(w) /\ ToTakeOk(w)

LEMMA ReadyStill ==
  ASSUME LocksInv, IsTable(table)', IsFiniteSet(ActiveIn(table)),
         NEW v \in Writers, Still(v), ReadyOk(v), Spared(v)
  PROVE  ReadyOk(v)'
<1> SUFFICES ASSUME pc[v] = "write", SourceStands(req[v])'
             PROVE  /\ req[v].act \in {"create", "clone"} => IsFresh(table', Page(v))
                    /\ req[v].act # "delete" => ~Refused(table', req[v])
  BY Zenon DEF ReadyOk, Still, Page
<1>1. req[v] \in Menu /\ Page(v) \in Docs
  BY Menus DEF LocksInv, LocksOk, Page
<1>2. Thinned(table', table, req[v].doc) /\ req'[v] = req[v]
  BY DEF Spared, Page, Still
<1>3. req[v].act # "create" => table'[req[v].source] # Absent
  BY <1>2, Zenon DEF SourceStands
<1>4. SourceStands(req[v])
  BY <1>1, <1>2, <1>3, OneSpace, Zenon DEF SourceStands, Thinned
<1>5. req[v].act \in {"create", "clone"} => IsFresh(table', Page(v))
  BY <1>1, <1>2, <1>4, StillFresh, Zenon DEF ReadyOk, Page
<1>6. req[v].act # "delete" => ~Refused(table', req[v])
  BY <1>1, <1>2, <1>3, <1>4, StillAccepted DEF ReadyOk
<1>7. QED
  BY <1>5, <1>6

LEMMA CopiesAreOfAKind ==
  ASSUME IsTable(table), NEW q \in Menu, q.act = "clone", NEW stored \in RowsOf(q.doc)
  PROVE  q.source \in Docs /\ InOneSpace(q.source, q.doc)
<1>1. q.source \in Docs /\ RowsOf(q.source) = RowsOf(q.doc)
  <2>1. IsRequest(q)
    BY MenuIsRequests
  <2>2. QED
    BY <2>1, Zenon DEF IsRequest
<1>2. PICK t : t = [d \in Docs |-> IF d = q.source THEN stored ELSE table[d]]
  OBVIOUS
<1>3. ButFor(t, table, q.source, stored)
  BY <1>1, <1>2 DEF ButFor
<1>4. IsTable(t)
  BY <1>1, <1>3, TableWritten
<1>5. t[q.source] # Absent
  <2>1. stored # Absent
    BY AbsentIsNoRow DEF RowsOf
  <2>2. QED
    BY <1>3, <2>1 DEF ButFor
<1>6. QED
  BY <1>4, <1>5, OneSpace

\* What the save wrote its document over is where it was, or gone if copied.
LEMMA OriginalStill ==
  ASSUME NEW q \in Menu, NEW stored \in Originals(q), Thinned(table', table, q.doc),
         IsTable(table), q.act = "clone" => stored \in RowsOf(q.doc),
         q.act = "update" => table'[q.doc] = table[q.doc], q.act # "delete"
  PROVE  stored \in Originals(q)'
<1>1. IsRequest(q)
  BY MenuIsRequests
<1>2. CASE q.act = "create"
  BY <1>2, Zenon DEF Originals
<1>3. CASE q.act = "update"
  BY <1>1, <1>3, Zenon DEF Originals, IsRequest
<1>4. CASE q.act = "clone"
  <2>1. q.source \in Docs /\ InOneSpace(q.source, q.doc)
    BY <1>4, CopiesAreOfAKind
  <2>2. table'[q.source] \in {table[q.source], Absent}
    BY <2>1 DEF Thinned
  <2>3. QED
    BY <1>4, <2>2, Zenon DEF Originals
<1>5. QED
  BY <1>1, <1>2, <1>3, <1>4, SMT DEF IsRequest

LEMMA SavedStill ==
  ASSUME LocksInv, RowsInv, IsTable(table)', IsFiniteSet(ActiveIn(table)),
         NEW v \in Writers, Still(v), SavedOk(v), Spared(v)
  PROVE  SavedOk(v)'
<1> SUFFICES ASSUME Saved(v)
             PROVE  SavedOk(v)'
  BY Zenon DEF SavedOk, Saved, Still
<1>0. PICK q \in Menu : q = req[v]
  BY SMT DEF LocksInv, LocksOk, Saved, Following
<1>1. /\ Page(v) \in Docs /\ q.doc = Page(v)
      /\ req'[v] = q /\ wrote'[v] = wrote[v]
      /\ Page(v)' = Page(v) /\ Page(v) \in DOMAIN wrote[v]
  BY <1>0, Menus, SMT DEF Page, SavedOk, Still
<1>2. Thinned(table', table, q.doc) /\ table'[q.doc] = table[q.doc] /\ IsTable(table)
  BY <1>1 DEF Spared, RowsInv
<1>3. ASSUME q.act # "delete"
      PROVE  \E stored \in Originals(q)': IsSaved(v, stored)'
  <2>1. PICK stored \in Originals(q): IsSaved(v, stored)
    BY <1>0, <1>3, Zenon DEF SavedOk
  <2>2. /\ wrote[v][Page(v)] = RowOf(q, stored) /\ Accepts(q, stored)
        /\ q.act = "clone" => stored \in RowsOf(q.doc)
    BY <1>0, <1>1, <2>1, Zenon DEF IsSaved
  <2>3. stored \in Originals(q)'
    BY <1>1, <1>2, <1>3, <2>2, OriginalStill
  <2>4. q.act # "update" => IsFresh(table', q.doc)
    BY <1>1, <1>2, <2>2, StillFresh DEF Accepts
  <2>5. ~Refuses(table', q, RowOf(q, stored), stored)
    BY <1>1, <1>2, <2>2, FewerRefusals DEF Accepts
  <2>6. Accepts(q, stored)'
    BY <2>4, <2>5, Zenon DEF Accepts
  <2>7. IsSaved(v, stored)'
    BY <1>1, <2>2, <2>6, Zenon DEF IsSaved
  <2>8. QED
    BY <2>3, <2>7
<1>4. QED
  BY <1>0, <1>1, <1>2, <1>3, Zenon DEF SavedOk

\* What the save of a page, the only document of it, knows of the page.
LEMMA FollowsFacts ==
  ASSUME ClashInv, NEW w \in Writers, Follows(w)
  PROVE  /\ Saved(w) /\ Page(w) \in Pages /\ owner[w] = Page(w)
         /\ after[w] = View(w)[Page(w)] /\ before[w] = table[Page(w)]
  BY Zenon DEF Follows, ClashInv, KnownOk, SeesPage

LEMMA TakenStill ==
  ASSUME LocksInv, RowsInv, NEW v \in Writers, Still(v), TakenOk(v), ToTakeOk(v), Spared(v)
  PROVE  TakenOk(v)' /\ ToTakeOk(v)'
<1> SUFFICES ASSUME Follows(v)' PROVE TakenOk(v)' /\ ToTakeOk(v)'
  BY Zenon DEF TakenOk, ToTakeOk
<1>1. /\ Page(v)' = Page(v) /\ wrote'[v] = wrote[v] /\ before'[v] = before[v]
      /\ after'[v] = after[v] /\ todo'[v] = todo[v] /\ owned'[v] = owned[v] /\ pc'[v] = pc[v]
  BY Zenon DEF Page, Still
<1>2. Saved(v) /\ Page(v) \in Pages /\ Page(v) \in Docs /\ Page(v) \notin Jobs
  BY <1>1, KindsOfDocs, RowsOfPages, SMT DEF Follows, Saved
<1>3. /\ \A p \in Pages: table'[p] = table[p]
      /\ \A r \in Redirects: table'[r] \in {table[r], Absent}
  BY <1>2, RowsOfPages, KindsOfDocs DEF Spared, Thinned, InOneSpace
<1>4. Aside(v)' = Aside(v)
  BY <1>3, AsideStays DEF Still
<1>5. Follows(v)
  BY <1>1, <1>2, <1>4, Zenon DEF Follows
<1>6. /\ Leads(v)' = Leads(v) /\ NewPath(v)' = NewPath(v)
      /\ RenamedInPublic(v)' = RenamedInPublic(v)
  BY <1>1, Zenon DEF Leads, NewPath, RenamedInPublic
<1>7. Later(v)' = Later(v) /\ Remaining(v)' = Remaining(v)
  BY <1>1, <1>6, Zenon DEF Later, Remaining
<1>8. TakenOk(v)'
  <2>1. ASSUME NEW r \in Redirects \cap DOMAIN wrote[v]
        PROVE  GoesAlong(v, r, wrote[v][r])'
    <3>1. table'[r] = table[r]
      BY DEF Spared
    <3>2. table'[Page(v)] = table[Page(v)]
      BY <1>2, <1>3
    <3>3. \A row: GoesAlong(v, r, row) => GoesAlong(v, r, row)'
      BY <1>1, <3>1, <3>2, Zenon DEF GoesAlong, IsAlias
    <3>4. PICK row : row = wrote[v][r]
      OBVIOUS
    <3>5. GoesAlong(v, r, row) /\ row = wrote'[v][r]
      BY <1>1, <1>5, <3>4 DEF TakenOk
    <3>6. QED
      BY <3>3, <3>5
  <2>2. QED
    BY <1>1, <2>1, Zenon DEF TakenOk
<1>9. ASSUME NEW r \in Remaining(v) PROVE AsFound(v, r)'
  <2>1. AsFound(v, r)
    BY <1>5, <1>9, Zenon DEF ToTakeOk
  <2>2. pc[v] \in Following \ {"sync"}
    BY <1>9, SMT DEF Remaining, Following
  <2>3. r \in Redirects
    BY <2>1, <2>2, SMT DEF AsFound, RowsInv, FollowOk
  <2>4. table'[r] \in {table[r], Absent}
    BY <1>3, <2>3
  <2>5. table'[r] \in {owned[v][r], Absent}
    BY <2>1, <2>4 DEF AsFound
  <2>6. QED
    BY <1>1, <2>1, <2>5, Zenon DEF AsFound
<1>10. InForce(v)' \subseteq InForce(v)
  <2>1. \A r \in Redirects: View(v)'[r] \in {View(v)[r], Absent}
    BY <1>1, <1>3, RowsOfPages, SMT DEF View
  <2>2. QED
    BY <1>1, <2>1, SMT DEF InForce, OwnedBy, ActiveIn
<1>11. ToTakeOk(v)'
  BY <1>1, <1>5, <1>6, <1>7, <1>9, <1>10, Zenon DEF ToTakeOk
<1>12. QED
  BY <1>8, <1>11

LEMMA SerialStill ==
  ASSUME LocksInv, RowsInv, IsTable(table)', IsFiniteSet(ActiveIn(table)),
         NEW v \in Writers, Still(v), SerialOk(v), Locked(v) => Spared(v)
  PROVE  SerialOk(v)'
<1>1. CASE Locked(v)
  BY <1>1, ReadyStill, SavedStill, TakenStill DEF SerialOk, RowsInv
<1>2. CASE ~Locked(v)
  <2>1. pc'[v] \in {"idle", "lock"}
    BY <1>2 DEF Locked, Still
  <2>2. QED
    BY <2>1, SMT DEF SerialOk, ReadyOk, SavedOk, TakenOk, ToTakeOk, Follows, Saved, Following
<1>3. QED
  BY <1>1, <1>2

LEMMA SparedByDelete ==
  ASSUME RowsInv, NEW d \in Docs, Delete(d), NEW v \in Writers
  PROVE  Spared(v)
<1>1. DOMAIN table = Docs
  BY DEF RowsInv, IsTable
<1>2. ButFor(table', table, d, Absent) /\ d \notin Pages /\ d \notin DOMAIN wrote[v]
  BY <1>1, ViewDeleted, Zenon DEF Delete
<1>3. DOMAIN wrote[v] \subseteq Docs
  BY DEF RowsInv, WritesOk
<1>4. QED
  BY <1>1, <1>2, <1>3, SMT DEF Spared, Thinned, ButFor

\* Two saves that have their locks save documents of different addresses.
LEMMA SparedByCommit ==
  ASSUME LocksInv, RowsInv, NEW w \in Writers, Commit(w), NEW v \in Writers, v # w, Locked(v)
  PROVE  Spared(v)
<1>1. Locked(w) /\ WritesOk(w) /\ WritesOk(v) /\ table' = View(w) /\ DOMAIN table = Docs
  BY SMT DEF Locked, Commit, RowsInv, IsTable
<1>2. Page(w) \in Jobs <=> Page(v) \notin Jobs
  BY <1>1, Zenon DEF LocksInv, LocksOk, Taken
<1>3. \A c \in Docs: (c \in Jobs <=> Page(v) \in Jobs) => table'[c] = table[c]
  BY <1>1, <1>2, SMT DEF WritesOk, View
<1>4. DOMAIN table' = Docs
  BY <1>1 DEF View
<1>5. \A c \in DOMAIN wrote[v]: c \in Docs /\ (c \in Jobs <=> Page(v) \in Jobs)
  BY <1>1, SMT DEF WritesOk
<1>6. QED
  BY <1>1, <1>3, <1>4, <1>5 DEF Spared, Thinned, InOneSpace

LEMMA SerialValidate ==
  ASSUME Shape, NEW w \in Writers, Validate(w)
  PROVE  SerialOk(w)'
<1>1. /\ pc[w] = "validate" /\ pc'[w] = "write" /\ SourceStands(req[w])
      /\ req[w].act \in {"create", "clone"} => IsFresh(table, Page(w))
      /\ req[w].act = "delete" \/ ~Refused(table, req[w])
      /\ UNCHANGED <<table, req>>
  BY Zenon DEF Validate, transaction, Shape, Goes, Page
<1>2. ReadyOk(w)'
  BY <1>1, Zenon DEF ReadyOk, Page
<1>3. QED
  BY <1>1, <1>2, SMT DEF SerialOk, SavedOk, TakenOk, ToTakeOk, Follows, Saved, Following

LEMMA SerialWrite ==
  ASSUME Shape, LocksInv, RowsInv, NEW w \in Writers, Write(w), SerialOk(w)
  PROVE  SerialOk(w)'
<1>0. PICK q \in Menu : q = req[w]
  BY SMT DEF LocksInv, LocksOk, Write
<1>1. /\ pc[w] = "write" /\ SourceStands(q) /\ WroteIs(w, Page(w), Result(w))
      /\ UNCHANGED <<table, req>>
      /\ pc'[w] = (IF Page(w) \in Pages THEN "sync" ELSE "commit")
      /\ Page(w)' = Page(w) /\ req'[w] = q /\ q.doc = Page(w) /\ Page(w) \in Docs
  BY <1>0, WriteEffect, Menus, Zenon DEF PcIs, Page
<1>2. /\ q.act \in {"create", "clone"} => IsFresh(table, Page(w))
      /\ q.act # "delete" => ~Refused(table, q)
  BY <1>0, <1>1 DEF SerialOk, ReadyOk
<1>3. /\ DOMAIN wrote'[w] = {Page(w)} /\ wrote'[w][Page(w)] = Result(w)
      /\ DOMAIN wrote'[w] \subseteq Redirects \cup {Page(w)}
  BY <1>1, SMT DEF RowsInv, WritesOk, WroteIs
<1>4. IsRequest(q)
  BY MenuIsRequests
<1>5. /\ q.act \in {"create", "clone", "update", "delete"}
      /\ q.act \in {"update", "delete"} => q.source = q.doc
      /\ q.act = "clone" => q.source \in Docs /\ RowsOf(q.source) = RowsOf(q.doc) /\ q.doc \notin Pages
  BY <1>4, Zenon DEF IsRequest
<1>6. Saved(w)'
  BY <1>1, SMT DEF Saved, Following
<1>7. q.act = "delete" => table[Page(w)] # Absent /\ wrote'[w][Page(w)] = Absent
  BY <1>0, <1>1, <1>3, <1>5, Zenon DEF SourceStands, Result
<1>8. ASSUME q.act # "delete"
      PROVE  \E stored \in Originals(q)': IsSaved(w, stored)'
  <2>1. PICK stored : stored = StoredRow(table, q)
    OBVIOUS
  <2>2. stored \in Originals(q)
    BY <1>1, <1>5, <1>8, <2>1, Zenon DEF StoredRow, Originals, SourceStands
  <2>3. EffectiveRow(table, q) = RowOf(q, stored)
    BY <2>1, Zenon DEF EffectiveRow, RowOf, StoredRow
  <2>4. wrote'[w][Page(w)] = RowOf(q, stored)
    BY <1>0, <1>3, <1>8, <2>3, Zenon DEF Result
  <2>5. Accepts(q, stored)
    BY <1>1, <1>2, <1>5, <1>8, <2>1, <2>3 DEF Refused, Accepts
  <2>6. q.act = "clone" => stored \in RowsOf(Page(w))
    <3>1. q.act = "clone" => stored = table[q.source] /\ table[q.source] # Absent
      BY <1>1, <2>1, Zenon DEF StoredRow, SourceStands
    <3>2. q.act = "clone" => table[q.source] \in RowsOf(q.source) \cup {Absent}
      BY <1>5, TableRows DEF RowsInv, IsTable
    <3>3. QED
      BY <1>1, <1>5, <3>1, <3>2
  <2>7. Originals(q)' = Originals(q) /\ (Accepts(q, stored) => Accepts(q, stored)')
    BY <1>1, Zenon DEF Originals, Accepts
  <2>8. IsSaved(w, stored)'
    BY <1>1, <2>4, <2>5, <2>6, <2>7, Zenon DEF IsSaved
  <2>9. QED
    BY <2>2, <2>7, <2>8
<1>9. SavedOk(w)'
  BY <1>1, <1>3, <1>7, <1>8, Zenon DEF SavedOk
<1>10. ReadyOk(w)'
  BY <1>1, SMT DEF ReadyOk
<1>11. TakenOk(w)' /\ ToTakeOk(w)'
  <2>1. SUFFICES ASSUME Follows(w)' PROVE TakenOk(w)' /\ ToTakeOk(w)'
    BY Zenon DEF TakenOk, ToTakeOk
  <2>2. Page(w) \in Pages /\ Page(w) \notin Redirects /\ pc'[w] = "sync"
    BY <1>1, <2>1, KindsOfDocs DEF Follows
  <2>3. Remaining(w)' = {} /\ Redirects \cap DOMAIN wrote'[w] = {}
    BY <1>3, <2>2, SMT DEF Remaining
  <2>4. QED
    BY <2>2, <2>3, SMT DEF TakenOk, ToTakeOk
<1>12. QED
  BY <1>9, <1>10, <1>11 DEF SerialOk

\* While a page's redirects are taken along, its own row and what accepted it
\* stay; a redirect saved on the way must go along with the page.
LEMMA SerialNested ==
  ASSUME RowsInv, LocksInv, NEW w \in Writers, Saved(w), Saved(w)', Page(w) \in Pages,
         UNCHANGED <<table, req, before, after>>, SerialOk(w),
         \/ UNCHANGED wrote
         \/ \E r \in Redirects: \E row:
              WroteIs(w, r, row) /\ (Follows(w) => GoesAlong(w, r, row))
  PROVE  /\ ReadyOk(w)' /\ SavedOk(w)' /\ TakenOk(w)'
         /\ Page(w)' = Page(w) /\ Leads(w)' = Leads(w) /\ NewPath(w)' = NewPath(w)
         /\ RenamedInPublic(w)' = RenamedInPublic(w) /\ (Follows(w)' => Follows(w))
<1>1. /\ Page(w)' = Page(w) /\ Page(w) \in DOMAIN wrote[w] /\ Page(w) \in Docs
      /\ Page(w) \notin Redirects
  BY RowsOfPages, KindsOfDocs, SMT DEF Page, SerialOk, SavedOk
<1>2. /\ Page(w) \in DOMAIN wrote'[w] /\ wrote'[w][Page(w)] = wrote[w][Page(w)]
      /\ DOMAIN wrote[w] \subseteq Redirects \cup {Page(w)} =>
           DOMAIN wrote'[w] \subseteq Redirects \cup {Page(w)}
  BY <1>1 DEF WroteIs
<1>3. Leads(w)' = Leads(w) /\ NewPath(w)' = NewPath(w)
  BY Zenon DEF Leads, NewPath
<1>4. RenamedInPublic(w)' = RenamedInPublic(w)
  BY <1>3, Zenon DEF RenamedInPublic
<1>5. Follows(w)' => Follows(w)
  BY <1>1, AsideKept, Zenon DEF Follows
<1>6. TakenOk(w)'
  <2> SUFFICES ASSUME Follows(w)' PROVE TakenOk(w)'
    BY Zenon DEF TakenOk
  <2>1. \A r \in Redirects \cap DOMAIN wrote[w]: GoesAlong(w, r, wrote[w][r])
    BY <1>5 DEF SerialOk, TakenOk
  <2>2. \A r, row: GoesAlong(w, r, row) => GoesAlong(w, r, row)'
    BY <1>1, Zenon DEF GoesAlong, IsAlias
  <2>3. ASSUME NEW r \in Redirects \cap DOMAIN wrote'[w]
        PROVE  GoesAlong(w, r, wrote'[w][r])
    BY <1>5, <2>1 DEF WroteIs
  <2>4. ASSUME NEW r \in Redirects \cap DOMAIN wrote'[w]
        PROVE  GoesAlong(w, r, wrote[w][r])'
    <3>1. PICK row : row = wrote'[w][r]
      OBVIOUS
    <3>2. GoesAlong(w, r, row)'
      BY <2>2, <2>3, <3>1
    <3>3. QED
      BY <3>1, <3>2
  <2>5. QED
    BY <2>4, Zenon DEF TakenOk
<1>7. SavedOk(w)'
  <2>1. PICK q : q = req[w]
    OBVIOUS
  <2>2. Originals(q)' = Originals(q)
    BY Zenon DEF Originals
  <2>3. \A stored: IsSaved(w, stored) => IsSaved(w, stored)'
    BY <1>1, <1>2, Zenon DEF IsSaved, Accepts
  <2>4. QED
    BY <1>1, <1>2, <2>1, <2>2, <2>3, Zenon DEF SerialOk, SavedOk
<1>8. ReadyOk(w)'
  BY SMT DEF ReadyOk, Saved, Following
<1>9. QED
  BY <1>1, <1>3, <1>4, <1>5, <1>6, <1>7, <1>8

LEMMA SerialPageUnchanged ==
  ASSUME Shape, LocksInv, RowsInv, NEW w \in Writers, PageUnchanged(w), SerialOk(w)
  PROVE  SerialOk(w)'
<1>1. /\ pc[w] = "sync" /\ pc'[w] = "commit" /\ before[w] = after[w]
      /\ UNCHANGED <<table, req, before, after, wrote>>
  BY Zenon DEF PageUnchanged, PageIsAsBefore, Goes, transaction, Shape
<1>2. Page(w) \in Pages /\ Saved(w) /\ Saved(w)'
  BY <1>1, SMT DEF LocksInv, LocksOk, Following, Saved
<1>3. ReadyOk(w)' /\ SavedOk(w)' /\ TakenOk(w)'
  BY <1>1, <1>2, SerialNested
<1>4. ToTakeOk(w)'
  BY <1>1, SMT DEF ToTakeOk, Remaining, Following
<1>5. QED
  BY <1>3, <1>4 DEF SerialOk

\* A redirect the save did not write is as it is committed.
LEMMA SeesCommitted ==
  ASSUME NEW w \in Writers, NEW r \in Redirects, r \notin DOMAIN wrote[w]
  PROVE  View(w)[r] = table[r]
  BY RowsOfPages DEF View

LEMMA SerialReadOwned ==
  ASSUME Shape, LocksInv, RowsInv, ClashInv, NEW w \in Writers, ReadOwned(w), SerialOk(w)
  PROVE  SerialOk(w)'
<1> DEFINE R == OwnedBy(View(w), owner[w])
<1>1. /\ pc[w] = "sync" /\ pc'[w] = "retire"
      /\ owned'[w] = [r \in R |-> View(w)[r]]
      /\ todo'[w] = {r \in R: Leads(w) => View(w)[r].from = NewPath(w)}
      /\ UNCHANGED <<table, req, wrote, before, after, owner>> /\ before[w] # after[w]
  BY ReadOwnedEffect, Zenon DEF ReadOwned, PcIs, PageIsAsBefore
<1>2. Page(w) \in Pages /\ Saved(w) /\ Saved(w)' /\ DOMAIN wrote[w] = {Page(w)}
  BY <1>1, SMT DEF LocksInv, LocksOk, Following, Saved, ClashInv, KnownOk
<1>3. /\ ReadyOk(w)' /\ SavedOk(w)' /\ TakenOk(w)' /\ Page(w)' = Page(w)
      /\ Leads(w)' = Leads(w) /\ NewPath(w)' = NewPath(w) /\ (Follows(w)' => Follows(w))
  BY <1>1, <1>2, SerialNested
<1>4. ToTakeOk(w)'
  <2> SUFFICES ASSUME Follows(w)' PROVE ToTakeOk(w)'
    BY Zenon DEF ToTakeOk
  <2>1. owner[w] = Page(w)
    BY <1>3, FollowsFacts
  <2> HIDE DEF R
  <2>2. DOMAIN owned'[w] = R /\ \A r \in R: owned'[w][r] = View(w)[r]
    BY <1>1
  <2>3. R = OwnedBy(View(w), Page(w))
    BY <2>1 DEF R
  <2>4. ASSUME NEW r \in R PROVE AsFound(w, r)'
    <3>1. r \in Redirects /\ r \notin DOMAIN wrote[w] /\ View(w)[r].managedBy = Page(w)
      BY <1>2, <2>3, <2>4, KindsOfDocs DEF OwnedBy
    <3>2. View(w)[r] = table[r]
      BY <3>1, SeesCommitted
    <3>3. QED
      BY <1>1, <1>3, <2>2, <2>4, <3>1, <3>2 DEF AsFound
  <2>5. Remaining(w)' = R
    <3>1. Later(w)' = IF Leads(w) THEN {r \in R: owned'[w][r].from # NewPath(w)} ELSE {}
      BY <1>1, <1>3, <2>2, SMT DEF Later
    <3>2. Remaining(w)' = todo'[w] \cup Later(w)'
      BY <1>1 DEF Remaining
    <3>3. CASE Leads(w)
      BY <1>1, <2>2, <3>1, <3>2, <3>3
    <3>4. CASE ~Leads(w)
      BY <1>1, <3>1, <3>2, <3>4
    <3>5. QED
      BY <3>3, <3>4
  <2>6. View(w)' = View(w)
    BY <1>1, ViewKept
  <2>7. InForce(w)' \subseteq R
    BY <1>3, <2>3, <2>6, Zenon DEF InForce
  <2>8. QED
    BY <1>1, <2>4, <2>5, <2>7, SMT DEF ToTakeOk
<1>5. QED
  BY <1>3, <1>4 DEF SerialOk

\* What the step of one redirect of the page starts from.
LEMMA TakingAlong ==
  ASSUME LocksInv, RowsInv, NEW w \in Writers, SerialOk(w), Follows(w),
         pc[w] \in {"retire", "retarget"}, NEW r \in todo[w]
  PROVE  /\ r \in Redirects /\ r \in DOMAIN owned[w] /\ r \notin DOMAIN wrote[w]
         /\ View(w)[r] = table[r] /\ View(w)[r] \in {owned[w][r], Absent}
         /\ View(w)[r] # Absent => /\ table[r] # Absent /\ table[r].managedBy = Page(w)
                                   /\ table[r].from = owned[w][r].from
         /\ before[w] # after[w]
<1>1. pc[w] \in Following \ {"sync"}
  BY DEF Following
<1>2. AsFound(w, r) /\ before[w] # after[w]
  BY <1>1, SMT DEF SerialOk, ToTakeOk, Remaining
<1>3. r \in Redirects
  BY <1>1, SMT DEF RowsInv, FollowOk
<1>4. View(w)[r] = table[r]
  BY <1>2, <1>3, SeesCommitted DEF AsFound
<1>5. QED
  BY <1>2, <1>3, <1>4 DEF AsFound

\* A step that looks at one redirect of the page leaves the others to be looked
\* at, as they were.
LEMMA TakenOneOf ==
  ASSUME Shape, RowsInv, NEW w \in Writers, Follows(w), ToTakeOk(w), NEW r \in Redirects,
         pc[w] \in {"retire", "retarget"}, pc'[w] = pc[w],
         UNCHANGED <<table, req, before, after, owned>>, NewPath(w)' = NewPath(w),
         TodoDone(w, r), Remaining(w)' \subseteq Remaining(w) \ {r},
         Remaining(w) \subseteq Remaining(w)' \cup {r},
         \/ UNCHANGED wrote /\ r \notin ActiveIn(View(w))
         \/ \E row: WroteIs(w, r, row)
  PROVE  ToTakeOk(w)'
<1>1. /\ Page(w)' = Page(w) /\ todo'[w] \subseteq todo[w]
      /\ DOMAIN wrote[w] \subseteq DOMAIN wrote'[w]
      /\ DOMAIN wrote'[w] \subseteq DOMAIN wrote[w] \cup {r}
  BY DEF Page, TodoDone, WroteIs
<1>2. \A c \in Remaining(w): AsFound(w, c)
  BY Zenon DEF ToTakeOk
<1>3. ASSUME NEW c \in Remaining(w)' PROVE AsFound(w, c)'
  <2>1. c # r /\ AsFound(w, c)
    BY <1>2, <1>3
  <2>2. c \notin DOMAIN wrote'[w]
    BY <1>1, <2>1 DEF AsFound
  <2>3. QED
    BY <1>1, <2>1, <2>2, Zenon DEF AsFound
<1>4. before[w] # after[w] => InForce(w) \subseteq DOMAIN wrote[w] \cup Remaining(w)
  BY SMT DEF ToTakeOk
<1>5. \A c \in InForce(w)': c \in DOMAIN wrote'[w] \/ c \in InForce(w)
  <2>1. CASE UNCHANGED wrote
    <3>1. View(w)' = View(w)
      BY <2>1, ViewKept
    <3>2. QED
      BY <1>1, <3>1, Zenon DEF InForce
  <2>2. ASSUME NEW row, WroteIs(w, r, row)
        PROVE  \A c \in InForce(w)': c \in DOMAIN wrote'[w] \/ c \in InForce(w)
    <3>1. ButFor(View(w)', View(w), r, row) /\ r \in DOMAIN wrote'[w]
      BY <2>2, RowsOfPages, ViewWritten DEF WroteIs
    <3>2. \A c \in Redirects \ {r}: View(w)'[c] = View(w)[c]
      BY <3>1, RowsOfPages DEF ButFor
    <3>3. QED
      BY <1>1, <3>1, <3>2, SMT DEF InForce, OwnedBy, ActiveIn
  <2>3. QED
    BY <2>1, <2>2
<1>6. UNCHANGED wrote => r \notin InForce(w) \/ r \in DOMAIN wrote'[w]
  BY DEF InForce, WroteIs
<1>7. before[w] # after[w] => InForce(w)' \subseteq DOMAIN wrote'[w] \cup Remaining(w)'
  <2>1. r \in InForce(w) => r \in DOMAIN wrote'[w]
    BY DEF InForce, WroteIs
  <2>2. QED
    BY <1>1, <1>4, <1>5, <2>1
<1>8. pc'[w] \notin {"alias"} /\ before[w] # after[w]
  BY SMT DEF ToTakeOk, Following
<1>9. pc'[w] = "retarget" => \A c \in todo'[w]: owned'[w][c].from # NewPath(w)'
  BY <1>1, SMT DEF ToTakeOk
<1>10. QED
  BY <1>3, <1>7, <1>8, <1>9, Zenon DEF ToTakeOk

LEMMA SerialRetire ==
  ASSUME Shape, LocksInv, RowsInv, ClashInv, NEW w \in Writers, Retire(w), SerialOk(w)
  PROVE  SerialOk(w)'
<1>1. /\ pc[w] = "retire" /\ pc'[w] = "retire"
      /\ UNCHANGED <<table, req, before, after, owner, owned>>
  BY RetireEffect, Zenon DEF PcIs
<1>2. PICK r \in todo[w]:
        /\ TodoDone(w, r)
        /\ \/ View(w)[r] # Absent /\ WroteIs(w, r, RetiredRow(w, r))
           \/ View(w)[r] = Absent /\ UNCHANGED wrote
  BY RetireEffect, Zenon DEF NestedSave
<1>3. Page(w) \in Pages /\ r \in Redirects /\ Saved(w) /\ Saved(w)'
  BY <1>1, FollowingFacts, SMT DEF Saved, Following
<1>4. Leads(w) => owned[w][r].from = NewPath(w)
  BY <1>1, Zenon DEF ClashInv, KnownOk
<1>5. ASSUME View(w)[r] # Absent, Follows(w)
      PROVE  GoesAlong(w, r, RetiredRow(w, r))
  <2>0. /\ View(w)[r] = table[r] /\ table[r] # Absent /\ table[r].managedBy = Page(w)
        /\ table[r].from = owned[w][r].from /\ before[w] # after[w]
    BY <1>1, <1>5, TakingAlong
  <2>1. RetiredRow(w, r) # Absent
    BY <1>3, <1>5, RetiredRows, AbsentIsNoRow
  <2>2. ~(Public(after[w]) /\ table[r].from # PagePath[after[w].slug])
    BY <1>4, <2>0, Zenon DEF Public, Leads, NewPath
  <2>3. RetiredRow(w, r) = TakenAlong(table[r], after[w])
    BY <2>0, <2>2, Zenon DEF RetiredRow, TakenAlong, Retires
  <2>4. QED
    BY <2>0, <2>1, <2>3, Zenon DEF GoesAlong
<1>6. /\ ReadyOk(w)' /\ SavedOk(w)' /\ TakenOk(w)'
      /\ Leads(w)' = Leads(w) /\ NewPath(w)' = NewPath(w) /\ (Follows(w)' => Follows(w))
  BY <1>1, <1>2, <1>3, <1>5, SerialNested
<1>7. /\ Remaining(w) = todo[w] \cup Later(w)
      /\ Remaining(w)' = (todo[w] \ {r}) \cup Later(w) /\ r \notin Later(w)
  <2>1. todo'[w] = todo[w] \ {r}
    BY <1>2 DEF TodoDone
  <2>2. Later(w)' = Later(w)
    BY <1>1, <1>6, Zenon DEF Later
  <2>3. r \notin Later(w)
    BY <1>1, <1>4, SMT DEF Later
  <2>4. QED
    BY <1>1, <2>1, <2>2, <2>3 DEF Remaining
<1>8. Follows(w)' => ToTakeOk(w)'
  <2>1. UNCHANGED wrote => r \notin ActiveIn(View(w)) \/ WroteIs(w, r, RetiredRow(w, r))
    BY <1>2 DEF ActiveIn
  <2>2. QED
    BY <1>1, <1>2, <1>3, <1>6, <1>7, <2>1, TakenOneOf DEF SerialOk
<1>9. QED
  BY <1>6, <1>8, Zenon DEF SerialOk, ToTakeOk

LEMMA SerialRetired ==
  ASSUME Shape, LocksInv, RowsInv, NEW w \in Writers, Retired(w), SerialOk(w)
  PROVE  SerialOk(w)'
<1>1. /\ pc[w] = "retire" /\ todo[w] = {}
      /\ \/ /\ Leads(w) /\ pc'[w] = "retarget"
            /\ todo'[w] = {r \in DOMAIN owned[w]: owned[w][r].from # NewPath(w)}
         \/ ~Leads(w) /\ pc'[w] = "commit"
      /\ UNCHANGED <<table, req, wrote, before, after, owner, owned>>
  BY RetiredEffect, Zenon DEF PcIs
<1>2. Page(w) \in Pages /\ Saved(w) /\ Saved(w)'
  BY <1>1, SMT DEF LocksInv, LocksOk, Following, Saved
<1>3. /\ ReadyOk(w)' /\ SavedOk(w)' /\ TakenOk(w)' /\ Page(w)' = Page(w)
      /\ NewPath(w)' = NewPath(w) /\ (Follows(w)' => Follows(w))
  BY <1>1, <1>2, SerialNested
<1>4. Remaining(w)' = Remaining(w)
  BY <1>1, <1>3, SMT DEF Remaining, Later
<1>5. View(w)' = View(w)
  BY <1>1, ViewKept
<1>6. InForce(w)' = InForce(w)
  BY <1>3, <1>5, Zenon DEF InForce
<1>7. \A r: AsFound(w, r)' <=> AsFound(w, r)
  BY <1>1, <1>3, Zenon DEF AsFound
<1>8. pc'[w] = "retarget" => \A r \in todo'[w]: owned'[w][r].from # NewPath(w)'
  BY <1>1, <1>3
<1>9. ToTakeOk(w)'
  BY <1>1, <1>3, <1>4, <1>6, <1>7, <1>8, SMT DEF SerialOk, ToTakeOk, Following
<1>10. QED
  BY <1>3, <1>9 DEF SerialOk

LEMMA SerialRetarget ==
  ASSUME Shape, LocksInv, RowsInv, NEW w \in Writers, Retarget(w), SerialOk(w)
  PROVE  SerialOk(w)'
<1>1. /\ pc[w] = "retarget" /\ pc'[w] = "retarget"
      /\ UNCHANGED <<table, req, before, after, owner, owned>>
  BY RetargetEffect, Zenon DEF PcIs
<1>2. PICK r \in todo[w]:
        /\ TodoDone(w, r)
        /\ \/ View(w)[r] # Absent /\ WroteIs(w, r, RetargetedRow(w, r))
           \/ MayPass(w, r) /\ UNCHANGED wrote
  BY RetargetEffect, Zenon DEF NestedSave
<1>3. /\ Page(w) \in Pages /\ r \in Redirects /\ Saved(w) /\ Saved(w)' /\ Leads(w)
      /\ pc[w] \in Following
  BY <1>1, FollowingFacts, SMT DEF Saved, Following
<1>4. ASSUME View(w)[r] # Absent, Follows(w)
      PROVE  GoesAlong(w, r, RetargetedRow(w, r))
  <2>0. /\ View(w)[r] = table[r] /\ table[r] # Absent /\ table[r].managedBy = Page(w)
        /\ table[r].from = owned[w][r].from /\ before[w] # after[w]
    BY <1>1, <1>4, TakingAlong
  <2>1. RetargetedRow(w, r) # Absent
    BY <1>3, <1>4, RetargetedRows, AbsentIsNoRow
  <2>2. owned[w][r].from # NewPath(w)
    BY <1>1, <1>4, SMT DEF SerialOk, ToTakeOk
  <2>3. Public(after[w]) /\ table[r].from # PagePath[after[w].slug]
    BY <1>3, <2>0, <2>2, Zenon DEF Public, Leads, NewPath
  <2>4. RetargetedRow(w, r) = TakenAlong(table[r], after[w])
    BY <2>0, <2>3, Zenon DEF RetargetedRow, TakenAlong, Retargets, NewPath
  <2>5. QED
    BY <2>0, <2>1, <2>4, Zenon DEF GoesAlong
<1>5. /\ ReadyOk(w)' /\ SavedOk(w)' /\ TakenOk(w)'
      /\ NewPath(w)' = NewPath(w) /\ (Follows(w)' => Follows(w))
  BY <1>1, <1>2, <1>3, <1>4, SerialNested
<1>6. Remaining(w) = todo[w] /\ Remaining(w)' = todo[w] \ {r}
  BY <1>1, <1>2, SMT DEF Remaining, Later, TodoDone
<1>7. Follows(w)' => ToTakeOk(w)'
  <2> SUFFICES ASSUME Follows(w) PROVE ToTakeOk(w)'
    BY <1>5
  <2>1. MayPass(w, r) => r \notin ActiveIn(View(w))
    <3>1. View(w)[r] \in {owned[w][r], Absent}
      BY <1>1, TakingAlong
    <3>2. QED
      BY <3>1, Zenon DEF MayPass, ActiveIn
  <2>2. QED
    BY <1>1, <1>2, <1>3, <1>5, <1>6, <2>1, TakenOneOf DEF SerialOk
<1>8. QED
  BY <1>5, <1>7, Zenon DEF SerialOk, ToTakeOk

LEMMA SerialRetargeted ==
  ASSUME Shape, LocksInv, RowsInv, NEW w \in Writers, Retargeted(w), SerialOk(w)
  PROVE  SerialOk(w)'
<1>1. /\ pc[w] = "retarget" /\ todo[w] = {}
      /\ UNCHANGED <<table, req, wrote, before, after, owner, owned, todo>>
      /\ pc'[w] = (IF NeedsAlias(w) THEN "alias" ELSE "commit")
  BY Zenon DEF Retargeted, Goes, Shape, transaction
<1>2. Page(w) \in Pages /\ Saved(w) /\ Saved(w)' /\ Leads(w)
  BY <1>1, SMT DEF LocksInv, LocksOk, Following, Saved, RowsInv, FollowOk
<1>3. /\ ReadyOk(w)' /\ SavedOk(w)' /\ TakenOk(w)' /\ Page(w)' = Page(w)
      /\ RenamedInPublic(w)' = RenamedInPublic(w) /\ (Follows(w)' => Follows(w))
  BY <1>1, <1>2, SerialNested
<1>4. pc'[w] = "alias" => RenamedInPublic(w)
  BY <1>1, <1>2, Zenon DEF NeedsAlias, RenamedInPublic
<1>5. Remaining(w)' = {} /\ Remaining(w) = {} /\ pc'[w] # "retarget"
  BY <1>1, SMT DEF Remaining, Later
<1>6. View(w)' = View(w)
  BY <1>1, ViewKept
<1>7. InForce(w)' = InForce(w)
  BY <1>3, <1>6, Zenon DEF InForce
<1>8. ToTakeOk(w)'
  BY <1>1, <1>3, <1>4, <1>5, <1>7, SMT DEF SerialOk, ToTakeOk, Following
<1>9. QED
  BY <1>3, <1>8 DEF SerialOk

LEMMA SerialAlias ==
  ASSUME Shape, LocksInv, RowsInv, ClashInv, NEW w \in Writers, CreateAlias(w), SerialOk(w)
  PROVE  SerialOk(w)'
<1>1. /\ pc[w] = "alias" /\ pc'[w] = "commit"
      /\ UNCHANGED <<table, req, before, after, owner, owned, todo>>
  BY AliasEffect, Zenon DEF PcIs
<1>2. PICK r \in Redirects: View(w)[r] = Absent /\ WroteIs(w, r, AliasRow(w))
  BY AliasEffect, Zenon DEF NestedSave
<1>3. /\ Page(w) \in Pages /\ Saved(w) /\ Saved(w)' /\ Leads(w) /\ before[w] \in PageRow
      /\ pc[w] \in Following
  BY <1>1, FollowingFacts, SMT DEF Following, Saved
<1>4. ASSUME Follows(w)
      PROVE  GoesAlong(w, r, AliasRow(w))
  <2>1. /\ before[w] # after[w] /\ RenamedInPublic(w)
    BY <1>1, <1>4, SMT DEF SerialOk, ToTakeOk, Following
  <2>2. before[w] = table[Page(w)] /\ owner[w] = Page(w)
    BY <1>4, FollowsFacts
  <2>3. table[r] = Absent
    <3>1. r \in DOMAIN wrote[w] => View(w)[r] = wrote[w][r] /\ wrote[w][r] # Absent
      BY <1>4, RowsOfPages, Zenon DEF View, SerialOk, TakenOk, GoesAlong
    <3>2. r \notin DOMAIN wrote[w]
      BY <1>2, <3>1
    <3>3. QED
      BY <1>2, <3>2, SeesCommitted
  <2>4. AliasRow(w) # Absent
    BY <1>3, AliasRows, AbsentIsNoRow
  <2>5. IsAlias(Page(w), after[w], AliasRow(w))
    BY <2>1, <2>2, Zenon DEF IsAlias, Public, RenamedInPublic, Leads, AliasRow, NewPath, OldPath
  <2>6. QED
    BY <2>1, <2>3, <2>4, <2>5, Zenon DEF GoesAlong
<1>5. /\ ReadyOk(w)' /\ SavedOk(w)' /\ TakenOk(w)' /\ Page(w)' = Page(w)
      /\ (Follows(w)' => Follows(w))
  BY <1>1, <1>2, <1>3, <1>4, SerialNested
<1>6. Remaining(w)' = {} /\ Remaining(w) = {}
  BY <1>1, SMT DEF Remaining
<1>7. InForce(w)' \subseteq InForce(w) \cup DOMAIN wrote'[w]
  <2>1. ButFor(View(w)', View(w), r, AliasRow(w)) /\ r \in DOMAIN wrote'[w]
    BY <1>1, <1>2, RowsOfPages, ViewWritten DEF WroteIs
  <2>2. \A c \in Redirects \ {r}: View(w)'[c] = View(w)[c]
    BY <2>1, RowsOfPages DEF ButFor
  <2>3. QED
    BY <1>5, <2>1, <2>2, SMT DEF InForce, OwnedBy, ActiveIn
<1>8. DOMAIN wrote[w] \subseteq DOMAIN wrote'[w]
  BY <1>2 DEF WroteIs
<1>9. ToTakeOk(w)'
  BY <1>1, <1>5, <1>6, <1>7, <1>8, SMT DEF SerialOk, ToTakeOk, Following
<1>10. QED
  BY <1>5, <1>9 DEF SerialOk

LEMMA SerialInit == Init => SerialInv
<1> SUFFICES ASSUME Init, NEW w \in Writers PROVE SerialOk(w)
  BY DEF SerialInv, SerialOk
<1>1. pc[w] = "idle"
  BY SMT DEF Init
<1>2. QED
  BY <1>1, SMT DEF SerialOk, ReadyOk, SavedOk, TakenOk, ToTakeOk, Follows, Saved, Following

LEMMA SerialProceed ==
  ASSUME Shape, LocksInv, RowsInv, ClashInv, NEW w \in Writers, Proceeds(w), SerialOk(w)
  PROVE  SerialOk(w)'
  BY SerialValidate, SerialWrite, SerialPageUnchanged, SerialReadOwned, SerialRetire,
     SerialRetired, SerialRetarget, SerialRetargeted, SerialAlias, Zenon DEF Proceeds

LEMMA SparedByNone ==
  ASSUME RowsInv, NEW v, UNCHANGED table
  PROVE  Spared(v)
<1>1. DOMAIN table = Docs
  BY DEF RowsInv, IsTable
<1>2. QED
  BY <1>1 DEF Spared, Thinned

LEMMA SerialNext ==
  ASSUME Shape, LocksInv, RowsInv, IsTable(table)', ClashInv,
         IsFiniteSet(ActiveIn(table)), SerialInv, [Next]_vars
  PROVE  SerialInv'
<1>0. \A w \in Writers: SerialOk(w)
  BY DEF SerialInv, SerialOk
<1>1. ASSUME NEW w \in Writers, pc'[w] \in {"idle", "lock", "validate"} PROVE SerialOk(w)'
  BY <1>1, SMT DEF SerialOk, ReadyOk, SavedOk, TakenOk, ToTakeOk, Follows, Saved, Following
<1>2. ASSUME NEW v \in Writers, Still(v), UNCHANGED table PROVE SerialOk(v)'
  BY <1>0, <1>2, SparedByNone, SerialStill
<1>3. ASSUME NEW w \in Writers, Begin(w) \/ TakeLock(w)
      PROVE  \A v \in Writers: SerialOk(v)'
  <2>1. pc'[w] \in {"lock", "validate"}
    BY <1>3, Zenon DEF Begin, TakeLock, Goes, Shape
  <2>2. UNCHANGED table /\ \A v \in Writers \ {w}: Still(v)
    BY <1>3, QuietEffect, StepOfOne
  <2>3. QED
    BY <1>1, <1>2, <2>1, <2>2
<1>4. ASSUME NEW w \in Writers, Proceeds(w)
      PROVE  \A v \in Writers: SerialOk(v)'
  <2>1. UNCHANGED table /\ \A v \in Writers \ {w}: Still(v)
    BY <1>4, ProceedsEffect, StepOfOne
  <2>2. QED
    BY <1>0, <1>2, <1>4, <2>1, SerialProceed
<1>5. ASSUME NEW w \in Writers, Ends(w), Commit(w) \/ UNCHANGED table
      PROVE  \A v \in Writers: SerialOk(v)'
  <2>1. pc'[w] = "idle" /\ \A v \in Writers \ {w}: Still(v)
    BY <1>5, EndsEffect, StepOfOne DEF PcIs
  <2>2. ASSUME NEW v \in Writers, v # w, Commit(w) PROVE SerialOk(v)'
    BY <1>0, <2>1, <2>2, SparedByCommit, SerialStill
  <2>3. QED
    BY <1>1, <1>2, <1>5, <2>1, <2>2
<1>6. ASSUME NEW d \in Docs, Delete(d)
      PROVE  \A v \in Writers: SerialOk(v)'
  BY <1>0, <1>6, DeletedElsewhere, SparedByDelete, SerialStill
<1>7. ASSUME UNCHANGED vars
      PROVE  \A v \in Writers: SerialOk(v)'
  <2>1. UNCHANGED table /\ \A v \in Writers: Still(v)
    BY <1>7, Zenon DEF vars, transaction, Still
  <2>2. QED
    BY <1>2, <2>1
<1>8. \A v \in Writers: SerialOk(v)'
  BY <1>3, <1>4, <1>5, <1>6, <1>7, Zenon DEF Next, Proceeds, Commit, Abort
<1>9. QED
  BY <1>8, Zenon DEF SerialInv, SerialOk

(***************************************************************************)
(* There are finitely many active redirects, so their limit means something. *)
(***************************************************************************)
Finite ==
  /\ IsFiniteSet(ActiveIn(table))
  /\ \A w \in Writers: IsFiniteSet(DOMAIN wrote[w])

LEMMA FiniteInit == Init => Finite
<1> SUFFICES ASSUME Init PROVE Finite
  OBVIOUS
<1>1. ActiveIn(table) = {}
  BY LegacyIsContent, SMT DEF Init, ActiveIn
<1>2. \A w \in Writers: DOMAIN wrote[w] = {}
  BY SMT DEF Init, NoRows
<1>3. QED
  BY <1>1, <1>2, FS_EmptySet DEF Finite

LEMMA FiniteNext ==
  ASSUME Shape, RowsInv, Finite, [Next]_vars
  PROVE  Finite'
<1>1. ASSUME UNCHANGED <<table, wrote>> PROVE Finite'
  BY <1>1 DEF Finite, ActiveIn
<1>2. ASSUME NEW w \in Writers, NEW d, NEW row, WroteIs(w, d, row), UNCHANGED table
      PROVE  Finite'
  <2>1. IsFiniteSet(DOMAIN wrote'[w])
    BY <1>2, FS_AddElement DEF WroteIs, Finite
  <2>2. \A v \in Writers: IsFiniteSet(DOMAIN wrote'[v])
    BY <1>2, <2>1 DEF WroteIs, Finite
  <2>3. ActiveIn(table)' = ActiveIn(table)
    BY <1>2 DEF ActiveIn
  <2>4. QED
    BY <2>2, <2>3 DEF Finite
<1>3. ASSUME NEW w \in Writers, Ends(w), UNCHANGED table \/ table' = View(w)
      PROVE  Finite'
  <2>1. /\ DOMAIN wrote'[w] = {}
        /\ \A v \in Writers \ {w}: wrote'[v] = wrote[v]
    BY <1>3, EndsEffect
  <2>2. \A v \in Writers: IsFiniteSet(DOMAIN wrote'[v])
    BY <2>1, FS_EmptySet DEF Finite
  <2>3. ActiveIn(table') \subseteq ActiveIn(table) \cup DOMAIN wrote[w]
    <3>1. Redirects \subseteq Docs
      BY DEF Docs
    <3>2. QED
      BY <1>3, <3>1, SMT DEF ActiveIn, View
  <2>4. IsFiniteSet(ActiveIn(table) \cup DOMAIN wrote[w])
    BY FS_Union DEF Finite
  <2>5. IsFiniteSet(ActiveIn(table'))
    BY <2>3, <2>4, FS_Subset
  <2>6. QED
    BY <2>2, <2>5 DEF Finite
<1>4. ASSUME NEW d \in Docs, Delete(d) PROVE Finite'
  <2>1. UNCHANGED wrote /\ DOMAIN table = Docs /\ table' = [table EXCEPT ![d] = Absent]
    BY <1>4, Zenon DEF Delete, transaction, RowsInv, IsTable
  <2>2. ActiveIn(table') \subseteq ActiveIn(table)
    BY <2>1, SMT DEF ActiveIn, Docs
  <2>3. IsFiniteSet(ActiveIn(table'))
    BY <2>2, FS_Subset DEF Finite
  <2>4. QED
    BY <2>1, <2>3 DEF Finite
<1>5. ASSUME NEW w \in Writers, Write(w) PROVE Finite'
  BY <1>2, <1>5, WriteEffect
<1>6. ASSUME NEW w \in Writers, Retire(w) PROVE Finite'
  BY <1>1, <1>2, <1>6, RetireEffect, Zenon DEF NestedSave
<1>7. ASSUME NEW w \in Writers, Retarget(w) PROVE Finite'
  BY <1>1, <1>2, <1>7, RetargetEffect, Zenon DEF NestedSave
<1>8. ASSUME NEW w \in Writers, CreateAlias(w) PROVE Finite'
  BY <1>2, <1>8, AliasEffect, Zenon DEF NestedSave
<1>9. ASSUME NEW w \in Writers,
             \/ Begin(w) \/ TakeLock(w) \/ Validate(w) \/ PageUnchanged(w) \/ ReadOwned(w)
             \/ Retired(w) \/ Retargeted(w)
      PROVE  Finite'
  BY <1>1, <1>9, QuietEffect
<1>10. ASSUME UNCHANGED vars PROVE Finite'
  BY <1>1, <1>10, Zenon DEF vars, transaction
<1>11. QED
  BY <1>3, <1>4, <1>5, <1>6, <1>7, <1>8, <1>9, <1>10, Zenon DEF Next, Commit, Abort

(***************************************************************************)
(* The pipeline implements the atomic saves.                                *)
(***************************************************************************)
LEMMA CommitsDocument ==
  ASSUME LocksInv, RowsInv, SerialInv, NEW w \in Writers, Commit(w), Page(w) \notin Pages
  PROVE  SaveDocument(req[w]) /\ req[w] \in Menu
<1>0. PICK q \in Menu : q = req[w]
  BY SMT DEF LocksInv, LocksOk, Commit
<1>1. pc[w] = "commit" /\ table' = View(w) /\ Saved(w) /\ q.doc = Page(w) /\ Page(w) \in Docs
  BY <1>0, Menus, SMT DEF Commit, Saved, Page
<1>2. q.act # "delete"
  BY <1>1, Menus
<1>3. PICK stored \in Originals(q):
        wrote[w][Page(w)] = RowOf(q, stored) /\ Accepts(q, stored)
  BY <1>0, <1>1, <1>2, Zenon DEF SerialInv, SavedOk, IsSaved
<1>4. DOMAIN wrote[w] = {Page(w)}
  BY <1>1, Zenon DEF SerialInv, SavedOk
<1>5. DOMAIN table' = Docs /\ table'[Page(w)] = wrote[w][Page(w)]
      /\ \A d \in Docs \ {Page(w)}: table'[d] = table[d]
  BY <1>1, <1>4 DEF View
<1>6. OnlyChanges({q.doc}) /\ table'[q.doc] = RowOf(q, stored)
  BY <1>1, <1>3, <1>5 DEF OnlyChanges
<1>7. QED
  BY <1>0, <1>1, <1>3, <1>6 DEF SaveDocument

LEMMA CommitsPage ==
  ASSUME LocksInv, RowsInv, ClashInv, SerialInv, NEW w \in Writers, Commit(w), Page(w) \in Pages
  PROVE  SavePage(req[w]) /\ req[w] \in Menu
<1>0. PICK q \in Menu : q = req[w]
  BY SMT DEF LocksInv, LocksOk, Commit
<1>1. /\ pc[w] = "commit" /\ table' = View(w) /\ Saved(w) /\ q.doc = Page(w)
      /\ Page(w) \in Docs /\ Page(w) \notin Redirects
  BY <1>0, RowsOfPages, KindsOfDocs, SMT DEF Commit, Saved, Page
<1>2. /\ Page(w) \in DOMAIN wrote[w]
      /\ DOMAIN wrote[w] \subseteq Redirects \cup {Page(w)}
      /\ q.act = "delete" => table[Page(w)] # Absent /\ wrote[w][Page(w)] = Absent
      /\ q.act # "delete" => \E stored \in Originals(q):
                               wrote[w][Page(w)] = RowOf(q, stored) /\ Accepts(q, stored)
  BY <1>0, <1>1, Zenon DEF SerialInv, SavedOk, IsSaved
<1>3. table'[Page(w)] = wrote[w][Page(w)]
  BY <1>1, <1>2 DEF View
<1>4. OnlyChanges(Redirects \cup {Page(w)})
  <2>1. DOMAIN table' = Docs
    BY <1>1 DEF View
  <2>2. \A d \in Docs \ (Redirects \cup {Page(w)}): table'[d] = table[d]
    BY <1>1, <1>2 DEF View
  <2>3. QED
    BY <2>1, <2>2 DEF OnlyChanges
<1>5. ASSUME Page(w) \notin Twins(PagesIn(table) \cup PagesIn(table')), NEW r \in Redirects
      PROVE  MayBecome(Page(w), table'[Page(w)], table[r], table'[r])
  <2>0. Follows(w)
    BY <1>1, <1>5, AsideTwins DEF Follows
  <2>1. r \in Docs /\ table'[Page(w)] = after[w] /\ before[w] = table[Page(w)]
    BY <1>1, <2>0, FollowsFacts, RowsOfPages
  <2>2. CASE r \in DOMAIN wrote[w]
    <3>1. table'[r] = wrote[w][r]
      BY <1>1, <2>1, <2>2 DEF View
    <3>2. GoesAlong(w, r, wrote[w][r])
      BY <2>0, <2>2 DEF SerialInv, TakenOk
    <3>3. QED
      BY <2>1, <3>1, <3>2, Zenon DEF GoesAlong, MayBecome
  <2>3. CASE r \notin DOMAIN wrote[w]
    <3>1. table'[r] = table[r] /\ View(w)[r] = table[r]
      BY <1>1, <2>1, <2>3 DEF View
    <3>2. after[w] # table[Page(w)] => r \notin InForce(w)
      BY <1>1, <2>0, <2>1, <2>3, SMT DEF SerialInv, ToTakeOk, Remaining
    <3>3. MayStay(Page(w), after[w], table[r])
      BY <3>1, <3>2, Zenon DEF MayStay, InForce, OwnedBy, ActiveIn
    <3>4. QED
      BY <2>1, <3>1, <3>3 DEF MayBecome
  <2>4. QED
    BY <2>2, <2>3
<1>6. IF q.act = "delete" THEN table[Page(w)] # Absent /\ table'[Page(w)] = Absent
      ELSE \E stored \in Originals(q):
             table'[Page(w)] = RowOf(q, stored) /\ Accepts(q, stored)
  BY <1>2, <1>3
<1>7. SavePage(q)
  BY <1>1, <1>4, <1>5, <1>6, Zenon DEF SavePage
<1>8. QED
  BY <1>0, <1>7

LEMMA SiteStep ==
  ASSUME LocksInv, RowsInv, ClashInv, SerialInv, [Next]_vars
  PROVE  [SiteNext]_table
<1>1. ASSUME NEW w \in Writers, Commit(w)
      PROVE  \E q \in Menu: SaveDocument(q) \/ SavePage(q)
  BY <1>1, CommitsDocument, CommitsPage
<1>2. ASSUME NEW d \in Docs, Delete(d)
      PROVE  RemoveDocument(d)
  <2>1. ButFor(table', table, d, Absent)
    BY <1>2, SMT DEF Delete, RowsInv, IsTable, ButFor
  <2>2. QED
    BY <1>2, <2>1, Zenon DEF Delete, RemoveDocument, OnlyChanges, ButFor
<1>3. ASSUME NEW w \in Writers, Begin(w) \/ TakeLock(w) \/ Proceeds(w) \/ Abort(w)
      PROVE  UNCHANGED table
  BY <1>3, Zenon
     DEF Begin, TakeLock, Abort, Proceeds, Validate, Write, PageUnchanged, ReadOwned, Retire,
         Retired, Retarget, Retargeted, CreateAlias, transaction, Passes, UpdatesOwned,
         SavesRedirect
<1>4. UNCHANGED vars => UNCHANGED table
  BY Zenon DEF vars
<1>5. \/ UNCHANGED table
      \/ \E q \in Menu: SaveDocument(q) \/ SavePage(q)
      \/ \E d \in Docs: RemoveDocument(d)
  BY <1>1, <1>2, <1>3, <1>4, Zenon DEF Next, Proceeds
<1>6. QED
  BY <1>5, Zenon DEF SiteNext

\* Whatever saves overlap, fail or are taken apart, and whatever is deleted
\* between their steps, the content changes by one accepted save after the other:
\* the pipeline implements the site whose saves are single steps.
THEOREM SavesAreSerial == Spec => SiteSpec
<1> DEFINE Inv == RouteInv /\ ClashInv /\ Finite /\ SerialInv
<1>1. Init => Inv
  BY LocksInit, RowsInit, ClashInit, FiniteInit, SerialInit DEF RouteInv
<1>2. Inv /\ [Next]_vars => Inv'
  <2> SUFFICES ASSUME Inv, [Next]_vars PROVE Inv'
    OBVIOUS
  <2>1. RouteInv' /\ ClashInv' /\ Finite'
    BY ShapeNext, LocksNext, RowsNext, ClashNext, FiniteNext DEF RouteInv
  <2>2. IsTable(table)'
    BY <2>1 DEF RouteInv, RowsInv
  <2>3. SerialInv'
    BY <2>2, SerialNext DEF RouteInv, Finite
  <2>4. QED
    BY <2>1, <2>3
<1>3. Init => SiteInit
  BY DEF Init, SiteInit
<1>4. Inv /\ [Next]_vars => [SiteNext]_table
  BY SiteStep DEF RouteInv
<1> HIDE DEF Inv
<1>5. QED
  BY <1>1, <1>2, <1>3, <1>4, PTL DEF Spec, SiteSpec
=============================================================================
