----------------------------- MODULE RouteWrites ----------------------------
(***************************************************************************)
(* The document write pipeline over the route table: every save takes the   *)
(* advisory locks of its domain inside the content transaction, validates   *)
(* against what is committed, writes, and commits.  Saving a standalone      *)
(* page also rewrites the redirects it manages, each of them a document      *)
(* write of its own nested in the same transaction.  What a transaction      *)
(* wrote stays with it until it commits (READ COMMITTED).                    *)
(***************************************************************************)
EXTENDS UrlSpace, Sequences

CONSTANTS
  Writers,        \* concurrent saves
  Free,           \* an advisory lock nobody holds
  NoRequest       \* a save of nothing

VARIABLES
  locks,          \* the holder of each advisory lock domain
  pc,             \* where each save stands
  req,            \* what it was asked
  takes,          \* the advisory locks it has yet to take
  wrote,          \* the rows it wrote and did not commit yet
  before, after,  \* the page it saves, as it found it before and after it wrote
  owner,          \* the document of that page
  owned,          \* the redirects of that page, as it found them
  todo,           \* those it has yet to look at
  twinned         \* history: the pages that were committed beside another
                  \* document of theirs

transaction == <<req, takes, wrote, before, after, owner, owned, todo>>
vars == <<table, twinned, locks, pc, transaction>>

Domains == {"identity", "redirect", "job"}
NoRows == [d \in {} |-> Absent]

ASSUME FreeIsNoWriter == Free \notin Writers

Init ==
  /\ table \in LegacyTables
  /\ locks = [d \in Domains |-> Free]
  /\ pc = [w \in Writers |-> "idle"]
  /\ req = [w \in Writers |-> NoRequest]
  /\ takes = [w \in Writers |-> << >>]
  /\ wrote = [w \in Writers |-> NoRows]
  /\ before = [w \in Writers |-> Absent]
  /\ after = [w \in Writers |-> Absent]
  /\ owner = [w \in Writers |-> Nobody]
  /\ owned = [w \in Writers |-> NoRows]
  /\ todo = [w \in Writers |-> {}]
  /\ twinned = {}

\* The content as the transaction of w sees it.
View(w) == [d \in Docs |-> IF d \in DOMAIN wrote[w] THEN wrote[w][d] ELSE table[d]]

Wrote(w, d, row) ==
  wrote' = [wrote EXCEPT ![w] =
    [c \in DOMAIN wrote[w] \cup {d} |-> IF c = d THEN row ELSE wrote[w][c]]]

Goes(w, where) == pc' = [pc EXCEPT ![w] = where]

(***************************************************************************)
(* The save begins and takes the advisory locks of its domain, identity      *)
(* before redirect.  They are held to the end of the transaction; a wait      *)
(* beyond lock_timeout ends in Abort.                                        *)
(***************************************************************************)
\* Deviation: a redirect is saved under the redirect lock alone.
RedirectLockAlone(doc) ==
  IF doc \in Redirects THEN <<"redirect">>
  ELSE IF doc \in Jobs THEN <<"job">>
  ELSE <<"identity">>

\* Deviation: the redirect lock before the identity lock.
RedirectLockFirst(doc) ==
  IF doc \in Redirects THEN <<"redirect", "identity">>
  ELSE IF doc \in Jobs THEN <<"job">>
  ELSE <<"identity">>

LocksOf(doc) ==
  IF doc \in Redirects THEN <<"identity", "redirect">>
  ELSE IF doc \in Jobs THEN <<"job">>
  ELSE <<"identity">>

\* A page is created when there is none.  Single types are looked up before
\* they are created or updated, and before any lock is taken, so two first
\* saves at once leave two documents of a page.
IsAsked(q) ==
  q.act = "create" /\ q.doc \in Pages => PagesOf(table, PageKind[q.doc]) = {}

Begin(w) ==
  /\ pc[w] = "idle"
  /\ \E q \in Menu:
       /\ IsAsked(q)
       /\ req' = [req EXCEPT ![w] = q]
       /\ takes' = [takes EXCEPT ![w] = LocksOf(q.doc)]
  /\ Goes(w, "lock")
  /\ UNCHANGED <<table, twinned, locks, wrote, before, after, owner, owned, todo>>

\* Deviation: a lock that cannot be had is done without.
TakeLockOrProceed(w) ==
  /\ pc[w] = "lock"
  /\ locks' = [locks EXCEPT ![Head(takes[w])] = IF @ = Free THEN w ELSE @]
  /\ takes' = [takes EXCEPT ![w] = Tail(takes[w])]
  /\ Goes(w, IF Tail(takes[w]) = << >> THEN "validate" ELSE "lock")
  /\ UNCHANGED <<table, twinned, req, wrote, before, after, owner, owned, todo>>

TakeLock(w) ==
  /\ pc[w] = "lock"
  /\ locks[Head(takes[w])] = Free
  /\ locks' = [locks EXCEPT ![Head(takes[w])] = w]
  /\ takes' = [takes EXCEPT ![w] = Tail(takes[w])]
  /\ Goes(w, IF Tail(takes[w]) = << >> THEN "validate" ELSE "lock")
  /\ UNCHANGED <<table, twinned, req, wrote, before, after, owner, owned, todo>>

(***************************************************************************)
(* The validators of the locked phase.                                      *)
(***************************************************************************)
SourceStands(q) == q.act # "create" => table[q.source] # Absent

Validate(w) ==
  /\ pc[w] = "validate"
  /\ SourceStands(req[w])
  /\ req[w].act \in {"create", "clone"} => IsFresh(table, req[w].doc)
  /\ req[w].act = "delete" \/ ~Refused(table, req[w])
  /\ Goes(w, "write")
  /\ UNCHANGED <<table, twinned, locks, transaction>>

(***************************************************************************)
(* The content write.  A document deleted since it was validated is not      *)
(* written: the save ends as one that changed nothing (Abort).               *)
(***************************************************************************)
Page(w) == req[w].doc

Result(w) ==
  IF req[w].act = "delete" THEN Absent ELSE EffectiveRow(table, req[w])

\* The document found for a page: any of it, or the one that is deleted.
Found(t, d) ==
  IF d \in Pages /\ PagesOf(t, PageKind[d]) # {} THEN PagesOf(t, PageKind[d]) ELSE {d}

Write(w) ==
  /\ pc[w] = "write"
  /\ SourceStands(req[w])
  /\ \E b \in Found(table, Page(w)): before' = [before EXCEPT ![w] = table[b]]
  /\ LET new == [table EXCEPT ![Page(w)] = Result(w)]
     IN \E p \in Found(new, Page(w)):
          /\ after' = [after EXCEPT ![w] = new[p]]
          /\ owner' = [owner EXCEPT ![w] = p]
  /\ Wrote(w, Page(w), Result(w))
  /\ Goes(w, IF Page(w) \in Pages THEN "sync" ELSE "commit")
  /\ UNCHANGED <<table, twinned, locks, req, takes, owned, todo>>

(***************************************************************************)
(* syncSubscriptionRedirects and syncTelegramRedirects.                      *)
(***************************************************************************)
Leads(w) == after[w] # Absent /\ after[w].enabled
NewPath(w) == PagePath[after[w].slug]
OldPath(w) == PagePath[before[w].slug]

OwnedBy(t, p) == {r \in Redirects: t[r] # Absent /\ t[r].managedBy = p}

\* Deviation: only a change of address is looked at, not of visibility.
NothingMoved(w) ==
  LET PathOf(row) == IF row = Absent THEN Absent ELSE PagePath[row.slug]
  IN PathOf(before[w]) = PathOf(after[w])

PageIsAsBefore(w) == before[w] = after[w]

PageUnchanged(w) ==
  /\ pc[w] = "sync"
  /\ PageIsAsBefore(w)
  /\ Goes(w, "commit")
  /\ UNCHANGED <<table, twinned, locks, transaction>>

ReadOwned(w) ==
  /\ pc[w] = "sync"
  /\ ~PageIsAsBefore(w)
  /\ owned' = [owned EXCEPT ![w] = [r \in OwnedBy(View(w), owner[w]) |-> View(w)[r]]]
  /\ todo' = [todo EXCEPT ![w] =
       {r \in OwnedBy(View(w), owner[w]): Leads(w) => View(w)[r].from = NewPath(w)}]
  /\ Goes(w, "retire")
  /\ UNCHANGED <<table, twinned, locks, req, takes, wrote, before, after, owner>>

\* A redirect saved inside the page's transaction, with the locks and the
\* validators of any redirect.
SavesRedirect(w, r, row, touched, stored, isNew) ==
  /\ locks["redirect"] \in {Free, w}
  /\ locks' = [locks EXCEPT !["redirect"] = w]
  /\ ~RedirectRefuses(View(w), r, row, touched, stored, isNew, req[w].human)
  /\ ~ShadowsPage(View(w), row, touched)
  /\ Wrote(w, r, row)
  /\ UNCHANGED <<table, twinned, req, takes, before, after, owner, owned>>

\* Deviation: the row the page's save read is written back, deleted or not.
RestoresOwned(w, r, data) ==
  SavesRedirect(w, r, Merge(owned[w][r], data), DOMAIN data, owned[w][r], FALSE)

\* An update of one of the page's redirects, which finds it deleted or not.
UpdatesOwned(w, r, data) ==
  /\ View(w)[r] # Absent
  /\ SavesRedirect(w, r, Merge(View(w)[r], data), DOMAIN data, View(w)[r], FALSE)

Passes(w) == UNCHANGED <<table, twinned, locks, req, takes, wrote, before, after, owner, owned>>

Retire(w) ==
  /\ pc[w] = "retire"
  /\ \E r \in todo[w]:
       /\ \/ UpdatesOwned(w, r, [active |-> FALSE])
          \/ View(w)[r] = Absent /\ Passes(w)
       /\ todo' = [todo EXCEPT ![w] = todo[w] \ {r}]
  /\ UNCHANGED pc

Retired(w) ==
  /\ pc[w] = "retire" /\ todo[w] = {}
  /\ IF Leads(w)
       THEN /\ Goes(w, "retarget")
            /\ todo' = [todo EXCEPT ![w] =
                 {r \in DOMAIN owned[w]: owned[w][r].from # NewPath(w)}]
       ELSE Goes(w, "commit") /\ UNCHANGED todo
  /\ Passes(w)

MayLead(w, r) == owned[w][r].active \/ CanReactivate(View(w), owned[w][r])
MayPass(w, r) ==
  \/ View(w)[r] = Absent
  \/ ~owned[w][r].active /\ ~SurelyReactivates(View(w), owned[w][r])

Retarget(w) ==
  /\ pc[w] = "retarget"
  /\ \E r \in todo[w]:
       /\ \/ MayLead(w, r) /\ UpdatesOwned(w, r, [to |-> NewPath(w), active |-> TRUE])
          \/ MayPass(w, r) /\ Passes(w)
       /\ todo' = [todo EXCEPT ![w] = todo[w] \ {r}]
  /\ UNCHANGED pc

\* The old address of a page renamed while it was public, unless a redirect
\* of the page has it already.
NeedsAlias(w) ==
  /\ before[w] # Absent /\ before[w].enabled
  /\ before[w].slug # after[w].slug
  /\ \A r \in DOMAIN owned[w]: owned[w][r].from # OldPath(w)

Retargeted(w) ==
  /\ pc[w] = "retarget" /\ todo[w] = {}
  /\ Goes(w, IF NeedsAlias(w) THEN "alias" ELSE "commit")
  /\ UNCHANGED <<table, twinned, locks, transaction>>

AliasRow(w) ==
  [from |-> OldPath(w), to |-> NewPath(w), active |-> TRUE, managedBy |-> owner[w]]

CreateAlias(w) ==
  /\ pc[w] = "alias"
  /\ \E r \in Redirects:
       /\ View(w)[r] = Absent
       /\ SavesRedirect(w, r, AliasRow(w), DOMAIN AliasRow(w), Absent, TRUE)
  /\ Goes(w, "commit")
  /\ UNCHANGED todo

(***************************************************************************)
(* The end of a transaction.  Abort stands for a refused save, a lock wait   *)
(* timed out, a failed statement and a crash: all of them roll back.         *)
(***************************************************************************)
Ends(w) ==
  /\ locks' = [d \in Domains |-> IF locks[d] = w THEN Free ELSE locks[d]]
  /\ Goes(w, "idle")
  /\ req' = [req EXCEPT ![w] = NoRequest]
  /\ takes' = [takes EXCEPT ![w] = << >>]
  /\ wrote' = [wrote EXCEPT ![w] = NoRows]
  /\ before' = [before EXCEPT ![w] = Absent]
  /\ after' = [after EXCEPT ![w] = Absent]
  /\ owner' = [owner EXCEPT ![w] = Nobody]
  /\ owned' = [owned EXCEPT ![w] = NoRows]
  /\ todo' = [todo EXCEPT ![w] = {}]

Commit(w) ==
  /\ pc[w] = "commit"
  /\ table' = View(w)
  /\ twinned' = twinned \cup Twins(PagesIn(View(w)))
  /\ Ends(w)

Abort(w) ==
  /\ pc[w] # "idle"
  /\ Ends(w)
  /\ UNCHANGED <<table, twinned>>

\* Deleting an entity, a redirect or a job takes no advisory lock; it waits
\* only for a transaction that wrote the row.
Delete(d) ==
  /\ d \notin Pages /\ table[d] # Absent
  /\ \A w \in Writers: d \notin DOMAIN wrote[w]
  /\ table' = [table EXCEPT ![d] = Absent]
  /\ UNCHANGED <<twinned, locks, pc, transaction>>

Next ==
  \/ \E w \in Writers:
       \/ Begin(w) \/ TakeLock(w) \/ Validate(w) \/ Write(w)
       \/ PageUnchanged(w) \/ ReadOwned(w) \/ Retire(w) \/ Retired(w)
       \/ Retarget(w) \/ Retargeted(w) \/ CreateAlias(w)
       \/ Commit(w) \/ Abort(w)
  \/ \E d \in Docs: Delete(d)

Spec == Init /\ [][Next]_vars

(***************************************************************************)
(* Properties.                                                              *)
(***************************************************************************)
\* The committed documents have the shapes their schemas allow.
TypeOK == IsTable(table)

\* No save, however it interleaves with the others, adds a clash: two live
\* pages at one address, a redirect that fires before a page, two names,
\* campaign owners or job addresses alike.  Legacy clashes may remain; with
\* none to begin with there never is one (document-write-middleware.ts:93).
\* A page of which there are two documents is left out: the validators look
\* at one of them.
Excused == Twins(PagesIn(table) \cup PagesIn(table'))

NoNewClash ==
  [][\A x \in Clashes(table') \ Clashes(table): {x[1], x[2]} \cap Excused # {}]_table

\* The active redirects never lead around in a circle, across any number of
\* rows and editors, page renames included (redirect-validation.ts:42).
NoRedirectLoop == Loops(table) = {}

\* Once a page is saved with another address or visibility, none of its
\* redirects is active unless it leads to the page's public address, and the
\* address it was renamed from leads there, unless the redirect that was to
\* do it was deleted meanwhile (telegram-write.ts:9).  A page that never had
\* a second document, that is: the save follows whichever it finds; and one
\* that had may still be at the old address.
LeadsHome(t, r, p) == t[p] # Absent /\ t[p].enabled /\ Goal(t[r]) = t[p].slug

Forwarded(t, route, p) ==
  \E r \in OwnedBy(t, p) \cap ActiveIn(t): Source(t[r]) = route /\ LeadsHome(t, r, p)

RenamedInPublic(w) ==
  before[w] # Absent /\ before[w].enabled /\ Leads(w) /\ before[w].slug # after[w].slug

PageFollowed(w) ==
  Commit(w) /\ Page(w) \in Pages \ twinned' /\ before[w] # after[w] =>
    /\ \A r \in OwnedBy(table', Page(w)) \cap ActiveIn(table'):
         LeadsHome(table', r, Page(w))
    /\ RenamedInPublic(w) =>
         \/ Forwarded(table', before[w].slug, Page(w))
         \/ \E r \in DOMAIN owned[w]: owned[w][r].from = OldPath(w) /\ table'[r] = Absent
         \/ \E q \in PagesIn(table') \cap twinned: table'[q].slug = before[w].slug

AliasesFollowThePage == [][\A w \in Writers: PageFollowed(w)]_table

\* No circle of saves wait on each other's advisory locks: the nested saves
\* of a page take the redirect lock after the identity lock, as redirect
\* saves do (run.ts:139).
Wanted(w) ==
  IF pc[w] = "lock" THEN {Head(takes[w])}
  ELSE IF pc[w] \in {"retire", "retarget", "alias"} THEN {"redirect"} ELSE {}

WaitsOn(w, v) == w # v /\ \E d \in Wanted(w): locks[d] = v

NoLockCycle ==
  ~\E S \in SUBSET Writers: S # {} /\ \A w \in S: \E v \in S: WaitsOn(w, v)
=============================================================================
