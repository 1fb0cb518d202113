------------------------------- MODULE UrlSpace -------------------------------
(***************************************************************************)
(* What the document write pipeline promises: the content changes as if      *)
(* every save were one step, accepted by the validators against the content   *)
(* it changes.  A save of a standalone page takes its redirects along in       *)
(* the same step.  RouteWrites, which takes the saves apart, implements it.   *)
(***************************************************************************)
EXTENDS RouteTable

CONSTANTS
  Menu,           \* what editors, API clients and jobs may ask for
  PagePath,       \* the address a page at a route is redirected to and from
  LegacyTables    \* the content the migration may have left behind

VARIABLE table    \* the committed documents

RowsOf(d) ==
  IF d \in Entities THEN EntityRow
  ELSE IF d \in Redirects THEN RedirectRow
  ELSE IF d \in Jobs THEN JobRow
  ELSE PageRow

Merge(stored, data) ==
  [f \in DOMAIN stored |-> IF f \in DOMAIN data THEN data[f] ELSE stored[f]]

\* "source" is the document an update or a delete is about or a clone copies,
\* Absent for a create; "doc" the document written; "data" the payload, whose
\* fields make a row whatever row they are merged over; "human" a write of an
\* HTTP request.
IsRequest(q) ==
  /\ q.act \in {"create", "clone", "update", "delete"}
  /\ q.doc \in Docs /\ q.human \in BOOLEAN
  /\ q.act = "create" => q.source = Absent /\ q.data \in RowsOf(q.doc)
  /\ q.act = "clone" => q.source \in Docs /\ q.doc \notin Pages
                          /\ RowsOf(q.source) = RowsOf(q.doc)
  /\ q.act = "update" => q.source = q.doc
  /\ q.act = "delete" => q.source = q.doc /\ q.doc \in Pages
  /\ \A row \in RowsOf(q.doc): Merge(row, q.data) \in RowsOf(q.doc)

ASSUME MenuIsRequests == \A q \in Menu: IsRequest(q)
ASSUME PathsOfPages ==
  \A route \in Routes: PagePath[route] \in Paths /\ Fold[PagePath[route]] = route

\* The migration fills entities and jobs by SQL, past every validator; pages
\* and redirects are made by editors.
ASSUME LegacyIsContent ==
  \A t \in LegacyTables:
    IsTable(t) /\ \A d \in Redirects \cup Pages: t[d] = Absent

(***************************************************************************)
(* The validators of the locked phase.                                      *)
(***************************************************************************)
RowOf(q, stored) == IF q.act = "create" THEN q.data ELSE Merge(stored, q.data)

EffectiveRow(t, q) == IF q.act = "create" THEN q.data ELSE Merge(t[q.source], q.data)

StoredRow(t, q) == IF q.act = "create" THEN Absent ELSE t[q.source]

\* The rows a uniqueness check leaves out: the one an update replaces.
LeftOut(q) == IF q.act = "update" THEN {q.doc} ELSE {}

Refuses(t, q, row, stored) ==
  LET touched == DOMAIN q.data
      isNew == q.act # "update"
      isClone == q.act = "clone"
  IN CASE q.doc \in Entities ->
            EntityRefuses(t, q.doc, row, touched, stored, isNew \/ q.human, isClone,
                          LeftOut(q))
       [] q.doc \in Redirects ->
            \/ RedirectRefuses(t, q.doc, row, touched, stored, isNew, q.human)
            \/ ShadowsPage(t, row, touched)
       [] q.doc \in Jobs -> JobRefuses(t, row, touched, isClone, LeftOut(q))
       [] OTHER -> PageRefuses(t, q.doc, row, touched, stored)

Refused(t, q) == Refuses(t, q, EffectiveRow(t, q), StoredRow(t, q))

\* A document id is new: no document has it, and none names it.
IsFresh(t, d) ==
  /\ t[d] = Absent
  /\ d \in Pages => \A r \in Redirects: t[r] # Absent => t[r].managedBy # d

(***************************************************************************)
(* A document saved at once.  "stored" is the row an update or a clone goes  *)
(* out from: the document a clone copies may be deleted before the copy is    *)
(* committed, but it is not another document meanwhile.                      *)
(***************************************************************************)
Originals(q) ==
  IF q.act = "create" THEN {Absent}
  ELSE IF table[q.source] # Absent THEN {table[q.source]}
  ELSE IF q.act = "clone" THEN RowsOf(q.doc) ELSE {}

Accepts(q, stored) ==
  /\ q.act # "update" => IsFresh(table, q.doc)
  /\ ~Refuses(table, q, RowOf(q, stored), stored)

\* Only the documents in S may change.
OnlyChanges(S) == DOMAIN table' = Docs /\ \A d \in Docs \ S: table'[d] = table[d]

SaveDocument(q) ==
  /\ q.doc \notin Pages /\ OnlyChanges({q.doc})
  /\ \E stored \in Originals(q):
       table'[q.doc] = RowOf(q, stored) /\ Accepts(q, stored)

(***************************************************************************)
(* A standalone page saved at once, with the redirects it manages.           *)
(***************************************************************************)
Retires(row) == Merge(row, [active |-> FALSE])
Retargets(row, path) == Merge(row, [to |-> path, active |-> TRUE])

Public(page) == page # Absent /\ page.enabled

\* What becomes of a redirect the page manages: it leads to the page, unless
\* it would lead to itself or the page is not public.
TakenAlong(old, page) ==
  IF Public(page) /\ old.from # PagePath[page.slug]
    THEN Retargets(old, PagePath[page.slug])
    ELSE Retires(old)

\* One that is active stays as it is only if the page does or it leads there
\* already; the address of an inactive one may be in use.
MayStay(p, page, old) ==
  old # Absent /\ old.managedBy = p /\ old.active =>
    page = table[p] \/ (Public(page) /\ old.to = PagePath[page.slug])

IsAlias(p, page, row) ==
  /\ Public(table[p]) /\ Public(page) /\ table[p].slug # page.slug
  /\ row = [from |-> PagePath[table[p].slug], to |-> PagePath[page.slug],
            active |-> TRUE, managedBy |-> p]

MayBecome(p, page, old, row) ==
  \/ row = old /\ MayStay(p, page, old)
  \/ old # Absent /\ old.managedBy = p /\ page # table[p] /\ row = TakenAlong(old, page)
  \/ old = Absent /\ IsAlias(p, page, row)

\* Of two documents of one page, the redirects follow the one that is found.
SavePage(q) ==
  LET p == q.doc
      page == table'[p]
      alone == p \notin Twins(PagesIn(table) \cup PagesIn(table'))
  IN /\ p \in Pages
     /\ OnlyChanges(Redirects \cup {p})
     /\ alone => \A r \in Redirects: MayBecome(p, page, table[r], table'[r])
     /\ IF q.act = "delete" THEN table[p] # Absent /\ page = Absent
        ELSE \E stored \in Originals(q): page = RowOf(q, stored) /\ Accepts(q, stored)

RemoveDocument(d) ==
  /\ d \notin Pages /\ table[d] # Absent
  /\ OnlyChanges({d}) /\ table'[d] = Absent

SiteInit == table \in LegacyTables

SiteNext ==
  /\ table' # table
  /\ \/ \E d \in Docs: RemoveDocument(d)
     \/ \E q \in Menu: SaveDocument(q) \/ SavePage(q)

\* Saves that overlap leave the content as if they had been made one after
\* the other, each accepted against the content it changed: nothing a save
\* was validated against is gone when it commits, and a page and the
\* redirects it manages change together (document-write-middleware.ts:93).
SiteSpec == SiteInit /\ [][SiteNext]_table
=============================================================================
