----------------------------- MODULE RouteTable -----------------------------
(***************************************************************************)
(* The public URL space of the site and the rules that guard it at write    *)
(* time: taxonomy entities (a page at their slug and a generated Product    *)
(* Deal page named after them), the two standalone pages (Subscription and  *)
(* Join Telegram), the redirects evaluated before routing, and the jobs.    *)
(* A table is the committed content as one transaction sees it; the         *)
(* operators here are the validators, which read it and refuse a row.       *)
(***************************************************************************)
EXTENDS FiniteSets, Integers

CONSTANTS
  Entities, Kind,      \* entity documents, and store/brand/category/bank of each
  Redirects, Jobs,     \* redirect and job documents
  Pages, PageKind,     \* documents of the standalone pages, and which page it is
  Routes,              \* public routes, in the form requests are compared in
  Reserved,            \* routes of the pages built into the frontend
  Slugs, RouteOfSlug,  \* stored slugs, and the route of a slug for a kind
  Names, DealRoute,    \* names up to case and spaces; route of the deal page
  Paths, Fold,         \* spellings of a redirect's addresses, and their route
  External,            \* a redirect target on another site
  Templates, Default,  \* campaign templates, and the template that is none
  MaxHops,             \* REDIRECT_MAX_HOPS
  MaxActive,           \* ACTIVE_REDIRECT_LIMIT
  Absent, Nobody       \* no such document; a redirect no page manages

Docs == Entities \cup Redirects \cup Jobs \cup Pages

ASSUME KindsOfDocs ==
  /\ Entities \cap Redirects = {} /\ Entities \cap Jobs = {}
  /\ Entities \cap Pages = {}     /\ Redirects \cap Jobs = {}
  /\ Redirects \cap Pages = {}    /\ Jobs \cap Pages = {}
  /\ Nobody \notin Pages

EntityRow == [slug: Slugs, name: Names, template: Templates \cup {Default}]
RedirectRow == [from: Paths, to: Paths \cup {External}, active: BOOLEAN,
                managedBy: Pages \cup {Nobody}]
PageRow == [slug: Routes, enabled: BOOLEAN]
JobRow == [slug: Routes]

ASSUME AbsentIsNoRow ==
  Absent \notin EntityRow \cup RedirectRow \cup PageRow \cup JobRow

ASSUME ExternalIsNoPath == External \notin Paths
ASSUME LimitsAreNumbers == MaxHops \in Nat /\ MaxActive \in Nat

IsTable(t) ==
  /\ DOMAIN t = Docs
  /\ \A e \in Entities: t[e] \in EntityRow \cup {Absent}
  /\ \A r \in Redirects: t[r] \in RedirectRow \cup {Absent}
  /\ \A j \in Jobs: t[j] \in JobRow \cup {Absent}
  /\ \A p \in Pages: t[p] \in PageRow \cup {Absent}

(***************************************************************************)
(* What a row claims.                                                       *)
(***************************************************************************)
SlugRoute(e, row) == RouteOfSlug[Kind[e]][row.slug]
DealPage(row) == DealRoute[row.name]
Source(row) == Fold[row.from]
Goal(row) == IF row.to = External THEN External ELSE Fold[row.to]

EntitiesIn(t) == {e \in Entities: t[e] # Absent}
ActiveIn(t) == {r \in Redirects: t[r] # Absent /\ t[r].active}
PagesIn(t) == {p \in Pages: t[p] # Absent}

(***************************************************************************)
(* The queries of the validators.  "out" is the set of documents left out   *)
(* of the comparison: the row an update replaces.                           *)
(***************************************************************************)
SlugTaken(t, route, out) ==
  \E e \in EntitiesIn(t) \ out: SlugRoute(e, t[e]) = route

DealPageTaken(t, route, out) ==
  \E e \in EntitiesIn(t) \ out: DealPage(t[e]) = route

NameTaken(t, kind, name, out) ==
  \E e \in EntitiesIn(t) \ out: Kind[e] = kind /\ t[e].name = name

TemplateTaken(t, template, out) ==
  \E e \in EntitiesIn(t) \ out: t[e].template = template

RedirectedFrom(t, route) == \E r \in ActiveIn(t): Source(t[r]) = route

\* The validators read one document of a page, the first they find.  Should
\* there be two, they are sure to find the address only if both have it.
SurelyAt(t, p, routes) ==
  \A q \in PagesIn(t): PageKind[q] = PageKind[p] => t[q].slug \in routes

PageAt(t, routes) == \E p \in PagesIn(t): SurelyAt(t, p, routes)

LiveEntityAt(t, route) == SlugTaken(t, route, {}) \/ DealPageTaken(t, route, {})

(***************************************************************************)
(* validateIdentity, the entity half of validateSubscriptionRoutes and      *)
(* validateTelegramRoutes, and validateUniqueEntityPageTemplate.  "row" is  *)
(* the effective row (payload over stored row), "touched" the fields the    *)
(* payload carries, "stored" the row before the write or Absent, "whole"    *)
(* whether every field counts as changed (human write, create or clone).    *)
(***************************************************************************)
SlugChanged(e, row, touched, stored, whole) ==
  \/ whole
  \/ "slug" \in touched /\ SlugRoute(e, row) # SlugRoute(e, stored)

NameChanged(row, touched, stored, whole) ==
  \/ whole
  \/ "name" \in touched /\ row.name # stored.name

IdentityRefuses(t, e, row, slugChanged, nameChanged, out) ==
  LET slug == SlugRoute(e, row)
      deal == DealPage(row)
  IN \/ /\ slugChanged
        /\ \/ slug \in Reserved
           \/ SlugTaken(t, slug, out)
           \/ DealPageTaken(t, slug, out)
           \/ RedirectedFrom(t, slug)
     \/ nameChanged /\ NameTaken(t, Kind[e], row.name, out)
     \/ /\ slugChanged \/ nameChanged
        /\ \/ slug = deal
           \/ SlugTaken(t, deal, out)
           \/ DealPageTaken(t, deal, out)
           \/ RedirectedFrom(t, deal)

ReservedByPage(t, e, row, touched) ==
  /\ touched \cap {"slug", "name"} # {}
  /\ PageAt(t, {SlugRoute(e, row), DealPage(row)})

TemplateRefuses(t, row, touched, isClone, out) ==
  /\ isClone \/ "template" \in touched
  /\ row.template # Default
  /\ TemplateTaken(t, row.template, out)

EntityRefuses(t, e, row, touched, stored, whole, isClone, out) ==
  \/ IdentityRefuses(t, e, row, SlugChanged(e, row, touched, stored, whole),
                     NameChanged(row, touched, stored, whole), out)
  \/ ReservedByPage(t, e, row, touched)
  \/ TemplateRefuses(t, row, touched, isClone, out)

(***************************************************************************)
(* The graph of active redirects and validateRedirect.                      *)
(***************************************************************************)
\* A walk that never ends: the redirects it passes lead only to each other.
OnLoop(t, r) ==
  \E S \in SUBSET ActiveIn(t):
     r \in S /\ \A s \in S: \E n \in S: Source(t[n]) = Goal(t[s])

Walks(t, r, hops) ==
  {walk \in [1..hops -> ActiveIn(t)]:
     /\ walk[1] = r
     /\ \A i \in 2..hops: Source(t[walk[i]]) = Goal(t[walk[i - 1]])}

\* The walk counts a redirect when it looks at where it leads on this site, so
\* a last redirect that leaves the site is not counted.
TooLong(t, r) ==
  \E walk \in Walks(t, r, MaxHops + 1): Goal(t[walk[MaxHops + 1]]) # External

WalkRefuses(t, r) == OnLoop(t, r) \/ TooLong(t, r)

SameSource(t, r, row) == \E s \in ActiveIn(t) \ {r}: Source(t[s]) = Source(row)

FromChanged(row, touched, stored, whole) ==
  whole \/ ("from" \in touched /\ Source(row) # Source(stored))

ToChanged(row, touched, stored, whole) ==
  whole \/ ("to" \in touched /\ row.to # stored.to)

\* "isNew" is a create or a clone: it makes every field changed and, when the
\* row is active, it adds an active rule.
RedirectRefuses(t, r, row, touched, stored, isNew, strict) ==
  LET whole == isNew \/ strict
      fromChanged == FromChanged(row, touched, stored, whole)
      toChanged == ToChanged(row, touched, stored, whole)
      activated == row.active /\ (isNew \/ ("active" \in touched /\ ~stored.active))
      after == [t EXCEPT ![r] = row]
  IN /\ whole \/ touched \cap {"from", "to", "active"} # {}
     /\ \/ (fromChanged \/ toChanged) /\ Goal(row) = Source(row)
        \/ /\ row.active /\ (fromChanged \/ activated)
           /\ \/ Source(row) \in Reserved
              \/ LiveEntityAt(t, Source(row))
              \/ SameSource(t, r, row)
        \/ activated /\ Cardinality(ActiveIn(t)) >= MaxActive
        \/ /\ row.active /\ (fromChanged \/ toChanged \/ activated)
           /\ WalkRefuses(after, r)

\* The redirect half of validateSubscriptionRoutes and validateTelegramRoutes.
ShadowsPage(t, row, touched) ==
  /\ touched \cap {"from", "active"} # {}
  /\ row.active
  /\ PageAt(t, {Source(row)})

(***************************************************************************)
(* The page half of validateSubscriptionRoutes and validateTelegramRoutes,  *)
(* and validateJobSlug.                                                     *)
(***************************************************************************)
PagesOf(t, kind) == {p \in PagesIn(t): PageKind[p] = kind}

OtherPageAt(t, p, route) ==
  \E q \in PagesIn(t): PageKind[q] # PageKind[p] /\ SurelyAt(t, q, {route})

\* The page whose redirects may have the address a page is saved with: the
\* page itself, or at its first save the one found instead.
MayOwn(t, p, stored) ==
  IF stored # Absent \/ PagesOf(t, PageKind[p]) = {} THEN {p} ELSE PagesOf(t, PageKind[p])

\* An update that keeps its address passes, whichever document is found; should
\* it be the other one of two, the code checks the other's address again.
PageRefuses(t, p, row, touched, stored) ==
  \/ /\ stored = Absent \/ row.slug # stored.slug
     /\ \/ row.slug \in Reserved
        \/ OtherPageAt(t, p, row.slug)
        \/ LiveEntityAt(t, row.slug)
        \/ \A q \in MayOwn(t, p, stored):
             \E r \in ActiveIn(t): Source(t[r]) = row.slug /\ t[r].managedBy # q
  \/ /\ PageKind[p] = "subscription" /\ "slug" \in touched
     /\ OtherPageAt(t, p, row.slug)

JobRefuses(t, row, touched, isClone, out) ==
  /\ isClone \/ "slug" \in touched
  /\ \E j \in Jobs \ out: t[j] # Absent /\ t[j].slug = row.slug

(***************************************************************************)
(* canReactivateManagedRedirect, which may answer yes and is sure to.        *)
(***************************************************************************)
CanReactivate(t, row) ==
  ~LiveEntityAt(t, Source(row)) /\ ~PageAt(t, {Source(row)})

SurelyReactivates(t, row) ==
  ~LiveEntityAt(t, Source(row)) /\ \A p \in PagesIn(t): t[p].slug # Source(row)

(***************************************************************************)
(* What the rules are for.  Two documents clash when they claim one public  *)
(* address, one job address or one campaign page, or when a redirect fires  *)
(* before the page it shadows.                                              *)
(***************************************************************************)
Claims(t, d) ==
  IF d \in Entities THEN {SlugRoute(d, t[d]), DealPage(t[d])}
  ELSE IF d \in Redirects THEN {Source(t[d])}
  ELSE {t[d].slug}

Stands(t, d) == t[d] # Absent /\ (d \in Redirects => t[d].active)

InOneSpace(d, c) == d \in Jobs <=> c \in Jobs

Clash(t, d, c) ==
  /\ Stands(t, d) /\ Stands(t, c)
  /\ \/ d # c /\ InOneSpace(d, c) /\ Claims(t, d) \cap Claims(t, c) # {}
     \/ /\ d # c /\ d \in Entities /\ c \in Entities
        /\ \/ Kind[d] = Kind[c] /\ t[d].name = t[c].name
           \/ t[d].template # Default /\ t[d].template = t[c].template
     \/ d = c /\ d \in Entities /\ SlugRoute(d, t[d]) = DealPage(t[d])

\* The documents of a page of which there is another one.
Twins(P) == {p \in P: \E q \in P \ {p}: PageKind[q] = PageKind[p]}

Clashes(t) == {x \in Docs \X Docs: Clash(t, x[1], x[2])}

Loops(t) == {r \in ActiveIn(t): OnLoop(t, r)}
=============================================================================
