---------------------------- MODULE MCRouteWrites ---------------------------
(***************************************************************************)
(* A small site: a store and a bank, two redirects, the two standalone     *)
(* pages, two jobs, and two concurrent saves of anything on the menu.        *)
(***************************************************************************)
EXTENDS RouteWrites, TLC

CONSTANTS store1, bank1, r1, r2, telegram1, telegram2, subscription1, job1, job2, w1, w2

Symmetry == Permutations(Writers) \cup Permutations(Redirects)

KindOf == store1 :> "store" @@ bank1 :> "bank"
PageKinds ==
  telegram1 :> "telegram" @@ telegram2 :> "telegram" @@ subscription1 :> "subscription"

\* Routes: "a" and "b" free to all, "d" the deal page of the name "n", "s" the
\* search page.  A store's slug may carry its namespace.
SlugRoutes ==
  [k \in {"store", "bank"} |->
     "a" :> "a" @@ "b" :> "b" @@ "d" :> "d" @@
     "stores/a" :> (IF k = "store" THEN "a" ELSE "stores/a")]
DealPages == "n" :> "d" @@ "m" :> "e"
AllPaths == {"/" \o r: r \in Routes} \cup {"/A"}
Folded ==
  [p \in AllPaths |-> IF p = "/A" THEN "a" ELSE CHOOSE r \in Routes: p = "/" \o r]
PagePaths == [r \in Routes |-> "/" \o r]

Create(d, data) == [act |-> "create", doc |-> d, source |-> Absent, data |-> data, human |-> TRUE]
Update(d, data, human) == [act |-> "update", doc |-> d, source |-> d, data |-> data, human |-> human]
Clone(d, s, data) == [act |-> "clone", doc |-> d, source |-> s, data |-> data, human |-> TRUE]
Remove(d) == [act |-> "delete", doc |-> d, source |-> d, data |-> << >>, human |-> TRUE]

Entity(slug, name, template) == [slug |-> slug, name |-> name, template |-> template]
Rule(from, to) == [from |-> from, to |-> to, active |-> TRUE, managedBy |-> Nobody]
Singleton(slug, enabled) == [slug |-> slug, enabled |-> enabled]

NoContent == [d \in Docs |-> Absent]

\* Two entities at one address, as the migration may leave them.
Clashing ==
  (store1 :> Entity("stores/a", "n", Default) @@ bank1 :> Entity("a", "m", Default))
    @@ NoContent

Contents == {NoContent, Clashing}

EntityRequests ==
  {Create(store1, Entity("b", "n", "dealTemplate")),
   Update(store1, [name |-> "n", slug |-> "b"], TRUE),
   Update(bank1, [template |-> "dealTemplate"], FALSE)}

RedirectRequests ==
  UNION {{Create(r, Rule("/A", "/b")), Create(r, Rule("/b", "/A")),
          Update(r, [active |-> FALSE], TRUE), Update(r, [active |-> TRUE], FALSE)}:
         r \in Redirects}
  \cup {Clone(x[1], x[2], [active |-> TRUE]): x \in {y \in Redirects \X Redirects: y[1] # y[2]}}

PageRequests ==
  {Create(telegram1, Singleton("a", TRUE)), Update(telegram1, [slug |-> "b"], TRUE),
   Update(telegram1, [slug |-> "a"], TRUE), Update(telegram1, [enabled |-> FALSE], TRUE),
   Update(telegram1, [enabled |-> TRUE], TRUE), Remove(telegram1),
   Create(telegram2, Singleton("b", TRUE)), Create(subscription1, Singleton("b", TRUE))}

JobRequests == {Create(job1, [slug |-> "a"]), Clone(job2, job1, << >>)}

Requests == EntityRequests \cup RedirectRequests \cup PageRequests \cup JobRequests

\* At most this many documents at once, and jobs, which share no lock and no
\* address with the rest, on an otherwise empty site.
MaxDocs == 3
Live == {d \in Docs: table[d] # Absent}
FewDocuments == Cardinality(Live) <= MaxDocs /\ (Live \cap Jobs # {} => Live \subseteq Jobs)
=============================================================================
