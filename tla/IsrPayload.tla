----------------------------- MODULE IsrPayload -----------------------------
(***************************************************************************)
(* The invalidation payload of an ISR outbox row and the algebra the store  *)
(* computes with it: what a payload asks the gateway to regenerate, how two *)
(* payloads of one coalescing key merge, and how a payload that outgrows    *)
(* the queue limits widens to a full invalidation of its language.          *)
(*                                                                          *)
(* A page path is an abstract value and stands for the path under the       *)
(* payload's locale prefix.  Of the serialised payload's bytes each path    *)
(* and each offer counts one.  inventoryLocale (a hint to the gateway's     *)
(* inventory refresh) is left out.                                          *)
(***************************************************************************)
EXTENDS Integers, FiniteSets

CONSTANTS
    Paths,      \* every page path of the storefront
    Locales,    \* locale prefixes a payload may be constrained to
    NoLocale,   \* a payload without a locale prefix
    Tree,       \* Tree[l]: the pages a full invalidation of l covers
    Scopes,     \* refresh scopes (routes, chrome, sitemap, ...)
    Offers,     \* offers whose pages the gateway is to find out itself
    MaxPaths,   \* queue limit on the number of paths of one payload
    MaxBytes    \* queue limit on the size of one payload

ASSUME PathsAreFinite == IsFiniteSet(Paths) /\ IsFiniteSet(Offers)
ASSUME LocaleAssumption == NoLocale \notin Locales
ASSUME TreeAssumption == Tree \in [Locales \cup {NoLocale} -> SUBSET Paths]
ASSUME MaxPathsAssumption == MaxPaths \in Nat /\ MaxBytes \in Nat

Payload == [all      : BOOLEAN,
            manual   : BOOLEAN,
            locale   : Locales \cup {NoLocale},
            paths    : SUBSET Paths,
            optional : SUBSET Paths,
            scopes   : SUBSET Scopes,
            offers   : SUBSET Offers]  \* offerInvalidations

\* Paths the gateway must know; the absence of an optional one is convergence.
Required(pl) == pl.paths \ pl.optional

\* Every page the gateway regenerates when it takes the payload in.
Pages(pl) == pl.paths \cup (IF pl.all THEN Tree[pl.locale] ELSE {})

HasWork(pl) == pl.all \/ pl.paths # {} \/ pl.offers # {}

\* What parseIsrOutboxPayload accepts; anything else makes a row invalid.
Parses(pl) ==
    /\ pl \in Payload
    /\ HasWork(pl)
    /\ pl.optional \subseteq pl.paths

\* The paths lie below the payload's own prefix.
Local(pl) == pl.paths \subseteq Tree[pl.locale]

\* mergeOutboxPayloads throws unless both sides are one kind and one locale.
Mergeable(before, after) ==
    /\ before.manual = after.manual
    /\ before.locale = after.locale

\* Deviation: a path optional to either side becomes optional.
MergeOptionalWins(before, after) ==
    [all      |-> before.all \/ after.all,
     manual   |-> before.manual,
     locale   |-> before.locale,
     paths    |-> before.paths \cup after.paths,
     optional |-> before.optional \cup after.optional,
     scopes   |-> before.scopes \cup after.scopes,
     offers   |-> before.offers \cup after.offers]

\* Deviation: a union that becomes a full invalidation loses its locale.
MergeLosesLocale(before, after) ==
    LET all == before.all \/ after.all
    IN [all      |-> all,
        manual   |-> before.manual,
        locale   |-> IF all THEN NoLocale ELSE before.locale,
        paths    |-> before.paths \cup after.paths,
        optional |-> (before.optional \cup after.optional)
                       \ (Required(before) \cup Required(after)),
        scopes   |-> before.scopes \cup after.scopes,
        offers   |-> before.offers \cup after.offers]

\* Union of two payloads; a path stays optional only if nobody requires it.
Merge(before, after) ==
    [all      |-> before.all \/ after.all,
     manual   |-> before.manual,
     locale   |-> before.locale,
     paths    |-> before.paths \cup after.paths,
     optional |-> (before.optional \cup after.optional)
                    \ (Required(before) \cup Required(after)),
     scopes   |-> before.scopes \cup after.scopes,
     offers   |-> before.offers \cup after.offers]

Oversized(pl) == \/ Cardinality(pl.paths) > MaxPaths
                 \/ Cardinality(pl.paths) + Cardinality(pl.offers) > MaxBytes

\* The offers alone, which a full invalidation keeps, exceed the limit.
TooManyOffers(pl) == Cardinality(pl.offers) > MaxBytes

\* boundOutboxPayload throws for a manual page list that exceeds the limits, and if
\* the full invalidation still does.
CanBound(pl) == Oversized(pl) => (pl.manual => pl.all) /\ ~TooManyOffers(pl)

\* Deviation: widening keeps the optional paths it no longer lists.
BoundKeepingOptional(pl) ==
    IF Oversized(pl) THEN [pl EXCEPT !.all = TRUE, !.paths = {}] ELSE pl

\* An oversized payload becomes a full invalidation of its own locale.
Bound(pl) ==
    IF Oversized(pl)
    THEN [pl EXCEPT !.all = TRUE, !.paths = {}, !.optional = {}]
    ELSE pl
=============================================================================
