---------------------------- MODULE MCIsrOutbox ----------------------------
(***************************************************************************)
(* Small instances of IsrOutbox.                                           *)
(***************************************************************************)
EXTENDS IsrOutbox, TLC

CONSTANTS o1, o2, home, offer, arabicHome, arabicOffer, ar, routesScope,
          translationKey, manualKey

Symmetry == Permutations(Ids) \cup Permutations(Workers) \cup Permutations(Offers)

Plain(key, reason, locale, paths, scopes) ==
    [key |-> key, reason |-> reason,
     payload |-> [all |-> FALSE, manual |-> reason = "manual", locale |-> locale,
                  paths |-> paths, optional |-> {}, scopes |-> scopes, offers |-> {}]]

\* The same write with pages whose absence is convergence.
Optionally(paths, write) == [write EXCEPT !.payload.optional = paths]

\* The same write with offers for the gateway to look up.
Offering(offers, write) == [write EXCEPT !.payload.offers = offers]

\* The writes of a set that stay within the instance's pages.
Within(writes) ==
    {w \in writes : w.payload.paths \subseteq Paths /\ w.payload.offers \subseteq Offers}

MCTree == [l \in Locales \cup {NoLocale} |->
              IF l = ar THEN Paths \cap {arabicHome, arabicOffer} ELSE Paths]

\* A translation wave in one language: writes share one coalescing key; a page is
\* required by one and optional to another, one lists more pages than the limit, and
\* two name an offer whose pages the gateway is to find.
TranslationWrites ==
    LET wave(paths) == Plain(translationKey, "write", ar, paths, {})
    IN Within({wave({arabicHome}), Optionally({arabicHome}, wave({arabicHome})),
               wave({arabicHome, arabicOffer}),
               Offering({o1}, wave({})), Offering({o2}, wave({}))})

\* An offer is saved or deleted, each write a row of its own, beside the debounced
\* translation wave of one language and manual refreshes of one page.
MixedWrites == {Plain(NoKey, "write", NoLocale, {offer}, {routesScope}),
                Plain(NoKey, "delete", NoLocale, {offer}, {routesScope}),
                Plain(translationKey, "write", ar, {arabicHome}, {}),
                Plain(manualKey, "manual", NoLocale, {offer}, {})}
=============================================================================
