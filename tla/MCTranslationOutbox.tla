------------------------ MODULE MCTranslationOutbox ------------------------
(***************************************************************************)
(* A small instance of TranslationOutbox: a coupon requires its store, the  *)
(* store curates the coupon.                                                *)
(***************************************************************************)
EXTENDS TranslationOutbox

CONSTANTS store, coupon

MCRequires == [d \in Docs |-> IF d = coupon THEN {store} ELSE {}]
MCCurates == [d \in Docs |-> IF d = store THEN {coupon} ELSE {}]

Act(act, doc, text) == [act |-> act, doc |-> doc, text |-> text]

\* Nothing is translated: the coupon waits for its store, the store for its
\* coupon.
Cold == [done |-> {}, acts |-> {Act("save", store, 2), Act("save", coupon, 1)}]

\* The store is translated: its text changes beside sweeps, a hand-written
\* translation and a coupon that comes or goes.
Warm == [done |-> {store}, acts |-> {Act("save", store, 2), Act("nightly", store, 1),
                                     Act("human", store, 1), Act("force", coupon, 1),
                                     Act("delete", coupon, 1)}]

\* Both are: the store's text changes and is taken back, or the store goes.
Full == [done |-> {store, coupon}, acts |-> {Act("save", store, 1), Act("save", store, 2),
                                             Act("delete", store, 1),
                                             Act("backfill", coupon, 1)}]

MCScenarios == {Cold, Warm, Full}
=============================================================================
