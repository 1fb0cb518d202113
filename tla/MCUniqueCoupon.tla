--------------------------- MODULE MCUniqueCoupon ---------------------------
(***************************************************************************)
(* Small instances of UniqueCoupon: one pool, twins of one activation and a *)
(* visitor without one.                                                     *)
(***************************************************************************)
EXTENDS UniqueCoupon, TLC

CONSTANTS pool1, c1, c2, twin1, twin2, other, click

Symmetry == Permutations(Codes) \cup Permutations({twin1, twin2})

OnePool == [c \in Codes |-> pool1]
OneTarget == [r \in Requests |-> pool1]
Clicks == [r \in Requests |-> IF r = other THEN NoActivation ELSE click]
=============================================================================
