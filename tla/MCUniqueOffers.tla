--------------------------- MODULE MCUniqueOffers ---------------------------
(***************************************************************************)
(* The small instances of UniqueCoupon with the offers of their pool; no    *)
(* visitor carries an activation.                                           *)
(***************************************************************************)
EXTENDS MCUniqueCoupon, UniqueOffers

NoClicks == [r \in Requests |-> NoActivation]
=============================================================================
