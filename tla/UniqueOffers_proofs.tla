------------------------ MODULE UniqueOffers_proofs ------------------------
(***************************************************************************)
(* Proofs about UniqueOffers: the offers' savers only read the pools, so    *)
(* what is proved of the pools holds beside any number of saves.            *)
(***************************************************************************)
EXTENDS UniqueOffers, UniqueCoupon_proofs

OfferInv == offer \in [Pools -> Offer]

\* A save moves to another place, and may store a status.
LEMMA SavePlace ==
  ASSUME OfferInv, NEW p \in Pools, NEW s \in Savers, NEW where \in Saves,
         SaveAt(p, s, where)
  PROVE  OfferInv'
<1> DEFINE o == [offer[p] EXCEPT !.save[s] = where]
<1>1. offer[p] \in Offer /\ offer[p].save \in [Savers -> Saves]
  BY DEF OfferInv, Offer
<1>2. [offer[p].save EXCEPT ![s] = where] \in [Savers -> Saves]
  BY <1>1
<1>3. o = [offer[p] EXCEPT !.save = [@ EXCEPT ![s] = where]]
  BY Zenon
<1>4. o \in Offer
  BY <1>1, <1>2, <1>3, Zenon DEF Offer
<1>5. offer' = [offer EXCEPT ![p] = o]
  BY Zenon DEF SaveAt
<1> HIDE DEF o
<1> QED
  BY <1>4, <1>5 DEF OfferInv

LEMMA SaveStored ==
  ASSUME OfferInv, NEW p \in Pools, NEW s \in Savers, SaveCommits(p, s)
  PROVE  OfferInv'
<1> DEFINE b == offer[p].save[s] = "exhausted"
           o == [offer[p] EXCEPT !.expired = b, !.save[s] = "none"]
<1>1. offer[p] \in Offer /\ offer[p].save \in [Savers -> Saves] /\ b \in BOOLEAN
  BY DEF OfferInv, Offer
<1>2. [offer[p].save EXCEPT ![s] = "none"] \in [Savers -> Saves]
  BY <1>1 DEF Saves
<1>3. offer' = [offer EXCEPT ![p] = o]
  BY Zenon DEF SaveCommits
<1> HIDE DEF b
<1>4. o = [offer[p] EXCEPT !.expired = b, !.save = [@ EXCEPT ![s] = "none"]]
  BY Zenon
<1>5. o \in Offer
  BY <1>1, <1>2, <1>4, Zenon DEF Offer
<1> HIDE DEF o
<1> QED
  BY <1>3, <1>5 DEF OfferInv

\* Every step of the whole is a step of the pools or leaves them alone.
LEMMA PoolsStep == [OffersNext]_offersVars => [Next]_vars
  BY DEF OffersNext, SchedulerSelects, BeginSave, SaveCommits, SaveFails, offersVars

LEMMA OffersStep ==
  ASSUME OfferInv, [OffersNext]_offersVars
  PROVE  OfferInv'
<1>1. CASE offer' = offer
  BY <1>1 DEF OfferInv
<1>2. ASSUME NEW p \in Pools, SchedulerSelects(p) PROVE OfferInv'
  <2>1. "scheduler" \in Savers /\ "selected" \in Saves
    BY DEF Savers, Saves
  <2> QED
    BY <1>2, <2>1, SavePlace DEF SchedulerSelects
<1>3. ASSUME NEW p \in Pools, NEW s \in Savers, BeginSave(p, s) PROVE OfferInv'
  <2> DEFINE where == IF pool[p].exhausted THEN "exhausted" ELSE "stocked"
  <2>1. where \in Saves /\ "carrying" \in Saves
    BY DEF Saves
  <2>2. SaveAt(p, s, where) \/ SaveAt(p, s, "carrying")
    BY <1>3, Zenon DEF BeginSave
  <2> HIDE DEF where
  <2> QED
    BY <2>1, <2>2, SavePlace
<1>4. ASSUME NEW p \in Pools, NEW s \in Savers, SaveFails(p, s) PROVE OfferInv'
  <2>1. "none" \in Saves
    BY DEF Saves
  <2> QED
    BY <1>4, <2>1, SavePlace DEF SaveFails
<1> QED
  BY <1>1, <1>2, <1>3, <1>4, SaveStored DEF OffersNext, offersVars

\* The saves of offers, the scheduler's and the editors', never disturb the
\* pools: the composition implements the pools' own specification.
THEOREM OffersKeepThePools == OffersSpec => Spec
<1>1. OffersInit => Init
  BY DEF OffersInit
<1> QED
  BY <1>1, PoolsStep, PTL DEF OffersSpec, Spec

\* Pools, requests and offers keep their types beside each other.
THEOREM OffersTypeCorrect == OffersSpec => []OffersTypeOK
<1>1. OffersInit => OfferInv
  <2> DEFINE idle == [s \in Savers |-> "none"]
             fresh == [expired |-> FALSE, save |-> idle]
  <2>1. idle \in [Savers -> Saves] /\ FALSE \in BOOLEAN
    BY DEF Saves
  <2> HIDE DEF idle
  <2>2. fresh \in Offer
    BY <2>1, Zenon DEF Offer
  <2>3. OffersInit => offer = [p \in Pools |-> fresh]
    BY Zenon DEF OffersInit, idle
  <2> HIDE DEF fresh
  <2> QED
    BY <2>2, <2>3 DEF OfferInv
<1>2. OfferInv /\ [OffersNext]_offersVars => OfferInv'
  BY OffersStep
<1>3. TypeOK /\ OfferInv => OffersTypeOK
  BY DEF OfferInv, OffersTypeOK
<1> QED
  BY <1>1, <1>2, <1>3, OffersKeepThePools, CouponTypeCorrect, PTL DEF OffersSpec

\* The counters follow the stock whatever the savers of the offers do.
THEOREM OfferCountersNeverLag == OffersSpec => []CountersMatch
  BY OffersKeepThePools, CountersNeverLag, PTL
=============================================================================
