---------------------------- MODULE UniqueOffers ----------------------------
(***************************************************************************)
(* The offers a unique coupon pool feeds: the scheduler and the editors     *)
(* whose saves recompute an offer's status from the pool's exhaustion.      *)
(* The offers have no dates: only the pool moves their status.              *)
(***************************************************************************)
EXTENDS UniqueCoupon

VARIABLE
    offer  \* offer[p]: a unique offer drawing from pool p

Savers == {"scheduler", "editor"}

\* Where a save of the offer stands, and what it read of the pool; a save that
\* carries the pool does not ask.
Saves == {"none", "selected", "exhausted", "stocked", "carrying"}

Offer == [expired : BOOLEAN,            \* contentStatus
          save    : [Savers -> Saves]]

OffersTypeOK == TypeOK /\ offer \in [Pools -> Offer]

OffersInit ==
    /\ Init
    /\ offer = [p \in Pools |-> [expired |-> FALSE, save |-> [s \in Savers |-> "none"]]]

SaveAt(p, s, where) == offer' = [offer EXCEPT ![p].save[s] = where]

\* The five-minute scheduler takes up the offers its two pool queries select.
SchedulerSelects(p) ==
    /\ offer[p].save["scheduler"] = "none"
    /\ offer[p].expired # pool[p].exhausted
    /\ SaveAt(p, "scheduler", "selected")
    /\ UNCHANGED vars

\* validateOfferLifecycle reads the pool's exhaustion, for an editor's save at
\* any time and for the scheduler's after the selection; but not for a save whose
\* payload has the pool, which the scheduler's never has.
BeginSave(p, s) ==
    /\ offer[p].save[s] = IF s = "scheduler" THEN "selected" ELSE "none"
    /\ \/ SaveAt(p, s, IF pool[p].exhausted THEN "exhausted" ELSE "stocked")
       \/ s = "editor" /\ SaveAt(p, s, "carrying")
    /\ UNCHANGED vars

\* computeContentStatus of an offer without dates decides what is stored.
SaveCommits(p, s) ==
    /\ offer[p].save[s] \in {"exhausted", "stocked", "carrying"}
    /\ offer' = [offer EXCEPT ![p].expired = offer[p].save[s] = "exhausted",
                              ![p].save[s] = "none"]
    /\ UNCHANGED vars

\* A save is rejected or its transaction fails.
SaveFails(p, s) ==
    /\ offer[p].save[s] # "none"
    /\ SaveAt(p, s, "none")
    /\ UNCHANGED vars

OffersNext ==
    \/ Next /\ UNCHANGED offer
    \/ \E p \in Pools :
          \/ SchedulerSelects(p)
          \/ \E s \in Savers : BeginSave(p, s) \/ SaveCommits(p, s) \/ SaveFails(p, s)

offersVars == <<vars, offer>>

\* A save that began ends, and the scheduler, run every five minutes, neither
\* misses an offer for ever nor has its saves of one fail for ever.
OffersFairness ==
    \A p \in Pools : /\ WF_offersVars(SaveCommits(p, "editor") \/ SaveFails(p, "editor"))
                     /\ SF_offersVars(SchedulerSelects(p))
                     /\ SF_offersVars(BeginSave(p, "scheduler"))
                     /\ SF_offersVars(SaveCommits(p, "scheduler"))

OffersSpec ==
    /\ OffersInit /\ [][OffersNext]_offersVars
    /\ Fairness /\ OffersFairness

(***************************************************************************)
(* Properties.                                                             *)
(***************************************************************************)
Follows(p) == Rows(p) # {} => (offer[p].expired <=> Drained(p))

\* Whatever stamps and statuses the races of redemption, restock, recount and saves
\* left behind, the offers of a pool that has held codes are again and again expired
\* if it is drained and live if it is not; and once imports and visitors rest and no
\* editor saves the pool along with the offer, they stay so.
OffersFollowStock ==
    \A p \in Pools : /\ []<>Follows(p)
                     /\ \/ []<>(offer[p].save["editor"] = "carrying")
                        \/ <>[]Follows(p)
=============================================================================
