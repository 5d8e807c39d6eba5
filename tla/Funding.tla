------------------------------ MODULE Funding ------------------------------
(***************************************************************************)
(* internal/provider/funding.go: what spending on a platform key costs, as *)
(* the operators stated it, and which keys a funding ceiling admits.       *)
(***************************************************************************)
EXTENDS Integers

Classes    == {"free", "paid", "unstated"}
Categories == {"none", "trial", "promotional", "prepaid", "paid"}
Fundings   == {"free", "promotional", "prepaid", "paid", "unstated"}
Tiers      == {"free", "credit", "paid"}

\* Funding.rank: the order in which a pool spends its keys.
Rank(funding) ==
  CASE funding = "free"        -> 0
    [] funding = "promotional" -> 1
    [] funding = "prepaid"     -> 2
    [] funding = "paid"        -> 3
    [] OTHER                   -> 4

\* Funding.Tier; an unstated key has no tier.
Tier(funding) ==
  CASE funding = "free"                       -> "free"
    [] funding \in {"promotional", "prepaid"} -> "credit"
    [] funding = "paid"                       -> "paid"
    [] OTHER                                  -> "none"

\* FundingTier.rank.
TierRank(tier) ==
  CASE tier = "free"   -> 0
    [] tier = "credit" -> 1
    [] tier = "paid"   -> 2
    [] OTHER           -> 3

\* FundingTier.Admits: "none" is no ceiling.
Admits(ceiling, funding) ==
  \/ ceiling = "none"
  \/ Tier(funding) # "none" /\ TierRank(Tier(funding)) <= TierRank(ceiling)

FromClass(class) == class

\* The funding a protected description states.
FromCategory(category) ==
  IF category \in {"trial", "promotional"} THEN "promotional" ELSE category

\* FundingFor: of two statements the more expensive one wins.
FundingFor(class, category) ==
  IF category = "none" THEN FromClass(class)
  ELSE IF class = "unstated" \/ Rank(FromCategory(category)) >= Rank(FromClass(class))
       THEN FromCategory(category)
       ELSE FromClass(class)

=============================================================================
