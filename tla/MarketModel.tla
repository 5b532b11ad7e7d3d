----------------------------- MODULE MarketModel -----------------------------
(***************************************************************************)
(* What a player is worth and what a club would ask (packages/market_model).*)
(* Money is in thousands of euros, a factor in thousandths; contract years *)
(* and ages are whole.  A fact that is not known is an empty set.          *)
(***************************************************************************)
EXTENDS RoleFit, SequencesExt

CONSTANTS LEVERAGE,         \* team tier -> share of the premium
          SCARCITY          \* position -> factor

One == 1000
Scaled(amount, factor) == Nearest(amount * factor, One)

(* Confidence, in hundredths. *)
MarketConfidence(inp) ==
  LET gain(known, points) == IF known THEN points ELSE 0
      score == 35 + gain(inp.public # {}, 20) + gain(inp.contract # {}, 15) + gain(inp.best # {}, 15)
                  + gain(inp.minutes >= 1800, 10) - gain(inp.age = {}, 10) - gain(inp.minutes < 450, 10)
  IN ConfidenceFromScore(100 * Max({0, Min({100, score})}))

(* The performance model, and its blend with the public value. *)
BASE_ANCHOR == 20000
UnratedBest == 450          \* tenths of a point, where no role has rated the player

\* ((0.6 best + 0.4 avg) / 60) cubed, at least 0.05; best in tenths and avg in hundredths.
RolefitFactor(best, avg) ==
  LET ratio == Nearest(60 * best + 4 * avg, 60)
  IN Max({50, Scaled(Scaled(ratio, ratio), ratio)})

\* A multiplier in ten-thousandths to the power of 1.5.
LeagueFactor(multiplier) ==
  LET root == CHOOSE r \in 1 .. 2 * One : r * r =< multiplier * 100 /\ (r + 1) * (r + 1) > multiplier * 100
  IN Nearest(multiplier * root, Unit)

\* A form of zero reads as no form at all, which is 0.5.
FormFactor(form) ==
  One + Nearest(100 * (IF form \subseteq {0} THEN 0 ELSE The(form) - 5000), Unit)

Scarcity(position) == Or(Lookup(SCARCITY, {position}), One)

ComputeModelValue(inp) ==
  LET best == Or(inp.best, UnratedBest)
      factors == << RolefitFactor(best, Or(inp.average, 10 * best)),
                    One + 50 * Max({0, 23 - Or(inp.age, 23)}),
                    LeagueFactor(inp.league), Scarcity(inp.position),
                    700 + Nearest(300 * Min({1800, inp.minutes}), 1800),
                    One + 5 * Min({20, Or(inp.caps, 0)}), FormFactor(inp.form) >>
      base == FoldLeft(Scaled, BASE_ANCHOR, factors)
  IN IF inp.public = {} THEN base ELSE (base + The(inp.public)) \div 2

\* A long contract lets the club ask for more, one that ends soon makes it sell.
ContractPremium(contract) ==
  CASE contract = {} -> 0
    [] \E years \in contract : years >= 3 -> 150
    [] contract = {2} -> 80
    [] OTHER -> -100

ComputeAskingPrice(inp, model) ==
  LET anchor == Max({model, Or(inp.public, 0)})
      premium == One + Or(Lookup(LEVERAGE, {inp.tier}), 100) + ContractPremium(inp.contract)
                     + (Scarcity(inp.position) - One) + Nearest(200 * Or(inp.hype, 0), Unit) + 50
  IN Scaled(anchor, Max({700, premium}))

(* Ranges, labels and the guardrails. *)
VALUE_FLOOR == 250
OUTLIER_CEILING == 300000
ClampValue(value) == Max({VALUE_FLOOR, value})

NeedsManualReview(model, asking) ==
  asking > OUTLIER_CEILING \/ model > OUTLIER_CEILING \/ (model > 0 /\ asking > 3 * model)

ModelWidth == [high |-> 150, medium |-> 220, low |-> 320, unknown |-> 400]

Label(asking, low, high) ==
  CASE asking < low -> "undervalued"
    [] asking \in low .. high -> "fair"
    [] asking > high /\ 10 * asking =< 14 * high -> "inflated"
    [] OTHER -> "high-risk"

RangeAround(mid, width) ==
  [low |-> ClampValue(Scaled(mid, One - width)), high |-> ClampValue(Scaled(mid, One + width))]

Estimated(inp, level, mid, asking) ==
  LET model == RangeAround(mid, ModelWidth[level])
  IN [model |-> model, confidence |-> level,
      asking |-> RangeAround(asking, ModelWidth[level] + 50 + (IF inp.contract = {} THEN 80 ELSE 0)),
      label |-> IF level = "unknown" THEN "unknown" ELSE Label(asking, model.low, model.high),
      review |-> NeedsManualReview(mid, asking)]

EstimateMarket(inp) ==
  LET priced(mid) == Estimated(inp, MarketConfidence(inp), mid, ComputeAskingPrice(inp, mid))
  IN priced(ComputeModelValue(inp))
=============================================================================
