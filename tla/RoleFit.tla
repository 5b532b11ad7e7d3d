------------------------------- MODULE RoleFit -------------------------------
(***************************************************************************)
(* The rating engine: percentiles within a peer group, the score and the   *)
(* confidence of a player in a role, the context they are adjusted by, the *)
(* playstyles and concerns, and the membership of the pilot universe       *)
(* (packages/rating_engine/rolefit, data_pipeline/normalize).              *)
(*                                                                         *)
(* Everything is in ten-thousandths: a percentile, a multiplier, a         *)
(* confidence.  A score is in hundredths of a point, so that the mean of   *)
(* percentiles is a score; a displayed score is in tenths.  A quotient is  *)
(* rounded to the nearest, where the code carries a float further.  Facts  *)
(* that are missing are not in the domain of a function, or an empty set.  *)
(***************************************************************************)
EXTENDS Integers, Sequences, FiniteSets, FiniteSetsExt

CONSTANTS HigherBetter, LowerBetter,  \* the performance metrics of the registry
          Aliases,          \* legacy name -> metric
          RoleConfigs,      \* role -> [eligible, groups, required, minMinutes, fullMinutes, concerns]
          ContextConfig,    \* the four context files
          Positives,        \* positive playstyles
          Concerns          \* concern badges

PERFORMANCE_METRICS == HigherBetter \union LowerBetter

\* _parse_role: the weights of a role's groups add up to one, and it names registry metrics.
WellFormedRole(role) ==
  /\ MapThenSumSet(LAMBDA g : role.groups[g].weight, DOMAIN role.groups) \in 9900 .. 10100
  /\ \A g \in DOMAIN role.groups : DOMAIN role.groups[g].metrics \subseteq PERFORMANCE_METRICS

ASSUME RoleAssumption == \A k \in DOMAIN RoleConfigs : WellFormedRole(RoleConfigs[k])

\* The numbers of a role: what int and float make of its file; no weight and no penalty is negative.
Weights(w) == IsFiniteSet(DOMAIN w) /\ \A m \in DOMAIN w : w[m] \in Nat
RoleNumbers(role) ==
  /\ IsFiniteSet(role.required) /\ role.minMinutes \in Nat /\ role.fullMinutes \in Nat
  /\ IsFiniteSet(DOMAIN role.groups)
  /\ \A g \in DOMAIN role.groups : role.groups[g].weight \in Nat /\ Weights(role.groups[g].metrics)
  /\ IsFiniteSet(role.concerns) /\ \A rule \in role.concerns : rule.threshold \in Int /\ rule.penalty \in Nat

\* The numbers of the context: no band reaches below zero, and there is a sample of the fewest minutes.
LeagueEntry == [multiplier : Int, risk : STRING, penalty : Int]
TierEntry == [multiplier : Int, penalty : Int]
BandEntry == [min : Nat, max : Int]
SampleEntry == [minutes : Int, multiplier : Int, confidence : {"unknown", "low", "medium", "high"}]
ContextNumbers(config) ==
  /\ \A slug \in DOMAIN config.leagues : config.leagues[slug] \in LeagueEntry
  /\ \A tier \in DOMAIN config.tiers : config.tiers[tier] \in TierEntry
  /\ config.leagueDefault \in LeagueEntry /\ config.defaultTier \in DOMAIN config.tiers
  /\ \A type \in DOMAIN config.stakes : config.stakes[type] \in Int
  /\ {config.leagueBand, config.teamBand, config.stakesBand, config.oppositionBand, config.sampleBand} \subseteq BandEntry
  /\ IsFiniteSet(config.samples) /\ config.samples # {} /\ config.samples \subseteq SampleEntry
  /\ config.formPoints \in Int

ASSUME NumbersAssumption ==
  (\A k \in DOMAIN RoleConfigs : RoleNumbers(RoleConfigs[k])) /\ ContextNumbers(ContextConfig)

\* A badge is known by its key (seed_playstyle_definitions).
ASSUME BadgeAssumption ==
  /\ \A a, b \in Positives : a.key = b.key => a = b
  /\ \A a \in Positives : \A c \in Concerns : a.key # c.key

The(option) == CHOOSE v \in option : TRUE
Or(option, default) == IF option = {} THEN default ELSE The(option)
Lookup(table, key) == {table[k] : k \in key \intersect DOMAIN table}

Unit == 10000
Nearest(n, d) == (2 * n + d) \div (2 * d)
Times(a, b) == Nearest(a * b, Unit)
Clamp(value, band) == Max({band.min, Min({band.max, value})})

ResolveMetric(name) ==
  IF name \in PERFORMANCE_METRICS THEN {name} ELSE Lookup(Aliases, {name})

(***************************************************************************)
(* Percentiles.                                                            *)
(***************************************************************************)
\* The mid-rank share of the population a value is at least as good as.
PercentileRanks(values, higherBetter) ==
  LET n == Cardinality(DOMAIN values)
      less(k) == Cardinality({j \in DOMAIN values : values[j] < values[k]})
      equal(k) == Cardinality({j \in DOMAIN values : values[j] = values[k]})
      rank(k) == Nearest(Unit * (2 * less(k) + equal(k)), 2 * n)
  IN [k \in DOMAIN values |-> IF higherBetter THEN rank(k) ELSE Unit - rank(k)]

\* Each player's percentiles among the players of its group; a metric it lacks has none.
NormalizeMetrics(raw, groupOf) ==
  LET having(g, m) == {q \in DOMAIN groupOf : groupOf[q] = g /\ m \in DOMAIN raw[q]}
  IN [p \in DOMAIN groupOf |-> [m \in DOMAIN raw[p] |->
        PercentileRanks([q \in having(groupOf[p], m) |-> raw[q][m]], m \in HigherBetter)[p]]]

MinutesConfidence(minutes) ==
  CASE minutes >= 1800 -> "high" [] minutes \in 900 .. 1799 -> "medium"
    [] minutes \in 450 .. 899 -> "low" [] OTHER -> "unknown"

(***************************************************************************)
(* Context.                                                                *)
(***************************************************************************)
ConfidenceOrder == [unknown |-> 0, low |-> 1, medium |-> 2, high |-> 3]

LeagueDimension(slug) ==
  LET entry == Or(Lookup(ContextConfig.leagues, slug), ContextConfig.leagueDefault)
  IN [entry EXCEPT !.multiplier = Clamp(@, ContextConfig.leagueBand)]

\* The tier of the team's row, else the configured one, else the default.
TeamTier(team) ==
  LET listed == Lookup(ContextConfig.teams, {t.slug : t \in team})
  IN Or(UNION {t.tier : t \in team}, Or(listed, ContextConfig.defaultTier))

TeamDimension(team) ==
  LET entry == Or(Lookup(ContextConfig.tiers, {TeamTier(team)}), ContextConfig.tiers[ContextConfig.defaultTier])
  IN [entry EXCEPT !.multiplier = Clamp(@, ContextConfig.teamBand)]

StakesDimension(type) ==
  Clamp(Or(Lookup(ContextConfig.stakes, type), Unit), ContextConfig.stakesBand)

OppositionDimension(league) ==
  Clamp(Unit + Nearest((league.multiplier - Unit) * 6, 10), ContextConfig.oppositionBand)

\* The threshold with the most minutes that are reached; the lowest one when none is.
SampleDimension(minutes) ==
  LET reached == {t \in ContextConfig.samples : minutes >= t.minutes}
      best(S) == CHOOSE t \in S : \A u \in S : t.minutes >= u.minutes
      least == CHOOSE t \in ContextConfig.samples : \A u \in ContextConfig.samples : t.minutes =< u.minutes
      chosen == IF reached = {} THEN least ELSE best(reached)
  IN [chosen EXCEPT !.multiplier = Clamp(@, ContextConfig.sampleBand)]

FormBonusPoints(form, sampleConfidence) ==
  LET most == ContextConfig.formPoints
  IN IF form = {} \/ ConfidenceOrder[sampleConfidence] < ConfidenceOrder[ContextConfig.formRequires] THEN 0
     ELSE Min({most, Nearest(Max({0, The(form) - 5000}) * 2 * most, Unit)})

BuildContext(competition, team, minutes, form) ==
  LET league == LeagueDimension({c.slug : c \in competition})
      side == TeamDimension(team)
      opposition == OppositionDimension(league)
      stakes == StakesDimension(UNION {c.type : c \in competition})
      sample == SampleDimension(minutes)
  IN [multiplier |-> Times(Times(Times(league.multiplier, side.multiplier), Times(opposition, stakes)), sample.multiplier),
      league |-> league.multiplier, risk |-> league.risk, confidence |-> sample.confidence, tier |-> TeamTier(team),
      penalty |-> league.penalty + side.penalty, formBonus |-> FormBonusPoints(form, sample.confidence)]

(***************************************************************************)
(* The rating of a player in a role.                                       *)
(***************************************************************************)
\* The mean of the values there are, by their weights renormalised.
WeightedMean(weights, values) ==
  LET usable == DOMAIN weights \intersect DOMAIN values
      total == MapThenSumSet(LAMBDA m : weights[m], usable)
  IN IF total = 0 THEN {}
     ELSE {Nearest(MapThenSumSet(LAMBDA m : weights[m] * values[m], usable), total)}

GroupScores(role, percentiles) ==
  LET score(g) == WeightedMean(role.groups[g].metrics, percentiles)
  IN [g \in {h \in DOMAIN role.groups : score(h) # {}} |-> The(score(g))]

RawScore(role, percentiles) ==
  Or(WeightedMean([g \in DOMAIN role.groups |-> role.groups[g].weight \div 100], GroupScores(role, percentiles)), 0)

TriggerLevel(rule) ==
  IF rule.direction = "lower_worse" THEN rule.threshold ELSE Unit - rule.threshold

\* A mutant: the rule is read of the raw percentile, where more of a bad thing is more.
PointsOfRaw(rule, percentiles) ==
  IF rule.metric \in DOMAIN percentiles /\ rule.direction # "lower_worse" /\ percentiles[rule.metric] >= rule.threshold
  THEN rule.penalty ELSE 0

Points(rule, percentiles) ==
  LET trigger == TriggerLevel(rule)
      goodness == percentiles[rule.metric]
  IN IF rule.metric \in DOMAIN percentiles /\ trigger > 0 /\ goodness =< trigger
     THEN Nearest(rule.penalty * (trigger - goodness), trigger) ELSE 0

MAX_TOTAL_PENALTY == 800

PenaltiesTotal(role, percentiles) ==
  Min({MAX_TOTAL_PENALTY, MapThenSumSet(LAMBDA rule : Points(rule, percentiles), role.concerns)})

ConfidenceFromScore(score) ==
  CASE score =< 0 -> "unknown" [] score \in 1 .. 4999 -> "low"
    [] score \in 5000 .. 7999 -> "medium" [] OTHER -> "high"

SmallSampleCap == 4000

\* A mutant: the share of the metrics present that are required.
CoverageOfPresent(minutes, role, present, penalty) ==
  LET covered == Cardinality(role.required \intersect present)
      minutesFactor == Min({Unit, Nearest(Unit * minutes, role.fullMinutes)})
      coverage == IF present = {} THEN 0 ELSE Nearest(Unit * covered, Cardinality(present))
      score == Max({0, Nearest(55 * minutesFactor + 45 * coverage, 100) - penalty})
  IN ConfidenceFromScore(IF coverage = 0 THEN 0 ELSE IF minutes < role.minMinutes THEN Min({score, SmallSampleCap}) ELSE score)

ComputeConfidence(minutes, role, present, penalty) ==
  LET required == Cardinality(role.required)
      minutesFactor == IF role.fullMinutes = 0 THEN Unit ELSE Min({Unit, Nearest(Unit * minutes, role.fullMinutes)})
      coverage == IF required = 0 THEN Unit
                  ELSE Nearest(Unit * Cardinality(role.required \intersect present), required)
      score == Max({0, Nearest(55 * minutesFactor + 45 * coverage, 100) - penalty})
      capped == IF minutes < role.minMinutes THEN Min({score, SmallSampleCap}) ELSE score
  IN ConfidenceFromScore(IF coverage = 0 THEN 0 ELSE capped)

DISPLAY_SCALE == [min |-> 0, max |-> 9900]

\* compute_role_rating; the score is in tenths of a point.
RoleRating(role, percentiles, context, minutes) ==
  LET adjusted == Times(RawScore(role, percentiles), context.multiplier)
      final == adjusted + context.formBonus - PenaltiesTotal(role, percentiles)
  IN [score |-> Nearest(Clamp(final, DISPLAY_SCALE), 10),
      confidence |-> ComputeConfidence(minutes, role, DOMAIN percentiles, context.penalty)]

(***************************************************************************)
(* Playstyles and concerns.                                                *)
(***************************************************************************)
TierFor(composite, tiers) ==
  CASE composite >= tiers.elite -> {"elite"}
    [] composite \in tiers.plus .. tiers.elite - 1 -> {"plus"}
    [] composite \in tiers.base .. tiers.plus - 1 -> {"base"}
    [] OTHER -> {}

PositiveBadges(percentiles, group, minutes) ==
  {[key |-> p.key, tier |-> TierFor(The(WeightedMean(p.metrics, percentiles)), p.tiers),
    confidence |-> MinutesConfidence(minutes), concern |-> FALSE]
     : p \in {x \in Positives :
               /\ group \in x.groups /\ minutes >= x.minMinutes
               /\ x.required \subseteq DOMAIN percentiles
               /\ \E c \in WeightedMean(x.metrics, percentiles) : TierFor(c, x.tiers) # {}}}

ConcernMinutes == 450

Concerned(c, percentiles, group, minutes, risk, label) ==
  /\ c.groups = {} \/ group \in c.groups
  /\ CASE c.trigger = "low_percentile" ->
            /\ minutes >= ConcernMinutes /\ DOMAIN c.metrics \subseteq DOMAIN percentiles
            /\ \E composite \in WeightedMean(c.metrics, percentiles) : composite =< c.threshold
       [] c.trigger = "small_sample" -> minutes < c.threshold
       [] c.trigger = "context_translation" -> risk \in c.levels
       [] c.trigger = "market_label" -> label \in c.levels

ConcernBadges(percentiles, group, minutes, risk, label) ==
  {[key |-> c.key, tier |-> {}, concern |-> TRUE,
    confidence |-> IF c.trigger = "small_sample" THEN "high" ELSE MinutesConfidence(minutes)] :
     c \in {x \in Concerns : Concerned(x, percentiles, group, minutes, risk, label)}}

ComputePlaystyles(percentiles, group, minutes, risk, label) ==
  PositiveBadges(percentiles, group, minutes) \union ConcernBadges(percentiles, group, minutes, risk, label)

(***************************************************************************)
(* The pilot universe.                                                     *)
(***************************************************************************)
DEFAULT_MIN_MINUTES == 450
MAX_AGE == 23
ELIGIBLE_POSITION_GROUPS == {"ATT", "MID"}

EvaluateMembership(age, group, minutes, coveredMinutes, european) ==
  /\ \E years \in age : years =< MAX_AGE
  /\ group \in ELIGIBLE_POSITION_GROUPS
  /\ minutes >= DEFAULT_MIN_MINUTES /\ coveredMinutes >= DEFAULT_MIN_MINUTES
  /\ european
=============================================================================
