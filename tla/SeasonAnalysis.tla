---------------------------- MODULE SeasonAnalysis ----------------------------
(***************************************************************************)
(* The analysis of one season as a function of what a recompute has read   *)
(* of it (the body of the season loop of data_pipeline/jobs/recompute.py). *)
(* A reading holds the primary appearance and the minutes of each player,  *)
(* the players, the raw metrics by the name they were stored under and by  *)
(* the metric that name resolves to, the competitions, the teams and the   *)
(* day the season ends.  Players are numbered by their ids.                *)
(***************************************************************************)
EXTENDS MarketModel, Lists

MetricsOf(metrics, p) == {m \in metrics : m.player = p /\ m.value # {}}
Named(metrics, p) == {m.name : m \in MetricsOf(metrics, p)}

(* What may be read: the code orders neither appearances nor raw metrics.   *)
Appear(appearances) == {a.player : a \in appearances}
Played(a) == Or(a.minutes, 0)
TotalMinutes(appearances) ==
  [p \in Appear(appearances) |-> MapThenSumSet(Played, {a \in appearances : a.player = p})]

\* The functions that choose one of each key's options.
Selections(options) ==
  FoldSet(LAMBDA k, chosen : UNION {{With(f, k, v) : v \in options[k]} : f \in chosen}, {<<>>}, DOMAIN options)

\* The first appearance with the most minutes.
PrimaryChoices(appearances) ==
  LET of(p) == {a \in appearances : a.player = p}
  IN Selections([p \in Appear(appearances) |-> {a \in of(p) : \A b \in of(p) : Played(b) =< Played(a)}])

\* Of several rows of one name, the last one.
RawChoices(metrics, players) ==
  LET values(p, name) == UNION {m.value : m \in {n \in MetricsOf(metrics, p) : n.name = name}}
  IN Selections([p \in players |-> Selections([name \in Named(metrics, p) |-> values(p, name)])])

\* Of several names of one metric, the last one.
RegistryOf(byName) ==
  LET resolved == UNION {ResolveMetric(name) : name \in DOMAIN byName} \intersect PERFORMANCE_METRICS
  IN Selections([m \in resolved |-> {byName[name] : name \in {n \in DOMAIN byName : ResolveMetric(n) = {m}}}])

RegistryChoices(raw) == Selections([p \in DOMAIN raw |-> RegistryOf(raw[p])])

(* One player of a reading. *)
Raw(read, p, name) == Lookup(read.raw[p], {name})

PerformanceMinutes(read, p) ==
  Or(Raw(read, p, "performance_covered_minutes"), IF read.covered THEN 0 ELSE read.minutes[p])

Age(read, p) ==
  {end.year - born.year - (IF end.day < born.day THEN 1 ELSE 0) : end \in read.end, born \in read.players[p].birth}

Group(read, p) == Or(read.primary[p].group, "")
Competition(read, p) == Lookup(read.competitions, read.primary[p].competition)
Team(read, p) == Lookup(read.teams, read.primary[p].team)

ContextOf(read, p) ==
  BuildContext(Competition(read, p), Team(read, p), PerformanceMinutes(read, p), Raw(read, p, "recent_form_index"))

\* Within the players of a position group, and within those eligible for a role.
Percentiles(read) == NormalizeMetrics(read.registry, [p \in DOMAIN read.primary |-> Group(read, p)])

Eligible(read, k) ==
  {p \in DOMAIN read.primary : read.players[p].position \intersect RoleConfigs[k].eligible # {}}
RolePercentiles(read, k) == NormalizeMetrics(read.registry, [p \in Eligible(read, k) |-> k])

Rated(read, p) == {k \in DOMAIN RoleConfigs : p \in Eligible(read, k)}
Ratings(read, p, context) ==
  [k \in Rated(read, p) |->
     RoleRating(RoleConfigs[k], RolePercentiles(read, k)[p], context, PerformanceMinutes(read, p))]

\* The best scores first; of the top three, the mean in hundredths.
Scores(ratings) ==
  LET inOrder == SetToSortSeq(DOMAIN ratings, LAMBDA a, b : ratings[a].score > ratings[b].score)
  IN [i \in 1 .. Min({3, Len(inOrder)}) |-> ratings[inOrder[i]].score]
MeanOf(scores) == Nearest(10 * FoldLeft(LAMBDA sum, score : sum + score, 0, scores), Len(scores))

UNKNOWN_END == [year |-> 2024, day |-> 0]

MarketInputs(read, p, context, scores) ==
  [age |-> Age(read, p), position |-> Or(read.players[p].position, "CM"),
   minutes |-> PerformanceMinutes(read, p),
   best |-> IF scores = <<>> THEN {} ELSE {scores[1]},
   average |-> IF scores = <<>> THEN {} ELSE {MeanOf(scores)},
   league |-> context.league, tier |-> context.tier,
   public |-> Raw(read, p, "public_value_eur"), form |-> Raw(read, p, "recent_form_index"),
   caps |-> Raw(read, p, "international_caps"), hype |-> Raw(read, p, "hype_index"),
   contract |-> {Max({0, until - Or(read.end, UNKNOWN_END).year}) : until \in Raw(read, p, "contract_until")}]

IsMember(read, p) ==
  EvaluateMembership(Age(read, p), Group(read, p), read.minutes[p], PerformanceMinutes(read, p),
                     \E c \in Competition(read, p) : c.european)

(* The rows of a season, told apart by the run: a number and a confidence are *)
(* what is kept of their contents.  Ratings are ranked later.                 *)
Row(table, season, p, key, run, value, trust) ==
  [table |-> table, season |-> season, player |-> p, key |-> key, run |-> run,
   value |-> value, trust |-> trust, rank |-> 0]

PlayerRows(read, season, run, p) ==
  LET row(table, key, value, trust) == Row(table, season, p, key, run, value, trust)
      minutes == PerformanceMinutes(read, p)
      judged(percentiles, context, market) ==
        {row("context", "", context.multiplier, context.confidence),
         row("market", "", market.asking.high, market.confidence),
         row("membership", "", IF IsMember(read, p) THEN 1 ELSE 0, ""),
         row("similarity", "style", 0, ""), row("similarity", "quality", 0, "")}
          \union {row("metrics", m, percentiles[m], MinutesConfidence(minutes)) : m \in DOMAIN percentiles}
          \union {row("playstyles", b.key, 0, b.confidence) :
                    b \in ComputePlaystyles(percentiles, Group(read, p), minutes, context.risk, market.label)}
      rated(ratings) ==
        {row("ratings", k, ratings[k].score, ratings[k].confidence) : k \in DOMAIN ratings}
          \union {row("audits", k, 0, "") : k \in DOMAIN ratings}
      rows(context, ratings) ==
        rated(ratings) \union
          judged(Percentiles(read)[p], context, EstimateMarket(MarketInputs(read, p, context, Scores(ratings))))
      within(context) == rows(context, Ratings(read, p, context))
  IN within(ContextOf(read, p))

AnalysisRows(read, season, run) == UNION {PlayerRows(read, season, run, p) : p \in DOMAIN read.primary}
=============================================================================
