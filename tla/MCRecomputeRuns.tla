--------------------------- MODULE MCRecomputeRuns ---------------------------
(***************************************************************************)
(* Small databases for RecomputeRuns: two recomputes that overlap while a  *)
(* correction, a new metric source or a change of positions is published,  *)
(* and a grid of three wingers for the scores, each analysed by one run.   *)
(***************************************************************************)
EXTENDS RecomputeRuns

mcHigher == {"shots", "carries"}
mcLower == {"losses"}
mcAliases == [shooting |-> "shots"]

Role_(positions, main) ==
  [eligible |-> positions, required |-> {"shots", "carries"}, minMinutes |-> 450, fullMinutes |-> 1800,
   groups |-> [attack |-> [weight |-> 9000, metrics |-> (main :> 100)],
               ball |-> [weight |-> 1000, metrics |-> [losses |-> 20, carries |-> 80]]],
   concerns |-> {[metric |-> "losses", direction |-> "higher_worse", threshold |-> 8000, penalty |-> 150],
                 [metric |-> "shots", direction |-> "lower_worse", threshold |-> 2500, penalty |-> 100]}]
mcRoles == [winger |-> Role_({"LW", "RW"}, "shots"), carrier |-> Role_({"CM", "RW"}, "carries")]

Band(low, high) == [min |-> low, max |-> high]
League_(multiplier, risk, penalty) == [multiplier |-> multiplier, risk |-> risk, penalty |-> penalty]
mcContext ==
  [leagues |-> [top |-> League_(11000, "low", 0)], leagueDefault |-> League_(9000, "high", 1500), leagueBand |-> Band(8500, 10500),
   teams |-> [city |-> "elite"], tiers |-> [elite |-> [multiplier |-> 10400, penalty |-> 0], mid |-> [multiplier |-> 10000, penalty |-> 0]],
   defaultTier |-> "mid", teamBand |-> Band(9300, 10500),
   stakes |-> [cup |-> 10300], stakesBand |-> Band(9700, 10600), oppositionBand |-> Band(9700, 10300),
   samples |-> {[minutes |-> 1800, multiplier |-> 10000, confidence |-> "high"], [minutes |-> 900, multiplier |-> 9800, confidence |-> "medium"],
                [minutes |-> 450, multiplier |-> 9500, confidence |-> "medium"], [minutes |-> 0, multiplier |-> 9000, confidence |-> "low"]},
   sampleBand |-> Band(9000, 10000), formPoints |-> 200, formRequires |-> "medium"]

mcPositives ==
  {[key |-> "dribbler", groups |-> {"ATT"}, minMinutes |-> 450, required |-> {"carries"},
    metrics |-> [carries |-> 70, losses |-> 30], tiers |-> [base |-> 6000, plus |-> 8000, elite |-> 9500]]}
mcConcerns ==
  {[key |-> "turnover_risk", groups |-> {"ATT", "MID"}, trigger |-> "low_percentile", metrics |-> [losses |-> 1], threshold |-> 2000],
   [key |-> "small_sample", groups |-> {}, trigger |-> "small_sample", threshold |-> 900],
   [key |-> "translation", groups |-> {}, trigger |-> "context_translation", levels |-> {"medium", "high"}],
   [key |-> "inflated", groups |-> {"ATT"}, trigger |-> "market_label", levels |-> {"inflated", "high-risk"}]}

mcLeverage == [elite |-> 250, mid |-> 100]
mcScarcity == [LW |-> 1100, RW |-> 1100, CM |-> 1000]

App_(p, s, minutes, group, competition) ==
  [player |-> p, season |-> s, minutes |-> minutes, group |-> group, competition |-> competition, team |-> {"t1"}]
Met(p, s, name, value) == [player |-> p, season |-> s, name |-> name, value |-> {value}, provider |-> "squad"]
Who(position, year) == [position |-> {position}, birth |-> {[year |-> year, day |-> 200]}]

Squad ==
  [snapshots |-> {"k1"}, ends |-> [s1 |-> {[year |-> 2024, day |-> 150]}, s2 |-> {}],
   players |-> <<Who("LW", 2002), Who("RW", 2000)>>,
   competitions |-> [c1 |-> [slug |-> "top", type |-> {"cup"}, european |-> TRUE]],
   teams |-> [t1 |-> [slug |-> "city", tier |-> {}]],
   appearances |-> {App_(1, "s1", {900}, {"ATT"}, {"c1"}), App_(2, "s1", {2000}, {"ATT"}, {})},
   metrics |-> {Met(1, "s1", "shots", 3), Met(1, "s1", "losses", 1), Met(2, "s1", "shots", 2), Met(2, "s1", "carries", 2),
                Met(1, "s1", "public_value_eur", 9000), Met(1, "s1", "contract_until", 2027)}]

\* A second source of a metric under its old name, and the covered minutes of another.
Corrected ==
  [Squad EXCEPT !.snapshots = {"k1", "k2"},
     !.metrics = @ \union {Met(1, "s1", "shooting", 1), Met(2, "s1", "hype_index", 9000),
                           [Met(1, "s1", "performance_covered_minutes", 700) EXCEPT !.provider = "statsbomb"]}]

\* Both players turn out to play elsewhere: no rating of theirs keeps its key.
Moved == [Corrected EXCEPT !.players = <<Who("CM", 2002), [Who("ST", 2000) EXCEPT !.birth = {}]>>]

\* A goalkeeper nobody rates, then a season more.
Keeper == [Squad EXCEPT !.players = <<Who("GK", 2002)>>, !.appearances = {App_(1, "s1", {}, {}, {})}, !.metrics = {}]
Later ==
  [Squad EXCEPT !.players[2] = Who("CM", 2001),
     !.appearances = {App_(1, "s1", {900}, {"ATT"}, {"c1"}), App_(1, "s2", {900}, {"ATT"}, {"c1"}), App_(1, "s2", {900}, {"MID"}, {}),
                      App_(2, "s2", {300}, {"MID"}, {"c1"})},
     !.metrics = {Met(1, "s2", "shots", 3), Met(2, "s2", "carries", 2)}]

Value(p, name, v) == IF v = 0 THEN {} ELSE {Met(p, "s1", name, v)}
Levels == [shots : 0 .. 2, losses : 0 .. 2, carries : 0 .. 1, minutes : {300, 1500}]
Grid(a, b) ==
  [Squad EXCEPT
     !.players = <<Who("LW", 2002), Who("LW", 2002), Who("LW", 2002)>>,
     !.appearances = {App_(1, "s1", {a.minutes}, {"ATT"}, {"c1"}), App_(2, "s1", {b.minutes}, {"ATT"}, {"c1"}), App_(3, "s1", {900}, {"ATT"}, {"c1"})},
     !.metrics = UNION {Value(1, n, a[n]) \union Value(2, n, b[n]) : n \in {"shots", "losses", "carries"}}
                   \union {Met(3, "s1", "shots", 1), Met(3, "s1", "losses", 2), Met(3, "s1", "carries", 1)}]

Grids == {<<"grid", a, b>> : a \in [shots : {0, 1}, losses : {0, 1}, carries : {0, 1}, minutes : {1500}], b \in Levels}
mcDatabases ==
  [name \in {<<"squad">>, <<"corrected">>, <<"moved">>, <<"keeper">>, <<"later">>} \union Grids |->
     CASE name[1] = "squad" -> Squad [] name[1] = "corrected" -> Corrected [] name[1] = "moved" -> Moved
       [] name[1] = "keeper" -> Keeper [] name[1] = "later" -> Later [] name[1] = "grid" -> Grid(name[2], name[3])]
mcSuccessors ==
  [name \in DOMAIN mcDatabases |->
     CASE name[1] = "squad" -> {<<"corrected">>, <<"moved">>, <<"later">>} [] name[1] = "corrected" -> {<<"moved">>}
       [] name[1] = "keeper" -> {<<"squad">>} [] OTHER -> {}]

Start(db, count, ids, before) == [facts |-> db, events |-> count, runs |-> ids, analysed |-> before]
mcScenarios ==
  {Start(<<"squad">>, 1, {1, 2}, TRUE), Start(<<"squad">>, 1, {1, 2}, FALSE), Start(<<"keeper">>, 1, {1, 2}, TRUE)}
    \union {Start(g, 0, {1}, FALSE) : g \in Grids}
=============================================================================
