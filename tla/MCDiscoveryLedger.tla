-------------------------- MODULE MCDiscoveryLedger --------------------------
(* Three databases, the addresses a visit starts from, and the changes of the rail. *)
EXTENDS DiscoveryLedger

\* A season that ends on day 10000: 8053 days before it are 22.0 years when rounded to
\* a tenth and 8054 are 22.1; 9113 are 25.0 and 9112 are 24.9.
Who(days, name, rank, nation, position) ==
  [birth |-> IF days = 0 THEN {} ELSE {10000 - days}, name |-> <<name>>, nameRank |-> rank,
   nationality |-> nation, position |-> position]
App(id, p, minutes, group, team, league) ==
  [id |-> id, player |-> p, season |-> 1, minutes |-> minutes, group |-> group, team |-> team, league |-> league]
Rating(id, p, role, score, confidence) ==
  [id |-> id, player |-> p, season |-> 1, role |-> role, score |-> score, confidence |-> confidence]
Price(id, p, low, high) == [id |-> id, player |-> p, season |-> 1, low |-> low, high |-> high]
Badge(p, key, tier, concern, rank) ==
  [player |-> p, season |-> 1, key |-> key, tier |-> tier, concern |-> concern, nameRank |-> rank]
In(season, rows) == {[r EXCEPT !.season = season] : r \in rows}

mcPlayers == <<Who(8053, "ana", 1, {<<"england">>}, {"ST"}), Who(8054, "ben", 2, {<<"italy">>}, {"AM"}),
               Who(0, "ben", 2, {}, {"ST"}), Who(9113, "cal", 3, {<<"england">>}, {}),
               Who(9112, "dov", 4, {<<"england">>}, {"LW"})>>
mcTeams == [t1 |-> [slug |-> <<"paris_sg">>, name |-> <<"paris", "saint-germain">>],
            t2 |-> [slug |-> <<"om">>, name |-> <<"marseille">>]]
mcLeagues == [l1 |-> [slug |-> <<"fra">>, name |-> <<"ligue", "1">>, country |-> {<<"france">>}]]

Full ==
  [seasons |-> {[id |-> 1, end |-> {10000}, current |-> TRUE]},
   players |-> mcPlayers, teams |-> mcTeams, leagues |-> mcLeagues,
   appearances |-> {App(1, 1, {900}, {"ATT"}, {"t1"}, {"l1"}), App(2, 1, {900}, {"MID"}, {"t2"}, {"l1"}),
                    App(3, 2, {500}, {}, {"t1"}, {"l1"}), App(4, 3, {450}, {}, {"t2"}, {}),
                    App(5, 4, {}, {"MID"}, {}, {"l1"}), App(6, 5, {700}, {}, {"t2"}, {"l1"})},
   ratings |-> {Rating(1, 1, "r2", 80, "medium"), Rating(2, 1, "r1", 70, "low"), Rating(3, 2, "r1", 80, "high"),
                Rating(4, 3, "r1", 80, "high"), Rating(5, 5, "r1", 60, "low"), Rating(6, 5, "r2", 60, "high")},
   markets |-> {Price(1, 1, {5}, {9}), Price(2, 1, {6}, {10}), Price(3, 2, {6}, {}), Price(4, 5, {}, {30})},
   badges |-> {Badge(1, "b1", "elite", FALSE, 1), Badge(2, "b1", "base", TRUE, 1), Badge(2, "b2", "plus", FALSE, 2)},
   eligible |-> {[player |-> 1, season |-> 1], [player |-> 4, season |-> 1]},
   audits |-> (1 :> [shooting |-> 70, passing |-> 60]) @@ (2 :> [shooting |-> 50]) @@ (3 :> [shooting |-> 80, passing |-> 40])
                @@ (4 :> [passing |-> 90]) @@ (5 :> [shooting |-> 65]),
   styles |-> {[player |-> p, season |-> 1] : p \in {1, 3, 4, 5}},
   likeness |-> [pair \in SUBSET (1 .. 5) |-> IF pair \subseteq {1, 3} THEN 40 ELSE 90]]

\* The next season, without a current flag: one player has an analysis so far, and
\* another has been deleted.
Rolled ==
  [Full EXCEPT !.players = SubSeq(mcPlayers, 1, 4),
               !.seasons = {[id |-> 1, end |-> {10000}, current |-> FALSE], [id |-> 2, end |-> {}, current |-> FALSE]},
               !.appearances = In(2, {App(7, 1, {90}, {"ATT"}, {"t1"}, {"l1"}), App(8, 3, {80}, {}, {"t2"}, {})}),
               !.ratings = In(2, {Rating(7, 1, "r1", 75, "low")}),
               !.markets = {}, !.badges = {}, !.eligible = {}, !.styles = {[player |-> 3, season |-> 2]}]

NothingYet == [Full EXCEPT !.seasons = {}, !.appearances = {}, !.ratings = {}, !.markets = {}]

mcDatabases == [full |-> Full, rolled |-> Rolled, empty |-> NothingYet]

N(tenths) == [num |-> tenths]
T(word) == [txt |-> <<word>>]

Walked ==
  {[f \in {} |-> N(0)],
   [page |-> N(30), scope |-> T("all_records")],
   [page_size |-> N(10), rolefit_min |-> N(795), role |-> T("r1"), age_max |-> T("junk")]}

Opened ==
  {[page |-> N(50000), age_min |-> N(-40), position_group |-> T("ATT"), scope |-> T("high_coverage_u23")],
   [rolefit_min |-> N(800), rolefit_max |-> N(200), role |-> T("r1")],
   [value_min |-> N(75), value_max |-> N(70), sort |-> T("value_asc")]}

Glanced ==
  {[page |-> N(15), sort |-> T("age_desc"), scope |-> T("everything"), age_max |-> N(230)],
   [age_min |-> N(262), age_max |-> N(224), scope |-> T("all_records")],
   [age_max |-> T("junk"), age_band |-> T("u23")],
   [age_band |-> T("24_26"), sort |-> T("age_asc"), page_size |-> N(50), scope |-> T("all_records")],
   [rolefit_max |-> N(2000), min_minutes |-> N(4996), sort |-> T("rolefit_asc"), page_size |-> N(1010)],
   [value_max |-> N(60), value_min |-> N(-10), sort |-> T("value_desc"), role |-> T("r9")],
   [q |-> [txt |-> <<Blank, "psg", ".", Blank>>], league |-> T("france")],
   [club |-> [txt |-> <<"psg", "x", "y">>], sort |-> T("name_asc")],
   [club |-> T("om"), nationality |-> T("decomposed"), playstyle |-> T("No Key")],
   [club |-> T("tab")], [playstyle |-> T("endless"), rolefit_min |-> N(700)], [playstyle |-> T("b2"), page_size |-> N(40)],
   [q |-> [txt |-> <<"marseille", "ligue", "1">>], playstyle |-> T("b1"), value_max |-> T("lots")]}

mcLinks == [params : Walked, events : {2}] \union [params : Opened, events : {1}] \union [params : Glanced, events : {0}]

mcSavedViews == {[age_max |-> 22], [page_size |-> 1, sort |-> "value_asc"]}

mcPatches ==
  {[role |-> {"r1"}, sort |-> {"rolefit_asc"}], [age_min |-> {25}, age_max |-> {}],
   [rolefit_min |-> {60}, rolefit_max |-> {75}], [q |-> {<<"paris">>}]}

mcClubAliases == (<<"psg">> :> {<<"paris_sg">>, <<"saint-germain">>})
mcLeagueAliases == (<<"french">> :> {<<"france">>})
mcComposed == [decomposed |-> "england"]
mcRoleKeys == <<"r1", "r2">>
=============================================================================
