---------------------------- MODULE MCIngestRuns ----------------------------
(***************************************************************************)
(* Small inputs for IngestRuns: a squad file, the same squad with a name   *)
(* corrected, a feed that meets an ambiguous name, performance CSVs of     *)
(* which one corrects another, a file with a blocking error and an         *)
(* unreadable one.                                                         *)
(***************************************************************************)
EXTENDS IngestRuns

CONSTANT NotANumber
Csv == INSTANCE PerformanceCsv

MCAliases == [finishing |-> "xg"]
MCCore == <<"xg">>

SquadAdapter ==
  [name |-> "squad",
   cap |-> [id |-> "squad", slug |-> TRUE, named |-> TRUE, type |-> "fixture", mode |-> "local_snapshot",
            entities |-> {"players", "teams"}, dimensions |-> {"player"}, families |-> {"performance", "market"},
            keys |-> {}, needsCredentials |-> FALSE, credentialVars |-> {}, needsAttribution |-> FALSE,
            attribution |-> None, metricOnly |-> FALSE]]
FeedAdapter == [SquadAdapter EXCEPT !.name = "feed", !.cap.id = "feed"]

Born == -7000
Base(source, key, players) ==
  [EmptyBundle(source, key) EXCEPT
     !.seasons = <<SeasonRow("s1", TRUE)>>,
     !.competitions = <<Competition("c1", TRUE)>>, !.teams = <<Team("t1", "c1")>>,
     !.players = players]
\* The correction has a position for the player that had none of the known ones.
SquadA(nameB) ==
  [Base("squad", "squad-1", <<PlayerRow("squad", "a", "ann", Born, "ST"), PlayerRow("squad", "b", nameB, Born, "CM"),
                            PlayerRow("squad", "w", "wes", Born, IF nameB = "bob" THEN "libero" ELSE "CM")>>)
     EXCEPT !.appearances = <<AppearanceRow("a", "t1", "c1", "s1", 900, "ATT")>>,
            !.metrics = <<MetricRow("a", "s1", "public_value_eur", 5, None, None, None),
                          MetricRow("b", "s1", "public_value_eur", 5, None, None, None),
                          MetricRow("a", "s1", IF nameB = "bob" THEN "hype_index" ELSE "recent_form_index",
                                    -1, None, None, None)>>]
\* The feed covers a match of its own: its player, and one it does not know.
FeedB == [Base("feed", "feed-1", <<PlayerRow("feed", "z", "ann", Born, "ST")>>)
            EXCEPT !.providers = <<ProviderRow("feed")>>,
                   !.identifiers = <<IdentifierRow("feed", "player", "z", "id-z"), IdentifierRow("feed", "match", "m1", "id-m")>>,
                   !.registrations = <<RegistrationRow("feed", "z", "t1", "c1", "s1")>>,
                   !.matches = <<MatchRow("feed", "m1", "c1", "s1", "t1", "t2")>>,
                   !.lineups = <<LineupRow("feed", "m1", "z", "t1", 90), LineupRow("feed", "m1", "y", "t1", 90)>>,
                   !.events = <<EventRow("feed", "e1", "m1", "z", "t1"), EventRow("feed", "e2", "m1", "y", "t2")>>,
                   !.coverages = <<CoverageRow("feed", "c1", "s1", 1)>>,
                   !.evidence = <<EvidenceRow("feed", "z", "c1", "s1", 90)>>]
Minutes == [SquadA("bob") EXCEPT !.appearances[1].minutes = 1200]
Twice == [SquadA("bob") EXCEPT !.appearances = @ \o @]

Row(ext, value) == [ext |-> ext, idSource |-> "squad", name |-> "xg", value |-> value, season |-> "s1", snapshot |-> None]
Csv1 == << Row("a", NotANumber), Row("b", 2), Row("x", 1) >>
Csv2 == << Row("a", 3), Row("b", 2), Row("x", 1) >>
\* A line is put in before the one that is still wrong.
Csv3 == << Row("b", 2), Row("a", NotANumber) >>

Read_(b, adapter) == [fetch |-> "ok", bundle |-> b, adapter |-> adapter, provider |-> b.provider]
Delivered_ ==
  [squad   |-> Read_(SquadA("bob"), SquadAdapter),
   renamed |-> Read_(SquadA("ann"), SquadAdapter),
   minutes |-> Read_(Minutes, SquadAdapter),
   feed    |-> Read_(FeedB, FeedAdapter),
   csv     |-> Read_(Csv!CsvBundle(Csv1), Csv!CsvAdapter),
   fixed   |-> Read_(Csv!CsvBundle(Csv2), Csv!CsvAdapter),
   shifted |-> Read_(Csv!CsvBundle(Csv3), Csv!CsvAdapter),
   twice   |-> Read_(Twice, SquadAdapter),
   unread  |-> [fetch |-> "missing_required_source_fields", adapter |-> Csv!CsvAdapter, provider |-> "performance_csv"]]
CONSTANT Available
MCInputs == [n \in Available |-> Delivered_[n]]
=============================================================================
