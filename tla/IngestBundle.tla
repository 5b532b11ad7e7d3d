---------------------------- MODULE IngestBundle ----------------------------
(***************************************************************************)
(* What an adapter hands to the ingestion job and what the job derives     *)
(* from it before it writes anything: the contract report, the quality     *)
(* findings, the fingerprint and the quarantine candidates.  Every         *)
(* definition is a function of the bundle alone; the writes are in         *)
(* CanonicalStore and the life of a run in IngestRuns.                     *)
(***************************************************************************)
EXTENDS Integers, SequencesExt, FiniteSetsExt, Lists

CONSTANTS
  None,                \* Python's None
  Unparsable,          \* a date text strptime refuses
  MetricNames,         \* keys of METRIC_REGISTRY
  PerformanceMetrics,  \* the registry entries of kind "performance"
  MetricAliases,       \* legacy name -> registry name
  CoreMetrics          \* EXPECTED_CORE_METRICS, as a sequence

ASSUME MetricRegistryAssumption ==
  /\ PerformanceMetrics \subseteq MetricNames
  /\ \A n \in DOMAIN MetricAliases : MetricAliases[n] \in MetricNames \ DOMAIN MetricAliases
  /\ ToSet(CoreMetrics) \subseteq PerformanceMetrics

MarketInputs == {"public_value_eur", "contract_until", "international_caps",
                 "hype_index", "recent_form_index"}
SignedMetrics == {"goals_minus_xg_per90", "finishing_over_xg"}

SupportedPositions == {"ST", "CF", "LW", "RW", "CAM", "AM", "CM", "DM", "LM", "RM",
                       "CB", "LB", "RB", "GK"}
\* POSITIONS: the positions with a RoleFit group.
PositionGroup == [p \in {"ST", "CF", "LW", "RW"} |-> "ATT"] @@
                 [p \in {"AM", "CAM", "CM", "DM"} |-> "MID"]
PositionGroupFor(p) == IF p \in DOMAIN PositionGroup THEN PositionGroup[p] ELSE None

ResolveMetric(n) == CASE n \in MetricNames -> n
                      [] n \in DOMAIN MetricAliases -> MetricAliases[n]
                      [] OTHER -> None
IsPerformanceMetric(n) == ResolveMetric(n) \in PerformanceMetrics
----------------------------------------------------------------------------
(* Canonical records.  A field whose value no rule reads is left out.      *)

Competition(slug, european) == [slug |-> slug, european |-> european]
Team(slug, comp) == [slug |-> slug, comp |-> comp]
PlayerRow(source, ext, name, birth, pos) ==
  [source |-> source, ext |-> ext, name |-> name, birth |-> birth, pos |-> pos]
AppearanceRow(ext, team, comp, season, minutes, group) ==
  [ext |-> ext, team |-> team, comp |-> comp, season |-> season,
   minutes |-> minutes, group |-> group]
MetricRow(ext, season, name, value, idSource, by, row) ==
  [ext |-> ext, season |-> season, name |-> name, value |-> value,
   idSource |-> idSource, by |-> by, row |-> row]

ProviderRow(slug) == [slug |-> slug]
SeasonRow(label, current) == [label |-> label, current |-> current]
IdentifierRow(provider, type, key, id) == [provider |-> provider, type |-> type, key |-> key, id |-> id]
RegistrationRow(provider, ext, team, comp, season) ==
  [provider |-> provider, ext |-> ext, team |-> team, comp |-> comp, season |-> season]
MatchRow(provider, id, comp, season, home, away) ==
  [provider |-> provider, id |-> id, comp |-> comp, season |-> season, home |-> home, away |-> away]
LineupRow(provider, match, ext, team, minutes) ==
  [provider |-> provider, match |-> match, ext |-> ext, team |-> team, minutes |-> minutes]
EventRow(provider, id, match, ext, team) ==
  [provider |-> provider, id |-> id, match |-> match, ext |-> ext, team |-> team]
CoverageRow(provider, comp, season, matches) ==
  [provider |-> provider, comp |-> comp, season |-> season, matches |-> matches]
EvidenceRow(provider, ext, comp, season, minutes) ==
  [provider |-> provider, ext |-> ext, comp |-> comp, season |-> season, minutes |-> minutes]

EmptyBundle(source, key) ==
  [source |-> source, key |-> key, provider |-> source, version |-> None,
   checksum |-> None, scope |-> None, asOf |-> None,
   providers |-> <<>>, seasons |-> <<>>, competitions |-> <<>>, teams |-> <<>>,
   players |-> <<>>, appearances |-> <<>>, metrics |-> <<>>, identifiers |-> <<>>,
   registrations |-> <<>>, matches |-> <<>>, lineups |-> <<>>, events |-> <<>>,
   coverages |-> <<>>, evidence |-> <<>>, warnings |-> <<>>, candidates |-> <<>>]
----------------------------------------------------------------------------
(* The provider contract.                                                  *)

ProviderTypes == {"fixture", "market_identity", "basic_statistics", "event",
                  "tracking", "commercial"}
AdapterModes == {"local_snapshot", "file_import", "api_ready"}
SupportedEntities == {"players", "teams", "competitions", "seasons", "appearances",
                      "lineups", "matches", "events", "valuations", "transfers"}
CoverageDimensions == {"competition", "season", "team", "match", "player", "event_location"}
MetricFamilies == {"performance", "market", "identity", "context", "event"}

\* ProviderCapabilities.validate: the set of complaints about a declaration.
CapabilityErrors(cap) ==
  { e \in {"provider_id", "display_name", "provider_type", "ingestion_mode", "entities",
           "dimensions", "families", "metrics", "credentials", "attribution"} :
      CASE e = "provider_id"    -> ~cap.slug
        [] e = "display_name"   -> ~cap.named
        [] e = "provider_type"  -> cap.type \notin ProviderTypes
        [] e = "ingestion_mode" -> cap.mode \notin AdapterModes
        [] e = "entities"       -> ~(cap.entities \subseteq SupportedEntities)
        [] e = "dimensions"     -> ~(cap.dimensions \subseteq CoverageDimensions)
        [] e = "families"       -> ~(cap.families \subseteq MetricFamilies)
        [] e = "metrics"        -> ~(cap.keys \subseteq MetricNames \cup MarketInputs)
        [] e = "credentials"    -> cap.needsCredentials /\ cap.credentialVars = {}
        [] e = "attribution"    -> cap.needsAttribution /\ cap.attribution = None }

\* SourceAdapter.validate_contract.
ContractErrors(adapter) ==
  CapabilityErrors(adapter.cap) \cup (IF adapter.name = adapter.cap.id THEN {} ELSE {"name"})

FamilySupported(cap, name) ==
  \/ IsPerformanceMetric(name) /\ "performance" \in cap.families
  \/ name \in MarketInputs /\ "market" \in cap.families

\* validate_adapter: a bundle conforms when this set is empty.
ConformanceErrors(adapter, b) ==
  ContractErrors(adapter) \cup
  { e \in {"unnamed", "source", "metric_only", "provenance", "undeclared"} :
      CASE e = "unnamed"     -> b.source = None \/ b.key = None
        [] e = "source"      -> b.source # adapter.name
        [] e = "metric_only" -> adapter.cap.metricOnly /\ b.players # <<>>
        [] e = "provenance"  -> \E p \in ToSet(b.players) : p.source = None \/ p.ext = None
        [] e = "undeclared"  -> \E m \in ToSet(b.metrics) :
                                  m.name \notin adapter.cap.keys /\ ~FamilySupported(adapter.cap, m.name) }
----------------------------------------------------------------------------
(* Quality findings (run_bundle_checks).                                   *)

Repeated(s) == { s[i] : i \in { i \in DOMAIN s : \E j \in 1..(i - 1) : s[j] = s[i] } }
Column(s, F(_)) == [i \in DOMAIN s |-> F(s[i])]
\* Two functions joined, the first where both are defined.
Over(f, g) == [x \in DOMAIN f \cup DOMAIN g |-> IF x \in DOMAIN f THEN f[x] ELSE g[x]]

\* The reference day of the age check, in days; a year is 365.25 of them.
CheckDay == 0
ImpossibleBirth(d) ==
  d # None /\ (d = Unparsable \/ d > CheckDay \/ (CheckDay - d) * 4 < 14 * 1461
                              \/ (CheckDay - d) * 4 > 45 * 1461)

NegativeNotAllowed(m) == m.value # None /\ m.value < 0 /\ m.name \notin SignedMetrics
UnknownMetric(m) == ResolveMetric(m.name) = None /\ m.name \notin MarketInputs
UngroupedPosition(p) == p.pos # None /\ PositionGroupFor(p.pos) = None

MissingCore(b) ==
  LET present == { ResolveMetric(m.name) : m \in { m \in ToSet(b.metrics) : IsPerformanceMetric(m.name) } }
  IN  IF present = {} THEN {} ELSE ToSet(CoreMetrics) \ present

Finding(check, severity, count) == [check |-> check, severity |-> severity, count |-> count]
Flag(check, severity, hits) ==
  Finding(check, IF hits = {} THEN "ok" ELSE severity, Cardinality(hits))

BundleChecks(b) ==
  << Flag("duplicate_player_source_ids", "error", Repeated(Column(b.players, LAMBDA p : <<p.source, p.ext>>))),
     Flag("impossible_birth_dates", "error", { i \in DOMAIN b.players : ImpossibleBirth(b.players[i].birth) }),
     Flag("missing_minutes", "warn", { i \in DOMAIN b.appearances : b.appearances[i].minutes = 0 }),
     Flag("negative_metrics", "warn", { i \in DOMAIN b.metrics : NegativeNotAllowed(b.metrics[i]) }),
     Flag("duplicate_player_season_rows", "error",
          Repeated(Column(b.appearances, LAMBDA a : <<a.ext, a.team, a.comp, a.season>>))),
     Flag("missing_public_values", "warn",
          { i \in DOMAIN b.players : \A m \in ToSet(b.metrics) :
              ~(m.name = "public_value_eur" /\ m.ext = b.players[i].ext) }),
     Flag("source_schema_drift", IF b.players # <<>> THEN "error" ELSE "warn", MissingCore(b)),
     Flag("out_of_scope_positions", "warn", { i \in DOMAIN b.players : UngroupedPosition(b.players[i]) }),
     Flag("unknown_metric_names", "warn", { m.name : m \in { m \in ToSet(b.metrics) : UnknownMetric(m) } }) >>

Raised(findings, severity) ==
  { f \in ToSet(findings) : f.severity = severity /\ f.count > 0 }

\* The report of the job: the checks and the adapter's own warnings.
QualityReport(b) ==
  LET findings == BundleChecks(b) \o b.warnings
  IN  [findings |-> findings, hasErrors |-> Raised(findings, "error") # {},
       errorChecks |-> { f.check : f \in Raised(BundleChecks(b), "error") }]
----------------------------------------------------------------------------
(* Quarantine candidates.                                                  *)

\* The context decides the payload fingerprint; only the row number is read back.
Candidate(type, ext, reason, context) ==
  [type |-> type, ext |-> ext, reason |-> reason, context |-> context]
RowOf(context) == IF "row" \in DOMAIN context THEN context.row ELSE None

UnsupportedPosition(p) == p.pos # None /\ p.pos \notin SupportedPositions
\* The job's own rejection of a position, once for a player, unless the adapter has one for it.
WithPositionCandidates(b) ==
  LET reason == "unsupported_position_mapping"
      unsupported == { i \in DOMAIN b.players : UnsupportedPosition(b.players[i]) }
      listed(ext) == \E c \in ToSet(b.candidates) : c.reason = reason /\ c.ext = ext
      rejected == { i \in unsupported : /\ ~listed(b.players[i].ext)
                                        /\ \A k \in unsupported : k < i => b.players[k].ext # b.players[i].ext }
      candidate(i) == Candidate("player", b.players[i].ext, reason, [position |-> b.players[i].pos])
  IN  [b EXCEPT !.candidates = @ \o Column(Places(b.players, rejected), candidate)]

BlockingReason(check) ==
  IF check \in {"duplicate_player_source_ids", "duplicate_player_season_rows"}
  THEN "duplicate_source_record" ELSE check
BlockingCandidates(b) ==
  LET findings == QualityReport(b).findings
      blocking == { i \in DOMAIN findings : findings[i].severity = "error" /\ findings[i].count > 0 }
      candidate(i) ==
        Candidate(IF findings[i].check = "source_schema_drift" THEN "source_schema" ELSE "source_row",
                  None, BlockingReason(findings[i].check), [details |-> findings[i].count])
  IN  b.candidates \o Column(Places(findings, blocking), candidate)
----------------------------------------------------------------------------
(* The fingerprint.  SHA-256 is taken as injective: two bundles have the   *)
(* same fingerprint exactly when they have the same identity.              *)

\* keyed: one entry per key, the last record with a key wins.
Keyed(s, Key(_)) ==
  [k \in { Key(r) : r \in ToSet(s) } |-> LET last == Max({ i \in DOMAIN s : Key(s[i]) = k }) IN s[last]]

Inventory(b) ==
  [players      |-> Keyed(b.players, LAMBDA p : <<p.source, p.ext>>),
   teams        |-> Keyed(b.teams, LAMBDA t : t.slug),
   competitions |-> Keyed(b.competitions, LAMBDA c : c.slug),
   seasons      |-> Keyed(b.seasons, LAMBDA s : s.label),
   matches      |-> Keyed(b.matches, LAMBDA m : <<m.provider, m.id>>),
   metrics      |-> Keyed(b.metrics, LAMBDA m :
                      <<IF m.idSource = None THEN b.source ELSE m.idSource, m.ext, m.season, m.name>>),
   coverage     |-> Keyed(b.coverages, LAMBDA c : <<c.provider, c.comp, c.season>>),
   counts       |-> << Len(b.players), Len(b.teams), Len(b.competitions), Len(b.seasons),
                       Len(b.appearances), Len(b.matches), Len(b.events), Len(b.metrics),
                       Len(b.coverages), Len(b.candidates) >>]

BundleScope(b) == <<b.key, b.scope>>
Fingerprint(b) ==
  [provider |-> b.provider, version |-> b.version, checksum |-> b.checksum,
   scope |-> BundleScope(b), inventory |-> Inventory(b)]
=============================================================================
