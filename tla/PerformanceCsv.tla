--------------------------- MODULE PerformanceCsv ---------------------------
(***************************************************************************)
(* The performance CSV adapter: a file of metric rows in, a bundle without *)
(* players out.  A row the adapter cannot use is quarantined under its     *)
(* line number; the first line of data is line 2.                          *)
(***************************************************************************)
EXTENDS IngestBundle

CONSTANT NotANumber    \* a metric_value text float() refuses

SourceName == "performance_csv"

CsvAdapter ==
  [name |-> SourceName,
   cap |-> [id |-> SourceName, slug |-> TRUE, named |-> TRUE, type |-> "basic_statistics",
            mode |-> "file_import", entities |-> {"seasons"}, dimensions |-> {"season", "player"},
            families |-> {"performance"}, keys |-> {}, needsCredentials |-> FALSE,
            credentialVars |-> {}, needsAttribution |-> FALSE, attribution |-> None, metricOnly |-> TRUE]]

AllowsNegative(name) == name = "goals_minus_xg_per90"

RowReason(r) ==
  CASE ResolveMetric(r.name) = None -> "invalid_canonical_metric_name"
    [] ResolveMetric(r.name) # None /\ r.value = NotANumber -> "invalid_metric_value"
    [] OTHER -> IF r.value < 0 /\ ~AllowsNegative(ResolveMetric(r.name)) THEN "invalid_metric_value" ELSE None

CsvCandidate(r, line) ==
  Candidate("metric", r.ext, RowReason(r),
            [row |-> line, metric |-> IF ResolveMetric(r.name) = None THEN r.name ELSE ResolveMetric(r.name)])
CsvMetric(r, line) == MetricRow(r.ext, r.season, ResolveMetric(r.name), r.value, r.idSource, SourceName, line)

\* PerformanceCsvAdapter.fetch.
CsvBundle(rows) ==
  LET lines == [i \in DOMAIN rows |-> i]
      good == SelectSeq(lines, LAMBDA i : RowReason(rows[i]) = None)
      bad == SelectSeq(lines, LAMBDA i : RowReason(rows[i]) # None)
      refused(reason, Which(_)) == { i \in ToSet(bad) : RowReason(rows[i]) = reason /\ Which(rows[i]) }
      keys == SelectSeq(Column(rows, LAMBDA r : r.snapshot), LAMBDA k : k # None)
      labels == { rows[i].season : i \in ToSet(good) } \ {None}
  IN  [EmptyBundle(SourceName, IF keys = <<>> THEN SourceName ELSE keys[1])
         EXCEPT !.metrics = Column(good, LAMBDA i : CsvMetric(rows[i], i + 1)),
                !.candidates = Column(bad, LAMBDA i : CsvCandidate(rows[i], i + 1)),
                !.seasons = Column(SetToSeq(labels), LAMBDA l : [label |-> l, current |-> FALSE]),
                !.warnings =
                  << Flag("invalid_metric_names", "warn",
                          { rows[i].name : i \in refused("invalid_canonical_metric_name", LAMBDA r : TRUE) }),
                     Flag("invalid_metric_values", "warn",
                          refused("invalid_metric_value", LAMBDA r : r.value = NotANumber)),
                     Flag("invalid_negative_metrics", "warn",
                          refused("invalid_metric_value", LAMBDA r : r.value # NotANumber)) >>]
=============================================================================
