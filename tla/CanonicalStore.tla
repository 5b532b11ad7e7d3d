--------------------------- MODULE CanonicalStore ---------------------------
(***************************************************************************)
(* The canonical tables and what publishing a bundle makes of them.  A     *)
(* table is a function from the natural key its unique constraint names to *)
(* the row; a row that came from a bundle carries the snapshot it came     *)
(* with.  Publish computes the whole write of ingest_bundle from the       *)
(* tables as the transaction reads them.                                   *)
(***************************************************************************)
EXTENDS IdentityResolution

Tables == {"providers", "seasons", "competitions", "teams", "players", "links", "identifiers",
           "appearances", "registrations", "matches", "lineups", "events", "coverages",
           "evidence", "metrics"}
EmptyStore == [t \in Tables |-> <<>>]

Has(db, table, key) == key \in DOMAIN db[table]

\* Rows whose key is the same and not stored yet: tables the job fills without a flush between
\* two rows insert both, and the unique constraint refuses the second.
Clash(db, table, rows, Key(_)) ==
  \E i, j \in DOMAIN rows : i < j /\ Key(rows[i]) = Key(rows[j]) /\ ~Has(db, table, Key(rows[i]))

\* Insert or overwrite by key; of two rows with one key the last stays.
PutAll(db, table, rows, Key(_), Row(_)) ==
  LET last(key) == rows[Max({ i \in DOMAIN rows : Key(rows[i]) = key })]
  IN  [db EXCEPT ![table] = Over([key \in { Key(r) : r \in ToSet(rows) } |-> Row(last(key))], @)]
----------------------------------------------------------------------------
(* Reference data.                                                         *)

\* provider_for: a provider nobody declared is created with a name made from its slug.
ProvidersFor(db, rows) ==
  [db EXCEPT !["providers"] = Over(@, [slug \in { r.provider : r \in ToSet(rows) } |-> [declared |-> FALSE]])]
UpsertProviders(db, b) ==
  PutAll(db, "providers", b.providers, LAMBDA p : p.slug, LAMBDA p : [declared |-> TRUE])

\* get_or_create_season: a season made current takes the mark from the others.
WithSeason(seasons, label, current) ==
  LET was == label \in DOMAIN seasons /\ seasons[label].current
      others == [l \in DOMAIN seasons |-> IF current THEN [current |-> FALSE] ELSE seasons[l]]
  IN  With(others, label, [current |-> current \/ was])
UpsertSeasons(db, b) ==
  [db EXCEPT !["seasons"] = FoldLeft(LAMBDA acc, s : WithSeason(acc, s.label, s.current), @, b.seasons)]

UpsertCompetitions(db, b) ==
  PutAll(db, "competitions", b.competitions, LAMBDA c : c.slug, LAMBDA c : [european |-> c.european])

\* A team keeps its league when the bundle does not have the competition.
UpsertTeams(db, b) ==
  LET comps == { c.slug : c \in ToSet(b.competitions) }
      league(teams, t) == CASE t.comp \in comps -> t.comp
                            [] t.comp \notin comps /\ t.slug \in DOMAIN teams -> teams[t.slug].league
                            [] OTHER -> None
  IN  [db EXCEPT !["teams"] =
         FoldLeft(LAMBDA acc, t : With(acc, t.slug, [league |-> league(acc, t)]), @, b.teams)]
----------------------------------------------------------------------------
(* Observations.  Each refers to what this bundle brought: a row with a    *)
(* reference the bundle did not resolve is skipped.                        *)

\* What the rows of a bundle may refer to; player maps a source key to a player.
Refs(b, player, snap) ==
  [player |-> player, snap |-> snap, source |-> b.source,
   teams |-> { t.slug : t \in ToSet(b.teams) }, comps |-> { c.slug : c \in ToSet(b.competitions) },
   seasons |-> { s.label : s \in ToSet(b.seasons) }]
Known(refs, ext) == <<refs.source, ext>> \in DOMAIN refs.player
PlayerOf(refs, ext) == refs.player[<<refs.source, ext>>]
InScope(refs, r) == Known(refs, r.ext) /\ r.team \in refs.teams /\ r.comp \in refs.comps /\ r.season \in refs.seasons

\* Provider identifiers: of entities in the first pass, of matches once the matches are stored.
EntityKnown(refs, i) ==
  CASE i.type = "competition" -> i.key \in refs.comps
    [] i.type = "season"      -> i.key \in refs.seasons
    [] i.type = "team"        -> i.key \in refs.teams
    [] i.type = "player"      -> Known(refs, i.key)
    [] OTHER                  -> FALSE
EntityId(refs, i) == IF i.type = "player" THEN PlayerOf(refs, i.key) ELSE i.key
IdentifierKey(i) == <<i.provider, i.type, i.id>>
EntityIdentifiers(refs, b) == SelectSeq(b.identifiers, LAMBDA i : EntityKnown(refs, i))
UpsertIdentifiers(db, refs, b) ==
  LET rows == EntityIdentifiers(refs, b)
  IN  PutAll(ProvidersFor(db, rows), "identifiers", rows, IdentifierKey,
             LAMBDA i : [entity |-> EntityId(refs, i), snap |-> refs.snap])

AppearanceKey(refs, a) == <<PlayerOf(refs, a.ext), a.team, a.comp, a.season>>
UpsertAppearances(db, refs, b) ==
  PutAll(db, "appearances", SelectSeq(b.appearances, LAMBDA a : InScope(refs, a)),
         LAMBDA a : AppearanceKey(refs, a),
         LAMBDA a : [minutes |-> a.minutes, group |-> a.group, snap |-> refs.snap])

Registered(refs, b) == SelectSeq(b.registrations, LAMBDA r : InScope(refs, r))
RegistrationKey(refs, r) == <<PlayerOf(refs, r.ext), r.team, r.comp, r.season, r.provider>>
UpsertRegistrations(db, refs, b) ==
  PutAll(ProvidersFor(db, b.registrations), "registrations", Registered(refs, b),
         LAMBDA r : RegistrationKey(refs, r), LAMBDA r : [snap |-> refs.snap])

MatchKey(m) == <<m.provider, m.id>>
Staged(refs, b) == SelectSeq(b.matches, LAMBDA m : m.comp \in refs.comps /\ m.season \in refs.seasons)
MatchesOf(refs, b) == { MatchKey(m) : m \in ToSet(Staged(refs, b)) }
UpsertMatches(db, refs, b) ==
  LET side(slug) == IF slug \in refs.teams THEN slug ELSE None
  IN  PutAll(ProvidersFor(db, b.matches), "matches", Staged(refs, b), MatchKey,
             LAMBDA m : [comp |-> m.comp, season |-> m.season, home |-> side(m.home),
                         away |-> side(m.away), snap |-> refs.snap])

MatchIdentifiers(refs, b) ==
  SelectSeq(b.identifiers, LAMBDA i : i.type = "match" /\ \E m \in MatchesOf(refs, b) : m[2] = i.key)
UpsertMatchIdentifiers(db, refs, b) ==
  LET rows == MatchIdentifiers(refs, b)
  IN  PutAll(ProvidersFor(db, rows), "identifiers", rows, IdentifierKey,
             LAMBDA i : [entity |-> i.key, snap |-> refs.snap])

LinedUp(refs, b) ==
  SelectSeq(b.lineups, LAMBDA l : <<l.provider, l.match>> \in MatchesOf(refs, b)
                                  /\ Known(refs, l.ext) /\ l.team \in refs.teams)
LineupKey(refs, l) == <<l.provider, l.match, PlayerOf(refs, l.ext), l.team>>
UpsertLineups(db, refs, b) ==
  PutAll(ProvidersFor(db, b.lineups), "lineups", LinedUp(refs, b), LAMBDA l : LineupKey(refs, l),
         LAMBDA l : [minutes |-> l.minutes, snap |-> refs.snap])

\* An event of a known match is kept when its player or team is not known, without them.
Happened(refs, b) == SelectSeq(b.events, LAMBDA e : <<e.provider, e.match>> \in MatchesOf(refs, b))
EventKey(e) == <<e.provider, e.id>>
UpsertEvents(db, refs, b) ==
  PutAll(ProvidersFor(db, b.events), "events", Happened(refs, b), EventKey,
         LAMBDA e : [match |-> e.match, snap |-> refs.snap,
                     player |-> IF Known(refs, e.ext) THEN PlayerOf(refs, e.ext) ELSE None,
                     team |-> IF e.team \in refs.teams THEN e.team ELSE None])

Covered(refs, b) == SelectSeq(b.coverages, LAMBDA c : c.comp \in refs.comps /\ c.season \in refs.seasons)
CoverageKey(refs, c) == <<c.provider, c.comp, c.season, refs.snap>>
UpsertCoverages(db, refs, b) ==
  PutAll(ProvidersFor(db, b.coverages), "coverages", Covered(refs, b), LAMBDA c : CoverageKey(refs, c),
         LAMBDA c : [matches |-> c.matches, snap |-> refs.snap])

Evidenced(refs, b) ==
  SelectSeq(b.evidence, LAMBDA e : Known(refs, e.ext) /\ e.comp \in refs.comps /\ e.season \in refs.seasons)
EvidenceKey(refs, e) == <<PlayerOf(refs, e.ext), e.comp, e.season, e.provider>>
UpsertEvidence(db, refs, b) ==
  PutAll(ProvidersFor(db, b.evidence), "evidence", Evidenced(refs, b), LAMBDA e : EvidenceKey(refs, e),
         LAMBDA e : [minutes |-> e.minutes, snap |-> refs.snap])
----------------------------------------------------------------------------
(* Metrics.                                                                *)

IdSource(b, m) == IF m.idSource = None THEN b.source ELSE m.idSource

\* resolve_metric_player: the bundle's own players first, then the links the database has.
MetricPlayer(db, refs, b, m) ==
  LET key == <<IdSource(b, m), m.ext>>
  IN  CASE key \in DOMAIN refs.player -> refs.player[key]
        [] key \notin DOMAIN refs.player /\ Has(db, "links", key) -> db["links"][key]
        [] OTHER -> None

MetricRejection(b, m, reason) ==
  IF reason = "unresolved_or_ambiguous_player_identity"
  THEN Candidate("player_metric", m.ext, reason, [source |-> IdSource(b, m), metric |-> m.name, row |-> m.row])
  ELSE Candidate("metric", m.ext, reason, [metric |-> m.name, season |-> m.season])

MetricKey(db, refs, b, m) == <<MetricPlayer(db, refs, b, m), b.source, m.season, m.name, b.key>>
UsableMetric(db, refs, b, m) ==
  ~UnknownMetric(m) /\ ~NegativeNotAllowed(m) /\ MetricPlayer(db, refs, b, m) # None

\* Why metric i of the bundle is rejected, None when it is not; a usable one is, when an earlier
\* usable one has its key.
MetricReason(db, refs, b, i) ==
  LET m == b.metrics[i]
  IN  CASE UnknownMetric(m) -> "invalid_canonical_metric_name"
        [] ~UnknownMetric(m) /\ NegativeNotAllowed(m) -> "invalid_metric_value"
        [] ~UnknownMetric(m) /\ ~NegativeNotAllowed(m) /\ MetricPlayer(db, refs, b, m) = None ->
             "unresolved_or_ambiguous_player_identity"
        [] OTHER -> IF \E k \in 1..(i - 1) : /\ UsableMetric(db, refs, b, b.metrics[k])
                                             /\ MetricKey(db, refs, b, b.metrics[k]) = MetricKey(db, refs, b, m)
                    THEN "duplicate_source_record" ELSE None

\* The loop over the metrics: rows to write, rejections, and the identities nobody answers to.
SiftMetrics(db, refs, b) ==
  LET reason(i) == MetricReason(db, refs, b, i)
      written == { i \in DOMAIN b.metrics : reason(i) = None }
      usable == { i \in DOMAIN b.metrics : UsableMetric(db, refs, b, b.metrics[i]) }
      key(i) == MetricKey(db, refs, b, b.metrics[i])
      rejection(i) == MetricRejection(b, b.metrics[i], reason(i))
  IN  [rows |-> [k \in { key(i) : i \in written } |-> b.metrics[CHOOSE i \in written : key(i) = k]],
       rejected |-> Column(Places(b.metrics, DOMAIN b.metrics \ written), rejection),
       unknown |-> { i \in DOMAIN b.metrics : reason(i) = "unresolved_or_ambiguous_player_identity" },
       repeats |-> usable \ written,
       seasons |-> { b.metrics[i].season : i \in usable }]

\* Seasons only metrics name are created; then this source's rows of the players and seasons the
\* bundle touches give way to the new ones.
ReplacesMetric(refs, b, sifted, key) ==
  /\ key[2] = b.source
  /\ key[1] \in { k[1] : k \in DOMAIN sifted.rows } \cup { refs.player[k] : k \in DOMAIN refs.player }
  /\ key[3] \in { k[3] : k \in DOMAIN sifted.rows } \cup refs.seasons
WriteMetrics(db, refs, b, sifted) ==
  LET kept == { k \in DOMAIN db["metrics"] : ~ReplacesMetric(refs, b, sifted, k) }
      row(m) == [value |-> m.value, row |-> m.row, snap |-> refs.snap,
                 by |-> IF m.by = None THEN b.source ELSE m.by]
  IN  [db EXCEPT !["seasons"] = Over(@, [l \in sifted.seasons |-> [current |-> FALSE]]),
                 !["metrics"] = Over([k \in DOMAIN sifted.rows |-> row(sifted.rows[k])], [k \in kept |-> @[k]])]
----------------------------------------------------------------------------
(* The whole publication.                                                  *)

AmbiguityCandidate(p, among) ==
  Candidate("player", p.ext, "unresolved_or_ambiguous_player_identity",
            [source |-> p.source, name |-> p.name, birth |-> ParseDate(p.birth), among |-> among])
Ambiguities(rows, ids) ==
  Column(Places(rows, DOMAIN ids.ambiguous), LAMBDA i : AmbiguityCandidate(rows[i], ids.ambiguous[i]))

Publishable(b) ==
  LET unsupported == { c.ext : c \in { c \in ToSet(b.candidates) : c.reason = "unsupported_position_mapping" } }
  IN  Sublist(b.players, { p \in ToSet(b.players) : p.ext \notin unsupported })

Repeats(db, refs, b) ==
  \/ Clash(db, "identifiers", EntityIdentifiers(refs, b), IdentifierKey)
  \/ Clash(db, "identifiers", MatchIdentifiers(refs, b), IdentifierKey)
  \/ Clash(db, "registrations", Registered(refs, b), LAMBDA r : RegistrationKey(refs, r))
  \/ Clash(db, "lineups", LinedUp(refs, b), LAMBDA l : LineupKey(refs, l))
  \/ Clash(db, "events", Happened(refs, b), EventKey)
  \/ Clash(db, "coverages", Covered(refs, b), LAMBDA c : CoverageKey(refs, c))
  \/ Clash(db, "evidence", Evidenced(refs, b), LAMBDA e : EvidenceKey(refs, e))

\* b is the bundle with its position candidates; snap the snapshot row; tag the run.
Publish(db, b, snap, tag) ==
  LET named == UpsertTeams(UpsertCompetitions(UpsertSeasons(UpsertProviders(db, b), b), b), b)
      ids == ResolvePlayers(named["players"], named["links"], Publishable(b), tag)
      refs == Refs(b, ids.resolved, snap)
      known == [named EXCEPT !["players"] = ids.players, !["links"] = ids.links]
      games == UpsertMatchIdentifiers(
                 UpsertMatches(UpsertRegistrations(UpsertAppearances(UpsertIdentifiers(
                   known, refs, b), refs, b), refs, b), refs, b), refs, b)
      seen == UpsertEvidence(UpsertCoverages(UpsertEvents(UpsertLineups(
                games, refs, b), refs, b), refs, b), refs, b)
      sifted == SiftMetrics(seen, refs, b)
  IN  [db |-> WriteMetrics(seen, refs, b, sifted),
       ok |-> ~Repeats(db, refs, b),
       players |-> ids.resolved, sifted |-> sifted,
       candidates |-> b.candidates \o Ambiguities(Publishable(b), ids) \o sifted.rejected]
=============================================================================
