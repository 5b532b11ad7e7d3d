---------------------------- MODULE PlayerDossier ----------------------------
(***************************************************************************)
(* What the API tells of one player: the dossier and the similar players   *)
(* (app/services/players_service.py: build_player_card, find_similar,      *)
(* _load_rows).  It is assembled in Python from whole tables, by rules of  *)
(* its own for the row a player is represented by, while DiscoverySearch   *)
(* selects those rows in SQL.                                              *)
(*                                                                         *)
(* Where the code takes the first of several rows in the order the         *)
(* database returns them, any of them may be the one.  The cosine of two   *)
(* style vectors is given with the database, in hundredths; metrics,       *)
(* audits, sources and the context panel are left out.                     *)
(***************************************************************************)
EXTENDS DiscoverySearch

CONSTANT SimilarLimit  \* the most players a group shows

Picks(rows) == IF rows = {} THEN {{}} ELSE {{r} : r \in rows}

\* Of the appearances with the most minutes, the first that is read.
PrimaryAppearances(db, p, season) ==
  LET rows == Of(db.appearances, p, season)
  IN {a \in rows : \A b \in rows : Minutes(b) =< Minutes(a)}

MarketsForPlayer(db, p, season) == Of(db.markets, p, season)

Outranks(o, r) == o.score > r.score \/ (o.score = r.score /\ RoleRank(o.role) < RoleRank(r.role))

\* A mutant: the first of the highest scores.
BestOfRead(ratings) == Picks({r \in ratings : \A o \in ratings : o.score =< r.score})

\* best_rating: the first of the ratings, sorted.
BestOf(ratings) == Picks({r \in ratings : ~\E o \in ratings : Outranks(o, r)})

RoleSummaries(ratings) ==
  LET rank(r) == 1 + Cardinality({o \in ratings : Outranks(o, r)})
  IN {[role |-> r.role, score |-> r.score, confidence |-> r.confidence, place |-> rank(r)] : r \in ratings}

Positives(badges) == {b.key : b \in {c \in badges : ~c.concern}}

GroupOf(appearance, who) ==
  IF appearance = {} THEN {POSITIONS[x] : x \in who.position \intersect DOMAIN POSITIONS}
  ELSE UNION {a.group : a \in appearance}

\* The answers to a request for player p; none when the player or the season is unknown.
BuildPlayerCard(db, p) ==
  UNION {LET ratings == Of(db.ratings, p, season.id)
             badges == Of(db.badges, p, season.id)
             highCoverage == [player |-> p, season |-> season.id] \in db.eligible
         IN {[id |-> p, age |-> AgeFor(db.players[p].birth, season.end),
              group |-> GroupOf(appearance, db.players[p]),
              club |-> {db.teams[t].name : t \in UNION {a.team : a \in appearance}},
              bestRole |-> {r.role : r \in best}, bestScore |-> {r.score : r \in best},
              confidence |-> Or({r.confidence : r \in best}, "unknown"),
              evidence |-> EvidenceStatus([highCoverage |-> highCoverage, best |-> ratings]),
              roles |-> RoleSummaries(ratings), playstyles |-> Positives(badges),
              low |-> MarketField(market, "low"), high |-> MarketField(market, "high")]
              : appearance \in Picks(PrimaryAppearances(db, p, season.id)), best \in BestOf(ratings),
                market \in Picks(MarketsForPlayer(db, p, season.id))}
         : season \in {s \in GetCurrentSeason(db) : p \in DOMAIN db.players}}

(***************************************************************************)
(* Similar players.                                                        *)
(***************************************************************************)
Present(db, season) == {a.player : a \in {b \in db.appearances : b.season = season.id}}

LoadedRow(db, p, season, appearance, market, best) ==
  [player |-> p, nameRank |-> db.players[p].nameRank, age |-> AgeFor(db.players[p].birth, season.end),
   group |-> PositionGroup(appearance, db.players[p]),
   bestRole |-> {r.role : r \in best}, bestScore |-> {r.score : r \in best},
   market |-> market, high |-> MarketField(market, "high")]

RowChoices(db, p, season) ==
  {LoadedRow(db, p, season, appearance, market, best)
     : appearance \in PrimaryAppearances(db, p, season.id),
       market \in Picks(MarketsForPlayer(db, p, season.id)), best \in BestOf(Of(db.ratings, p, season.id))}

\* _load_rows: one row of every player of the season, as a function of the player.
LoadRows(db, season) ==
  FoldSet(LAMBDA p, loaded : {(p :> row) @@ rows : row \in RowChoices(db, p, season), rows \in loaded},
          {<<>>}, Present(db, season))

Limited(ranked) == SubSeq(ranked, 1, Min({SimilarLimit, Len(ranked)}))

\* The players of a set, by keys that never tie.
RankedBy(players, keyOf(_)) ==
  SetToSortSeq(players, LAMBDA a, b : Precedes(keyOf(a), keyOf(b)))

HasStyle(db, p, season) == [player |-> p, season |-> season.id] \in db.styles

SimilarGroups(db, p, season, rows) ==
  LET group == IF p \in DOMAIN rows THEN rows[p].group ELSE {}
      scored == {q \in DOMAIN rows \ {p} : rows[q].group = group /\ HasStyle(db, q, season)}
      cosine(q) == db.likeness[{p, q}]
      scoreOf(q) == IF q \in DOMAIN rows THEN Or(rows[q].bestScore, 0) ELSE 0
      ask == IF p \in DOMAIN rows THEN rows[p].high \ {0} ELSE {}
      byStyle(q) == <<-cosine(q), rows[q].nameRank, q>>
      byQuality(q) == <<-scoreOf(q), q>>
      shown(players, keyOf(_)) == Limited(RankedBy(players, keyOf))
  IN [style |-> shown(scored, byStyle),
      quality |-> shown({q \in scored : cosine(q) >= 50}, byQuality),
      cheaper |-> shown({q \in scored : rows[q].market # {} /\ \E most \in ask : Or(rows[q].high, 0) < most}, byStyle),
      upside |-> shown({q \in scored : rows[q].bestScore # {} /\ scoreOf(q) > scoreOf(p)}, byStyle)]

\* The answers to a request for players similar to p: each group with the rows it shows.
FindSimilar(db, p) ==
  UNION {IF HasStyle(db, p, season)
         THEN {[rows |-> rows, groups |-> SimilarGroups(db, p, season, rows)] : rows \in LoadRows(db, season)}
         ELSE {}
         : season \in GetCurrentSeason(db)}
=============================================================================
