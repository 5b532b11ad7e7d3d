--------------------------- MODULE DiscoverySearch ---------------------------
(***************************************************************************)
(* Player discovery on the server: which players of the published season   *)
(* qualify for a request, in which order, what a page of them shows, and   *)
(* how an age in years becomes a window of birth dates                     *)
(* (app/services/players_service.py, app/repositories/discovery_repo.py    *)
(* and discovery_sort.py, app/core/search_aliases.py).                     *)
(*                                                                         *)
(* A database is a record of sets of rows.  An absent value is the empty   *)
(* set, a present one a singleton.  A text is a sequence of words, already *)
(* in lower case; a substring is a run of words.  Scores, minutes and      *)
(* prices are whole numbers, dates are numbers of days, a displayed age is *)
(* in tenths of a year and an age bound in hundredths.  NaN, which the     *)
(* query string admits, is left out.                                       *)
(***************************************************************************)
EXTENDS DiscoverySort

CONSTANTS ClubAliases,   \* normalised abbreviation -> the club texts it stands for
          LeagueAliases, \* normalised misspelling -> the league texts it stands for
          Punctuation,   \* words that only decorate an abbreviation
          RoleKeys,      \* configured roles, in alphabetical order
          LastDay        \* the last day a date can hold; the first one is day 1

(***************************************************************************)
(* Ages.                                                                   *)
(***************************************************************************)
\* round(days / 365.25, 1); no whole number of days is a tie.
RoundedAge(days) == (80 * days + 1461) \div 2922

AgeFor(birth, seasonEnd) ==
  IF birth = {} \/ seasonEnd = {} THEN {} ELSE {RoundedAge(The(seasonEnd) - The(birth))}

\* int(age * 365.25) of an age in hundredths: towards zero.
WholeDays(age) == IF age >= 0 THEN (age * 1461) \div 400 ELSE -((-age * 1461) \div 400)

\* The scans go down and then up (or up and then down) from a closed-form estimate to the
\* day the rounded age, which never decreases, crosses the bound.  It is this near.
ScanLimit == 60

\* A mutant: the exact age instead of the displayed one.
DaysForExactAge(ageMin) == (ageMin * 1461 + 399) \div 400

DaysForAgeFloor(ageMin) ==
  LET estimate == WholeDays(ageMin - 10) - 2
  IN CHOOSE d \in estimate - ScanLimit .. estimate + ScanLimit :
       10 * RoundedAge(d) >= ageMin /\ 10 * RoundedAge(d - 1) < ageMin

DaysForAgeCeiling(ageMax) ==
  LET estimate == WholeDays(ageMax + 10) + 2
  IN CHOOSE d \in estimate - ScanLimit .. estimate + ScanLimit :
       10 * RoundedAge(d) =< ageMax /\ 10 * RoundedAge(d + 1) > ageMax

AGE_SPAN_LIMIT == 1200000

NoWindow == [before |-> {}, after |-> {}, active |-> FALSE, impossible |-> FALSE]
NoBirthDate == [NoWindow EXCEPT !.active = TRUE, !.impossible = TRUE]

BirthDateWindow(seasonEnd, floors, ceilings) ==
  LET end == The(seasonEnd)
      oldest == end - 1
      youngest == end - LastDay
      floorDays == {DaysForAgeFloor(a) : a \in {b \in floors : b >= -AGE_SPAN_LIMIT}}
      ceilingDays == {DaysForAgeCeiling(a) : a \in {b \in ceilings : b =< AGE_SPAN_LIMIT}}
      befores == {end - d : d \in {e \in floorDays : e >= youngest}}
      afters == {end - d : d \in {e \in ceilingDays : e =< oldest}}
  IN IF floors \union ceilings = {} THEN NoWindow
     ELSE IF \/ seasonEnd = {}
             \/ \E a \in floors : a > AGE_SPAN_LIMIT
             \/ \E a \in ceilings : a < -AGE_SPAN_LIMIT
             \/ \E d \in floorDays : d > oldest
             \/ \E d \in ceilingDays : d < youngest
          THEN NoBirthDate
     ELSE [before |-> IF befores = {} THEN {} ELSE {Min(befores)},
           after |-> IF afters = {} THEN {} ELSE {Max(afters)},
           active |-> TRUE, impossible |-> FALSE]

AgeBandBounds(band) ==
  CASE band = {"u23"} -> [floor |-> {}, ceiling |-> {2300}]
    [] band = {"24_26"} -> [floor |-> {2400}, ceiling |-> {2600}]
    [] band = {"27_30"} -> [floor |-> {2700}, ceiling |-> {3000}]
    [] band = {"31_plus"} -> [floor |-> {3100}, ceiling |-> {}]
    [] OTHER -> [floor |-> {}, ceiling |-> {}]

(***************************************************************************)
(* Text.                                                                   *)
(***************************************************************************)
HasWords(haystack, needle) ==
  \E at \in 0 .. Len(haystack) - Len(needle) :
    SubSeq(haystack, at + 1, at + Len(needle)) = needle

ContainsAny(haystack, needles) == \E n \in needles : HasWords(haystack, n)

SpaceJoined(parts) == FlattenSeq([i \in DOMAIN parts |-> Or(parts[i], <<>>)])

NormalizeAliasKey(text) == SelectSeq(text, LAMBDA word : word \notin Punctuation)

AliasTargets(table, needle) ==
  LET key == NormalizeAliasKey(needle)
  IN IF key \in DOMAIN table THEN table[key] ELSE {}

(***************************************************************************)
(* The one row of each table a player is represented by.                   *)
(***************************************************************************)
GetCurrentSeason(db) ==
  LET current == {s \in db.seasons : s.current}
      newest == {s \in db.seasons : \A t \in db.seasons : t.id =< s.id}
  IN IF current # {} THEN current ELSE newest

Of(rows, player, season) == {r \in rows : r.player = player /\ r.season = season}

Minutes(appearance) == Or(appearance.minutes, 0)

PrimaryAppearance(db, p, season) ==
  LET rows == Of(db.appearances, p, season)
  IN {a \in rows : ~\E b \in rows : \/ Minutes(b) > Minutes(a)
                                    \/ Minutes(b) = Minutes(a) /\ b.id < a.id}

RoleRank(role) == CHOOSE i \in DOMAIN RoleKeys : RoleKeys[i] = role

BestRating(db, p, season) ==
  LET rows == Of(db.ratings, p, season)
  IN {r \in rows : ~\E o \in rows :
        \/ o.score > r.score
        \/ o.score = r.score /\ RoleRank(o.role) < RoleRank(r.role)
        \/ o.score = r.score /\ o.role = r.role /\ o.id < r.id}

\* A mutant: the role is not looked at.
FirstRating(db, p, season, role) ==
  LET rows == Of(db.ratings, p, season)
  IN {r \in rows : ~\E o \in rows : o.id < r.id}

SelectedRating(db, p, season, role) ==
  LET rows == {r \in Of(db.ratings, p, season) : r.role = role}
  IN {r \in rows : ~\E o \in rows : o.id < r.id}

MarketRow(db, p, season) ==
  LET rows == Of(db.markets, p, season)
  IN {m \in rows : ~\E o \in rows : o.id > m.id}

MarketField(market, field) == UNION {m[field] : m \in market}

POSITIONS == [ST |-> "ATT", LW |-> "ATT", AM |-> "MID", DM |-> "MID"]

PositionGroup(appearance, player) ==
  IF appearance.group # {} THEN appearance.group
  ELSE {POSITIONS[x] : x \in player.position \intersect DOMAIN POSITIONS}

\* The joined row of a player in a season: one row of each table, or none.
Candidate(db, f, p) ==
  LET a == The(PrimaryAppearance(db, p, f.season))
      best == BestRating(db, p, f.season)
  IN [player |-> p, who |-> db.players[p], appearance |-> a,
      team |-> {db.teams[t] : t \in a.team}, league |-> {db.leagues[c] : c \in a.league},
      best |-> best,
      result |-> IF f.role = {} THEN best ELSE SelectedRating(db, p, f.season, The(f.role)),
      market |-> MarketRow(db, p, f.season),
      highCoverage |-> [player |-> p, season |-> f.season] \in db.eligible,
      badges |-> Of(db.badges, p, f.season)]

(***************************************************************************)
(* The predicates of a request.                                            *)
(***************************************************************************)
ClubHaystack(row) == SpaceJoined(<<{t.slug : t \in row.team}, {t.name : t \in row.team}>>)
LeagueHaystack(row) == SpaceJoined(<<{c.slug : c \in row.league}, {c.name : c \in row.league},
                                     UNION {c.country : c \in row.league}>>)

InScope(row, scope) ==
  CASE scope = "analyzed" -> row.best # {}
    [] scope = "high_coverage_u23" -> row.highCoverage
    [] OTHER -> TRUE

MatchesFreeText(row, q) ==
  \/ HasWords(SpaceJoined(<<{row.who.name}, {t.name : t \in row.team}, {c.name : c \in row.league},
                            {<<x>> : x \in row.who.position}>>), q)
  \/ ContainsAny(ClubHaystack(row), AliasTargets(ClubAliases, q))

Resolves(haystack, table, needle) ==
  LET targets == AliasTargets(table, needle)
  IN ContainsAny(haystack, IF targets = {} THEN {needle} ELSE targets)

BornInWindow(birth, window) ==
  /\ ~window.impossible
  /\ window.active => /\ birth # {}
                      /\ \A day \in birth, last \in window.before : day =< last
                      /\ \A day \in birth, first \in window.after : day >= first

Scores(row) == {r.score : r \in row.result}

Qualifies(row, f) ==
  /\ f.role # {} => row.result # {}
  /\ InScope(row, f.scope)
  /\ \A q \in f.q : MatchesFreeText(row, q)
  /\ \A g \in f.position_group : PositionGroup(row.appearance, row.who) = {g}
  /\ \A needle \in f.league : Resolves(LeagueHaystack(row), LeagueAliases, needle)
  /\ \A needle \in f.club : Resolves(ClubHaystack(row), ClubAliases, needle)
  /\ \A needle \in f.nationality : HasWords(Or(row.who.nationality, <<>>), needle)
  /\ \A least \in f.min_minutes : Minutes(row.appearance) >= least
  /\ BornInWindow(row.who.birth, f.window)
  /\ \A least \in f.rolefit_min : \E s \in Scores(row) : s >= least
  /\ \A most \in f.rolefit_max : \E s \in Scores(row) : s =< most
  /\ \A key \in f.playstyle : \E b \in row.badges : b.key = key /\ ~b.concern
  /\ \A least \in f.value_min : \E high \in MarketField(row.market, "high") : high >= least
  /\ \A most \in f.value_max : \E low \in MarketField(row.market, "low") : low =< most

Candidates(db, f) ==
  {row \in {Candidate(db, f, p) : p \in {a.player : a \in {b \in db.appearances : b.season = f.season}}}
     : Qualifies(row, f)}

(***************************************************************************)
(* The order of a result.                                                  *)
(***************************************************************************)
SEARCH_SORTS == {"rolefit_desc", "rolefit_asc", "age_asc", "age_desc", "value_desc", "value_asc", "name_asc"}

Age(row, f) == AgeFor(row.who.birth, f.seasonEnd)

\* What the keys of a row are computed from.
SortContext(row, f) ==
  [score |-> Scores(row), confidence |-> {r.confidence : r \in row.result}, age |-> Age(row, f),
   asking_low |-> MarketField(row.market, "low"), name_key |-> row.who.nameRank, player_id |-> row.player]

\* The orders the database may return a set of rows in: rows equal in every key
\* come in any order.
Orders(rows, f, sort) ==
  LET keys == [row \in rows |-> OrderBy(SortContext(row, f), sort)]
      beforeIt(row) == {o \in rows : Precedes(keys[o], keys[row])}
  IN IF \A r, s \in rows : r # s => keys[r] # keys[s]
     THEN {[i \in 1 .. Cardinality(rows) |->
              CHOOSE row \in rows : Cardinality(beforeIt(row)) = i - 1]}
     ELSE {s \in SetToSeqs(rows) : \A i, j \in DOMAIN s : i < j => ~Precedes(keys[s[j]], keys[s[i]])}

(***************************************************************************)
(* The statements of one request.                                          *)
(***************************************************************************)
SEARCH_SCOPES == {"analyzed", "all_records", "high_coverage_u23"}

NormalizeScope(scope, universe) ==
  IF scope \in {{s} : s \in SEARCH_SCOPES} THEN The(scope)
  ELSE IF universe = {"mvp"} THEN "high_coverage_u23"
  ELSE IF universe = {"all"} THEN "all_records" ELSE "analyzed"

\* The request as the repository sees it.
Resolved(query, season) ==
  LET band == AgeBandBounds(query.age_band)
  IN [season |-> season.id, seasonEnd |-> season.end,
      scope |-> NormalizeScope(query.scope, query.universe),
      q |-> query.q, position_group |-> query.position_group, role |-> query.role,
      league |-> query.league, club |-> query.club, nationality |-> query.nationality,
      min_minutes |-> query.min_minutes, rolefit_min |-> query.rolefit_min,
      rolefit_max |-> query.rolefit_max, playstyle |-> query.playstyle,
      value_min |-> query.value_min, value_max |-> query.value_max,
      window |-> BirthDateWindow(season.end, query.age_min \union band.floor,
                                 query.age_max \union band.ceiling)]

CountPlayers(db, f) == Cardinality({row.player : row \in Candidates(db, f)})

CeilDiv(n, d) == (n + d - 1) \div d

EffectivePage(page, totalPages) == IF totalPages = 0 THEN 1 ELSE Min({page, totalPages})

Offset(page, pageSize) == (page - 1) * pageSize

\* LIMIT pageSize OFFSET offset, of each order the database may choose.
FetchPage(db, f, sort, pageSize, offset) ==
  {SubSeq(s, offset + 1, Min({offset + pageSize, Len(s)})) : s \in Orders(Candidates(db, f), f, sort)}

TIER_ORDER == [base |-> 1, plus |-> 2, elite |-> 3]

\* The three strongest badges; badges of a tier come in the order of their names.
TopPlaystyles(badges) ==
  LET positives == {b \in badges : ~b.concern}
      ahead(b) == {c \in positives : \/ TIER_ORDER[c.tier] > TIER_ORDER[b.tier]
                                     \/ TIER_ORDER[c.tier] = TIER_ORDER[b.tier] /\ c.nameRank < b.nameRank}
  IN {b.key : b \in {c \in positives : Cardinality(ahead(c)) < 3}}

EvidenceStatus(row) ==
  IF row.highCoverage THEN "high_coverage"
  ELSE IF row.best # {} THEN "analyzed_limited" ELSE "profile_only"

CardFromRow(row, badges, f) ==
  [id |-> row.player, age |-> Age(row, f), nameRank |-> row.who.nameRank,
   club |-> {t.name : t \in row.team}, group |-> PositionGroup(row.appearance, row.who),
   minutes |-> Minutes(row.appearance),
   bestRole |-> {r.role : r \in row.best}, bestScore |-> {r.score : r \in row.best},
   bestConfidence |-> Or({r.confidence : r \in row.best}, "unknown"),
   resultRole |-> {r.role : r \in row.result}, resultScore |-> Scores(row),
   confidence |-> Or({r.confidence : r \in row.result}, "unknown"),
   evidence |-> EvidenceStatus(row), playstyles |-> TopPlaystyles(badges),
   low |-> MarketField(row.market, "low"), high |-> MarketField(row.market, "high")]
=============================================================================
