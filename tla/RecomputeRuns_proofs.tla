------------------------ MODULE RecomputeRuns_proofs ------------------------
(***************************************************************************)
(* Why the analysis of a season is of one run, whatever overlaps.  A run   *)
(* that deletes the ratings of a season has seen and deletes every row of  *)
(* it, unless another run has committed the season since: then it meets    *)
(* that run's ratings on a unique key, or the two have raced.              *)
(*                                                                         *)
(* And why every rating there is says what the rating rules make of one    *)
(* reading of its season: so more evidence is never trusted less, and who  *)
(* is better in every metric is never scored below.                        *)
(***************************************************************************)
EXTENDS RecomputeRuns, ListFacts, FiniteSetTheorems, TLAPS

TABLES == {"ratings", "metrics", "context", "playstyles", "market", "similarity", "membership", "audits"}
TODOS == {<<"s1", "s2">>, <<"s2">>, <<>>}
WORKING == {"ids", "clear", "raw", "world", "rate", "rank"}
STAGES == WORKING \cup {"idle", "season", "finished", "failed"}

\* A row, and a run, as what its fields make of it.
IsRow(y) == y = [table |-> y.table, season |-> y.season, player |-> y.player, key |-> y.key, run |-> y.run,
                 value |-> y.value, trust |-> y.trust, rank |-> y.rank]
IsRun(x) == x = [at |-> x.at, todo |-> x.todo, clear |-> x.clear, targets |-> x.targets, snapshots |-> x.snapshots,
                 read |-> x.read, rows |-> x.rows, found |-> x.found, inserted |-> x.inserted,
                 deleted |-> x.deleted, pending |-> x.pending, beside |-> x.beside, stamp |-> x.stamp]

IsKept(y) ==
  /\ IsRow(y) /\ (IF y.season = "" THEN y.table = "definitions" ELSE y.table \in TABLES)
  /\ y.table = "audits" => y = Row("audits", y.season, y.player, y.key, y.run, 0, "")

\* A rating and its audit.
Rates(z, y) ==
  z.table = "ratings" /\ z.season = y.season /\ z.player = y.player /\ z.key = y.key /\ z.run = y.run
Paired(rows) == \A y \in rows : y.table = "audits" => \E z \in rows : Rates(z, y)

IsAnalysis(rows, s, r) ==
  /\ \A y \in rows : IsKept(y) /\ y.season = s /\ y.run = r /\ y.rank = 0 /\ y.table \in TABLES
  /\ Paired(rows)

KeysOf(rows) == {[player |-> y.player, key |-> y.key] : y \in OfTable(rows, "ratings")}
HasKey(y, s, k) == y.table = "ratings" /\ y.season = s /\ y.player = k.player /\ y.key = k.key

(* Where a run stands in a season. *)
Doing(x, s) == x.at \in WORKING /\ s = Head(x.todo)
\* Its ratings are not deleted yet.
Untouched(x, s) == Doing(x, s) /\ (x.at = "ids" \/ (x.at = "clear" /\ "ratings" \in ToSet(x.clear)))
\* It waits to delete the audits.
Aiming(x, s) == Doing(x, s) /\ x.at = "clear" /\ "ratings" \in ToSet(x.clear) /\ x.targets # {}
\* Its ratings have been flushed.
Written(x, s) == s \in DOMAIN x.read /\ (Doing(x, s) => x.at = "rank")
Over(x, s) == s \in DOMAIN x.read /\ ~Doing(x, s)

Shape(x) ==
  /\ IsRun(x) /\ x.at \in STAGES /\ x.todo \in TODOS
  /\ DOMAIN x.read \subseteq SEASONS
  /\ x.at \in WORKING => x.todo # <<>> /\ Head(x.todo) \in DOMAIN x.read
  /\ \A s \in DOMAIN x.read : s \in ToSet(x.todo) => Doing(x, s)
  /\ x.at # "clear" => x.targets = {}
  /\ x.at = "clear" => x.clear \in Seq(TABLES) /\ ("ratings" \in ToSet(x.clear) => x.clear = CLEARED)
  /\ x.found \subseteq DOMAIN x.read
  /\ \A s \in x.found : ~(Doing(x, s) /\ x.at = "ids")
  /\ x.at \in {"idle", "finished", "failed"} => x.inserted = {} /\ x.deleted = {} /\ x.pending = {}

\* What it deletes was committed before, what it writes is its own, or a rank it has changed.
Takes(x, done) ==
  \A y \in x.deleted \cup x.targets :
    /\ IsKept(y) /\ y.run \in done /\ y.season \in DOMAIN x.read
    /\ Untouched(x, y.season) => y.table = "audits" /\ x.at = "clear"
    /\ y \in x.targets => Doing(x, y.season)

Writes(x, r, done) ==
  /\ \A y \in x.inserted \cup x.pending :
       /\ IsKept(y) /\ (y.season = "" \/ Written(x, y.season))
       /\ y.run = r \/ (y.table = "ratings" /\ y.run \in done)
  /\ Paired(x.inserted \cup x.pending)

Analyses(x, r) ==
  /\ \A s \in DOMAIN x.rows : IsAnalysis(x.rows[s], s, r)
  /\ x.at # "failed" => \A s \in DOMAIN x.read : Written(x, s) \/ x.at = "rate" => s \in DOMAIN x.rows
  /\ x.at \notin {"finished", "failed"} => \A s \in DOMAIN x.read : Written(x, s) =>
       \A k \in KeysOf(x.rows[s]) : \E y \in x.inserted : y.run = r /\ HasKey(y, s, k)
  /\ x.at = "rank" =>
       /\ InSeason(x.inserted \cup x.pending, Head(x.todo)) = OfTables(x.rows[Head(x.todo)], SCORED)
       /\ OfTable(InSeason(x.pending, Head(x.todo)), "ratings") = {}

\* An audit goes with its rating, unless the rating is only ranked anew.
TakesAudits(x, kept) ==
  \A z \in x.deleted : \A y \in kept : y.table = "audits" /\ Rates(z, y) => y \in x.deleted \/ \E w \in x.inserted : Rates(w, y)

RunInv(x, r, kept, done) ==
  Shape(x) /\ Takes(x, done) /\ Writes(x, r, done) /\ Analyses(x, r) /\ TakesAudits(x, kept)

KeptInv(kept, done) == (\A y \in kept : IsKept(y) /\ y.run \in done) /\ Paired(kept)

FinishedRuns == {q \in DOMAIN runs : Finished(q)}

StampsInv ==
  /\ IsFiniteSet(DOMAIN runs)
  /\ \A r \in FinishedRuns : runs[r].stamp \in Nat /\ runs[r].stamp <= Cardinality(FinishedRuns)

BesideInv ==
  \A r \in DOMAIN runs :
    /\ runs[r].beside \subseteq DOMAIN runs
    /\ Open(r) => \A q \in Others(r) : q \in runs[r].beside

KeysApart ==
  \A r, q \in DOMAIN runs : Open(r) /\ Open(q) /\ r # q =>
    \A y \in runs[r].inserted : \A z \in runs[q].inserted : y.table = "ratings" => ~SameKey(y, z)

(* Who else has analysed the season. *)
Preceded(r, s) == \E p \in runs[r].beside : Analysed(p, s)
AuditsOf(s) == OfTable(InSeason(stored, s), "audits")

Aimed(r, s) ==
  \/ Preceded(r, s)
  \/ /\ AuditsOf(s) # {}
     /\ AuditsOf(s) \subseteq IF Aiming(runs[r], s) THEN runs[r].targets ELSE runs[r].deleted
AimInv == \A r \in DOMAIN runs : Open(r) => \A s \in runs[r].found : Aimed(r, s)

LockInv ==
  \A r, q \in DOMAIN runs : Open(r) /\ Open(q) /\ r # q =>
    \A s \in runs[r].found \cap runs[q].found :
      ~Aiming(runs[r], s) /\ ~Aiming(runs[q], s) => Preceded(r, s) \/ Preceded(q, s)

\* Every committed row of the season is deleted, or about to be.
Clean(x, s, kept) ==
  \A y \in InSeason(kept, s) :
    \/ y \in x.deleted \cup x.targets
    \/ Doing(x, s) /\ x.at = "clear" /\ y.table \in ToSet(x.clear)
    \/ y.table = "audits" /\ \E z \in x.targets \cap kept : Rates(z, y)

\* Another run has committed the season since its ratings were read.
Behind(r, s) ==
  \E q \in runs[r].beside :
    /\ Analysed(q, s) /\ ~Locked(r, q, s)
    /\ \A k \in RatedKeys(q, s) : \E y \in stored \ (runs[r].deleted \cup runs[r].targets) : HasKey(y, s, k)

Covered(r, s) ==
  IF ~Written(runs[r], s) THEN Clean(runs[r], s, stored) \/ Behind(r, s)
  ELSE \/ /\ Clean(runs[r], s, stored)
          /\ Over(runs[r], s) => InSeason(runs[r].inserted \cup runs[r].pending, s) = RankedRows(r, s)
       \/ Raced(r, s)
CoverInv ==
  \A r \in DOMAIN runs : Open(r) => \A s \in DOMAIN runs[r].read : ~Untouched(runs[r], s) => Covered(r, s)

RunsInv == \A r \in DOMAIN runs : RunInv(runs[r], r, stored, FinishedRuns)

Inv ==
  /\ RunsInv /\ KeptInv(stored, FinishedRuns) /\ StampsInv /\ BesideInv /\ KeysApart
  /\ AimInv /\ LockInv /\ CoverInv /\ AnalysisIsOfOneRun

-----------------------------------------------------------------------------
(* What there is to know of lists of seasons and of tables. *)

(* The seasons still to do. *)
LEMMA Todos ==
  ASSUME NEW t \in TODOS, t # <<>>
  PROVE  /\ Head(t) \in SEASONS /\ Tail(t) \in TODOS
         /\ ToSet(t) = {Head(t)} \cup ToSet(Tail(t)) /\ Head(t) \notin ToSet(Tail(t))
<1>1. CASE t = <<"s1", "s2">>
  <2>1. Head(t) = "s1" /\ Tail(t) = <<"s2">> BY <1>1
  <2>2. ToSet(t) = {"s1", "s2"} /\ ToSet(Tail(t)) = {"s2"} BY <1>1, <2>1 DEF ToSet
  <2>3. QED BY <2>1, <2>2 DEF SEASONS, TODOS
<1>2. CASE t = <<"s2">>
  <2>1. Head(t) = "s2" /\ Tail(t) = <<>> BY <1>2
  <2>2. ToSet(t) = {"s2"} /\ ToSet(Tail(t)) = {} BY <1>2, <2>1 DEF ToSet
  <2>3. QED BY <2>1, <2>2 DEF SEASONS, TODOS
<1>3. QED BY <1>1, <1>2 DEF TODOS

(* The tables that are cleared, the ratings first. *)
LEMMA ClearedTables ==
  /\ CLEARED \in Seq(TABLES) /\ ToSet(CLEARED) = TABLES \ {"audits"}
  /\ Head(CLEARED) = "ratings" /\ ToSet(Tail(CLEARED)) = TABLES \ {"ratings", "audits"}
<1>1. CLEARED \in Seq(TABLES) BY DEF CLEARED, TABLES
<1>2. ToSet(CLEARED) = TABLES \ {"audits"} BY DEF CLEARED, ToSet, TABLES
<1>3. Head(CLEARED) = "ratings" BY DEF CLEARED
<1>4. ToSet(Tail(CLEARED)) = TABLES \ {"ratings", "audits"}
  <2>1. Tail(CLEARED) = <<"metrics", "context", "playstyles", "market", "similarity", "membership">> BY DEF CLEARED
  <2> DEFINE t == <<"metrics", "context", "playstyles", "market", "similarity", "membership">>
  <2>2. ToSet(t) = {t[1], t[2], t[3], t[4], t[5], t[6]}
    <3>1. DOMAIN t = {1, 2, 3, 4, 5, 6} OBVIOUS
    <3>2. QED BY <3>1 DEF ToSet
  <2>3. QED BY <2>1, <2>2 DEF TABLES
<1>5. QED BY <1>1, <1>2, <1>3, <1>4

(* The next table to clear, and the others. *)
LEMMA Tables ==
  ASSUME NEW c \in Seq(TABLES), c # <<>>, "ratings" \in ToSet(c) => c = CLEARED
  PROVE  /\ Tail(c) \in Seq(TABLES) /\ ToSet(c) = {Head(c)} \cup ToSet(Tail(c))
         /\ "ratings" \notin ToSet(Tail(c))
<1> DEFINE t == Tail(c)
<1>1. /\ t \in Seq(TABLES) /\ Len(t) = Len(c) - 1 /\ Len(c) \in Nat /\ Len(c) >= 1
      /\ \A i \in 1..Len(t) : t[i] = c[i + 1]
      /\ Head(c) = c[1]
  OBVIOUS
<1>2. ToSet(c) = {c[i] : i \in 1..Len(c)} BY Members
<1> HIDE DEF t
<1>3. ToSet(t) = {t[i] : i \in 1..Len(t)} BY <1>1, Members
<1>4. \A i \in 1..Len(t) : i + 1 \in 1..Len(c) BY <1>1
<1>5. \A i \in 1..Len(c) : i = 1 \/ (i - 1 \in 1..Len(t) /\ t[i - 1] = c[i]) BY <1>1
<1>6. ToSet(c) \subseteq {Head(c)} \cup ToSet(t)
  <2> SUFFICES ASSUME NEW i \in 1..Len(c) PROVE c[i] \in {Head(c)} \cup ToSet(t) BY <1>2
  <2>1. QED BY <1>1, <1>3, <1>5
<1>7. {Head(c)} \cup ToSet(t) \subseteq ToSet(c) BY <1>1, <1>2, <1>3, <1>4
<1>8. "ratings" \notin ToSet(t) BY <1>7, ClearedTables DEF t
<1>9. QED BY <1>1, <1>6, <1>7, <1>8 DEF t

-----------------------------------------------------------------------------
(* What an analysis is, whatever its numbers. *)

(* The rows of a player: those of the analysis, and an audit with each rating. *)
LEMMA PlayerRowsFacts ==
  ASSUME NEW read, NEW s \in SEASONS, NEW r, NEW p
  PROVE  IsAnalysis(PlayerRows(read, s, r, p), s, r)
<1> DEFINE row(table, key, value, trust) == Row(table, s, p, key, r, value, trust)
           context == ContextOf(read, p)
           ratings == Ratings(read, p, context)
           percentiles == Percentiles(read)[p]
           market == EstimateMarket(MarketInputs(read, p, context, Scores(ratings)))
           minutes == PerformanceMinutes(read, p)
           rated == {row("ratings", k, ratings[k].score, ratings[k].confidence) : k \in DOMAIN ratings}
           audits == {row("audits", k, 0, "") : k \in DOMAIN ratings}
           judged == {row("context", "", context.multiplier, context.confidence),
                      row("market", "", market.asking.high, market.confidence),
                      row("membership", "", IF IsMember(read, p) THEN 1 ELSE 0, ""),
                      row("similarity", "style", 0, ""), row("similarity", "quality", 0, "")}
           metrics == {row("metrics", m, percentiles[m], MinutesConfidence(minutes)) : m \in DOMAIN percentiles}
           badges == {row("playstyles", b.key, 0, b.confidence) :
                        b \in ComputePlaystyles(percentiles, Group(read, p), minutes, context.risk, market.label)}
<1>1. PlayerRows(read, s, r, p) = (rated \cup audits) \cup ((judged \cup metrics) \cup badges)
  BY Zenon DEF PlayerRows
<1> HIDE DEF context, ratings, percentiles, market, minutes
<1> DEFINE Of(y, table, key) ==
             IsRow(y) /\ y.table = table /\ y.season = s /\ y.player = p /\ y.key = key /\ y.run = r /\ y.rank = 0
<1>2. \A table, key, value, trust : Of(row(table, key, value, trust), table, key) BY DEF Row, IsRow
<1> DEFINE Good(y) == IsKept(y) /\ y.season = s /\ y.run = r /\ y.rank = 0 /\ y.table \in TABLES
<1>3. \A y, key : \A table \in TABLES \ {"audits"} : Of(y, table, key) => Good(y) /\ y.table # "audits"
  BY DEF IsKept, SEASONS
<1>4. \A key : Good(row("audits", key, 0, ""))
  <2> SUFFICES ASSUME NEW key PROVE Good(row("audits", key, 0, "")) OBVIOUS
  <2> DEFINE y == row("audits", key, 0, "")
  <2>1. Of(y, "audits", key)
    <3> HIDE DEF row, Of
    <3>1. QED BY <1>2 DEF y
  <2>2. y = Row("audits", s, p, key, r, 0, "") OBVIOUS
  <2> HIDE DEF y
  <2>3. y = Row("audits", y.season, y.player, y.key, y.run, 0, "") BY <2>1, <2>2
  <2>4. QED BY <2>1, <2>3 DEF IsKept, TABLES, SEASONS, y
<1>5. \A table \in TABLES \ {"audits"} : \A key, value, trust :
        Good(row(table, key, value, trust)) /\ row(table, key, value, trust).table # "audits"
  <2> HIDE DEF row, Of, Good
  <2>1. QED BY <1>2, <1>3
<1>6. \A k, value, trust : Rates(row("ratings", k, value, trust), row("audits", k, 0, ""))
  <2> HIDE DEF row
  <2>1. \A y, z, k : Of(z, "ratings", k) /\ Of(y, "audits", k) => Rates(z, y) BY DEF Rates
  <2> HIDE DEF Of
  <2>2. QED BY <1>2, <2>1
<1> HIDE DEF row, Good, Of
<1>7. \A y \in rated : Good(y) /\ y.table # "audits" BY <1>5 DEF TABLES
<1>8. \A y \in judged : Good(y) /\ y.table # "audits" BY <1>5 DEF TABLES
<1>9. \A y \in metrics \cup badges : Good(y) /\ y.table # "audits" BY <1>5 DEF TABLES
<1>10. \A y \in audits : Good(y) /\ \E z \in rated : Rates(z, y) BY <1>4, <1>6, Zenon
<1> DEFINE all == PlayerRows(read, s, r, p)
<1>11. \A y \in all : y \in rated \/ y \in audits \/ y \in judged \/ y \in metrics \cup badges BY <1>1
<1>12. rated \subseteq all BY <1>1
<1> HIDE DEF rated, audits, judged, metrics, badges, all
<1>13. \A y \in all : Good(y) BY <1>7, <1>8, <1>9, <1>10, <1>11
<1>14. \A y \in all : y.table = "audits" => \E z \in all : Rates(z, y)
  BY <1>7, <1>8, <1>9, <1>10, <1>11, <1>12
<1>15. QED BY <1>13, <1>14 DEF IsAnalysis, Paired, Good, all

(* And of all the players of a season. *)
LEMMA AnalysisFacts ==
  ASSUME NEW read, NEW s \in SEASONS, NEW r
  PROVE  IsAnalysis(AnalysisRows(read, s, r), s, r)
<1> DEFINE all == AnalysisRows(read, s, r)
           players == DOMAIN read.primary
           of(p) == PlayerRows(read, s, r, p)
<1>1. \A y : y \in all <=> \E p \in players : y \in of(p) BY DEF AnalysisRows
<1>2. \A p : IsAnalysis(of(p), s, r) BY PlayerRowsFacts
<1> HIDE DEF all, players, of
<1>3. \A y \in all : IsKept(y) /\ y.season = s /\ y.run = r /\ y.rank = 0 /\ y.table \in TABLES BY <1>1, <1>2 DEF IsAnalysis
<1>4. ASSUME NEW y \in all, y.table = "audits" PROVE \E z \in all : Rates(z, y)
  <2>1. PICK p \in players : y \in of(p) BY <1>1
  <2>2. PICK z \in of(p) : Rates(z, y) BY <1>2, <2>1, <1>4 DEF IsAnalysis, Paired
  <2>3. QED BY <1>1, <2>2
<1>5. QED BY <1>3, <1>4 DEF IsAnalysis, Paired, all

(* Ranking rows changes their ranks and nothing else. *)
LEMMA RankedFacts ==
  ASSUME NEW rows, \A y \in rows : IsKept(y) /\ y.table = "ratings"
  PROVE  /\ \A y \in Ranked(rows) : IsKept(y) /\ y.table = "ratings"
              /\ \E z \in rows : y = [z EXCEPT !.rank = y.rank] /\ z.season = y.season /\ z.player = y.player
                                 /\ z.key = y.key /\ z.run = y.run
         /\ \A z \in rows : \E y \in Ranked(rows) :
              z.season = y.season /\ z.player = y.player /\ z.key = y.key /\ z.run = y.run
<1> DEFINE ranked(z) == [z EXCEPT !.rank = RankAmong(z, rows)]
<1>1. Ranked(rows) = {ranked(z) : z \in rows} BY DEF Ranked
<1>2. ASSUME NEW z \in rows
      PROVE  LET y == ranked(z)
             IN /\ IsKept(y) /\ y.table = "ratings" /\ y = [z EXCEPT !.rank = y.rank]
                /\ z.season = y.season /\ z.player = y.player /\ z.key = y.key /\ z.run = y.run
  <2> DEFINE n == RankAmong(z, rows)
             y == [z EXCEPT !.rank = n]
             full(q) == [table |-> z.table, season |-> z.season, player |-> z.player, key |-> z.key, run |-> z.run,
                         value |-> z.value, trust |-> z.trust, rank |-> q]
  <2>1. IsRow(z) /\ z.table = "ratings" /\ z.season # "" BY DEF IsKept
  <2> HIDE DEF n
  <2>2. /\ IsRow(y) /\ y.table = "ratings" /\ y = [z EXCEPT !.rank = y.rank]
        /\ z.season = y.season /\ z.player = y.player /\ z.key = y.key /\ z.run = y.run
    <3>1. z = full(z.rank) BY <2>1, Zenon DEF IsRow
    <3>2. y = full(n) BY <3>1
    <3>3. [z EXCEPT !.rank = y.rank] = full(n) BY <3>1, <3>2
    <3> HIDE DEF y
    <3>4. QED BY <2>1, <3>2, <3>3 DEF IsRow
  <2> HIDE DEF y
  <2>3. IsKept(y) BY <2>1, <2>2 DEF IsKept, TABLES
  <2>4. QED BY <2>2, <2>3 DEF y, n
<1> HIDE DEF ranked
<1>3. QED BY <1>1, <1>2

-----------------------------------------------------------------------------
(* A step of one open run that commits nothing. *)
Quiet(r) ==
  /\ r \in DOMAIN runs /\ Open(r)
  /\ stored' = stored /\ DOMAIN runs' = DOMAIN runs
  /\ \A q \in DOMAIN runs \ {r} : runs'[q] = runs[q]
  /\ runs'[r].at \notin {"idle", "finished"} /\ runs'[r].beside = runs[r].beside

(* Nobody finishes in it. *)
LEMMA QuietFacts ==
  ASSUME NEW r, Quiet(r)
  PROVE  /\ FinishedRuns' = FinishedRuns
         /\ \A p \in DOMAIN runs : Finished(p)' <=> Finished(p)
         /\ \A p \in DOMAIN runs : \A s : Analysed(p, s)' <=> Analysed(p, s)
         /\ \A p \in DOMAIN runs : p # r => (Open(p)' <=> Open(p))
<1>1. ~Finished(r) /\ ~Finished(r)' BY DEF Quiet, Open, Finished
<1>2. \A p \in DOMAIN runs : Finished(p)' <=> Finished(p) BY <1>1 DEF Quiet, Finished
<1>3. FinishedRuns' = FinishedRuns BY <1>2 DEF Quiet, FinishedRuns
<1>4. ASSUME NEW p \in DOMAIN runs, NEW s PROVE Analysed(p, s)' <=> Analysed(p, s)
  <2>1. CASE p = r BY <1>1, <2>1 DEF Analysed
  <2>2. CASE p # r BY <1>2, <2>2 DEF Quiet, Analysed
  <2>3. QED BY <2>1, <2>2
<1>5. \A p \in DOMAIN runs : p # r => (Open(p)' <=> Open(p)) BY DEF Quiet, Open
<1>6. QED BY <1>2, <1>3, <1>4, <1>5

(* What has been committed stays as it was. *)
LEMMA QuietRest ==
  ASSUME NEW r, Quiet(r), KeptInv(stored, FinishedRuns), StampsInv, BesideInv
  PROVE  KeptInv(stored, FinishedRuns)' /\ StampsInv' /\ BesideInv'
<1>1. FinishedRuns' = FinishedRuns BY QuietFacts
<1>2. KeptInv(stored, FinishedRuns)' BY <1>1 DEF Quiet
<1>3. StampsInv'
  <2>1. \A q \in FinishedRuns : q # r /\ q \in DOMAIN runs BY DEF FinishedRuns, Quiet, Open, Finished
  <2>2. \A q \in FinishedRuns : runs'[q] = runs[q] BY <2>1 DEF Quiet
  <2>3. QED BY <1>1, <2>2 DEF StampsInv, Quiet
<1>4. BesideInv'
  <2>1. \A q \in DOMAIN runs : runs'[q].beside = runs[q].beside BY DEF Quiet
  <2>2. \A q \in DOMAIN runs : Open(q)' => Open(q) BY QuietFacts DEF Quiet
  <2>3. \A q \in DOMAIN runs : Others(q)' \subseteq Others(q) BY <2>2 DEF Others, Quiet
  <2>4. DOMAIN runs' = DOMAIN runs BY DEF Quiet
  <2>5. QED BY <2>1, <2>2, <2>3, <2>4 DEF BesideInv
<1>5. QED BY <1>2, <1>3, <1>4

(* What two other runs are to one another does not change. *)
LEMMA QuietPairs ==
  ASSUME NEW r, Quiet(r), BesideInv, NEW p \in DOMAIN runs, p # r, NEW s
  PROVE  /\ Preceded(p, s)' <=> Preceded(p, s)
         /\ \A q \in DOMAIN runs : q # r => (Locked(p, q, s)' <=> Locked(p, q, s))
         /\ Behind(p, s)' <=> Behind(p, s)
         /\ Raced(p, s)' <=> Raced(p, s)
         /\ RankedRows(p, s)' = RankedRows(p, s)
<1>1. \A q \in DOMAIN runs : q # r => runs'[q] = runs[q] BY DEF Quiet
<1>2. \A q \in DOMAIN runs : \A z : Analysed(q, z)' <=> Analysed(q, z) BY QuietFacts
<1>3. \A q \in DOMAIN runs : runs[q].beside \subseteq DOMAIN runs BY DEF BesideInv
<1>4. \A q \in DOMAIN runs : Analysed(q, s) => q # r BY DEF Analysed, Finished, Quiet, Open
<1>5. Preceded(p, s)' <=> Preceded(p, s) BY <1>1, <1>2, <1>3 DEF Preceded
<1>6. ASSUME NEW q \in DOMAIN runs, q # r PROVE Locked(p, q, s)' <=> Locked(p, q, s)
  <2>1. runs'[p] = runs[p] /\ runs'[q] = runs[q] BY <1>1, <1>6
  <2>2. (runs[p].beside \union runs[q].beside) \ {p, q} \subseteq DOMAIN runs BY <1>3
  <2>3. QED BY <1>2, <2>1, <2>2 DEF Locked
<1>7. \A q \in DOMAIN runs : q # r => RatedKeys(q, s)' = RatedKeys(q, s) BY <1>1 DEF RatedKeys, OfTable
<1>8. Behind(p, s)' <=> Behind(p, s)
  <2>1. \A q \in runs[p].beside : q \in DOMAIN runs BY <1>3
  <2>2. runs'[p] = runs[p] /\ stored' = stored BY <1>1 DEF Quiet
  <2>3. QED BY <1>2, <1>4, <1>6, <1>7, <2>1, <2>2 DEF Behind
<1>9. Raced(p, s)' <=> Raced(p, s)
  <2>1. \A q \in runs[p].beside : q \in DOMAIN runs BY <1>3
  <2>2. runs'[p] = runs[p] BY <1>1
  <2>3. QED BY <1>2, <1>4, <1>6, <1>7, <2>1, <2>2 DEF Raced
<1>10. RankedRows(p, s)' = RankedRows(p, s) BY <1>1 DEF RankedRows, OfTable
<1>11. QED BY <1>5, <1>6, <1>8, <1>9, <1>10

(* The runs that have finished keep what they promise. *)
LEMMA QuietAnalysis ==
  ASSUME NEW r, Quiet(r), BesideInv, AnalysisIsOfOneRun
  PROVE  AnalysisIsOfOneRun'
<1> SUFFICES ASSUME NEW s \in SEASONS, NEW p \in DOMAIN runs', Latest(p, s)', ~Raced(p, s)'
             PROVE  (InSeason(stored, s) = RankedRows(p, s))'
  BY DEF AnalysisIsOfOneRun
<1>1. p \in DOMAIN runs /\ DOMAIN runs' = DOMAIN runs BY DEF Quiet
<1>2. \A q \in DOMAIN runs : Analysed(q, s)' <=> Analysed(q, s) BY QuietFacts
<1>3. \A q \in DOMAIN runs : Analysed(q, s) => q # r BY DEF Analysed, Finished, Quiet, Open
<1>4. Analysed(p, s) /\ p # r BY <1>1, <1>2, <1>3 DEF Latest
<1>5. \A q \in DOMAIN runs : Analysed(q, s) => runs'[q] = runs[q] BY <1>3 DEF Quiet
<1>6. Latest(p, s) BY <1>1, <1>2, <1>4, <1>5 DEF Latest
<1>7. ~Raced(p, s) /\ RankedRows(p, s)' = RankedRows(p, s) BY <1>1, <1>4, QuietPairs
<1>8. InSeason(stored, s) = RankedRows(p, s) BY <1>1, <1>6, <1>7 DEF AnalysisIsOfOneRun
<1>9. InSeason(stored, s)' = InSeason(stored, s) BY DEF Quiet, InSeason
<1>10. QED BY <1>7, <1>8, <1>9

(* A run keeps its own order: that of the others does not change. *)
LEMMA QuietRuns ==
  ASSUME NEW r, Quiet(r), RunsInv, RunInv(runs'[r], r, stored, FinishedRuns)
  PROVE  RunsInv'
<1>1. FinishedRuns' = FinishedRuns BY QuietFacts
<1>2. \A q \in DOMAIN runs : RunInv(runs'[q], q, stored', FinishedRuns')
  BY <1>1 DEF Quiet, RunsInv
<1>3. QED BY <1>2 DEF RunsInv, Quiet

(* Its rows meet no rating that another holds. *)
LEMMA QuietApart ==
  ASSUME NEW r, Quiet(r), KeysApart,
         \A q \in Others(r) : \A y \in runs'[r].inserted : \A z \in runs[q].inserted :
           y.table = "ratings" => ~SameKey(y, z)
  PROVE  KeysApart'
<1> SUFFICES ASSUME NEW p \in DOMAIN runs', NEW q \in DOMAIN runs', Open(p)', Open(q)', p # q,
                    NEW y \in runs'[p].inserted, NEW z \in runs'[q].inserted, y.table = "ratings"
             PROVE  ~SameKey(y, z)
  BY DEF KeysApart, SameKey
<1>1. p \in DOMAIN runs /\ q \in DOMAIN runs BY DEF Quiet
<1>2. Open(p) /\ Open(q) BY <1>1, QuietFacts DEF Quiet
<1>3. CASE p = r
  <2>1. q \in Others(r) /\ runs'[q] = runs[q] BY <1>1, <1>2, <1>3 DEF Others, Quiet
  <2>2. QED BY <2>1, <1>3
<1>4. CASE q = r
  <2>1. p \in Others(r) /\ runs'[p] = runs[p] BY <1>1, <1>2, <1>4 DEF Others, Quiet
  <2>2. SameKey(y, z) => z.table = "ratings" /\ SameKey(z, y) BY DEF SameKey
  <2>3. QED BY <2>1, <2>2, <1>4
<1>5. CASE p # r /\ q # r
  <2>1. runs'[p] = runs[p] /\ runs'[q] = runs[q] BY <1>1, <1>5 DEF Quiet
  <2>2. QED BY <1>1, <1>2, <2>1 DEF KeysApart
<1>6. QED BY <1>3, <1>4, <1>5

(* Who waits for audits, and who has them. *)
LEMMA AimsStep ==
  ASSUME NEW r, Quiet(r), BesideInv, AimInv, LockInv,
         \A s \in runs'[r].found : Open(r)' =>
           /\ Aimed(r, s)'
           /\ \/ Aiming(runs'[r], s)
              \/ \A q \in Others(r) : s \in runs[q].found /\ ~Aiming(runs[q], s) => Preceded(r, s) \/ Preceded(q, s)
  PROVE  AimInv' /\ LockInv'
<1>1. \A q \in DOMAIN runs : Open(q)' => Open(q) BY QuietFacts DEF Quiet
<1>2. \A s : AuditsOf(s)' = AuditsOf(s) BY DEF AuditsOf, OfTable, InSeason, Quiet
<1>3. ASSUME NEW p \in DOMAIN runs, NEW s PROVE Preceded(p, s)' <=> Preceded(p, s)
  <2>1. runs'[p].beside = runs[p].beside /\ runs[p].beside \subseteq DOMAIN runs BY DEF Quiet, BesideInv
  <2>2. \A q \in DOMAIN runs : Analysed(q, s)' <=> Analysed(q, s) BY QuietFacts
  <2>3. QED BY <2>1, <2>2 DEF Preceded
<1>4. \A q \in DOMAIN runs : q # r => runs'[q] = runs[q] BY DEF Quiet
<1>5. ASSUME NEW q \in DOMAIN runs, Open(q)', NEW s \in runs'[q].found PROVE Aimed(q, s)'
  <2>1. CASE q = r BY <1>5, <2>1
  <2>2. CASE q # r
    <3>1. Aimed(q, s) /\ runs'[q] = runs[q] BY <1>1, <1>4, <1>5, <2>2 DEF AimInv
    <3>2. QED BY <1>2, <1>3, <1>5, <2>2, <3>1 DEF Aimed
  <2>3. QED BY <2>1, <2>2
<1>6. ASSUME NEW q \in DOMAIN runs, q # r, Open(q)', Open(r)', NEW s \in runs'[r].found \cap runs'[q].found,
             ~Aiming(runs'[r], s), ~Aiming(runs'[q], s)
      PROVE  Preceded(r, s) \/ Preceded(q, s)
  <2>1. q \in Others(r) /\ runs'[q] = runs[q] BY <1>1, <1>4, <1>6 DEF Others
  <2>2. QED BY <1>6, <2>1
<1>7. ASSUME NEW p \in DOMAIN runs, NEW q \in DOMAIN runs, Open(p)', Open(q)', p # q,
             NEW s \in runs'[p].found \cap runs'[q].found, ~Aiming(runs'[p], s), ~Aiming(runs'[q], s)
      PROVE  Preceded(p, s)' \/ Preceded(q, s)'
  <2>1. CASE p = r BY <1>3, <1>6, <1>7, <2>1
  <2>2. CASE q = r BY <1>3, <1>6, <1>7, <2>2
  <2>3. CASE p # r /\ q # r
    <3>1. Open(p) /\ Open(q) BY <1>1, <1>7
    <3>2. \A t \in {p, q} : s \in runs[t].found /\ ~Aiming(runs[t], s) BY <1>4, <1>7, <2>3
    <3>3. Preceded(p, s) \/ Preceded(q, s) BY <1>7, <3>1, <3>2 DEF LockInv
    <3>4. QED BY <1>3, <3>3
  <2>4. QED BY <2>1, <2>2, <2>3
<1>8. AimInv' BY <1>5 DEF AimInv, Quiet
<1>9. LockInv' BY <1>7 DEF LockInv, Quiet
<1>10. QED BY <1>8, <1>9

(* A season the run aims at as before. *)
SameAim(x, y, s) ==
  /\ s \in x.found /\ (Aiming(y, s) <=> Aiming(x, s)) /\ x.deleted \subseteq y.deleted
  /\ Aiming(y, s) => y.targets = x.targets

(* Nothing changes for it. *)
LEMMA AimKept ==
  ASSUME NEW r, Quiet(r), BesideInv, AimInv, LockInv, NEW s, SameAim(runs[r], runs'[r], s)
  PROVE  /\ Aimed(r, s)'
         /\ \/ Aiming(runs'[r], s)
            \/ \A q \in Others(r) : s \in runs[q].found /\ ~Aiming(runs[q], s) => Preceded(r, s) \/ Preceded(q, s)
<1>1. r \in DOMAIN runs /\ Open(r) /\ Aimed(r, s) BY DEF AimInv, Quiet, SameAim
<1>2. AuditsOf(s)' = AuditsOf(s) BY DEF AuditsOf, OfTable, InSeason, Quiet
<1>3. Preceded(r, s)' <=> Preceded(r, s)
  <2>1. runs'[r].beside = runs[r].beside /\ runs[r].beside \subseteq DOMAIN runs BY <1>1 DEF Quiet, BesideInv
  <2>2. \A q \in DOMAIN runs : Analysed(q, s)' <=> Analysed(q, s) BY QuietFacts
  <2>3. QED BY <2>1, <2>2 DEF Preceded
<1>4. Aimed(r, s)' BY <1>1, <1>2, <1>3 DEF Aimed, SameAim
<1>5. ASSUME ~Aiming(runs'[r], s), NEW q \in Others(r), s \in runs[q].found, ~Aiming(runs[q], s)
      PROVE  Preceded(r, s) \/ Preceded(q, s)
  <2>1. q \in DOMAIN runs /\ Open(q) /\ q # r BY DEF Others
  <2>2. s \in runs[r].found /\ ~Aiming(runs[r], s) BY <1>5 DEF SameAim
  <2>3. QED BY <1>1, <1>5, <2>1, <2>2 DEF LockInv
<1>6. QED BY <1>4, <1>5

(* A step that changes no aims. *)
LEMMA QuietAims ==
  ASSUME NEW r, Quiet(r), BesideInv, AimInv, LockInv,
         \A s \in runs'[r].found : Open(r)' => SameAim(runs[r], runs'[r], s)
  PROVE  AimInv' /\ LockInv'
BY AimKept, AimsStep

(* What the other runs cover. *)
LEMMA QuietCover ==
  ASSUME NEW r, Quiet(r), BesideInv, CoverInv,
         \A s \in DOMAIN runs'[r].read : Open(r)' /\ ~Untouched(runs'[r], s) => Covered(r, s)'
  PROVE  CoverInv'
<1> SUFFICES ASSUME NEW q \in DOMAIN runs', Open(q)', NEW s \in DOMAIN runs'[q].read, ~Untouched(runs'[q], s)
             PROVE  Covered(q, s)'
  BY DEF CoverInv
<1>1. CASE q = r BY <1>1
<1>2. CASE q # r
  <2>1. q \in DOMAIN runs /\ runs'[q] = runs[q] /\ stored' = stored BY <1>2 DEF Quiet
  <2>2. Open(q) BY <2>1, <1>2, QuietFacts
  <2>3. Covered(q, s) BY <2>1, <2>2 DEF CoverInv
  <2>4. (Behind(q, s)' <=> Behind(q, s)) /\ (Raced(q, s)' <=> Raced(q, s)) /\ RankedRows(q, s)' = RankedRows(q, s)
    BY <1>2, <2>1, QuietPairs
  <2>5. QED BY <2>1, <2>3, <2>4 DEF Covered, InSeason
<1>3. QED BY <1>1, <1>2

-----------------------------------------------------------------------------
(* The runs beside the one that steps. *)
LEMMA OwnPairs ==
  ASSUME NEW r, Quiet(r), BesideInv, NEW s, s \in runs'[r].found <=> s \in runs[r].found,
         NEW q \in runs[r].beside, Analysed(q, s)
  PROVE  /\ q \in runs'[r].beside /\ Analysed(q, s)' /\ RatedKeys(q, s)' = RatedKeys(q, s)
         /\ Locked(r, q, s)' <=> Locked(r, q, s)
<1>1. runs'[r].beside = runs[r].beside /\ runs[r].beside \subseteq DOMAIN runs BY DEF Quiet, BesideInv
<1>2. q \in DOMAIN runs /\ q # r BY <1>1 DEF Analysed, Finished, Quiet, Open
<1>3. runs'[q] = runs[q] /\ runs[q].beside \subseteq DOMAIN runs BY <1>2 DEF Quiet, BesideInv
<1>4. \A p \in DOMAIN runs : \A z : Analysed(p, z)' <=> Analysed(p, z) BY QuietFacts
<1>5. Locked(r, q, s)' <=> Locked(r, q, s) BY <1>1, <1>3, <1>4 DEF Locked
<1>6. RatedKeys(q, s)' = RatedKeys(q, s) BY <1>3 DEF RatedKeys, OfTable
<1>7. QED BY <1>1, <1>2, <1>4, <1>5, <1>6

(* It stays behind another while it deletes no more ratings of the season. *)
LEMMA OwnBehind ==
  ASSUME NEW r, Quiet(r), BesideInv, NEW s, s \in runs'[r].found <=> s \in runs[r].found, Behind(r, s),
         \A y \in runs'[r].deleted \cup runs'[r].targets :
           y.table = "ratings" /\ y.season = s => y \in runs[r].deleted \cup runs[r].targets
  PROVE  Behind(r, s)'
<1>1. PICK q \in runs[r].beside :
        /\ Analysed(q, s) /\ ~Locked(r, q, s)
        /\ \A k \in RatedKeys(q, s) : \E y \in stored \ (runs[r].deleted \cup runs[r].targets) : HasKey(y, s, k)
  BY DEF Behind
<1>2. q \in runs'[r].beside /\ Analysed(q, s)' /\ RatedKeys(q, s)' = RatedKeys(q, s) /\ ~Locked(r, q, s)'
  BY <1>1, OwnPairs
<1>3. ASSUME NEW k \in RatedKeys(q, s)
      PROVE  \E y \in stored' \ (runs'[r].deleted \cup runs'[r].targets) : HasKey(y, s, k)
  <2>1. PICK y \in stored \ (runs[r].deleted \cup runs[r].targets) : HasKey(y, s, k) BY <1>1
  <2>2. y.table = "ratings" /\ y.season = s BY <2>1 DEF HasKey
  <2>3. y \in stored' \ (runs'[r].deleted \cup runs'[r].targets) BY <2>1, <2>2 DEF Quiet
  <2>4. QED BY <2>1, <2>3
<1>4. QED BY <1>2, <1>3 DEF Behind

(* Two that have raced stay so. *)
LEMMA OwnRaced ==
  ASSUME NEW r, Quiet(r), BesideInv, NEW s, s \in runs'[r].found <=> s \in runs[r].found, Raced(r, s),
         runs'[r].rows[s] = runs[r].rows[s]
  PROVE  Raced(r, s)'
<1>1. PICK q \in runs[r].beside :
        Analysed(q, s) /\ RatedKeys(q, s) \intersect RatedKeys(r, s) = {} /\ ~Locked(r, q, s)
  BY DEF Raced
<1>2. q \in runs'[r].beside /\ Analysed(q, s)' /\ RatedKeys(q, s)' = RatedKeys(q, s) /\ ~Locked(r, q, s)'
  BY <1>1, OwnPairs
<1>3. RatedKeys(r, s)' = RatedKeys(r, s) BY DEF RatedKeys, OfTable
<1>4. QED BY <1>1, <1>2, <1>3 DEF Raced

(* A season that is over is left alone. *)
Stays(x, y, s) ==
  /\ Over(x, s) /\ Over(y, s) /\ y.rows[s] = x.rows[s] /\ x.deleted \subseteq y.deleted
  /\ s \in y.found <=> s \in x.found
  /\ InSeason(y.inserted \cup y.pending, s) = InSeason(x.inserted \cup x.pending, s)

(* And stays covered. *)
LEMMA OverCover ==
  ASSUME Inv, NEW r, Quiet(r), NEW s, Stays(runs[r], runs'[r], s)
  PROVE  Covered(r, s)'
<1> DEFINE x == runs[r]
           y == runs'[r]
<1>0. BesideInv /\ CoverInv /\ Takes(x, FinishedRuns) /\ Shape(x) BY DEF Inv, RunsInv, RunInv, Quiet
<1>1. Over(x, s) /\ Over(y, s) /\ Written(x, s) /\ Written(y, s) /\ ~Untouched(x, s) /\ ~Doing(x, s)
  BY DEF Stays, Over, Written, Untouched
<1>2. Covered(r, s) BY <1>0, <1>1 DEF CoverInv, Quiet, Over
<1>3. CASE Raced(r, s)
  <2>1. Raced(r, s)' BY <1>0, <1>3, OwnRaced DEF Stays
  <2>2. QED BY <1>1, <2>1 DEF Covered
<1>4. CASE ~Raced(r, s)
  <2>1. Clean(x, s, stored) /\ InSeason(x.inserted \cup x.pending, s) = RankedRows(r, s)
    BY <1>1, <1>2, <1>4 DEF Covered
  <2>2. \A z \in x.targets : z.season # s BY <1>0, <1>1 DEF Takes
  <2>3. \A z \in InSeason(stored, s) : z \in x.deleted
    <3> SUFFICES ASSUME NEW z \in InSeason(stored, s) PROVE z \in x.deleted OBVIOUS
    <3>1. z.season = s BY DEF InSeason
    <3>2. \A w \in x.targets : ~Rates(w, z) BY <2>2, <3>1 DEF Rates
    <3>3. z \notin x.targets BY <2>2, <3>1
    <3>4. QED BY <1>1, <2>1, <3>2, <3>3 DEF Clean
  <2>4. Clean(y, s, stored') BY <2>3 DEF Clean, Stays, Quiet
  <2>5. RankedRows(r, s)' = RankedRows(r, s) BY DEF RankedRows, OfTable, Stays
  <2>6. InSeason(y.inserted \cup y.pending, s) = RankedRows(r, s)' BY <2>1, <2>5 DEF Stays
  <2>7. QED BY <1>1, <2>4, <2>6 DEF Covered, InSeason
<1>5. QED BY <1>3, <1>4

(* What is left to show of a step. *)
LEMMA QuietStep ==
  ASSUME Inv, NEW r, Quiet(r), RunInv(runs'[r], r, stored, FinishedRuns), AimInv' /\ LockInv',
         \A q \in Others(r) : \A y \in runs'[r].inserted : \A z \in runs[q].inserted :
           y.table = "ratings" => ~SameKey(y, z),
         \A s \in DOMAIN runs'[r].read : Open(r)' =>
           Stays(runs[r], runs'[r], s) \/ Untouched(runs'[r], s) \/ Covered(r, s)'
  PROVE  Inv'
<1>1. /\ RunsInv /\ KeptInv(stored, FinishedRuns) /\ StampsInv /\ BesideInv
      /\ KeysApart /\ AimInv /\ LockInv /\ CoverInv /\ AnalysisIsOfOneRun
  BY DEF Inv
<1>2. RunsInv' BY <1>1, QuietRuns
<1>3. KeptInv(stored, FinishedRuns)' /\ StampsInv' /\ BesideInv' BY <1>1, QuietRest
<1>4. AnalysisIsOfOneRun' BY <1>1, QuietAnalysis
<1>5. KeysApart' BY <1>1, QuietApart
<1>6. \A s \in DOMAIN runs'[r].read : Open(r)' /\ ~Untouched(runs'[r], s) => Covered(r, s)' BY OverCover
<1>7. CoverInv' BY <1>1, <1>6, QuietCover
<1>8. QED BY <1>2, <1>3, <1>4, <1>5, <1>7 DEF Inv

(* The keys of a step that writes nothing. *)
LEMMA SameInserted ==
  ASSUME Inv, NEW r, Quiet(r), runs'[r].inserted \subseteq runs[r].inserted
  PROVE  \A q \in Others(r) : \A y \in runs'[r].inserted : \A z \in runs[q].inserted :
           y.table = "ratings" => ~SameKey(y, z)
<1>1. \A q \in Others(r) : q \in DOMAIN runs /\ Open(q) /\ q # r BY DEF Others
<1>2. QED BY <1>1 DEF Inv, KeysApart, Quiet

-----------------------------------------------------------------------------
(* A step that reads: the run gets on, its rows are what they were. *)
Reads(x, y, r) ==
  /\ IsRun(y) /\ y.todo = x.todo /\ y.targets = {} /\ y.found = x.found /\ y.beside = x.beside
  /\ y.inserted = x.inserted /\ y.deleted = x.deleted /\ y.pending = x.pending
  /\ DOMAIN y.read = DOMAIN x.read
  /\ x.targets = {} /\ ((x.at = "clear" /\ x.clear = <<>>) \/ x.at \in {"raw", "world"})
  /\ y.at \in {"raw", "world", "rate"}
  /\ DOMAIN x.rows \subseteq DOMAIN y.rows
  /\ \A s \in DOMAIN y.rows : IsAnalysis(y.rows[s], s, r)
  /\ \A s \in DOMAIN x.rows : s # Head(x.todo) => y.rows[s] = x.rows[s]
  /\ y.at = "rate" => Head(y.todo) \in DOMAIN y.rows

(* It stands where it stood in every season. *)
LEMMA ReadsStands ==
  ASSUME NEW x, NEW y, NEW r, Shape(x), Reads(x, y, r), NEW s
  PROVE  /\ Doing(y, s) <=> Doing(x, s)
         /\ ~Untouched(x, s) /\ ~Untouched(y, s) /\ ~Aiming(x, s) /\ ~Aiming(y, s)
         /\ Written(y, s) <=> Written(x, s)
         /\ Over(y, s) <=> Over(x, s)
<1>1. Doing(y, s) <=> Doing(x, s) BY DEF Reads, Doing, WORKING
<1>2. x.clear = <<>> => ToSet(x.clear) = {} BY DEF ToSet
<1>3. ~Untouched(x, s) /\ ~Untouched(y, s) BY <1>2 DEF Reads, Untouched
<1>4. ~Aiming(x, s) /\ ~Aiming(y, s) BY DEF Aiming, Reads
<1>5. Written(y, s) <=> Written(x, s) BY <1>1 DEF Written, Reads
<1>6. Over(y, s) <=> Over(x, s) BY <1>1 DEF Over, Reads
<1>7. QED BY <1>1, <1>3, <1>4, <1>5, <1>6

(* And is in the same order. *)
LEMMA ReadsKeeps ==
  ASSUME NEW x, NEW y, NEW r, NEW kept, NEW done, RunInv(x, r, kept, done), Reads(x, y, r)
  PROVE  RunInv(y, r, kept, done)
<1>0. Shape(x) /\ Takes(x, done) /\ Writes(x, r, done) /\ Analyses(x, r) /\ TakesAudits(x, kept) BY DEF RunInv
<1>1. \A s : /\ Doing(y, s) <=> Doing(x, s)
             /\ ~Untouched(x, s) /\ ~Untouched(y, s)
             /\ Written(y, s) <=> Written(x, s)
  BY <1>0, ReadsStands
<1>2. Shape(y)
  <2>1. x.at \in WORKING /\ y.at \in WORKING /\ y.at \in STAGES BY DEF Reads, WORKING, STAGES
  <2>2. y.at # "clear" /\ y.at # "ids" /\ y.at \notin {"idle", "finished", "failed"} BY DEF Reads
  <2>3. QED BY <1>0, <1>1, <2>1, <2>2 DEF Shape, Reads
<1>3. Takes(y, done) BY <1>0, <1>1 DEF Takes, Reads
<1>4. Writes(y, r, done) BY <1>0, <1>1 DEF Writes, Reads
<1>5. Analyses(y, r)
  <2>1. x.at \notin {"finished", "failed", "rank", "rate"} /\ y.at \notin {"finished", "failed", "rank"} BY DEF Reads
  <2>2. ASSUME NEW s \in DOMAIN y.read, Written(y, s)
        PROVE  /\ s \in DOMAIN y.rows
               /\ \A k \in KeysOf(y.rows[s]) : \E z \in y.inserted : z.run = r /\ HasKey(z, s, k)
    <3>1. s \in DOMAIN x.read /\ Written(x, s) BY <1>1, <2>2 DEF Reads
    <3>2. s \in DOMAIN x.rows /\ \A k \in KeysOf(x.rows[s]) : \E z \in x.inserted : z.run = r /\ HasKey(z, s, k)
      BY <1>0, <2>1, <3>1 DEF Analyses
    <3>3. s # Head(x.todo)
      <4>1. x.at \in WORKING BY DEF Reads, WORKING
      <4>2. QED BY <2>1, <3>1, <4>1 DEF Written, Doing
    <3>4. y.rows[s] = x.rows[s] /\ y.inserted = x.inserted /\ s \in DOMAIN y.rows BY <3>2, <3>3 DEF Reads
    <3>5. QED BY <3>2, <3>4
  <2>3. ASSUME NEW s \in DOMAIN y.read, ~Written(y, s), y.at = "rate" PROVE s \in DOMAIN y.rows
    <3>1. s = Head(y.todo) BY <2>3 DEF Written, Doing
    <3>2. QED BY <3>1, <2>3 DEF Reads
  <2>4. \A s \in DOMAIN y.rows : IsAnalysis(y.rows[s], s, r) BY DEF Reads
  <2>5. QED BY <2>1, <2>2, <2>3, <2>4 DEF Analyses
<1>6. TakesAudits(y, kept) BY <1>0 DEF TakesAudits, Reads
<1>7. QED BY <1>2, <1>3, <1>4, <1>5, <1>6 DEF RunInv

(* Such a step keeps all. *)
LEMMA ReadsStep ==
  ASSUME Inv, NEW r, Quiet(r), Reads(runs[r], runs'[r], r)
  PROVE  Inv'
<1> DEFINE x == runs[r]
           y == runs'[r]
<1>0. RunInv(x, r, stored, FinishedRuns) /\ Shape(x) /\ BesideInv /\ AimInv /\ LockInv /\ CoverInv
  BY DEF Inv, RunsInv, Quiet, RunInv
<1>1. RunInv(y, r, stored, FinishedRuns) BY <1>0, ReadsKeeps
<1>2. \A s : /\ Doing(y, s) <=> Doing(x, s)
             /\ ~Untouched(x, s) /\ ~Untouched(y, s) /\ ~Aiming(x, s) /\ ~Aiming(y, s)
             /\ Written(y, s) <=> Written(x, s)
             /\ Over(y, s) <=> Over(x, s)
  BY <1>0, ReadsStands
<1>3. AimInv' /\ LockInv'
  <2>1. y.found = x.found /\ y.deleted = x.deleted BY DEF Reads
  <2>2. \A s \in y.found : SameAim(x, y, s) BY <1>2, <2>1 DEF SameAim
  <2>3. QED BY <1>0, <2>2, QuietAims
<1>4. ASSUME NEW s \in DOMAIN y.read PROVE Stays(x, y, s) \/ Covered(r, s)'
  <2>1. s \in DOMAIN x.read /\ Covered(r, s) BY <1>0, <1>2 DEF CoverInv, Quiet, Reads
  <2>2. x.at \in WORKING /\ x.at # "rank" BY DEF Reads, WORKING
  <2>3. CASE Over(x, s)
    <3>1. Written(x, s) /\ s # Head(x.todo) BY <2>2, <2>3 DEF Over, Written, Doing
    <3>2. s \in DOMAIN x.rows BY <1>0, <2>1, <2>2, <3>1 DEF RunInv, Analyses, Reads
    <3>3. y.rows[s] = x.rows[s] BY <3>1, <3>2 DEF Reads
    <3>4. QED BY <1>2, <2>3, <3>3 DEF Stays, Reads
  <2>4. CASE ~Over(x, s)
    <3>1. ~Written(x, s) /\ ~Written(y, s) BY <1>2, <2>1, <2>2, <2>4 DEF Over, Written
    <3>2. CASE Clean(x, s, stored)
      <4>1. x.clear = <<>> => ToSet(x.clear) = {} BY DEF ToSet
      <4>2. Clean(y, s, stored') BY <1>2, <3>2, <4>1 DEF Clean, Reads, Quiet
      <4>3. QED BY <3>1, <4>2 DEF Covered
    <3>3. CASE Behind(r, s)
      <4>1. Behind(r, s)' BY <1>0, <3>3, OwnBehind DEF Reads
      <4>2. QED BY <3>1, <4>1 DEF Covered
    <3>4. QED BY <2>1, <3>1, <3>2, <3>3 DEF Covered
  <2>5. QED BY <2>3, <2>4
<1>5. y.inserted \subseteq x.inserted BY DEF Reads
<1>6. QED BY <1>1, <1>3, <1>4, <1>5, SameInserted, QuietStep

(* A statement of a run. *)
LEMMA StepQuiet ==
  ASSUME NEW r \in DOMAIN runs, NEW record, Open(r), Step(r, record),
         record.at \notin {"idle", "finished"}, record.beside = runs[r].beside
  PROVE  Quiet(r) /\ runs'[r] = record
BY DEF Step, Quiet

(* The players are read. *)
LEMMA ReadPlayersStep == ASSUME Inv, NEW r \in DOMAIN runs, ReadPlayers(r) PROVE Inv'
<1> DEFINE x == runs[r]
           s == Season(r)
           e == Overlaid([players |-> Kept(r, "players", [p \in DOMAIN Reading(r).primary |-> Db.players[p]])], x.read[s])
           y == [x EXCEPT !.at = "raw", !.read[s] = e]
<1>1. IsRun(x) /\ RunInv(x, r, stored, FinishedRuns) /\ Analyses(x, r) BY DEF Inv, RunsInv, RunInv, Shape
<1>2. x.at = "clear" /\ x.targets = {} /\ x.clear = <<>> /\ Step(r, y) BY DEF ReadPlayers
<1> HIDE DEF e
<1>3. Reads(x, y, r)
  <2>0. y = [x EXCEPT !.at = "raw", !.read[s] = e] OBVIOUS
  <2> HIDE DEF x, y, s
  <2>1. /\ IsRun(y) /\ y.at = "raw" /\ y.read = [x.read EXCEPT ![s] = e] /\ y.todo = x.todo /\ y.targets = x.targets
        /\ y.rows = x.rows /\ y.found = x.found /\ y.inserted = x.inserted /\ y.deleted = x.deleted
        /\ y.pending = x.pending /\ y.beside = x.beside
    BY <1>1, <2>0 DEF IsRun
  <2>2. DOMAIN y.read = DOMAIN x.read BY <2>1
  <2>3. QED BY <1>1, <1>2, <2>1, <2>2 DEF Reads, Analyses
<1>4. Open(r) BY <1>2 DEF Open
<1>5. y.at \notin {"idle", "finished"} /\ y.beside = x.beside BY <1>3 DEF Reads
<1> HIDE DEF y
<1>6. Quiet(r) /\ runs'[r] = y BY <1>2, <1>4, <1>5, StepQuiet
<1>7. QED BY <1>3, <1>6, ReadsStep

(* The metrics are read. *)
LEMMA ReadRawStep == ASSUME Inv, NEW r \in DOMAIN runs, ReadRaw(r) PROVE Inv'
<1> DEFINE x == runs[r]
           s == Season(r)
           rows == {m \in Db.metrics : m.season = s}
           y(raw, registry) ==
             [x EXCEPT !.at = "world", !.read[s] =
               Overlaid([raw |-> raw, registry |-> registry, covered |-> \E m \in rows : m.provider = "statsbomb"], @)]
<1>1. IsRun(x) /\ RunInv(x, r, stored, FinishedRuns) /\ Analyses(x, r) /\ Shape(x) BY DEF Inv, RunsInv, RunInv, Shape
<1>2. x.at = "raw" BY DEF ReadRaw
<1>3. PICK raw, registry : Step(r, y(raw, registry)) BY DEF ReadRaw
<1> DEFINE e == Overlaid([raw |-> raw, registry |-> registry, covered |-> \E m \in rows : m.provider = "statsbomb"], x.read[s])
           z == [x EXCEPT !.at = "world", !.read[s] = e]
<1>4. Step(r, z) BY <1>3
<1> HIDE DEF e
<1>5. Reads(x, z, r)
  <2>0. z = [x EXCEPT !.at = "world", !.read[s] = e] OBVIOUS
  <2> HIDE DEF x, z, s
  <2>1. /\ IsRun(z) /\ z.at = "world" /\ z.read = [x.read EXCEPT ![s] = e] /\ z.todo = x.todo /\ z.targets = x.targets
        /\ z.rows = x.rows /\ z.found = x.found /\ z.inserted = x.inserted /\ z.deleted = x.deleted
        /\ z.pending = x.pending /\ z.beside = x.beside
    BY <1>1, <2>0 DEF IsRun
  <2>2. DOMAIN z.read = DOMAIN x.read BY <2>1
  <2>3. x.targets = {} BY <1>1, <1>2 DEF Shape
  <2>4. QED BY <1>1, <1>2, <2>1, <2>2, <2>3 DEF Reads, Analyses
<1>6. Open(r) BY <1>2 DEF Open
<1>7. z.at \notin {"idle", "finished"} /\ z.beside = x.beside BY <1>5 DEF Reads
<1> HIDE DEF z
<1>8. Quiet(r) /\ runs'[r] = z BY <1>4, <1>6, <1>7, StepQuiet
<1>9. QED BY <1>5, <1>8, ReadsStep

(* The competitions and teams are read, and the season is analysed. *)
LEMMA AnalyseStep == ASSUME Inv, NEW r \in DOMAIN runs, Analyse(r) PROVE Inv'
<1> DEFINE x == runs[r]
           s == Season(r)
           e == Overlaid([competitions |-> Kept(r, "competitions", Db.competitions), teams |-> Kept(r, "teams", Db.teams)], Reading(r))
           a == AnalysisRows(e, s, r)
           y == [x EXCEPT !.at = "rate", !.read[s] = e, !.rows = With(@, s, a)]
<1>1. IsRun(x) /\ RunInv(x, r, stored, FinishedRuns) /\ Analyses(x, r) /\ Shape(x) BY DEF Inv, RunsInv, RunInv, Shape
<1>2. x.at = "world" /\ Step(r, y) BY DEF Analyse
<1>3. s \in SEASONS /\ s = Head(x.todo) BY <1>1, <1>2 DEF Shape, WORKING, Season
<1>4. IsAnalysis(a, s, r) BY <1>3, AnalysisFacts
<1> HIDE DEF e, a
<1>5. Reads(x, y, r)
  <2>0. s = Head(x.todo) BY <1>3
  <2>7. y = [x EXCEPT !.at = "rate", !.read[s] = e, !.rows = With(@, s, a)] OBVIOUS
  <2> HIDE DEF x, y, s
  <2>1. /\ IsRun(y) /\ y.at = "rate" /\ y.read = [x.read EXCEPT ![s] = e] /\ y.rows = With(x.rows, s, a)
        /\ y.todo = x.todo /\ y.targets = x.targets
        /\ y.found = x.found /\ y.inserted = x.inserted /\ y.deleted = x.deleted
        /\ y.pending = x.pending /\ y.beside = x.beside
    BY <1>1, <2>7 DEF IsRun
  <2>2. DOMAIN y.read = DOMAIN x.read BY <2>1
  <2>3. DOMAIN y.rows = {s} \cup DOMAIN x.rows /\ y.rows[s] = a /\ \A z \in DOMAIN x.rows : z # s => y.rows[z] = x.rows[z]
    BY <2>1 DEF With
  <2>4. x.targets = {} BY <1>1, <1>2 DEF Shape
  <2>5. \A z \in DOMAIN y.rows : IsAnalysis(y.rows[z], z, r) BY <1>1, <1>4, <2>3 DEF Analyses
  <2>6. QED BY <1>2, <2>0, <2>1, <2>2, <2>3, <2>4, <2>5 DEF Reads
<1>6. Open(r) BY <1>2 DEF Open
<1>7. y.at \notin {"idle", "finished"} /\ y.beside = x.beside BY <1>5 DEF Reads
<1> HIDE DEF y
<1>8. Quiet(r) /\ runs'[r] = y BY <1>2, <1>6, <1>7, StepQuiet
<1>9. QED BY <1>5, <1>8, ReadsStep

(* The next season of the run: it has nothing to analyse, or its appearances are read. *)
LEMMA ReadAppearancesStep == ASSUME Inv, NEW r \in DOMAIN runs, ReadAppearances(r) PROVE Inv'
<1> DEFINE x == runs[r]
           s == Season(r)
           apps == {a \in Db.appearances : a.season = s}
           reading(f) == [primary |-> f, minutes |-> TotalMinutes(apps), end |-> Db.ends[s]]
           skip == [x EXCEPT !.todo = Tail(@)]
           go(f) == [x EXCEPT !.at = "ids", !.read = With(@, s, reading(f))]
<1>1. /\ RunInv(x, r, stored, FinishedRuns) /\ Shape(x) /\ Takes(x, FinishedRuns) /\ Writes(x, r, FinishedRuns)
      /\ Analyses(x, r) /\ TakesAudits(x, stored) /\ IsRun(x)
      /\ BesideInv /\ AimInv /\ LockInv
  BY DEF Inv, RunsInv, RunInv, Shape
<1>2. x.at = "season" /\ x.todo # <<>> /\ (Step(r, skip) \/ \E f : Step(r, go(f))) BY DEF ReadAppearances
<1>3. /\ x.todo \in TODOS /\ s = Head(x.todo) /\ s \in SEASONS /\ Tail(x.todo) \in TODOS
      /\ ToSet(x.todo) = {s} \cup ToSet(Tail(x.todo))
  BY <1>1, <1>2, Todos DEF Shape, Season
<1>4. \A z : ~Doing(x, z) /\ ~Untouched(x, z) /\ ~Aiming(x, z) /\ (Written(x, z) <=> z \in DOMAIN x.read)
             /\ (Over(x, z) <=> z \in DOMAIN x.read)
  BY <1>2 DEF Doing, Untouched, Aiming, Written, Over, WORKING
<1>5. s \notin DOMAIN x.read /\ x.targets = {} BY <1>1, <1>2, <1>3, <1>4 DEF Shape
<1>6. Open(r) BY <1>2 DEF Open
<1>7. CASE Step(r, skip)
  <2> DEFINE y == skip
  <2>1. /\ IsRun(y) /\ y.at = "season" /\ y.todo = Tail(x.todo) /\ y.read = x.read /\ y.targets = {} /\ y.rows = x.rows
        /\ y.found = x.found /\ y.inserted = x.inserted /\ y.deleted = x.deleted /\ y.pending = x.pending
        /\ y.beside = x.beside
    <3>0. y = [x EXCEPT !.todo = Tail(x.todo)] OBVIOUS
    <3> HIDE DEF x, y, s
    <3>1. QED BY <1>1, <1>2, <1>5, <3>0 DEF IsRun
  <2> HIDE DEF skip, x, s
  <2>2. \A z : ~Doing(y, z) /\ ~Untouched(y, z) /\ ~Aiming(y, z) /\ (Written(y, z) <=> z \in DOMAIN x.read)
               /\ (Over(y, z) <=> z \in DOMAIN x.read)
    BY <2>1 DEF Doing, Untouched, Aiming, Written, Over, WORKING
  <2>3. RunInv(y, r, stored, FinishedRuns)
    <3>1. Shape(y) BY <1>1, <1>2, <1>3, <1>4, <2>1, <2>2 DEF Shape, WORKING
    <3>2. Takes(y, FinishedRuns) BY <1>1, <1>5, <2>1, <2>2 DEF Takes
    <3>3. Writes(y, r, FinishedRuns) BY <1>1, <1>4, <2>1, <2>2 DEF Writes
    <3>4. Analyses(y, r) BY <1>1, <1>2, <1>4, <2>1, <2>2 DEF Analyses
    <3>5. TakesAudits(y, stored) BY <1>1, <2>1 DEF TakesAudits
    <3>6. QED BY <3>1, <3>2, <3>3, <3>4, <3>5 DEF RunInv
  <2>4. Quiet(r) /\ runs'[r] = y BY <1>6, <1>7, <2>1, StepQuiet DEF x
  <2>5. AimInv' /\ LockInv'
    <3>1. \A z \in y.found : SameAim(x, y, z) BY <1>4, <2>1, <2>2 DEF SameAim
    <3>2. QED BY <1>1, <2>4, <3>1, QuietAims DEF x
  <2>6. \A z \in DOMAIN y.read : Stays(x, y, z) BY <1>4, <2>1, <2>2 DEF Stays
  <2>7. y.inserted \subseteq x.inserted BY <2>1
  <2>8. QED BY <2>3, <2>4, <2>5, <2>6, <2>7, SameInserted, QuietStep DEF x
<1>8. ASSUME NEW f, Step(r, go(f)) PROVE Inv'
  <2> DEFINE y == go(f)
             e == reading(f)
  <2>0. y = [x EXCEPT !.at = "ids", !.read = With(x.read, s, e)] OBVIOUS
  <2> HIDE DEF e
  <2>1. /\ IsRun(y) /\ y.at = "ids" /\ y.todo = x.todo /\ y.read = With(x.read, s, e) /\ y.targets = {} /\ y.rows = x.rows
        /\ y.found = x.found /\ y.inserted = x.inserted /\ y.deleted = x.deleted /\ y.pending = x.pending
        /\ y.beside = x.beside
    <3> HIDE DEF x, y, s
    <3>1. QED BY <1>1, <1>2, <1>5, <2>0 DEF IsRun
  <2> HIDE DEF go, x, s
  <2>2. DOMAIN y.read = DOMAIN x.read \cup {s} BY <2>1 DEF With
  <2>3. \A z : /\ (Doing(y, z) <=> z = s) /\ (Untouched(y, z) <=> z = s) /\ ~Aiming(y, z)
               /\ (Written(y, z) <=> z \in DOMAIN x.read) /\ (Over(y, z) <=> z \in DOMAIN x.read)
    BY <1>3, <1>5, <2>1, <2>2 DEF Doing, Untouched, Aiming, Written, Over, WORKING
  <2>4. RunInv(y, r, stored, FinishedRuns)
    <3>1. Shape(y)
      <4>1. y.at \in STAGES /\ y.at \in WORKING /\ y.at \notin {"clear", "idle", "finished", "failed"}
        BY <2>1 DEF STAGES, WORKING
      <4>2. \A z \in DOMAIN y.read : z \in ToSet(y.todo) => Doing(y, z) BY <1>1, <1>4, <2>1, <2>2, <2>3 DEF Shape
      <4>3. DOMAIN y.read \subseteq SEASONS /\ y.found \subseteq DOMAIN y.read /\ s \notin y.found
        BY <1>1, <1>3, <1>5, <2>1, <2>2 DEF Shape
      <4>4. QED BY <1>1, <1>2, <1>3, <2>1, <2>2, <2>3, <4>1, <4>2, <4>3 DEF Shape
    <3>2. Takes(y, FinishedRuns) BY <1>1, <1>5, <2>1, <2>2, <2>3 DEF Takes
    <3>3. Writes(y, r, FinishedRuns) BY <1>1, <1>4, <2>1, <2>3 DEF Writes
    <3>4. Analyses(y, r) BY <1>1, <1>2, <1>4, <2>1, <2>2, <2>3 DEF Analyses
    <3>5. TakesAudits(y, stored) BY <1>1, <2>1 DEF TakesAudits
    <3>6. QED BY <3>1, <3>2, <3>3, <3>4, <3>5 DEF RunInv
  <2>5. Quiet(r) /\ runs'[r] = y BY <1>6, <1>8, <2>1, StepQuiet DEF x
  <2>6. AimInv' /\ LockInv'
    <3>1. \A z \in y.found : SameAim(x, y, z) BY <1>4, <2>1, <2>3 DEF SameAim
    <3>2. QED BY <1>1, <2>5, <3>1, QuietAims DEF x
  <2>7. \A z \in DOMAIN y.read : Stays(x, y, z) \/ Untouched(y, z) BY <1>4, <2>1, <2>2, <2>3 DEF Stays
  <2>8. y.inserted \subseteq x.inserted BY <2>1
  <2>9. QED BY <2>4, <2>5, <2>6, <2>7, <2>8, SameInserted, QuietStep DEF x
<1>9. QED BY <1>2, <1>7, <1>8

(* The ratings of the season are read, to delete their audits: all there are. *)
LEMMA ReadRatingIdsStep == ASSUME Inv, NEW r \in DOMAIN runs, ReadRatingIds(r) PROVE Inv'
<1> DEFINE x == runs[r]
           s == Season(r)
           ids == OfTable(InSeason(Visible(r), s), "ratings")
           audits == OfTable(Visible(r), "audits") \intersect {Row("audits", z.season, z.player, z.key, z.run, 0, "") : z \in ids}
           more == IF audits = {} THEN x.found ELSE x.found \union {s}
           y == [x EXCEPT !.at = "clear", !.clear = CLEARED, !.targets = audits, !.found = more]
<1>1. /\ RunInv(x, r, stored, FinishedRuns) /\ Shape(x) /\ Takes(x, FinishedRuns) /\ Writes(x, r, FinishedRuns)
      /\ Analyses(x, r) /\ TakesAudits(x, stored) /\ IsRun(x)
      /\ BesideInv /\ AimInv /\ LockInv /\ KeptInv(stored, FinishedRuns)
  BY DEF Inv, RunsInv, RunInv, Shape
<1>2. x.at = "ids" /\ Step(r, y) BY DEF ReadRatingIds
<1>3. s = Head(x.todo) /\ x.todo # <<>> /\ s \in DOMAIN x.read /\ s \in SEASONS /\ s # ""
  BY <1>1, <1>2 DEF Shape, Season, WORKING, SEASONS
<1>4. \A z : /\ (Doing(x, z) <=> z = s) /\ (Untouched(x, z) <=> z = s) /\ ~Aiming(x, z)
             /\ (Written(x, z) <=> z \in DOMAIN x.read /\ z # s) /\ (Over(x, z) <=> z \in DOMAIN x.read /\ z # s)
  BY <1>2, <1>3 DEF Doing, Untouched, Aiming, Written, Over, WORKING
<1>5. s \notin x.found BY <1>1, <1>2, <1>4 DEF Shape
<1>6. \A z \in x.deleted : z.season # s BY <1>1, <1>2, <1>4 DEF Takes
<1>7. \A z \in x.inserted : z.season # s BY <1>1, <1>3, <1>4 DEF Writes
<1>8. InSeason(Visible(r), s) = InSeason(stored, s) BY <1>6, <1>7 DEF InSeason, Visible
<1>9. \A z \in audits : z \in stored /\ z.season = s /\ z.table = "audits"
  <2> SUFFICES ASSUME NEW z \in audits PROVE z \in stored /\ z.season = s /\ z.table = "audits" OBVIOUS
  <2>1. PICK w \in ids : z = Row("audits", w.season, w.player, w.key, w.run, 0, "") OBVIOUS
  <2>2. w.season = s BY DEF InSeason, OfTable
  <2>3. z.season = s /\ z.table = "audits" BY <2>1, <2>2 DEF Row
  <2>4. z \in Visible(r) BY DEF OfTable
  <2>5. QED BY <1>7, <2>3, <2>4 DEF Visible
<1>10. AuditsOf(s) \subseteq audits
  <2> SUFFICES ASSUME NEW z \in AuditsOf(s) PROVE z \in audits OBVIOUS
  <2>1. z \in stored /\ z.season = s /\ z.table = "audits" BY DEF AuditsOf, OfTable, InSeason
  <2>2. z = Row("audits", z.season, z.player, z.key, z.run, 0, "") BY <1>1, <2>1 DEF KeptInv, IsKept
  <2>3. PICK w \in stored : Rates(w, z) BY <1>1, <2>1 DEF KeptInv, Paired
  <2>4. w \in ids BY <1>8, <2>1, <2>3 DEF Rates, OfTable, InSeason
  <2>5. z = Row("audits", w.season, w.player, w.key, w.run, 0, "") BY <2>2, <2>3 DEF Rates
  <2>6. z \in OfTable(Visible(r), "audits") BY <1>6, <2>1 DEF OfTable, Visible
  <2>7. QED BY <2>4, <2>5, <2>6
<1> HIDE DEF audits
<1> HIDE DEF more
<1>11. /\ IsRun(y) /\ y.at = "clear" /\ y.todo = x.todo /\ y.read = x.read /\ y.clear = CLEARED /\ y.targets = audits
       /\ y.rows = x.rows /\ y.found = more /\ y.inserted = x.inserted /\ y.deleted = x.deleted
       /\ y.pending = x.pending /\ y.beside = x.beside
  <2>0. y = [x EXCEPT !.at = "clear", !.clear = CLEARED, !.targets = audits, !.found = more] OBVIOUS
  <2> HIDE DEF x, y
  <2>1. QED BY <1>1, <2>0 DEF IsRun
<1>12. x.found \subseteq more /\ more \subseteq x.found \cup {s} /\ (s \in more => audits # {}) BY <1>5 DEF more
<1>13. Open(r) BY <1>2 DEF Open
<1>14. Quiet(r) /\ runs'[r] = y BY <1>2, <1>11, <1>13, StepQuiet
<1> HIDE DEF x, y, s
<1>15. \A z : /\ (Doing(y, z) <=> z = s) /\ (Untouched(y, z) <=> z = s) /\ (Aiming(y, z) <=> z = s /\ audits # {})
              /\ (Written(y, z) <=> z \in DOMAIN x.read /\ z # s) /\ (Over(y, z) <=> z \in DOMAIN x.read /\ z # s)
  <2>1. "ratings" \in ToSet(CLEARED) BY ClearedTables DEF TABLES
  <2>2. QED BY <1>3, <1>11, <2>1 DEF Doing, Untouched, Aiming, Written, Over, WORKING
<1>16. RunInv(y, r, stored, FinishedRuns)
  <2>1. Shape(y)
    <3>1. y.at \in STAGES /\ y.at \in WORKING /\ y.at = "clear" BY <1>11 DEF STAGES, WORKING
    <3>2. y.found \subseteq DOMAIN y.read BY <1>1, <1>3, <1>11, <1>12 DEF Shape
    <3>3. \A z \in DOMAIN y.read : z \in ToSet(y.todo) => Doing(y, z) BY <1>1, <1>4, <1>11, <1>15 DEF Shape
    <3>4. QED BY <1>1, <1>3, <1>11, <3>1, <3>2, <3>3, ClearedTables DEF Shape
  <2>2. Takes(y, FinishedRuns)
    <3> SUFFICES ASSUME NEW z \in y.deleted \cup y.targets
                 PROVE  /\ IsKept(z) /\ z.run \in FinishedRuns /\ z.season \in DOMAIN y.read
                        /\ Untouched(y, z.season) => z.table = "audits" /\ y.at = "clear"
                        /\ z \in y.targets => Doing(y, z.season)
      BY DEF Takes
    <3>1. CASE z \in audits
      <4>1. z \in stored /\ z.season = s /\ z.table = "audits" BY <1>9, <3>1
      <4>2. IsKept(z) /\ z.run \in FinishedRuns BY <1>1, <4>1 DEF KeptInv
      <4>3. QED BY <1>3, <1>11, <1>15, <4>1, <4>2
    <3>2. CASE z \notin audits
      <4>1. z \in x.deleted /\ z \notin y.targets BY <1>11, <3>2
      <4>2. z.season # s BY <1>6, <4>1 DEF x, s
      <4>3. QED BY <1>1, <1>11, <1>15, <4>1, <4>2 DEF Takes
    <3>3. QED BY <3>1, <3>2
  <2>3. Writes(y, r, FinishedRuns) BY <1>1, <1>4, <1>11, <1>15 DEF Writes
  <2>4. Analyses(y, r) BY <1>1, <1>2, <1>4, <1>11, <1>15 DEF Analyses
  <2>5. TakesAudits(y, stored) BY <1>1, <1>11 DEF TakesAudits
  <2>6. QED BY <2>1, <2>2, <2>3, <2>4, <2>5 DEF RunInv
<1>17. AimInv' /\ LockInv'
  <2>1. ASSUME NEW z \in y.found
        PROVE  /\ Aimed(r, z)'
               /\ \/ Aiming(runs'[r], z)
                  \/ \A q \in Others(r) : z \in runs[q].found /\ ~Aiming(runs[q], z) => Preceded(r, z) \/ Preceded(q, z)
    <3>1. CASE z = s
      <4>1. audits # {} BY <1>11, <1>12, <3>1
      <4>2. Aiming(y, z) BY <1>15, <3>1, <4>1
      <4>3. \A w \in audits : w \in AuditsOf(s) BY <1>9 DEF AuditsOf, OfTable, InSeason, s
      <4>4. \A v : AuditsOf(v)' = AuditsOf(v) BY <1>14 DEF AuditsOf, OfTable, InSeason, Quiet
      <4>5. AuditsOf(s) # {} BY <4>1, <4>3
      <4>6. Aimed(r, z)'
        <5>1. Aiming(runs'[r], z) /\ runs'[r].targets = audits BY <1>11, <1>14, <4>2
        <5>2. AuditsOf(z)' # {} /\ AuditsOf(z)' \subseteq audits BY <1>10, <3>1, <4>4, <4>5 DEF s
        <5>3. QED BY <5>1, <5>2 DEF Aimed
      <4>7. QED BY <1>14, <4>2, <4>6
    <3>2. CASE z # s
      <4>1. SameAim(x, y, z) BY <1>4, <1>11, <1>12, <1>15, <3>2 DEF SameAim
      <4>2. QED BY <1>1, <1>14, <4>1, AimKept DEF x
    <3>3. QED BY <3>1, <3>2
  <2>2. QED BY <1>1, <1>14, <2>1, AimsStep
<1>18. \A z \in DOMAIN y.read : Stays(x, y, z) \/ Untouched(y, z) BY <1>4, <1>11, <1>12, <1>15 DEF Stays
<1>19. y.inserted \subseteq x.inserted BY <1>11
<1>20. QED BY <1>14, <1>16, <1>17, <1>18, <1>19, SameInserted, QuietStep DEF x

-----------------------------------------------------------------------------
(* The audits that go with ratings. *)
LEMMA CascadeFacts ==
  ASSUME KeptInv(stored, FinishedRuns), NEW rows, rows \subseteq stored
  PROVE  /\ \A y \in Cascaded(rows) : y \in stored /\ y.table = "audits" /\ \E z \in rows : Rates(z, y)
         /\ \A y \in stored : \A z \in rows : y.table = "audits" /\ Rates(z, y) => y \in Cascaded(rows)
<1>1. ASSUME NEW y \in stored, NEW z \in rows
      PROVE  z.table = "ratings" /\ SameKey(y, [z EXCEPT !.table = "audits"]) /\ y.run = z.run
             <=> y.table = "audits" /\ Rates(z, y)
  <2> DEFINE full(t) == [table |-> t, season |-> z.season, player |-> z.player, key |-> z.key, run |-> z.run,
                         value |-> z.value, trust |-> z.trust, rank |-> z.rank]
             a == [z EXCEPT !.table = "audits"]
  <2>1. z = full(z.table) BY DEF KeptInv, IsKept, IsRow
  <2>2. a = full("audits") BY <2>1
  <2>3. a.table = "audits" /\ a.season = z.season /\ a.player = z.player /\ a.key = z.key BY <2>2
  <2> HIDE DEF a
  <2>4. QED BY <2>3 DEF SameKey, Rates, a
<1>2. QED BY <1>1 DEF Cascaded, OfTable

(* A step of a run that clears the season s. *)
Clears(x, y, s) ==
  /\ IsRun(y) /\ x.at = "clear" /\ y.at = "clear" /\ s = Head(x.todo)
  /\ y.todo = x.todo /\ y.read = x.read /\ y.rows = x.rows /\ y.found = x.found /\ y.beside = x.beside
  /\ y.inserted = x.inserted /\ y.pending = x.pending
  /\ y.clear \in Seq(TABLES) /\ ("ratings" \in ToSet(y.clear) => y.clear = CLEARED)
  /\ x.deleted \subseteq y.deleted
  /\ \A z \in y.targets \cup (y.deleted \ x.deleted) :
       z \in stored /\ z.season = s /\ (Untouched(y, s) => z.table = "audits")
  /\ \A z \in y.deleted \ x.deleted : \A w \in stored : w.table = "audits" /\ Rates(z, w) => w \in y.deleted
  /\ Untouched(y, s) => Untouched(x, s)

(* Where it stands. *)
LEMMA ClearsStands ==
  ASSUME NEW x, NEW y, NEW s, Shape(x), Clears(x, y, s)
  PROVE  /\ s \in DOMAIN x.read /\ s \in SEASONS
         /\ \A z : /\ (Doing(x, z) <=> z = s) /\ (Doing(y, z) <=> z = s)
                   /\ (Written(x, z) <=> z \in DOMAIN x.read /\ z # s) /\ (Written(y, z) <=> z \in DOMAIN x.read /\ z # s)
                   /\ (Over(x, z) <=> z \in DOMAIN x.read /\ z # s) /\ (Over(y, z) <=> z \in DOMAIN x.read /\ z # s)
                   /\ (Untouched(x, z) <=> z = s /\ "ratings" \in ToSet(x.clear))
                   /\ (Untouched(y, z) <=> z = s /\ "ratings" \in ToSet(y.clear))
                   /\ (Aiming(x, z) <=> z = s /\ "ratings" \in ToSet(x.clear) /\ x.targets # {})
                   /\ (Aiming(y, z) <=> z = s /\ "ratings" \in ToSet(y.clear) /\ y.targets # {})
<1>1. s \in DOMAIN x.read /\ s \in SEASONS BY DEF Shape, Clears, WORKING
<1>2. \A z : (Doing(x, z) <=> z = s) /\ (Doing(y, z) <=> z = s) BY DEF Doing, Clears, WORKING
<1>3. x.at = "clear" /\ y.at = "clear" /\ y.read = x.read BY DEF Clears
<1>4. QED BY <1>1, <1>2, <1>3 DEF Written, Over, Untouched, Aiming

(* All that is left to show of it is what it aims at, and that it covers the season. *)
LEMMA ClearsStep ==
  ASSUME Inv, NEW r, Quiet(r), NEW s, Clears(runs[r], runs'[r], s),
         AimInv' /\ LockInv', Untouched(runs'[r], s) \/ Covered(r, s)'
  PROVE  Inv'
<1> DEFINE x == runs[r]
           y == runs'[r]
<1>1. /\ RunInv(x, r, stored, FinishedRuns) /\ Shape(x) /\ Takes(x, FinishedRuns) /\ Writes(x, r, FinishedRuns)
      /\ Analyses(x, r) /\ TakesAudits(x, stored) /\ KeptInv(stored, FinishedRuns)
  BY DEF Inv, RunsInv, RunInv, Quiet
<1>2. Clears(x, y, s) OBVIOUS
<1> HIDE DEF x, y
<1>3. /\ s \in DOMAIN x.read /\ s \in SEASONS
      /\ \A z : /\ (Doing(x, z) <=> z = s) /\ (Doing(y, z) <=> z = s)
                /\ (Written(x, z) <=> z \in DOMAIN x.read /\ z # s) /\ (Written(y, z) <=> z \in DOMAIN x.read /\ z # s)
                /\ (Over(x, z) <=> z \in DOMAIN x.read /\ z # s) /\ (Over(y, z) <=> z \in DOMAIN x.read /\ z # s)
                /\ (Untouched(x, z) <=> z = s /\ "ratings" \in ToSet(x.clear))
                /\ (Untouched(y, z) <=> z = s /\ "ratings" \in ToSet(y.clear))
  BY <1>1, <1>2, ClearsStands
<1>4. RunInv(y, r, stored, FinishedRuns)
  <2>1. Shape(y)
    <3>1. y.at \in STAGES /\ y.at \in WORKING /\ y.at = "clear" /\ y.at # "ids" /\ x.at \in WORKING
      BY <1>2 DEF STAGES, WORKING, Clears
    <3>2. \A z \in DOMAIN y.read : z \in ToSet(y.todo) => Doing(y, z) BY <1>1, <1>2, <1>3 DEF Shape, Clears
    <3>3. QED BY <1>1, <1>2, <3>1, <3>2 DEF Shape, Clears
  <2>2. Takes(y, FinishedRuns)
    <3> SUFFICES ASSUME NEW z \in y.deleted \cup y.targets
                 PROVE  /\ IsKept(z) /\ z.run \in FinishedRuns /\ z.season \in DOMAIN y.read
                        /\ Untouched(y, z.season) => z.table = "audits" /\ y.at = "clear"
                        /\ z \in y.targets => Doing(y, z.season)
      BY DEF Takes
    <3>1. y.read = x.read /\ y.at = "clear" /\ x.at = "clear" BY <1>2 DEF Clears
    <3>2. CASE z \in y.targets \cup (y.deleted \ x.deleted)
      <4>1. z \in stored /\ z.season = s /\ (Untouched(y, s) => z.table = "audits") BY <1>2, <3>2 DEF Clears
      <4>2. IsKept(z) /\ z.run \in FinishedRuns BY <1>1, <4>1 DEF KeptInv
      <4>3. QED BY <1>3, <3>1, <4>1, <4>2
    <3>3. CASE z \notin y.targets /\ z \in x.deleted
      <4>1. /\ IsKept(z) /\ z.run \in FinishedRuns /\ z.season \in DOMAIN x.read
            /\ Untouched(x, z.season) => z.table = "audits"
        BY <1>1, <3>3 DEF Takes
      <4>2. Untouched(y, z.season) => Untouched(x, z.season) BY <1>2, <1>3 DEF Clears
      <4>3. QED BY <3>1, <3>3, <4>1, <4>2
    <3>4. QED BY <3>2, <3>3
  <2>3. Writes(y, r, FinishedRuns) BY <1>1, <1>2, <1>3 DEF Writes, Clears
  <2>4. Analyses(y, r) BY <1>1, <1>2, <1>3 DEF Analyses, Clears
  <2>5. TakesAudits(y, stored)
    <3> SUFFICES ASSUME NEW z \in y.deleted, NEW w \in stored, w.table = "audits", Rates(z, w)
                 PROVE  w \in y.deleted \/ \E v \in y.inserted : Rates(v, w)
      BY DEF TakesAudits
    <3>1. QED BY <1>1, <1>2 DEF TakesAudits, Clears
  <2>6. QED BY <2>1, <2>2, <2>3, <2>4, <2>5 DEF RunInv
<1>5. \A z \in DOMAIN y.read : Stays(x, y, z) \/ z = s BY <1>2, <1>3 DEF Stays, Clears
<1>6. y.inserted \subseteq x.inserted BY <1>2 DEF Clears
<1>7. \A z \in DOMAIN y.read : Stays(x, y, z) \/ Untouched(y, z) \/ Covered(r, z)'
  <2> SUFFICES ASSUME NEW z \in DOMAIN y.read PROVE Stays(x, y, z) \/ Untouched(y, z) \/ Covered(r, z)' OBVIOUS
  <2>1. CASE z = s BY <2>1 DEF y
  <2>2. CASE z # s BY <1>5, <2>2
  <2>3. QED BY <2>1, <2>2
<1>8. QED BY <1>4, <1>6, <1>7, SameInserted, QuietStep DEF x, y

(* What a run deletes at once, and what goes with it. *)
Gone(deleted, rows) == deleted \union (rows \intersect stored) \union Cascaded(rows \intersect stored)

(* What a delete takes is what it was aimed at and the audits of its ratings. *)
LEMMA TakenFacts ==
  ASSUME KeptInv(stored, FinishedRuns), NEW rows, NEW deleted, NEW gone, gone = Gone(deleted, rows)
  PROVE  /\ deleted \subseteq gone
         /\ \A z \in gone \ deleted : z \in stored /\ (z \in rows \/ (z.table = "audits" /\ \E v \in rows : Rates(v, z)))
         /\ \A z \in gone \ deleted : \A w \in stored : w.table = "audits" /\ Rates(z, w) => w \in gone
         /\ \A w \in stored : w \in rows \/ (w.table = "audits" /\ \E v \in rows \intersect stored : Rates(v, w)) => w \in gone
<1> DEFINE taken == rows \intersect stored
           also == Cascaded(taken)
<1>1. /\ \A y \in also : y \in stored /\ y.table = "audits" /\ \E z \in taken : Rates(z, y)
      /\ \A y \in stored : \A z \in taken : y.table = "audits" /\ Rates(z, y) => y \in also
  BY CascadeFacts
<1>2. gone = deleted \union taken \union also BY DEF Gone
<1> HIDE DEF also
<1>3. \A z \in gone \ deleted : z \in stored /\ (z \in rows \/ (z.table = "audits" /\ \E v \in rows : Rates(v, z)))
  BY <1>1, <1>2
<1>4. ASSUME NEW z \in gone \ deleted, NEW w \in stored, w.table = "audits", Rates(z, w) PROVE w \in gone
  <2>1. z \in taken \/ z \in also BY <1>2
  <2>2. z \notin also BY <1>1, <1>4 DEF Rates
  <2>3. QED BY <1>1, <1>2, <1>4, <2>1, <2>2
<1>5. \A w \in stored : w \in rows \/ (w.table = "audits" /\ \E v \in taken : Rates(v, w)) => w \in gone
  BY <1>1, <1>2
<1>6. QED BY <1>2, <1>3, <1>4, <1>5

(* A delete goes on when the rows it waits for are free: two runs never both take the audits. *)
LEMMA FinishDeleteStep == ASSUME Inv, NEW r \in DOMAIN runs, FinishDelete(r) PROVE Inv'
<1> DEFINE x == runs[r]
           gone == Gone(x.deleted, x.targets)
           y == [x EXCEPT !.targets = {}, !.deleted = gone]
<1>1. /\ RunInv(x, r, stored, FinishedRuns) /\ Shape(x) /\ Takes(x, FinishedRuns) /\ IsRun(x)
      /\ BesideInv /\ AimInv /\ LockInv /\ CoverInv /\ KeptInv(stored, FinishedRuns)
  BY DEF Inv, RunsInv, RunInv, Shape
<1>2. x.at = "clear" /\ x.targets # {} /\ ~Held(r, x.targets) /\ Step(r, y) BY DEF FinishDelete, Taking, Gone
<1>3. PICK s : s = Head(x.todo) OBVIOUS
<1> HIDE DEF gone
<1>4. /\ IsRun(y) /\ y.at = "clear" /\ y.todo = x.todo /\ y.read = x.read /\ y.clear = x.clear /\ y.targets = {}
      /\ y.rows = x.rows /\ y.found = x.found /\ y.inserted = x.inserted /\ y.deleted = gone
      /\ y.pending = x.pending /\ y.beside = x.beside
  <2>0. y = [x EXCEPT !.targets = {}, !.deleted = gone] OBVIOUS
  <2> HIDE DEF x, y
  <2>1. QED BY <1>1, <1>2, <2>0 DEF IsRun
<1>5. Open(r) BY <1>2 DEF Open
<1>6. Quiet(r) /\ runs'[r] = y BY <1>2, <1>4, <1>5, StepQuiet
<1>7. /\ \A z \in gone \ x.deleted :
           z \in stored /\ (z \in x.targets \/ (z.table = "audits" /\ \E v \in x.targets : Rates(v, z)))
      /\ \A z \in gone \ x.deleted : \A w \in stored : w.table = "audits" /\ Rates(z, w) => w \in gone
      /\ \A w \in stored :
           w \in x.targets \/ (w.table = "audits" /\ \E v \in x.targets \intersect stored : Rates(v, w)) => w \in gone
  <2>1. gone = Gone(x.deleted, x.targets) BY DEF gone
  <2> HIDE DEF x, y
  <2>2. QED BY <1>1, <2>1, TakenFacts
<1>8. x.deleted \subseteq gone BY <1>1, TakenFacts DEF gone
<1> HIDE DEF x, y
<1>9. \A z : Doing(x, z) <=> z = s BY <1>2, <1>3 DEF Doing, WORKING
<1>10. \A z \in x.targets : z.season = s /\ (Untouched(x, s) => z.table = "audits") BY <1>1, <1>9 DEF Takes
<1>11. Untouched(y, s) <=> Untouched(x, s) BY <1>2, <1>4 DEF Untouched, Doing, WORKING
<1>12. Clears(x, y, s)
  <2>1. ASSUME NEW z \in y.targets \cup (y.deleted \ x.deleted)
        PROVE  z \in stored /\ z.season = s /\ (Untouched(y, s) => z.table = "audits")
    <3>1. z \in gone \ x.deleted BY <1>4
    <3>2. z \in stored BY <1>7, <3>1
    <3>3. CASE z \in x.targets BY <1>10, <1>11, <3>2, <3>3
    <3>4. CASE z.table = "audits" /\ \E v \in x.targets : Rates(v, z) BY <1>10, <3>2, <3>4 DEF Rates
    <3>5. QED BY <1>7, <3>1, <3>3, <3>4
  <2>2. \A z \in y.deleted \ x.deleted : \A w \in stored : w.table = "audits" /\ Rates(z, w) => w \in y.deleted
    BY <1>4, <1>7
  <2>3. y.clear \in Seq(TABLES) /\ ("ratings" \in ToSet(y.clear) => y.clear = CLEARED) BY <1>1, <1>2, <1>4 DEF Shape
  <2>4. QED BY <1>2, <1>3, <1>4, <1>8, <1>11, <2>1, <2>2, <2>3 DEF Clears
<1>13. /\ s \in DOMAIN x.read
       /\ \A z : /\ (Written(x, z) <=> z \in DOMAIN x.read /\ z # s) /\ (Written(y, z) <=> z \in DOMAIN x.read /\ z # s)
                 /\ (Untouched(x, z) <=> z = s /\ "ratings" \in ToSet(x.clear))
                 /\ (Aiming(x, z) <=> z = s /\ "ratings" \in ToSet(x.clear) /\ x.targets # {})
                 /\ (Aiming(y, z) <=> z = s /\ "ratings" \in ToSet(y.clear) /\ y.targets # {})
  BY <1>1, <1>12, ClearsStands
<1>14. AimInv' /\ LockInv'
  <2>1. ASSUME NEW z \in y.found
        PROVE  /\ Aimed(r, z)'
               /\ \/ Aiming(runs'[r], z)
                  \/ \A q \in Others(r) : z \in runs[q].found /\ ~Aiming(runs[q], z) => Preceded(r, z) \/ Preceded(q, z)
    <3>1. CASE ~Aiming(x, z)
      <4>1. SameAim(x, y, z) BY <1>4, <1>8, <1>13, <3>1 DEF SameAim
      <4>2. QED BY <1>1, <1>6, <4>1, AimKept DEF x
    <3>2. CASE Aiming(x, z)
      <4>1. Preceded(r, z) \/ (AuditsOf(z) # {} /\ AuditsOf(z) \subseteq x.targets)
        BY <1>1, <1>4, <1>5, <3>2 DEF AimInv, Aimed, x
      <4>2. Preceded(r, z)' <=> Preceded(r, z)
        <5>1. runs'[r].beside = runs[r].beside /\ runs[r].beside \subseteq DOMAIN runs BY <1>1, <1>6 DEF Quiet, BesideInv
        <5>2. \A q \in DOMAIN runs : Analysed(q, z)' <=> Analysed(q, z) BY <1>6, QuietFacts
        <5>3. QED BY <5>1, <5>2 DEF Preceded
      <4>3. AuditsOf(z)' = AuditsOf(z) BY <1>6 DEF AuditsOf, OfTable, InSeason, Quiet
      <4>4. ~Aiming(y, z) BY <1>4, <1>13
      <4>5. AuditsOf(z) \subseteq stored BY DEF AuditsOf, OfTable, InSeason
      <4>6. Aimed(r, z)'
        <5>1. AuditsOf(z) \subseteq x.targets => AuditsOf(z) \subseteq gone BY <1>7, <4>5
        <5>2. ~Aiming(runs'[r], z) /\ runs'[r].deleted = gone BY <1>4, <1>6, <4>4
        <5>3. QED BY <4>1, <4>2, <4>3, <5>1, <5>2 DEF Aimed
      <4>7. ASSUME NEW q \in Others(r), z \in runs[q].found, ~Aiming(runs[q], z) PROVE Preceded(r, z) \/ Preceded(q, z)
        <5>1. q \in DOMAIN runs /\ Open(q) BY DEF Others
        <5>2. Preceded(q, z) \/ AuditsOf(z) \subseteq runs[q].deleted BY <1>1, <4>7, <5>1 DEF AimInv, Aimed
        <5>3. runs[q].deleted \intersect x.targets = {} BY <1>2 DEF Held, x
        <5>4. QED BY <4>1, <5>2, <5>3
      <4>8. QED BY <4>6, <4>7
    <3>3. QED BY <3>1, <3>2
  <2>2. QED BY <1>1, <1>6, <2>1, AimsStep
<1>15. ASSUME ~Untouched(y, s) PROVE Covered(r, s)'
  <2>1. ~Untouched(x, s) /\ ~Written(x, s) /\ ~Written(y, s) /\ s \in DOMAIN x.read BY <1>11, <1>13, <1>15
  <2>2. Clean(x, s, stored) \/ Behind(r, s) BY <1>1, <1>5, <2>1 DEF CoverInv, Covered, x
  <2>3. CASE Clean(x, s, stored)
    <3>1. ASSUME NEW z \in InSeason(stored, s) PROVE z \in gone \/ (Doing(y, s) /\ y.at = "clear" /\ z.table \in ToSet(y.clear))
      <4>1. z \in stored BY DEF InSeason
      <4>2. CASE z \in x.deleted \cup x.targets BY <1>7, <1>8, <4>1, <4>2
      <4>3. CASE Doing(x, s) /\ x.at = "clear" /\ z.table \in ToSet(x.clear) BY <1>4, <4>3 DEF Doing, WORKING
      <4>4. CASE z.table = "audits" /\ \E w \in x.targets \cap stored : Rates(w, z) BY <1>7, <4>1, <4>4
      <4>5. QED BY <2>3, <4>2, <4>3, <4>4 DEF Clean
    <3>2. Clean(y, s, stored) BY <1>4, <3>1 DEF Clean
    <3>3. Clean(runs'[r], s, stored') BY <1>6, <3>2 DEF Quiet
    <3>4. QED BY <1>6, <2>1, <3>3 DEF Covered
  <2>4. CASE Behind(r, s)
    <3>1. \A z \in y.deleted \cup y.targets : z.table = "ratings" /\ z.season = s => z \in x.deleted \cup x.targets
      BY <1>4, <1>7
    <3>2. Behind(r, s)'
      <4>1. s \in runs'[r].found <=> s \in runs[r].found BY <1>4, <1>6 DEF x
      <4>2. \A z \in runs'[r].deleted \cup runs'[r].targets :
              z.table = "ratings" /\ z.season = s => z \in runs[r].deleted \cup runs[r].targets
        BY <1>6, <3>1 DEF x
      <4>3. QED BY <1>1, <1>6, <2>4, <4>1, <4>2, OwnBehind
    <3>3. QED BY <1>6, <2>1, <3>2 DEF Covered
  <2>5. QED BY <2>2, <2>3, <2>4
<1>16. QED BY <1>6, <1>12, <1>14, <1>15, ClearsStep DEF x

(* The next table is cleared: the ratings first, and with them all the season is to be. *)
LEMMA StartDeleteStep == ASSUME Inv, NEW r \in DOMAIN runs, StartDelete(r) PROVE Inv'
<1> DEFINE x == runs[r]
           h == Head(x.clear)
           rest == Tail(x.clear)
           rows == OfTable(InSeason(Visible(r), Season(r)), h)
           gone == Gone(x.deleted, rows)
           step(t, d) == [x EXCEPT !.targets = t, !.deleted = d, !.clear = rest]
<1>1. /\ RunInv(x, r, stored, FinishedRuns) /\ Shape(x) /\ Takes(x, FinishedRuns) /\ Writes(x, r, FinishedRuns) /\ IsRun(x)
      /\ BesideInv /\ AimInv /\ LockInv /\ CoverInv /\ KeptInv(stored, FinishedRuns)
  BY DEF Inv, RunsInv, RunInv, Shape
<1>2. /\ x.at = "clear" /\ x.targets = {} /\ x.clear # <<>>
      /\ Step(r, [x EXCEPT !.clear = rest, !.targets = rows])
         \/ Step(r, [[x EXCEPT !.targets = {}, !.deleted = gone] EXCEPT !.clear = rest])
  BY DEF StartDelete, Taking, Gone
<1>3. PICK s : s = Head(x.todo) OBVIOUS
<1>4. \A z : Doing(x, z) <=> z = s BY <1>2, <1>3 DEF Doing, WORKING
<1>5. s \in DOMAIN x.read /\ s # "" BY <1>1, <1>2, <1>3 DEF Shape, WORKING, SEASONS
<1>6. \A z \in x.inserted : z.season # s BY <1>1, <1>2, <1>4, <1>5 DEF Writes, Written
<1>7. /\ \A z \in rows : z \in stored /\ z.season = s /\ z.table = h
      /\ \A z \in stored : z.season = s /\ z.table = h => z \in x.deleted \/ z \in rows
  BY <1>3, <1>6 DEF OfTable, InSeason, Visible, Season
<1>8. /\ rest \in Seq(TABLES) /\ ToSet(x.clear) = {h} \cup ToSet(rest)
      /\ "ratings" \notin ToSet(rest) /\ ("ratings" \in ToSet(x.clear) => x.clear = CLEARED)
  BY <1>1, <1>2, Tables DEF Shape
<1> HIDE DEF rows
<1>9. /\ x.deleted \subseteq gone
      /\ \A z \in gone \ x.deleted : z \in stored /\ (z \in rows \/ (z.table = "audits" /\ \E v \in rows : Rates(v, z)))
      /\ \A z \in gone \ x.deleted : \A w \in stored : w.table = "audits" /\ Rates(z, w) => w \in gone
      /\ \A w \in stored : w \in rows \/ (w.table = "audits" /\ \E v \in rows \intersect stored : Rates(v, w)) => w \in gone
  <2>1. KeptInv(stored, FinishedRuns) BY <1>1
  <2> DEFINE d == x.deleted
  <2> HIDE DEF d, x
  <2> DEFINE g == Gone(d, rows)
  <2>2. g = Gone(d, rows) OBVIOUS
  <2> HIDE DEF g
  <2>3. /\ d \subseteq g
        /\ \A z \in g \ d : z \in stored /\ (z \in rows \/ (z.table = "audits" /\ \E v \in rows : Rates(v, z)))
        /\ \A z \in g \ d : \A w \in stored : w.table = "audits" /\ Rates(z, w) => w \in g
        /\ \A w \in stored : w \in rows \/ (w.table = "audits" /\ \E v \in rows \intersect stored : Rates(v, w)) => w \in g
    BY <2>1, <2>2, TakenFacts
  <2>4. QED BY <2>3 DEF d, g, x
<1> HIDE DEF gone, rest
<1>10. PICK t, d :
         /\ Step(r, step(t, d)) /\ x.deleted \subseteq d
         /\ \A z \in t \cup (d \ x.deleted) :
              z \in stored /\ (z \in rows \/ (z.table = "audits" /\ \E v \in rows : Rates(v, z)))
         /\ \A z \in d \ x.deleted : \A w \in stored : w.table = "audits" /\ Rates(z, w) => w \in d
         /\ \A w \in rows : w \in d \cup t
         /\ \A w \in stored : \A v \in rows : w.table = "audits" /\ Rates(v, w) => w \in d \/ v \in t
  <2>1. CASE Step(r, [x EXCEPT !.clear = rest, !.targets = rows])
    <3> DEFINE d == x.deleted
    <3>1. step(rows, d) = [x EXCEPT !.clear = rest, !.targets = rows]
      <4>1. IsRun(x) BY <1>1
      <4> HIDE DEF x
      <4>2. QED BY <4>1 DEF IsRun, d
    <3>2. Step(r, step(rows, d)) BY <2>1, <3>1
    <3>3. /\ \A z \in rows \cup (d \ x.deleted) : z \in stored /\ z \in rows
          /\ \A z : z \notin d \ x.deleted
      BY <1>7 DEF d
    <3>4. QED BY <3>2, <3>3 DEF d
  <2>2. CASE Step(r, [[x EXCEPT !.targets = {}, !.deleted = gone] EXCEPT !.clear = rest])
    <3>1. step({}, gone) = [[x EXCEPT !.targets = {}, !.deleted = gone] EXCEPT !.clear = rest]
      <4>1. IsRun(x) BY <1>1
      <4> HIDE DEF x
      <4>2. QED BY <4>1 DEF IsRun
    <3>2. Step(r, step({}, gone)) BY <2>2, <3>1
    <3>3. \A w \in rows : w \in gone BY <1>7, <1>9
    <3>4. \A w \in stored : \A v \in rows : w.table = "audits" /\ Rates(v, w) => w \in gone BY <1>7, <1>9
    <3>5. \A z \in {} \cup (gone \ x.deleted) :
            z \in stored /\ (z \in rows \/ (z.table = "audits" /\ \E v \in rows : Rates(v, z)))
      BY <1>9
    <3>6. /\ x.deleted \subseteq gone /\ \A w \in rows : w \in gone \cup {}
          /\ \A z \in gone \ x.deleted : \A w \in stored : w.table = "audits" /\ Rates(z, w) => w \in gone
          /\ \A w \in stored : \A v \in rows : w.table = "audits" /\ Rates(v, w) => w \in gone \/ v \in {}
      BY <1>9, <3>3, <3>4
    <3> HIDE DEF step, x
    <3>7. QED BY <3>2, <3>5, <3>6
  <2>3. QED BY <1>2, <2>1, <2>2
<1> DEFINE y == step(t, d)
<1>11. /\ IsRun(y) /\ y.at = "clear" /\ y.todo = x.todo /\ y.read = x.read /\ y.clear = rest /\ y.targets = t
       /\ y.rows = x.rows /\ y.found = x.found /\ y.inserted = x.inserted /\ y.deleted = d
       /\ y.pending = x.pending /\ y.beside = x.beside
  <2>0. y = [x EXCEPT !.targets = t, !.deleted = d, !.clear = rest] OBVIOUS
  <2> HIDE DEF x, y, h
  <2>1. QED BY <1>1, <1>2, <2>0 DEF IsRun
<1>12. Open(r) BY <1>2 DEF Open
<1>13. Quiet(r) /\ runs'[r] = y BY <1>10, <1>11, <1>12, StepQuiet
<1> HIDE DEF x, y, step
<1>14. Clears(x, y, s)
  <2>1. ~Untouched(y, s) BY <1>8, <1>11 DEF Untouched
  <2>2. \A z \in t \cup (d \ x.deleted) : z \in stored /\ z.season = s BY <1>7, <1>10 DEF Rates
  <2>3. QED BY <1>2, <1>3, <1>8, <1>10, <1>11, <2>1, <2>2 DEF Clears
<1>15. \A z : /\ (Written(x, z) <=> z \in DOMAIN x.read /\ z # s) /\ (Written(y, z) <=> z \in DOMAIN x.read /\ z # s)
              /\ (Doing(y, z) <=> z = s)
              /\ (Untouched(x, z) <=> z = s /\ "ratings" \in ToSet(x.clear))
              /\ (Aiming(x, z) <=> z = s /\ "ratings" \in ToSet(x.clear) /\ x.targets # {})
              /\ (Aiming(y, z) <=> z = s /\ "ratings" \in ToSet(y.clear) /\ y.targets # {})
  BY <1>1, <1>14, ClearsStands
<1>16. AimInv' /\ LockInv'
  <2>1. \A z \in y.found : SameAim(x, y, z) BY <1>2, <1>8, <1>10, <1>11, <1>15 DEF SameAim
  <2>2. QED BY <1>1, <1>13, <2>1, QuietAims DEF x
<1>17. Covered(r, s)'
  <2>1. ~Written(y, s) BY <1>15
  <2>2. ASSUME Clean(y, s, stored) PROVE Covered(r, s)'
    <3>1. Clean(runs'[r], s, stored') BY <1>13, <2>2 DEF Quiet
    <3>2. QED BY <1>13, <2>1, <3>1 DEF Covered
  <2>3. \A z \in InSeason(stored, s) : z.table \in ToSet(rest) => Doing(y, s) /\ y.at = "clear" /\ z.table \in ToSet(y.clear)
    BY <1>11, <1>15
  <2>4. \A z \in InSeason(stored, s) : z \in stored /\ z.season = s BY DEF InSeason
  <2>5. \A z \in InSeason(stored, s) : z.table = h /\ z \notin x.deleted => z \in d \cup t BY <1>7, <1>10, <2>4
  <2>6. CASE "ratings" \in ToSet(x.clear)
    <3>1. h = "ratings" /\ ToSet(rest) = TABLES \ {"ratings", "audits"} BY <1>8, <2>6, ClearedTables DEF rest
    <3>2. Untouched(x, s) BY <1>15, <2>6
    <3>3. ASSUME NEW z \in InSeason(stored, s), z.table = "ratings" PROVE z \in d \cup t
      <4>1. z \notin x.deleted BY <1>1, <2>4, <3>2, <3>3 DEF Takes
      <4>2. QED BY <2>5, <3>1, <3>3, <4>1
    <3>4. ASSUME NEW z \in InSeason(stored, s), z.table = "audits"
          PROVE  z \in d \/ \E w \in t \cap stored : Rates(w, z)
      <4>1. PICK w \in stored : Rates(w, z) BY <1>1, <2>4, <3>4 DEF KeptInv, Paired
      <4>2. w.table = "ratings" /\ w.season = s BY <2>4, <4>1 DEF Rates
      <4>3. w \notin x.deleted BY <1>1, <3>2, <4>2 DEF Takes
      <4>4. w \in rows BY <1>7, <3>1, <4>2, <4>3
      <4>5. z \in d \/ w \in t BY <1>10, <2>4, <3>4, <4>1, <4>4
      <4>6. QED BY <4>1, <4>5
    <3>5. \A z \in InSeason(stored, s) : z.table \in TABLES BY <1>1, <1>5, <2>4 DEF KeptInv, IsKept
    <3>6. Clean(y, s, stored)
      <4> SUFFICES ASSUME NEW z \in InSeason(stored, s)
                   PROVE  \/ z \in y.deleted \cup y.targets
                          \/ Doing(y, s) /\ y.at = "clear" /\ z.table \in ToSet(y.clear)
                          \/ z.table = "audits" /\ \E w \in y.targets \cap stored : Rates(w, z)
        BY DEF Clean
      <4>1. CASE z.table = "ratings" BY <1>11, <3>3, <4>1
      <4>2. CASE z.table = "audits" BY <1>11, <3>4, <4>2
      <4>3. CASE z.table \in ToSet(rest) BY <2>3, <4>3
      <4>4. QED BY <3>1, <3>5, <4>1, <4>2, <4>3
    <3>7. QED BY <2>2, <3>6
  <2>7. CASE "ratings" \notin ToSet(x.clear)
    <3>1. ~Untouched(x, s) /\ ~Written(x, s) BY <1>15, <2>7
    <3>2. Clean(x, s, stored) \/ Behind(r, s) BY <1>1, <1>5, <1>12, <3>1 DEF CoverInv, Covered, x
    <3>3. CASE Clean(x, s, stored)
      <4>1. ASSUME NEW z \in InSeason(stored, s)
            PROVE  z \in d \cup t \/ (Doing(y, s) /\ y.at = "clear" /\ z.table \in ToSet(y.clear))
        <5>1. CASE z \in x.deleted BY <1>10, <5>1
        <5>2. CASE z.table \in ToSet(x.clear) /\ z \notin x.deleted BY <1>8, <2>3, <2>5, <5>2
        <5>3. QED BY <1>2, <3>3, <5>1, <5>2 DEF Clean
      <4>2. Clean(y, s, stored) BY <1>11, <4>1 DEF Clean
      <4>3. QED BY <2>2, <4>2
    <3>4. CASE Behind(r, s)
      <4>1. h # "ratings" BY <1>8, <2>7
      <4>2. \A z \in y.deleted \cup y.targets : z.table = "ratings" /\ z.season = s => z \in x.deleted \cup x.targets
        <5>1. \A z \in rows : z.table # "ratings" BY <1>7, <4>1
        <5>2. \A z \in t \cup (d \ x.deleted) : z.table # "ratings" BY <1>10, <5>1
        <5>3. QED BY <1>11, <5>2
      <4>3. s \in runs'[r].found <=> s \in runs[r].found BY <1>11, <1>13 DEF x
      <4>4. \A z \in runs'[r].deleted \cup runs'[r].targets :
              z.table = "ratings" /\ z.season = s => z \in runs[r].deleted \cup runs[r].targets
        BY <1>13, <4>2 DEF x
      <4>5. Behind(r, s)' BY <1>1, <1>13, <3>4, <4>3, <4>4, OwnBehind
      <4>6. QED BY <1>13, <2>1, <4>5 DEF Covered
    <3>5. QED BY <3>2, <3>3, <3>4
  <2>8. QED BY <2>6, <2>7
<1>18. QED BY <1>13, <1>14, <1>16, <1>17, ClearsStep DEF x

-----------------------------------------------------------------------------
(* A run that is rolled back holds nothing. *)
LEMMA AbortStep == ASSUME Inv, NEW r \in DOMAIN runs, Open(r), Abort(r) PROVE Inv'
<1> DEFINE x == runs[r]
           y == RolledBack(r)
<1>1. /\ RunInv(x, r, stored, FinishedRuns) /\ Shape(x) /\ Analyses(x, r) /\ IsRun(x) /\ BesideInv /\ AimInv /\ LockInv
  BY DEF Inv, RunsInv, RunInv, Shape
<1>2. Step(r, y) BY DEF Abort
<1>3. /\ IsRun(y) /\ y.at = "failed" /\ y.todo = <<>> /\ y.targets = {} /\ y.inserted = {} /\ y.deleted = {} /\ y.pending = {}
      /\ y.read = x.read /\ y.rows = x.rows /\ y.found = x.found /\ y.beside = x.beside
  <2>0. y = [x EXCEPT !.at = "failed", !.todo = <<>>, !.clear = <<>>, !.targets = {},
                      !.inserted = {}, !.deleted = {}, !.pending = {}]
    BY DEF RolledBack
  <2> HIDE DEF x, y
  <2>1. QED BY <1>1, <2>0 DEF IsRun
<1> HIDE DEF y
<1>4. Quiet(r) /\ runs'[r] = y BY <1>2, <1>3, StepQuiet
<1>5. ~Open(r)' BY <1>3, <1>4 DEF Open
<1> HIDE DEF x
<1>6. RunInv(y, r, stored, FinishedRuns)
  <2>1. \A z : ~Doing(y, z) BY <1>3 DEF Doing, WORKING
  <2>2. ToSet(y.todo) = {} BY <1>3 DEF ToSet
  <2>3. Shape(y)
    <3>1. y.at \in STAGES /\ y.at \notin WORKING /\ y.at # "clear" /\ y.todo \in TODOS BY <1>3 DEF STAGES, WORKING, TODOS
    <3>2. QED BY <1>1, <1>3, <2>1, <2>2, <3>1 DEF Shape
  <2>4. Takes(y, FinishedRuns) /\ Writes(y, r, FinishedRuns) /\ TakesAudits(y, stored)
    BY <1>3 DEF Takes, Writes, TakesAudits, Paired
  <2>5. Analyses(y, r) BY <1>1, <1>3 DEF Analyses
  <2>6. QED BY <2>3, <2>4, <2>5 DEF RunInv
<1>7. AimInv' /\ LockInv' BY <1>1, <1>4, <1>5, QuietAims
<1>8. y.inserted \subseteq x.inserted BY <1>3
<1>9. QED BY <1>4, <1>5, <1>6, <1>7, <1>8, SameInserted, QuietStep DEF x

(* The rows another run wrote, with a new rank. *)
LEMMA RewrittenFacts ==
  ASSUME NEW new, NEW r, \A w \in new : w.run # r => IsKept(w) /\ w.table = "ratings"
  PROVE  \A z \in Rewritten(new, r) :
           z \in stored /\ \E w \in new : w.run # r /\ w.table = "ratings" /\ SameKey(w, z) /\ w.run = z.run
<1> SUFFICES ASSUME NEW z \in Rewritten(new, r)
             PROVE  z \in stored /\ \E w \in new : w.run # r /\ w.table = "ratings" /\ SameKey(w, z) /\ w.run = z.run
  OBVIOUS
<1>1. z \in stored /\ \E w \in new : w.run # r /\ z = [w EXCEPT !.rank = z.rank] BY DEF Rewritten
<1>2. PICK w \in new : w.run # r /\ z = [w EXCEPT !.rank = z.rank] BY <1>1
<1> DEFINE n == z.rank
<1>3. z = [w EXCEPT !.rank = n] BY <1>2
<1> HIDE DEF n
<1>4. IsRow(w) /\ w.table = "ratings" BY <1>2 DEF IsKept
<1>5. z.table = w.table /\ z.season = w.season /\ z.player = w.player /\ z.key = w.key /\ z.run = w.run
  BY <1>3, <1>4 DEF IsRow
<1>6. QED BY <1>1, <1>2, <1>4, <1>5 DEF SameKey

(* A step that adds the scores of the season, to what is pending or to what is written. *)
Flushes(x, y, r, rows) ==
  /\ IsRun(y) /\ x.at = "rate" /\ y.at = "rank" /\ y.todo = x.todo /\ y.targets = {} /\ y.read = x.read
  /\ y.rows = x.rows /\ y.found = x.found /\ y.beside = x.beside
  /\ rows = OfTables(x.rows[Head(x.todo)], SCORED)
  /\ x.inserted \subseteq y.inserted /\ x.deleted \subseteq y.deleted
  /\ y.inserted \cup y.pending = x.inserted \cup x.pending \cup rows
  /\ \A z \in rows : z.table = "ratings" => z \in y.inserted
  /\ \A z \in y.pending : z \in x.pending \/ (z \in rows /\ z.table # "ratings")
  /\ \A z \in y.deleted \ x.deleted : z \in stored /\ z.table = "ratings" /\
       \E w \in x.pending \cap y.inserted : w.run # r /\ SameKey(w, z) /\ w.run = z.run

(* Where it stands. *)
LEMMA ScoresStands ==
  ASSUME NEW x, NEW y, NEW r, NEW rows, NEW s, s = Head(x.todo), Shape(x), Flushes(x, y, r, rows)
  PROVE  /\ s \in DOMAIN x.read /\ s # "" /\ x.todo # <<>> /\ x.targets = {}
         /\ \A z : /\ (Doing(x, z) <=> z = s) /\ (Doing(y, z) <=> z = s)
                   /\ (Written(x, z) <=> z \in DOMAIN x.read /\ z # s) /\ (Written(y, z) <=> z \in DOMAIN x.read)
                   /\ (Over(x, z) <=> z \in DOMAIN x.read /\ z # s) /\ (Over(y, z) <=> z \in DOMAIN x.read /\ z # s)
                   /\ ~Untouched(x, z) /\ ~Untouched(y, z) /\ ~Aiming(x, z) /\ ~Aiming(y, z)
<1>1. s \in DOMAIN x.read /\ s # "" /\ x.todo # <<>> /\ x.targets = {} BY DEF Shape, Flushes, WORKING, SEASONS
<1>2. \A z : (Doing(x, z) <=> z = s) /\ (Doing(y, z) <=> z = s) BY DEF Doing, Flushes, WORKING
<1>3. x.at = "rate" /\ y.at = "rank" /\ y.read = x.read BY DEF Flushes
<1>4. QED BY <1>1, <1>2, <1>3 DEF Written, Over, Untouched, Aiming

(* It is in order. *)
LEMMA ScoresKeeps ==
  ASSUME KeptInv(stored, FinishedRuns), NEW r, NEW x, NEW y, NEW rows, RunInv(x, r, stored, FinishedRuns),
         Flushes(x, y, r, rows)
  PROVE  RunInv(y, r, stored, FinishedRuns)
<1>1. /\ Shape(x) /\ Takes(x, FinishedRuns) /\ Writes(x, r, FinishedRuns) /\ Analyses(x, r) /\ TakesAudits(x, stored)
  BY DEF RunInv
<1> DEFINE s == Head(x.todo)
           all == x.rows[s]
<1>2. /\ s \in DOMAIN x.read /\ s # "" /\ x.todo # <<>> /\ x.targets = {}
      /\ \A z : /\ (Doing(x, z) <=> z = s) /\ (Doing(y, z) <=> z = s)
                /\ (Written(x, z) <=> z \in DOMAIN x.read /\ z # s) /\ (Written(y, z) <=> z \in DOMAIN x.read)
                /\ ~Untouched(y, z)
  BY <1>1, ScoresStands
<1>3. rows = OfTables(all, SCORED) /\ x.at = "rate" /\ y.at = "rank" BY DEF Flushes
<1>4. s \in DOMAIN x.rows /\ IsAnalysis(all, s, r) BY <1>1, <1>2, <1>3 DEF Analyses
<1> HIDE DEF s, all
<1>5. \A z \in rows : IsKept(z) /\ z.season = s /\ z.run = r /\ z \in all BY <1>3, <1>4 DEF IsAnalysis, OfTables
<1>6. Paired(rows)
  <2> SUFFICES ASSUME NEW z \in rows, z.table = "audits" PROVE \E w \in rows : Rates(w, z) BY DEF Paired
  <2>1. PICK w \in all : Rates(w, z) BY <1>4, <1>5 DEF IsAnalysis, Paired
  <2>2. w \in rows BY <1>3, <2>1 DEF Rates, OfTables, SCORED
  <2>3. QED BY <2>1, <2>2
<1>7. \A z \in x.inserted \cup x.pending : z.season # s BY <1>1, <1>2 DEF Writes
<1>8. Shape(y)
  <2>1. y.at \in STAGES /\ y.at \in WORKING /\ x.at \in WORKING BY <1>3 DEF STAGES, WORKING
  <2>2. QED BY <1>1, <1>2, <1>3, <2>1 DEF Shape, Flushes
<1>9. Takes(y, FinishedRuns)
  <2> SUFFICES ASSUME NEW z \in y.deleted PROVE IsKept(z) /\ z.run \in FinishedRuns /\ z.season \in DOMAIN y.read
    BY <1>2 DEF Takes, Flushes
  <2>1. CASE z \in x.deleted BY <1>1, <2>1 DEF Takes, Flushes
  <2>2. CASE z \notin x.deleted
    <3>1. z \in stored /\ z.table = "ratings" BY <2>2 DEF Flushes
    <3>2. PICK w \in x.pending : SameKey(w, z) BY <2>2 DEF Flushes
    <3>3. IsKept(z) /\ z.run \in FinishedRuns BY <1>1, <3>1 DEF KeptInv
    <3>4. z.season # "" BY <3>1, <3>3 DEF IsKept
    <3>5. w.season = z.season BY <3>2 DEF SameKey
    <3>6. Written(x, z.season) BY <1>1, <3>4, <3>5 DEF Writes
    <3>7. QED BY <1>2, <3>3, <3>6 DEF Flushes
  <2>3. QED BY <2>1, <2>2
<1>10. y.inserted \cup y.pending = (x.inserted \cup x.pending) \cup rows BY DEF Flushes
<1>11. Writes(y, r, FinishedRuns)
  <2>1. ASSUME NEW z \in y.inserted \cup y.pending
        PROVE  /\ IsKept(z) /\ (z.season = "" \/ Written(y, z.season))
               /\ z.run = r \/ (z.table = "ratings" /\ z.run \in FinishedRuns)
    <3>1. CASE z \in rows BY <1>2, <1>5, <3>1
    <3>2. CASE z \notin rows
      <4>1. z \in x.inserted \cup x.pending BY <1>10, <3>2
      <4>2. QED BY <1>1, <1>2, <4>1 DEF Writes
    <3>3. QED BY <3>1, <3>2
  <2>2. Paired(y.inserted \cup y.pending) BY <1>1, <1>6, <1>10 DEF Paired, Writes
  <2>3. QED BY <2>1, <2>2 DEF Writes
<1>12. Analyses(y, r)
  <2>1. y.rows = x.rows /\ y.read = x.read /\ y.todo = x.todo BY DEF Flushes
  <2>2. ASSUME NEW z \in DOMAIN x.read
        PROVE  \A k \in KeysOf(y.rows[z]) : \E w \in y.inserted : w.run = r /\ HasKey(w, z, k)
    <3>1. CASE z # s
      <4>1. \A k \in KeysOf(x.rows[z]) : \E w \in x.inserted : w.run = r /\ HasKey(w, z, k)
        BY <1>1, <1>2, <1>3, <3>1 DEF Analyses
      <4>2. QED BY <2>1, <4>1 DEF Flushes
    <3>2. CASE z = s
      <4> SUFFICES ASSUME NEW w \in OfTable(all, "ratings")
                   PROVE  \E v \in y.inserted : v.run = r /\ HasKey(v, s, [player |-> w.player, key |-> w.key])
        BY <2>1, <3>2 DEF KeysOf, all
      <4>1. w \in all /\ w.table = "ratings" BY DEF OfTable
      <4>2. w \in rows BY <1>3, <4>1 DEF OfTables, SCORED
      <4>3. w \in y.inserted BY <4>1, <4>2 DEF Flushes
      <4>4. QED BY <1>5, <4>1, <4>2, <4>3 DEF HasKey
    <3>3. QED BY <3>1, <3>2
  <2>3. InSeason(y.inserted \cup y.pending, s) = rows
    <3>1. \A z \in InSeason(y.inserted \cup y.pending, s) : z \in rows BY <1>7, <1>10 DEF InSeason
    <3>2. \A z \in rows : z \in InSeason(y.inserted \cup y.pending, s) BY <1>5, <1>10 DEF InSeason
    <3>3. QED BY <3>1, <3>2
  <2>4. OfTable(InSeason(y.pending, s), "ratings") = {} BY <1>7 DEF OfTable, InSeason, Flushes
  <2>5. \A z \in DOMAIN x.read : z \in DOMAIN x.rows BY <1>1, <1>2, <1>3 DEF Analyses
  <2>6. y.at \notin {"failed", "finished"} /\ Head(y.todo) = s BY <1>3, <2>1 DEF s
  <2>7. QED BY <1>1, <1>3, <2>1, <2>2, <2>3, <2>4, <2>5, <2>6 DEF Analyses, all
<1>13. TakesAudits(y, stored)
  <2> SUFFICES ASSUME NEW z \in y.deleted, NEW v \in stored, v.table = "audits", Rates(z, v)
               PROVE  v \in y.deleted \/ \E w \in y.inserted : Rates(w, v)
    BY DEF TakesAudits
  <2>1. CASE z \in x.deleted BY <1>1, <2>1 DEF TakesAudits, Flushes
  <2>2. CASE z \notin x.deleted
    <3>1. PICK w \in x.pending \cap y.inserted : SameKey(w, z) /\ w.run = z.run BY <2>2 DEF Flushes
    <3>2. Rates(w, v) BY <3>1 DEF SameKey, Rates
    <3>3. QED BY <3>1, <3>2
  <2>3. QED BY <2>1, <2>2
<1>14. QED BY <1>8, <1>9, <1>11, <1>12, <1>13 DEF RunInv

(* It keeps all, if the keys it writes are free, and if a run that is behind has raced. *)
LEMMA ScoresStep ==
  ASSUME Inv, NEW r, Quiet(r), NEW rows, NEW s, s = Head(runs[r].todo), Flushes(runs[r], runs'[r], r, rows),
         \A q \in Others(r) : \A y \in runs'[r].inserted : \A z \in runs[q].inserted :
           y.table = "ratings" => ~SameKey(y, z),
         Behind(r, s) => Raced(r, s)'
  PROVE  Inv'
<1> DEFINE x == runs[r]
           y == runs'[r]
<1>1. /\ RunInv(x, r, stored, FinishedRuns) /\ Shape(x) /\ Analyses(x, r) /\ KeptInv(stored, FinishedRuns)
      /\ BesideInv /\ AimInv /\ LockInv /\ CoverInv
  BY DEF Inv, RunsInv, RunInv, Quiet
<1>2. Flushes(x, y, r, rows) /\ s = Head(x.todo) /\ Open(r) /\ r \in DOMAIN runs BY DEF Quiet
<1> HIDE DEF x, y
<1>3. RunInv(y, r, stored, FinishedRuns) BY <1>1, <1>2, ScoresKeeps
<1>4. /\ s \in DOMAIN x.read /\ s # "" /\ x.todo # <<>> /\ x.targets = {}
      /\ \A z : /\ (Doing(x, z) <=> z = s) /\ (Doing(y, z) <=> z = s)
                /\ (Written(x, z) <=> z \in DOMAIN x.read /\ z # s) /\ (Written(y, z) <=> z \in DOMAIN x.read)
                /\ (Over(x, z) <=> z \in DOMAIN x.read /\ z # s) /\ (Over(y, z) <=> z \in DOMAIN x.read /\ z # s)
                /\ ~Untouched(x, z) /\ ~Untouched(y, z) /\ ~Aiming(x, z) /\ ~Aiming(y, z)
  BY <1>1, <1>2, ScoresStands
<1>5. AimInv' /\ LockInv'
  <2>1. \A z \in y.found : SameAim(x, y, z) BY <1>2, <1>4 DEF SameAim, Flushes
  <2>2. QED BY <1>1, <2>1, QuietAims DEF x, y
<1>6. ASSUME NEW z \in DOMAIN y.read, z # s PROVE Stays(x, y, z)
  <2>1. \A w \in rows : w.season = s
    <3>1. s \in DOMAIN x.rows BY <1>1, <1>2, <1>4 DEF Analyses, Flushes
    <3>2. IsAnalysis(x.rows[s], s, r) /\ rows = OfTables(x.rows[s], SCORED) BY <1>1, <1>2, <3>1 DEF Analyses, Flushes
    <3>3. QED BY <3>2 DEF OfTables, IsAnalysis
  <2>2. InSeason(y.inserted \cup y.pending, z) = InSeason(x.inserted \cup x.pending, z)
    <3>1. y.inserted \cup y.pending = (x.inserted \cup x.pending) \cup rows BY <1>2 DEF Flushes
    <3>2. QED BY <1>6, <2>1, <3>1 DEF InSeason
  <2>3. QED BY <1>2, <1>4, <1>6, <2>2 DEF Stays, Flushes
<1>7. Covered(r, s)'
  <2>1. Written(y, s) /\ ~Over(y, s) BY <1>4
  <2>2. Clean(x, s, stored) \/ Behind(r, s) BY <1>1, <1>2, <1>4 DEF CoverInv, Covered, x
  <2>3. CASE Clean(x, s, stored)
    <3>1. \A z \in InSeason(stored, s) : z \in x.deleted BY <1>2, <1>4, <2>3 DEF Clean, Flushes
    <3>2. Clean(y, s, stored) BY <1>2, <3>1 DEF Clean, Flushes
    <3>3. Clean(runs'[r], s, stored') BY <3>2 DEF Quiet, y
    <3>4. QED BY <2>1, <3>3 DEF Covered, y
  <2>4. CASE Behind(r, s) BY <2>1, <2>4 DEF Covered, y
  <2>5. QED BY <2>2, <2>3, <2>4
<1>8. \A z \in DOMAIN y.read : Stays(x, y, z) \/ Untouched(y, z) \/ Covered(r, z)'
  <2> SUFFICES ASSUME NEW z \in DOMAIN y.read PROVE Stays(x, y, z) \/ Covered(r, z)' OBVIOUS
  <2>1. CASE z = s BY <1>7, <2>1
  <2>2. CASE z # s BY <1>6, <2>2
  <2>3. QED BY <2>1, <2>2
<1>9. QED BY <1>3, <1>5, <1>8, QuietStep DEF x, y

(* Two that rate nobody in one role have raced. *)
LEMMA BehindRaced ==
  ASSUME NEW r, Quiet(r), BesideInv, NEW s, Behind(r, s), s \in runs'[r].found <=> s \in runs[r].found,
         runs'[r].rows[s] = runs[r].rows[s],
         \A k \in RatedKeys(r, s) : \A y \in stored \ (runs[r].deleted \cup runs[r].targets) : ~HasKey(y, s, k)
  PROVE  Raced(r, s)'
<1>1. PICK q \in runs[r].beside :
        /\ Analysed(q, s) /\ ~Locked(r, q, s)
        /\ \A k \in RatedKeys(q, s) : \E y \in stored \ (runs[r].deleted \cup runs[r].targets) : HasKey(y, s, k)
  BY DEF Behind
<1>2. q \in runs'[r].beside /\ Analysed(q, s)' /\ RatedKeys(q, s)' = RatedKeys(q, s) /\ ~Locked(r, q, s)'
  BY <1>1, OwnPairs
<1>3. RatedKeys(q, s) \intersect RatedKeys(r, s) = {} BY <1>1
<1>4. RatedKeys(r, s)' = RatedKeys(r, s) BY DEF RatedKeys, OfTable
<1>5. QED BY <1>2, <1>3, <1>4 DEF Raced

(* The scores are added.  One that is behind another would meet its ratings on their key. *)
LEMMA FlushRatingsStep == ASSUME Inv, NEW r \in DOMAIN runs, FlushRatings(r) PROVE Inv'
<1> DEFINE x == runs[r]
           rows == OfTables(x.rows[Season(r)], SCORED)
           new == x.pending \union rows
           rewritten == Rewritten(new, r)
           ya == [x EXCEPT !.at = "rank", !.pending = new]
           yb == [[x EXCEPT !.inserted = @ \union new, !.deleted = @ \union rewritten, !.pending = {}] EXCEPT !.at = "rank"]
<1>1. /\ RunInv(x, r, stored, FinishedRuns) /\ Shape(x) /\ Writes(x, r, FinishedRuns) /\ Analyses(x, r) /\ IsRun(x)
      /\ BesideInv /\ KeptInv(stored, FinishedRuns)
  BY DEF Inv, RunsInv, RunInv, Shape
<1>2. /\ x.at = "rate"
      /\ \/ OfTable(rows, "ratings") = {} /\ Step(r, ya)
         \/ OfTable(rows, "ratings") # {} /\ ~Waits(r, new) /\ ~Clashes(r, new) /\ Step(r, yb)
         \/ Abort(r)
  BY DEF FlushRatings, Flushed
<1>3. Open(r) BY <1>2 DEF Open
<1>4. PICK s : s = Head(x.todo) OBVIOUS
<1>5. /\ s \in DOMAIN x.read /\ s # "" /\ x.targets = {} /\ Doing(x, s)
  BY <1>1, <1>2, <1>4 DEF Shape, WORKING, SEASONS, Doing
<1>6. s \in DOMAIN x.rows /\ IsAnalysis(x.rows[s], s, r) /\ rows = OfTables(x.rows[s], SCORED)
  BY <1>1, <1>2, <1>4, <1>5 DEF Analyses, Season
<1> HIDE DEF rows
<1>7. \A z \in rows : z.season = s /\ z.run = r BY <1>6 DEF OfTables, IsAnalysis
<1>8. \A z \in x.inserted \cup x.pending : z.season # s BY <1>1, <1>2, <1>5 DEF Writes, Written
<1>9. \A w \in new : w.run # r => IsKept(w) /\ w.table = "ratings" /\ w \in x.pending BY <1>1, <1>7 DEF Writes
<1>10. RatedKeys(r, s) = KeysOf(rows)
  <2>1. OfTable(rows, "ratings") = OfTable(x.rows[s], "ratings") BY <1>6 DEF OfTable, OfTables, SCORED
  <2>2. QED BY <2>1 DEF RatedKeys, KeysOf
<1>11. CASE OfTable(rows, "ratings") = {} /\ Step(r, ya)
  <2> DEFINE y == ya
  <2>1. /\ IsRun(y) /\ y.at = "rank" /\ y.todo = x.todo /\ y.read = x.read /\ y.targets = x.targets
        /\ y.rows = x.rows /\ y.found = x.found /\ y.inserted = x.inserted /\ y.deleted = x.deleted
        /\ y.pending = new /\ y.beside = x.beside
    <3>0. y = [x EXCEPT !.at = "rank", !.pending = new] OBVIOUS
    <3> HIDE DEF x, y, new
    <3>1. QED BY <1>1, <3>0 DEF IsRun
  <2> HIDE DEF ya
  <2>2. Quiet(r) /\ runs'[r] = y BY <1>3, <1>11, <2>1, StepQuiet
  <2>3. Flushes(x, y, r, rows)
    <3>1. \A z \in rows : z.table # "ratings" BY <1>11 DEF OfTable
    <3>2. y.inserted \cup y.pending = x.inserted \cup x.pending \cup rows BY <2>1
    <3> HIDE DEF x
    <3>3. QED BY <1>2, <1>4, <1>5, <1>6, <2>1, <3>1, <3>2 DEF Flushes
  <2>4. \A q \in Others(r) : \A v \in runs'[r].inserted : \A z \in runs[q].inserted :
          v.table = "ratings" => ~SameKey(v, z)
    BY <2>1, <2>2, SameInserted
  <2>5. RatedKeys(r, s) = {} BY <1>10, <1>11 DEF KeysOf
  <2>6. ASSUME Behind(r, s) PROVE Raced(r, s)'
    <3>1. (s \in runs'[r].found <=> s \in runs[r].found) /\ runs'[r].rows[s] = runs[r].rows[s] BY <2>1, <2>2
    <3>2. QED BY <1>1, <2>2, <2>5, <2>6, <3>1, BehindRaced
  <2>7. QED BY <1>4, <2>2, <2>3, <2>4, <2>6, ScoresStep
<1>12. CASE ~Waits(r, new) /\ ~Clashes(r, new) /\ Step(r, yb)
  <2> DEFINE y == yb
  <2> HIDE DEF rewritten
  <2>1. /\ IsRun(y) /\ y.at = "rank" /\ y.todo = x.todo /\ y.read = x.read /\ y.targets = x.targets
        /\ y.rows = x.rows /\ y.found = x.found /\ y.inserted = x.inserted \cup new /\ y.deleted = x.deleted \cup rewritten
        /\ y.pending = {} /\ y.beside = x.beside
    <3>0. y = [[x EXCEPT !.inserted = @ \union new, !.deleted = @ \union rewritten, !.pending = {}] EXCEPT !.at = "rank"]
      OBVIOUS
    <3> HIDE DEF x, y, new
    <3>1. QED BY <1>1, <3>0 DEF IsRun
  <2> HIDE DEF yb
  <2>2. Quiet(r) /\ runs'[r] = y BY <1>3, <1>12, <2>1, StepQuiet
  <2>3. \A z \in rewritten : z \in stored /\ \E w \in new : w.run # r /\ w.table = "ratings" /\ SameKey(w, z) /\ w.run = z.run
    BY <1>9, RewrittenFacts DEF rewritten
  <2>4. Flushes(x, y, r, rows)
    <3>1. y.inserted \cup y.pending = x.inserted \cup x.pending \cup rows BY <2>1
    <3>2. \A z \in rewritten : z \in stored /\ z.table = "ratings" /\
            \E w \in x.pending \cap y.inserted : w.run # r /\ SameKey(w, z) /\ w.run = z.run
      <4> SUFFICES ASSUME NEW z \in rewritten
                   PROVE  z \in stored /\ z.table = "ratings" /\
                          \E w \in x.pending \cap y.inserted : w.run # r /\ SameKey(w, z) /\ w.run = z.run
        OBVIOUS
      <4>1. PICK w \in new : w.run # r /\ w.table = "ratings" /\ SameKey(w, z) /\ w.run = z.run BY <2>3
      <4>2. w \in x.pending \cap y.inserted BY <1>9, <2>1, <4>1
      <4>3. z.table = "ratings" BY <4>1 DEF SameKey
      <4>4. QED BY <2>3, <4>1, <4>2, <4>3
    <3>3. rows \subseteq y.inserted BY <2>1
    <3> HIDE DEF x, new
    <3>4. QED BY <1>2, <1>4, <1>5, <1>6, <2>1, <3>1, <3>2, <3>3 DEF Flushes
  <2>5. ASSUME NEW q \in Others(r), NEW v \in runs'[r].inserted, NEW z \in runs[q].inserted, v.table = "ratings"
        PROVE  ~SameKey(v, z)
    <3>1. CASE v \in x.inserted
      <4>1. q \in DOMAIN runs /\ Open(q) /\ q # r BY DEF Others
      <4>2. QED BY <1>3, <2>5, <3>1, <4>1 DEF Inv, KeysApart
    <3>2. CASE v \in new
      <4>1. ~Taken(v, runs[q].deleted \union runs[q].inserted) BY <1>12, <3>2 DEF Waits
      <4>2. v.table \in UNIQUE BY <2>5 DEF UNIQUE
      <4>3. QED BY <4>1, <4>2 DEF Taken
    <3>3. QED BY <2>1, <2>2, <3>1, <3>2
  <2>6. ASSUME NEW k \in RatedKeys(r, s), NEW v \in stored \ (x.deleted \cup x.targets), HasKey(v, s, k) PROVE FALSE
    <3>1. PICK w \in OfTable(rows, "ratings") : k = [player |-> w.player, key |-> w.key] BY <1>10 DEF KeysOf
    <3>2. w \in new /\ w.table = "ratings" /\ w.table \in UNIQUE /\ w.season = s BY <1>7 DEF OfTable, UNIQUE
    <3>3. SameKey(w, v) BY <2>6, <3>1, <3>2 DEF HasKey, SameKey
    <3>4. ~Taken(w, stored \ (x.deleted \union rewritten \union UNION {runs[q].deleted : q \in Others(r)}))
      BY <1>12, <3>2 DEF Clashes, rewritten
    <3>5. v \notin stored \ (x.deleted \union rewritten \union UNION {runs[q].deleted : q \in Others(r)})
      BY <3>2, <3>3, <3>4 DEF Taken
    <3>6. v \in rewritten \/ \E q \in Others(r) : v \in runs[q].deleted BY <2>6, <3>5
    <3>7. CASE v \in rewritten
      <4>1. PICK u \in new : u.run # r /\ SameKey(u, v) BY <2>3, <3>7
      <4>2. u.season = s /\ u \in x.pending BY <1>9, <2>6, <4>1 DEF SameKey, HasKey
      <4>3. QED BY <1>8, <4>2
    <3>8. CASE \E q \in Others(r) : v \in runs[q].deleted BY <1>12, <3>2, <3>3, <3>8 DEF Waits, Taken
    <3>9. QED BY <3>6, <3>7, <3>8
  <2>7. ASSUME Behind(r, s) PROVE Raced(r, s)'
    <3>1. (s \in runs'[r].found <=> s \in runs[r].found) /\ runs'[r].rows[s] = runs[r].rows[s] BY <2>1, <2>2
    <3>2. QED BY <1>1, <2>2, <2>6, <2>7, <3>1, BehindRaced
  <2>8. QED BY <1>4, <2>2, <2>4, <2>5, <2>7, ScoresStep
<1>13. CASE Abort(r) BY <1>3, <1>13, AbortStep
<1>14. QED BY <1>2, <1>11, <1>12, <1>13

-----------------------------------------------------------------------------
(* A step that ranks the ratings of the season it sees. *)
Ranks(x, y, r, seen) ==
  LET rows == x.rows[Head(x.todo)]
      ranked == Ranked(seen)
  IN /\ IsRun(y) /\ x.at = "rank" /\ y.at = "season" /\ y.todo = Tail(x.todo) /\ y.targets = {} /\ y.read = x.read
     /\ y.rows = x.rows /\ y.found = x.found /\ y.beside = x.beside /\ y.deleted = x.deleted
     /\ seen = OfTable(InSeason((stored \ x.deleted) \union x.inserted, Head(x.todo)), "ratings")
     /\ y.inserted = (x.inserted \ (seen \cap x.inserted)) \cup {z \in ranked : z.run = r}
     /\ y.pending = x.pending \cup {z \in rows : z.table \notin SCORED} \cup {z \in ranked \ stored : z.run # r}

(* Where it stands. *)
LEMMA RanksStands ==
  ASSUME NEW x, NEW y, NEW r, NEW seen, NEW s, s = Head(x.todo), Shape(x), Ranks(x, y, r, seen)
  PROVE  /\ s \in DOMAIN x.read /\ s # "" /\ s \in SEASONS /\ x.targets = {}
         /\ y.todo \in TODOS /\ \A z \in DOMAIN x.read : z \notin ToSet(y.todo)
         /\ \A z : /\ (Doing(x, z) <=> z = s) /\ ~Doing(y, z)
                   /\ (Written(x, z) <=> z \in DOMAIN x.read) /\ (Written(y, z) <=> z \in DOMAIN x.read)
                   /\ (Over(x, z) <=> z \in DOMAIN x.read /\ z # s) /\ (Over(y, z) <=> z \in DOMAIN x.read)
                   /\ ~Untouched(x, z) /\ ~Untouched(y, z) /\ ~Aiming(x, z) /\ ~Aiming(y, z)
<1>1. x.at = "rank" /\ y.at = "season" /\ y.read = x.read /\ y.todo = Tail(x.todo) BY DEF Ranks
<1>2. s \in DOMAIN x.read /\ s # "" /\ s \in SEASONS /\ x.targets = {} /\ x.todo # <<>> /\ x.todo \in TODOS
  BY <1>1 DEF Shape, WORKING, SEASONS
<1>3. \A z : (Doing(x, z) <=> z = s) /\ ~Doing(y, z) BY <1>1 DEF Doing, WORKING
<1>4. Tail(x.todo) \in TODOS /\ ToSet(x.todo) = {s} \cup ToSet(Tail(x.todo)) /\ s \notin ToSet(Tail(x.todo))
  BY <1>2, Todos
<1>5. \A z \in DOMAIN x.read : z \notin ToSet(y.todo) BY <1>1, <1>3, <1>4 DEF Shape
<1>6. QED BY <1>1, <1>2, <1>3, <1>4, <1>5 DEF Written, Over, Untouched, Aiming

(* What it sees, and what becomes of what it has written. *)
LEMMA RanksFacts ==
  ASSUME KeptInv(stored, FinishedRuns), NEW r, r \notin FinishedRuns, NEW x, NEW y, NEW seen, NEW s, s = Head(x.todo),
         RunInv(x, r, stored, FinishedRuns), Ranks(x, y, r, seen)
  PROVE  /\ s \in DOMAIN x.rows /\ IsAnalysis(x.rows[s], s, r)
         /\ \A w \in seen : IsKept(w) /\ w.table = "ratings" /\ w.season = s /\ (w.run = r \/ w.run \in FinishedRuns)
         /\ seen \cap x.inserted = OfTable(x.rows[s], "ratings")
         /\ \A z \in x.inserted \cup x.pending : z.season = s => z \in OfTables(x.rows[s], SCORED)
         /\ \A z \in OfTables(x.rows[s], SCORED) : z \in x.inserted \cup x.pending
         /\ \A z \in x.pending : z.season = s => z.table # "ratings"
         /\ \A z \in Ranked(seen) :
              /\ IsKept(z) /\ z.table = "ratings" /\ z.season = s /\ (z.run = r \/ z.run \in FinishedRuns)
              /\ z.run = r => \E w \in x.inserted : SameKey(w, z)
         /\ \A w \in x.inserted : \E z \in y.inserted : SameKey(w, z) /\ w.run = z.run
<1>1. /\ Shape(x) /\ Takes(x, FinishedRuns) /\ Writes(x, r, FinishedRuns) /\ Analyses(x, r) BY DEF RunInv
<1>2. x.at = "rank" /\ s \in DOMAIN x.read /\ s # "" /\ Written(x, s)
  <2>1. x.at = "rank" BY DEF Ranks
  <2>2. s \in DOMAIN x.read /\ s # "" /\ Written(x, s) BY <1>1, RanksStands
  <2>3. QED BY <2>1, <2>2
<1>3. s \in DOMAIN x.rows /\ IsAnalysis(x.rows[s], s, r) BY <1>1, <1>2 DEF Analyses
<1> DEFINE all == x.rows[s]
           scored == OfTables(all, SCORED)
           ranked == Ranked(seen)
<1>4. /\ InSeason(x.inserted \cup x.pending, s) = scored
      /\ OfTable(InSeason(x.pending, s), "ratings") = {}
  BY <1>1, <1>2 DEF Analyses
<1>5. seen = OfTable(InSeason((stored \ x.deleted) \union x.inserted, s), "ratings") BY DEF Ranks
<1>6. y.inserted = (x.inserted \ (seen \cap x.inserted)) \cup {z \in ranked : z.run = r} BY DEF Ranks
<1> HIDE DEF scored, ranked, all
<1>7. \A w \in seen : IsKept(w) /\ w.table = "ratings" /\ w.season = s /\ (w.run = r \/ w.run \in FinishedRuns)
  <2> SUFFICES ASSUME NEW w \in seen
               PROVE  IsKept(w) /\ w.table = "ratings" /\ w.season = s /\ (w.run = r \/ w.run \in FinishedRuns)
    OBVIOUS
  <2>1. w.table = "ratings" /\ w.season = s /\ (w \in stored \/ w \in x.inserted) BY <1>5 DEF OfTable, InSeason
  <2>2. CASE w \in stored BY <2>1, <2>2 DEF KeptInv
  <2>3. CASE w \in x.inserted BY <1>1, <2>1, <2>3 DEF Writes
  <2>4. QED BY <2>1, <2>2, <2>3
<1>8. \A z \in x.inserted \cup x.pending : z.season = s => z \in scored BY <1>4 DEF InSeason
<1>9. \A z \in scored : z \in x.inserted \cup x.pending /\ z.season = s /\ z.run = r /\ z \in all
  BY <1>3, <1>4 DEF InSeason, scored, OfTables, IsAnalysis, all
<1>10. \A z \in x.pending : z.season = s => z.table # "ratings" BY <1>4 DEF InSeason, OfTable
<1>11. seen \cap x.inserted = OfTable(all, "ratings")
  <2>1. \A z \in seen \cap x.inserted : z \in OfTable(all, "ratings") BY <1>7, <1>8, <1>9 DEF OfTable
  <2>2. ASSUME NEW z \in OfTable(all, "ratings") PROVE z \in seen \cap x.inserted
    <3>1. z \in scored /\ z.table = "ratings" BY DEF OfTable, scored, OfTables, SCORED
    <3>2. z \in x.inserted /\ z.season = s BY <1>9, <1>10, <3>1
    <3>3. QED BY <1>5, <3>1, <3>2 DEF OfTable, InSeason
  <2>3. QED BY <2>1, <2>2
<1>12. /\ \A z \in ranked : /\ IsKept(z) /\ z.table = "ratings"
                            /\ \E w \in seen : w.season = z.season /\ w.player = z.player /\ w.key = z.key /\ w.run = z.run
       /\ \A w \in seen : \E z \in ranked : w.season = z.season /\ w.player = z.player /\ w.key = z.key /\ w.run = z.run
  BY <1>7, RankedFacts DEF ranked
<1>13. ASSUME NEW z \in ranked
       PROVE  /\ IsKept(z) /\ z.table = "ratings" /\ z.season = s /\ (z.run = r \/ z.run \in FinishedRuns)
              /\ z.run = r => \E w \in x.inserted : SameKey(w, z)
  <2>1. PICK w \in seen : w.season = z.season /\ w.player = z.player /\ w.key = z.key /\ w.run = z.run BY <1>12
  <2>2. IsKept(z) /\ z.table = "ratings" BY <1>12
  <2>3. ASSUME z.run = r PROVE w \in x.inserted
    <3>1. w \notin stored BY <2>1, <2>3 DEF KeptInv
    <3>2. QED BY <1>5, <3>1 DEF OfTable, InSeason
  <2>4. SameKey(w, z) BY <1>7, <2>1, <2>2 DEF SameKey
  <2>5. QED BY <1>7, <2>1, <2>2, <2>3, <2>4
<1>14. ASSUME NEW w \in x.inserted PROVE \E z \in y.inserted : SameKey(w, z) /\ w.run = z.run
  <2>1. CASE w \notin seen
    <3>1. w \in y.inserted BY <1>6, <2>1
    <3>2. QED BY <3>1 DEF SameKey
  <2>2. CASE w \in seen
    <3>1. w.run = r /\ w.table = "ratings" BY <1>7, <1>8, <1>9, <2>2
    <3>2. PICK z \in ranked : w.season = z.season /\ w.player = z.player /\ w.key = z.key /\ w.run = z.run BY <1>12, <2>2
    <3>3. z \in y.inserted BY <1>6, <3>1, <3>2
    <3>4. SameKey(w, z) BY <1>12, <3>1, <3>2 DEF SameKey
    <3>5. QED BY <3>2, <3>3, <3>4
  <2>3. QED BY <2>1, <2>2
<1>15. QED BY <1>3, <1>7, <1>8, <1>9, <1>10, <1>11, <1>13, <1>14 DEF scored, ranked, all

(* It is in order. *)
LEMMA RanksKeeps ==
  ASSUME KeptInv(stored, FinishedRuns), NEW r, r \notin FinishedRuns, NEW x, NEW y, NEW seen,
         RunInv(x, r, stored, FinishedRuns), Ranks(x, y, r, seen)
  PROVE  RunInv(y, r, stored, FinishedRuns)
<1>1. /\ Shape(x) /\ Takes(x, FinishedRuns) /\ Writes(x, r, FinishedRuns) /\ Analyses(x, r) /\ TakesAudits(x, stored)
  BY DEF RunInv
<1>2. PICK s : s = Head(x.todo) OBVIOUS
<1>3. /\ s \in DOMAIN x.read /\ s # "" /\ s \in SEASONS /\ x.targets = {}
      /\ y.todo \in TODOS /\ \A z \in DOMAIN x.read : z \notin ToSet(y.todo)
      /\ \A z : /\ ~Doing(y, z) /\ ~Untouched(y, z)
                /\ (Written(x, z) <=> z \in DOMAIN x.read) /\ (Written(y, z) <=> z \in DOMAIN x.read)
  BY <1>1, <1>2, RanksStands
<1>4. /\ x.at = "rank" /\ y.at = "season" /\ y.read = x.read /\ y.rows = x.rows /\ y.found = x.found
      /\ y.deleted = x.deleted /\ y.targets = {} /\ IsRun(y)
  BY DEF Ranks
<1> DEFINE all == x.rows[s]
           ranked == Ranked(seen)
           derived == {z \in all : z.table \notin SCORED}
<1>5. /\ IsAnalysis(all, s, r)
      /\ \A z \in ranked : IsKept(z) /\ z.table = "ratings" /\ z.season = s /\ (z.run = r \/ z.run \in FinishedRuns)
      /\ seen \cap x.inserted = OfTable(all, "ratings")
      /\ \A w \in x.inserted : \E z \in y.inserted : SameKey(w, z) /\ w.run = z.run
  BY <1>2, RanksFacts
<1>6. /\ y.inserted = (x.inserted \ (seen \cap x.inserted)) \cup {z \in ranked : z.run = r}
      /\ y.pending = x.pending \cup derived \cup {z \in ranked \ stored : z.run # r}
  BY <1>2 DEF Ranks
<1> HIDE DEF all, ranked, derived
<1>7. Shape(y)
  <2>1. y.at \in STAGES /\ y.at \notin WORKING /\ x.at \in WORKING BY <1>4 DEF STAGES, WORKING
  <2>2. QED BY <1>1, <1>3, <1>4, <2>1 DEF Shape
<1>8. Takes(y, FinishedRuns) BY <1>1, <1>3, <1>4 DEF Takes
<1>9. Writes(y, r, FinishedRuns)
  <2>1. \A z \in derived : IsKept(z) /\ z.season = s /\ z.run = r /\ z.table # "audits"
    BY <1>5 DEF derived, SCORED, IsAnalysis
  <2>2. \A z \in y.inserted \cup y.pending : z \in x.inserted \cup x.pending \/ z \in ranked \/ z \in derived BY <1>6
  <2>3. ASSUME NEW z \in y.inserted \cup y.pending
        PROVE  /\ IsKept(z) /\ (z.season = "" \/ Written(y, z.season))
               /\ z.run = r \/ (z.table = "ratings" /\ z.run \in FinishedRuns)
    <3>1. CASE z \in x.inserted \cup x.pending BY <1>1, <1>3, <3>1 DEF Writes
    <3>2. CASE z \in ranked BY <1>3, <1>5, <3>2
    <3>3. CASE z \in derived BY <1>3, <2>1, <3>3
    <3>4. QED BY <2>2, <3>1, <3>2, <3>3
  <2>4. ASSUME NEW z \in y.inserted \cup y.pending, z.table = "audits" PROVE \E w \in y.inserted \cup y.pending : Rates(w, z)
    <3>1. z \in x.inserted \cup x.pending BY <1>5, <2>1, <2>2, <2>4
    <3>2. PICK w \in x.inserted \cup x.pending : Rates(w, z) BY <1>1, <2>4, <3>1 DEF Writes, Paired
    <3>3. CASE w \in x.pending BY <1>6, <3>2, <3>3
    <3>4. CASE w \in x.inserted
      <4>1. PICK v \in y.inserted : SameKey(w, v) /\ w.run = v.run BY <1>5, <3>4
      <4>2. Rates(v, z) BY <3>2, <4>1 DEF Rates, SameKey
      <4>3. QED BY <4>2
    <3>5. QED BY <3>2, <3>3, <3>4
  <2>5. QED BY <2>3, <2>4 DEF Writes, Paired
<1>10. Analyses(y, r)
  <2>1. ASSUME NEW z \in DOMAIN x.read, NEW k \in KeysOf(y.rows[z])
        PROVE  \E w \in y.inserted : w.run = r /\ HasKey(w, z, k)
    <3>1. PICK w \in x.inserted : w.run = r /\ HasKey(w, z, k) BY <1>1, <1>3, <1>4, <2>1 DEF Analyses
    <3>2. PICK v \in y.inserted : SameKey(w, v) /\ w.run = v.run BY <1>5
    <3>3. HasKey(v, z, k) BY <3>1, <3>2 DEF HasKey, SameKey
    <3>4. QED BY <3>1, <3>2, <3>3
  <2>2. \A z \in DOMAIN x.read : z \in DOMAIN y.rows BY <1>1, <1>3, <1>4 DEF Analyses
  <2>3. QED BY <1>1, <1>3, <1>4, <2>1, <2>2 DEF Analyses
<1>11. TakesAudits(y, stored)
  <2> SUFFICES ASSUME NEW z \in y.deleted, NEW v \in stored, v.table = "audits", Rates(z, v)
               PROVE  v \in y.deleted \/ \E w \in y.inserted : Rates(w, v)
    BY DEF TakesAudits
  <2>1. v \in x.deleted \/ \E w \in x.inserted : Rates(w, v) BY <1>1, <1>4 DEF TakesAudits
  <2>2. ASSUME NEW w \in x.inserted, Rates(w, v) PROVE \E u \in y.inserted : Rates(u, v)
    <3>1. PICK u \in y.inserted : SameKey(w, u) /\ w.run = u.run BY <1>5
    <3>2. Rates(u, v) BY <2>2, <3>1 DEF Rates, SameKey
    <3>3. QED BY <3>2
  <2>3. QED BY <1>4, <2>1, <2>2
<1>12. QED BY <1>7, <1>8, <1>9, <1>10, <1>11 DEF RunInv

(* Its ranks are those of the analysis, if nothing is left of what was there before. *)
SeasonsBut(x, y, s) ==
  \A z : z # s => InSeason(y.inserted \cup y.pending, z) = InSeason(x.inserted \cup x.pending, z)
RanksAll(x, y, s) ==
  (\A w \in InSeason(stored, s) : w \in x.deleted) =>
    InSeason(y.inserted \cup y.pending, s) =
      (x.rows[s] \ OfTable(x.rows[s], "ratings")) \union Ranked(OfTable(x.rows[s], "ratings"))

(* Ranking what it sees makes of the season's rows the ranked analysis. *)
LEMMA RanksRows ==
  ASSUME KeptInv(stored, FinishedRuns), NEW r, r \notin FinishedRuns, NEW x, NEW y, NEW seen, NEW s, s = Head(x.todo),
         RunInv(x, r, stored, FinishedRuns), Ranks(x, y, r, seen)
  PROVE  /\ SeasonsBut(x, y, s)
         /\ RanksAll(x, y, s)
<1> DEFINE all == x.rows[s]
           ratings == OfTable(all, "ratings")
           ranked == Ranked(seen)
           derived == {z \in all : z.table \notin SCORED}
<1>1. /\ IsAnalysis(all, s, r)
      /\ \A w \in seen : w.table = "ratings" /\ w.season = s
      /\ seen \cap x.inserted = ratings
      /\ \A z \in x.inserted \cup x.pending : z.season = s => z \in OfTables(all, SCORED)
      /\ \A z \in OfTables(all, SCORED) : z \in x.inserted \cup x.pending
      /\ \A z \in x.pending : z.season = s => z.table # "ratings"
      /\ \A z \in ranked : z.table = "ratings" /\ z.season = s
  BY RanksFacts
<1>2. /\ y.inserted = (x.inserted \ (seen \cap x.inserted)) \cup {z \in ranked : z.run = r}
      /\ y.pending = x.pending \cup derived \cup {z \in ranked \ stored : z.run # r}
      /\ seen = OfTable(InSeason((stored \ x.deleted) \union x.inserted, s), "ratings")
  BY DEF Ranks
<1>3. \A z \in ratings : z \in all /\ z.table = "ratings" BY DEF OfTable
<1>4. \A z \in all : z.season = s /\ (z.table = "ratings" => z \in ratings) /\ (z \in derived \/ z \in OfTables(all, SCORED))
  BY <1>1 DEF IsAnalysis, OfTable, OfTables
<1>5. \A z \in derived : z \in all /\ z.table # "ratings" BY DEF SCORED
<1>6. \A z \in OfTables(all, SCORED) : z \in all BY DEF OfTables
<1> HIDE DEF all, ratings, ranked, derived
<1>7. ASSUME NEW z, z # s PROVE InSeason(y.inserted \cup y.pending, z) = InSeason(x.inserted \cup x.pending, z)
  <2>1. ASSUME NEW w \in y.inserted \cup y.pending, w.season = z PROVE w \in x.inserted \cup x.pending
    <3>1. w \notin ranked /\ w \notin derived BY <1>1, <1>4, <1>5, <1>7, <2>1
    <3>2. QED BY <1>2, <3>1
  <2>2. ASSUME NEW w \in x.inserted \cup x.pending, w.season = z PROVE w \in y.inserted \cup y.pending
    <3>1. w \notin seen BY <1>1, <1>7, <2>2
    <3>2. QED BY <1>2, <3>1
  <2>3. QED BY <2>1, <2>2 DEF InSeason
<1>8. ASSUME \A w \in InSeason(stored, s) : w \in x.deleted
      PROVE  InSeason(y.inserted \cup y.pending, s) = (all \ ratings) \union Ranked(ratings)
  <2>1. seen \subseteq x.inserted
    <3> SUFFICES ASSUME NEW z \in seen, z \notin x.inserted PROVE FALSE OBVIOUS
    <3>1. z \in stored \ x.deleted /\ z.season = s BY <1>2 DEF OfTable, InSeason
    <3>2. QED BY <1>8, <3>1 DEF InSeason
  <2>2. seen = ratings BY <1>1, <2>1
  <2>3. ranked = Ranked(ratings) BY <2>2 DEF ranked
  <2>4. \A z \in ranked : z.run = r
    <3>1. \A z \in ratings : IsKept(z) /\ z.table = "ratings" /\ z.run = r BY <1>1, <1>3 DEF IsAnalysis
    <3>2. \A z \in Ranked(ratings) : \E w \in ratings : w.run = z.run BY <3>1, RankedFacts
    <3>3. QED BY <2>3, <3>1, <3>2
  <2>5. ASSUME NEW z, z \in InSeason(y.inserted \cup y.pending, s) PROVE z \in (all \ ratings) \union ranked
    <3>1. z.season = s /\ (z \in y.inserted \/ z \in y.pending) BY <2>5 DEF InSeason
    <3>2. CASE z \in ranked BY <3>2
    <3>3. CASE z \in derived BY <1>3, <1>5, <3>3
    <3>4. CASE z \notin ranked /\ z \notin derived
      <4>1. z \in x.inserted \ ratings \/ z \in x.pending BY <1>1, <1>2, <3>1, <3>4
      <4>2. z \in all BY <1>1, <1>6, <3>1, <4>1
      <4>3. z \notin ratings BY <1>1, <1>3, <3>1, <4>1
      <4>4. QED BY <4>2, <4>3
    <3>5. QED BY <3>2, <3>3, <3>4
  <2>6. ASSUME NEW z, z \in (all \ ratings) \union ranked PROVE z \in InSeason(y.inserted \cup y.pending, s)
    <3>1. CASE z \in ranked
      <4>1. z \in y.inserted BY <1>2, <2>4, <3>1
      <4>2. QED BY <1>1, <3>1, <4>1 DEF InSeason
    <3>2. CASE z \in all \ ratings
      <4>1. z.season = s /\ (z \in derived \/ z \in x.inserted \cup x.pending) BY <1>1, <1>4, <3>2
      <4>2. z \in y.inserted \cup y.pending BY <1>1, <1>2, <3>2, <4>1
      <4>3. QED BY <4>1, <4>2 DEF InSeason
    <3>3. QED BY <2>6, <3>1, <3>2
  <2>7. QED BY <2>3, <2>5, <2>6
<1>9. QED BY <1>7, <1>8 DEF all, ratings, RanksAll, SeasonsBut

(* The ratings of the season are ranked, and the rest of the analysis added. *)
LEMMA AssignRanksStep == ASSUME Inv, NEW r \in DOMAIN runs, AssignRanks(r) PROVE Inv'
<1> DEFINE x == runs[r]
           seen == OfTable(InSeason(Visible(r), Season(r)), "ratings")
           own == seen \intersect x.inserted
           ranked == Ranked(seen)
           derived == {z \in x.rows[Season(r)] : z.table \notin SCORED}
           ins == (x.inserted \ own) \union {z \in ranked : z.run = r}
           pend == x.pending \union derived \union {z \in ranked \ stored : z.run # r}
           y == [x EXCEPT !.at = "season", !.todo = Tail(x.todo), !.inserted = ins, !.pending = pend]
<1>1. /\ RunInv(x, r, stored, FinishedRuns) /\ Shape(x) /\ IsRun(x)
      /\ BesideInv /\ AimInv /\ LockInv /\ CoverInv /\ KeysApart /\ KeptInv(stored, FinishedRuns)
  BY DEF Inv, RunsInv, RunInv, Shape
<1>2. x.at = "rank" /\ Step(r, y) BY DEF AssignRanks
<1>3. Open(r) BY <1>2 DEF Open
<1>4. r \notin FinishedRuns BY <1>2 DEF FinishedRuns, Finished
<1>5. PICK s : s = Head(x.todo) OBVIOUS
<1> HIDE DEF ins, pend
<1>6. /\ IsRun(y) /\ y.at = "season" /\ y.todo = Tail(x.todo) /\ y.read = x.read /\ y.targets = x.targets
      /\ y.rows = x.rows /\ y.found = x.found /\ y.inserted = ins /\ y.deleted = x.deleted
      /\ y.pending = pend /\ y.beside = x.beside
  <2>0. y = [x EXCEPT !.at = "season", !.todo = Tail(x.todo), !.inserted = ins, !.pending = pend] OBVIOUS
  <2> HIDE DEF x, y
  <2>1. QED BY <1>1, <2>0 DEF IsRun
<1> HIDE DEF y
<1>7. Quiet(r) /\ runs'[r] = y BY <1>2, <1>3, <1>6, StepQuiet
<1>8. Ranks(x, y, r, seen)
  <2>1. seen = OfTable(InSeason((stored \ x.deleted) \union x.inserted, Head(x.todo)), "ratings") BY DEF Visible, Season
  <2>2. ins = (x.inserted \ (seen \cap x.inserted)) \cup {z \in Ranked(seen) : z.run = r} BY DEF ins
  <2>3. pend = x.pending \cup {z \in x.rows[Head(x.todo)] : z.table \notin SCORED} \cup {z \in Ranked(seen) \ stored : z.run # r}
    BY DEF pend, Season
  <2>4. x.targets = {} BY <1>1, <1>2 DEF Shape
  <2> HIDE DEF seen, x
  <2>5. QED BY <1>2, <1>6, <2>1, <2>2, <2>3, <2>4 DEF Ranks
<1>9. PICK given : given = seen OBVIOUS
<1>10. Ranks(x, y, r, given) BY <1>8, <1>9
<1> HIDE DEF seen, x
<1>11. RunInv(y, r, stored, FinishedRuns) BY <1>1, <1>4, <1>10, RanksKeeps
<1>12. /\ s \in DOMAIN x.read /\ x.targets = {}
       /\ \A z : /\ (Doing(x, z) <=> z = s)
                 /\ (Written(x, z) <=> z \in DOMAIN x.read) /\ (Written(y, z) <=> z \in DOMAIN x.read)
                 /\ (Over(x, z) <=> z \in DOMAIN x.read /\ z # s) /\ (Over(y, z) <=> z \in DOMAIN x.read)
                 /\ ~Untouched(x, z) /\ ~Untouched(y, z) /\ ~Aiming(x, z) /\ ~Aiming(y, z)
  BY <1>1, <1>5, <1>10, RanksStands
<1>13. AimInv' /\ LockInv'
  <2>1. \A z \in y.found : SameAim(x, y, z) BY <1>6, <1>12 DEF SameAim
  <2>2. QED BY <1>1, <1>7, <2>1, QuietAims DEF x
<1>14. SeasonsBut(x, y, s) /\ RanksAll(x, y, s) BY <1>1, <1>4, <1>5, <1>10, RanksRows
<1>15. \A z \in DOMAIN y.read : z # s => Stays(x, y, z) BY <1>6, <1>12, <1>14 DEF Stays, SeasonsBut
<1>16. Covered(r, s)'
  <2>1. Clean(x, s, stored) \/ Raced(r, s) BY <1>1, <1>3, <1>12 DEF CoverInv, Covered, x
  <2>2. CASE Clean(x, s, stored)
    <3>1. \A w \in InSeason(stored, s) : w \in x.deleted BY <1>2, <1>12, <2>2 DEF Clean
    <3>2. Clean(y, s, stored) BY <1>6, <3>1 DEF Clean
    <3>3. Clean(runs'[r], s, stored') BY <1>7, <3>2 DEF Quiet
    <3>4. InSeason(y.inserted \cup y.pending, s) = RankedRows(r, s)' BY <1>6, <1>7, <1>14, <3>1 DEF RankedRows, RanksAll
    <3>5. QED BY <1>7, <1>12, <3>3, <3>4 DEF Covered, InSeason
  <2>3. CASE Raced(r, s)
    <3>1. (s \in runs'[r].found <=> s \in runs[r].found) /\ runs'[r].rows[s] = runs[r].rows[s] BY <1>6, <1>7 DEF x
    <3>2. Raced(r, s)' BY <1>1, <1>7, <2>3, <3>1, OwnRaced
    <3>3. QED BY <1>6, <1>7, <1>12, <3>2 DEF Covered
  <2>4. QED BY <2>1, <2>2, <2>3
<1>17. ASSUME NEW q \in Others(r), NEW v \in runs'[r].inserted, NEW z \in runs[q].inserted, v.table = "ratings"
       PROVE  ~SameKey(v, z)
  <2>1. q \in DOMAIN runs /\ Open(q) /\ q # r BY DEF Others
  <2>2. \A w \in x.inserted : w.table = "ratings" => ~SameKey(w, z) BY <1>1, <1>3, <2>1 DEF KeysApart, x
  <2>3. v \in x.inserted \/ (v \in Ranked(given) /\ v.run = r) BY <1>7, <1>10 DEF Ranks
  <2>4. CASE v \in x.inserted BY <1>17, <2>2, <2>4
  <2>5. CASE v \in Ranked(given) /\ v.run = r
    <3>1. PICK w \in x.inserted : SameKey(w, v) BY <1>1, <1>4, <1>5, <1>10, <2>5, RanksFacts
    <3>2. w.table = "ratings" /\ (SameKey(v, z) => SameKey(w, z)) BY <1>17, <3>1 DEF SameKey
    <3>3. QED BY <2>2, <3>2
  <2>6. QED BY <2>3, <2>4, <2>5
<1>18. \A z \in DOMAIN y.read : Stays(x, y, z) \/ Untouched(y, z) \/ Covered(r, z)'
  <2> SUFFICES ASSUME NEW z \in DOMAIN y.read PROVE Stays(x, y, z) \/ Covered(r, z)' OBVIOUS
  <2>1. CASE z = s BY <1>16, <2>1
  <2>2. CASE z # s BY <1>15, <2>2
  <2>3. QED BY <2>1, <2>2
<1>19. QED BY <1>7, <1>11, <1>13, <1>17, <1>18, QuietStep DEF x

-----------------------------------------------------------------------------
(* Who runs beside a run does not matter to its own order. *)
LEMMA SameRun ==
  ASSUME NEW x, NEW y, NEW r, NEW kept, NEW done, RunInv(x, r, kept, done), IsRun(y),
         y.at = x.at, y.todo = x.todo, y.clear = x.clear, y.targets = x.targets, y.read = x.read, y.rows = x.rows,
         y.found = x.found, y.inserted = x.inserted, y.deleted = x.deleted, y.pending = x.pending
  PROVE  RunInv(y, r, kept, done)
<1>0. Shape(x) /\ Takes(x, done) /\ Writes(x, r, done) /\ Analyses(x, r) /\ TakesAudits(x, kept) BY DEF RunInv
<1>1. \A s : (Doing(y, s) <=> Doing(x, s)) /\ (Untouched(y, s) <=> Untouched(x, s)) /\ (Written(y, s) <=> Written(x, s))
  BY DEF Doing, Untouched, Written
<1>2. Shape(y) BY <1>0, <1>1 DEF Shape
<1>3. Takes(y, done) BY <1>0, <1>1 DEF Takes
<1>4. Writes(y, r, done) BY <1>0, <1>1 DEF Writes
<1>5. Analyses(y, r) BY <1>0, <1>1 DEF Analyses
<1>6. TakesAudits(y, kept) BY <1>0 DEF TakesAudits
<1>7. QED BY <1>2, <1>3, <1>4, <1>5, <1>6 DEF RunInv

(* A run that has just begun. *)
Begun(x) ==
  /\ IsRun(x) /\ x.at = "season" /\ x.todo = <<"s1", "s2">> /\ DOMAIN x.read = {} /\ DOMAIN x.rows = {}
  /\ x.targets = {} /\ x.found = {} /\ x.inserted = {} /\ x.deleted = {}

(* The versions of the role definitions are rows of no season. *)
LEMMA DefinitionFacts ==
  ASSUME NEW r, NEW z \in Definitions(r)
  PROVE  IsKept(z) /\ z.season = "" /\ z.table = "definitions" /\ z.run = r
<1>1. PICK k \in DOMAIN RoleConfigs : z = Row("definitions", "", 0, k, r, 0, "") BY DEF Definitions, Definition
<1>2. z = [table |-> "definitions", season |-> "", player |-> 0, key |-> k, run |-> r, value |-> 0, trust |-> "", rank |-> 0]
  BY <1>1 DEF Row
<1>3. IsRow(z) BY <1>2 DEF IsRow
<1>4. QED BY <1>2, <1>3 DEF IsKept

(* It is in order. *)
LEMMA BegunFacts ==
  ASSUME NEW x, NEW r, NEW kept, NEW done, Begun(x), x.pending \subseteq Definitions(r)
  PROVE  RunInv(x, r, kept, done)
<1>1. x.at \in STAGES /\ x.at \notin WORKING /\ x.at # "clear" /\ x.todo \in TODOS BY DEF Begun, STAGES, WORKING, TODOS
<1>2. Shape(x) BY <1>1 DEF Shape, Begun
<1>3. Takes(x, done) BY DEF Takes, Begun
<1>4. Writes(x, r, done)
  <2>1. \A z \in x.inserted \cup x.pending : z \in Definitions(r) BY DEF Begun
  <2>2. \A z \in x.inserted \cup x.pending : IsKept(z) /\ z.season = "" /\ z.table = "definitions" /\ z.run = r
    BY <2>1, DefinitionFacts
  <2>3. QED BY <2>2 DEF Writes, Paired
<1>5. Analyses(x, r) BY DEF Analyses, Begun
<1>6. TakesAudits(x, kept) BY DEF TakesAudits, Begun
<1>7. QED BY <1>2, <1>3, <1>4, <1>5, <1>6 DEF RunInv

(* The run begins beside those that are open, and they beside it. *)
Joined(r) ==
  /\ r \in DOMAIN runs /\ runs[r].at = "idle" /\ stored' = stored /\ DOMAIN runs' = DOMAIN runs
  /\ Begun(runs'[r]) /\ runs'[r].pending \subseteq Definitions(r) /\ runs'[r].beside = Others(r)
  /\ \A q \in DOMAIN runs \ {r} :
       runs'[q] = IF Open(q) THEN [runs[q] EXCEPT !.beside = @ \union {r}] ELSE runs[q]

(* What Begin does. *)
LEMMA BeginJoins == ASSUME NEW r \in DOMAIN runs, Begin(r) PROVE Joined(r)
<1> DEFINE p == {x \in Definitions(r) : \A y \in stored : ~SameKey(x, y)}
           x == [Idle EXCEPT !.at = "season", !.todo = SeasonOrder, !.snapshots = Db.snapshots, !.beside = Others(r),
                             !.pending = p]
<1>1. /\ runs[r].at = "idle" /\ stored' = stored
      /\ runs' = [q \in DOMAIN runs |-> IF q = r THEN x
                    ELSE IF Open(q) THEN [runs[q] EXCEPT !.beside = @ \union {r}] ELSE runs[q]]
  BY DEF Begin
<1>2. p \subseteq Definitions(r) OBVIOUS
<1> HIDE DEF p
<1>3. Begun(x) /\ x.pending = p /\ x.beside = Others(r)
  <2> DEFINE none == <<>>
             idle == [at |-> "idle", todo |-> none, clear |-> none, targets |-> {}, snapshots |-> {}, read |-> none,
                      rows |-> none, found |-> {}, inserted |-> {}, deleted |-> {}, pending |-> {}, beside |-> {},
                      stamp |-> 0]
             seasons == <<"s1", "s2">>
             given == Db.snapshots
             others == Others(r)
  <2>1. x = [idle EXCEPT !.at = "season", !.todo = seasons, !.snapshots = given, !.beside = others, !.pending = p]
    BY DEF Idle, SeasonOrder
  <2>2. DOMAIN none = {} OBVIOUS
  <2> HIDE DEF x, none, seasons, given, others
  <2>3. x = [at |-> "season", todo |-> seasons, clear |-> none, targets |-> {}, snapshots |-> given,
             read |-> none, rows |-> none, found |-> {}, inserted |-> {}, deleted |-> {}, pending |-> p,
             beside |-> others, stamp |-> 0]
    BY <2>1
  <2>4. QED BY <2>2, <2>3 DEF Begun, IsRun, seasons, others
<1> HIDE DEF x
<1>4. QED BY <1>1, <1>2, <1>3 DEF Joined

(* The others do not notice. *)
LEMMA JoinedFacts ==
  ASSUME Inv, NEW r, Joined(r)
  PROVE  /\ \A p \in DOMAIN runs : \A s : Analysed(p, s)' <=> Analysed(p, s)
         /\ FinishedRuns' = FinishedRuns /\ r \notin FinishedRuns
         /\ \A p \in DOMAIN runs \ {r} : /\ Open(p)' <=> Open(p)
                                         /\ ~Open(p) => runs'[p] = runs[p]
                                         /\ runs'[p].beside = IF Open(p) THEN runs[p].beside \cup {r} ELSE runs[p].beside
         /\ Open(r)' /\ ~Open(r)
         /\ \A q \in DOMAIN runs \ {r} : LET x == runs[q]
                                             y == runs'[q] IN
              /\ IsRun(y) /\ y.at = x.at /\ y.todo = x.todo /\ y.clear = x.clear /\ y.targets = x.targets /\ y.read = x.read
              /\ y.rows = x.rows /\ y.found = x.found /\ y.inserted = x.inserted /\ y.deleted = x.deleted
              /\ y.pending = x.pending /\ y.stamp = x.stamp
<1>1. ASSUME NEW q \in DOMAIN runs \ {r}
      PROVE  LET x == runs[q]
                 y == runs'[q] IN
             /\ IsRun(y) /\ y.at = x.at /\ y.todo = x.todo /\ y.clear = x.clear /\ y.targets = x.targets /\ y.read = x.read
             /\ y.rows = x.rows /\ y.found = x.found /\ y.inserted = x.inserted /\ y.deleted = x.deleted
             /\ y.pending = x.pending /\ y.stamp = x.stamp
             /\ y.beside = IF Open(q) THEN x.beside \cup {r} ELSE x.beside
             /\ ~Open(q) => y = x
  <2> DEFINE x == runs[q]
             y == runs'[q]
             b == IF Open(q) THEN x.beside \cup {r} ELSE x.beside
  <2>1. IsRun(x) BY DEF Inv, RunsInv, RunInv, Shape
  <2>2. y = IF Open(q) THEN [x EXCEPT !.beside = x.beside \union {r}] ELSE x BY DEF Joined
  <2> HIDE DEF x, y
  <2>3. y = [x EXCEPT !.beside = b] BY <2>1, <2>2 DEF IsRun
  <2>4. ~Open(q) => y = x BY <2>2
  <2> HIDE DEF b
  <2>5. /\ IsRun(y) /\ y.at = x.at /\ y.todo = x.todo /\ y.clear = x.clear /\ y.targets = x.targets /\ y.read = x.read
        /\ y.rows = x.rows /\ y.found = x.found /\ y.inserted = x.inserted /\ y.deleted = x.deleted
        /\ y.pending = x.pending /\ y.stamp = x.stamp /\ y.beside = b
    BY <2>1, <2>3 DEF IsRun
  <2>6. QED BY <2>4, <2>5 DEF x, y, b
<1>2. runs[r].at = "idle" /\ runs'[r].at = "season" /\ DOMAIN runs' = DOMAIN runs BY DEF Joined, Begun
<1>3. \A p \in DOMAIN runs : Finished(p)' <=> Finished(p) BY <1>1, <1>2 DEF Finished
<1>4. ~Finished(r) BY <1>2 DEF Finished
<1>5. ASSUME NEW p \in DOMAIN runs, NEW s PROVE Analysed(p, s)' <=> Analysed(p, s)
  <2>1. CASE p = r BY <1>3, <1>4, <2>1 DEF Analysed
  <2>2. CASE p # r BY <1>1, <1>3, <2>2 DEF Analysed
  <2>3. QED BY <2>1, <2>2
<1>6. FinishedRuns' = FinishedRuns /\ r \notin FinishedRuns BY <1>2, <1>3, <1>4 DEF FinishedRuns
<1>7. \A p \in DOMAIN runs \ {r} : Open(p)' <=> Open(p) BY <1>1 DEF Open
<1>8. Open(r)' /\ ~Open(r) BY <1>2 DEF Open
<1>9. QED BY <1>1, <1>5, <1>6, <1>7, <1>8

(* Nothing else changes. *)
LEMMA BeginStep == ASSUME Inv, NEW r \in DOMAIN runs, Begin(r) PROVE Inv'
<1>1. Joined(r) BY BeginJoins
<1>2. /\ RunsInv /\ KeptInv(stored, FinishedRuns) /\ StampsInv /\ BesideInv
      /\ KeysApart /\ AimInv /\ LockInv /\ CoverInv /\ AnalysisIsOfOneRun
  BY DEF Inv
<1>3. stored' = stored /\ DOMAIN runs' = DOMAIN runs BY <1>1 DEF Joined
<1>4. \A p \in DOMAIN runs : \A s : Analysed(p, s)' <=> Analysed(p, s) BY <1>1, JoinedFacts
<1>5. FinishedRuns' = FinishedRuns /\ r \notin FinishedRuns /\ Open(r)' /\ ~Open(r) BY <1>1, JoinedFacts
<1>6. \A p \in DOMAIN runs \ {r} :
        /\ Open(p)' <=> Open(p)
        /\ ~Open(p) => runs'[p] = runs[p]
        /\ runs'[p].beside = IF Open(p) THEN runs[p].beside \cup {r} ELSE runs[p].beside
  BY <1>1, JoinedFacts
<1>7. \A q \in DOMAIN runs \ {r} :
        LET x == runs[q]
            y == runs'[q]
        IN /\ IsRun(y) /\ y.at = x.at /\ y.todo = x.todo /\ y.clear = x.clear /\ y.targets = x.targets /\ y.read = x.read
           /\ y.rows = x.rows /\ y.found = x.found /\ y.inserted = x.inserted /\ y.deleted = x.deleted
           /\ y.pending = x.pending /\ y.stamp = x.stamp
  BY <1>1, JoinedFacts
<1>8. Begun(runs'[r]) /\ runs'[r].pending \subseteq Definitions(r) /\ runs'[r].beside = Others(r) BY <1>1 DEF Joined
<1>9. RunsInv'
  <2>1. ASSUME NEW q \in DOMAIN runs PROVE RunInv(runs'[q], q, stored, FinishedRuns)
    <3>1. CASE q = r BY <1>8, <3>1, BegunFacts
    <3>2. CASE q # r
      <4>1. RunInv(runs[q], q, stored, FinishedRuns) BY <1>2 DEF RunsInv
      <4>2. QED BY <1>7, <3>2, <4>1, SameRun
    <3>3. QED BY <3>1, <3>2
  <2>2. QED BY <1>3, <1>5, <2>1 DEF RunsInv
<1>10. KeptInv(stored, FinishedRuns)' BY <1>2, <1>3, <1>5
<1>11. StampsInv'
  <2>1. \A q \in FinishedRuns : runs'[q].stamp = runs[q].stamp BY <1>5, <1>7 DEF FinishedRuns
  <2>2. QED BY <1>2, <1>3, <1>5, <2>1 DEF StampsInv
<1>12. BesideInv'
  <2>1. \A q \in DOMAIN runs : runs'[q].beside \subseteq DOMAIN runs
    <3>1. Others(r) \subseteq DOMAIN runs BY DEF Others
    <3>2. \A q \in DOMAIN runs : runs[q].beside \subseteq DOMAIN runs BY <1>2 DEF BesideInv
    <3>3. \A q \in DOMAIN runs \ {r} : runs'[q].beside \subseteq runs[q].beside \cup {r} BY <1>6
    <3>4. \A q \in DOMAIN runs \ {r} : runs'[q].beside \subseteq DOMAIN runs BY <3>2, <3>3
    <3>5. runs'[r].beside \subseteq DOMAIN runs BY <1>8, <3>1
    <3>6. QED BY <3>4, <3>5
  <2>2. ASSUME NEW p \in DOMAIN runs, Open(p)', NEW q \in DOMAIN runs, q # p, Open(q)' PROVE q \in runs'[p].beside
    <3>1. CASE p = r
      <4>1. q \in Others(r) BY <1>6, <2>2, <3>1 DEF Others
      <4>2. QED BY <1>8, <3>1, <4>1
    <3>2. CASE p # r /\ q = r BY <1>6, <2>2, <3>2
    <3>3. CASE p # r /\ q # r
      <4>1. Open(p) /\ q \in Others(p) BY <1>6, <2>2, <3>3 DEF Others
      <4>2. q \in runs[p].beside BY <1>2, <4>1 DEF BesideInv
      <4>3. QED BY <1>6, <3>3, <4>1, <4>2
    <3>4. QED BY <3>1, <3>2, <3>3
  <2>3. QED BY <1>3, <2>1, <2>2 DEF BesideInv, Others
<1>13. KeysApart'
  <2> SUFFICES ASSUME NEW p \in DOMAIN runs, NEW q \in DOMAIN runs, Open(p)', Open(q)', p # q,
                      NEW y \in runs'[p].inserted, NEW z \in runs'[q].inserted, y.table = "ratings"
               PROVE  ~SameKey(y, z)
    BY <1>3 DEF KeysApart, SameKey
  <2>1. p # r /\ q # r BY <1>8 DEF Begun
  <2>2. Open(p) /\ Open(q) /\ runs'[p].inserted = runs[p].inserted /\ runs'[q].inserted = runs[q].inserted
    BY <1>6, <1>7, <2>1
  <2>3. QED BY <1>2, <2>2 DEF KeysApart
<1>14. \A q \in DOMAIN runs \ {r} : \A s : Aiming(runs'[q], s) <=> Aiming(runs[q], s) BY <1>7 DEF Aiming, Doing
<1>15. ASSUME NEW p \in DOMAIN runs \ {r}, NEW s PROVE Preceded(p, s)' <=> Preceded(p, s)
  <2>1. ~Analysed(r, s) BY <1>5 DEF Analysed, FinishedRuns
  <2>2. runs[p].beside \subseteq DOMAIN runs BY <1>2 DEF BesideInv
  <2>3. runs'[p].beside \subseteq runs[p].beside \cup {r} /\ runs[p].beside \subseteq runs'[p].beside BY <1>6
  <2>4. QED BY <1>4, <2>1, <2>2, <2>3 DEF Preceded
<1>16. \A s : AuditsOf(s)' = AuditsOf(s) BY <1>3 DEF AuditsOf, OfTable, InSeason
<1>17. AimInv'
  <2> SUFFICES ASSUME NEW q \in DOMAIN runs, Open(q)', NEW s \in runs'[q].found PROVE Aimed(q, s)'
    BY <1>3 DEF AimInv
  <2>1. q # r BY <1>8 DEF Begun
  <2>2. Open(q) /\ s \in runs[q].found BY <1>6, <1>7, <2>1
  <2>3. Aimed(q, s) BY <1>2, <2>2 DEF AimInv
  <2>4. runs'[q].targets = runs[q].targets /\ runs'[q].deleted = runs[q].deleted BY <1>7, <2>1
  <2>5. QED BY <1>14, <1>15, <1>16, <2>1, <2>3, <2>4 DEF Aimed
<1>18. LockInv'
  <2> SUFFICES ASSUME NEW p \in DOMAIN runs, NEW q \in DOMAIN runs, Open(p)', Open(q)', p # q,
                      NEW s \in runs'[p].found \cap runs'[q].found, ~Aiming(runs'[p], s), ~Aiming(runs'[q], s)
               PROVE  Preceded(p, s)' \/ Preceded(q, s)'
    BY <1>3 DEF LockInv
  <2>1. p # r /\ q # r BY <1>8 DEF Begun
  <2>2. Open(p) /\ Open(q) /\ s \in runs[p].found \cap runs[q].found BY <1>6, <1>7, <2>1
  <2>3. ~Aiming(runs[p], s) /\ ~Aiming(runs[q], s) BY <1>14, <2>1
  <2>4. Preceded(p, s) \/ Preceded(q, s) BY <1>2, <2>2, <2>3 DEF LockInv
  <2>5. QED BY <1>15, <2>1, <2>4
<1>19. ASSUME NEW p \in DOMAIN runs \ {r}, NEW s, NEW q \in runs[p].beside \ {r}
       PROVE  /\ Locked(p, q, s)' <=> Locked(p, q, s)
              /\ RatedKeys(q, s)' = RatedKeys(q, s) /\ RatedKeys(p, s)' = RatedKeys(p, s)
  <2>1. q \in DOMAIN runs \ {r} BY <1>2 DEF BesideInv
  <2>2. runs[p].beside \subseteq DOMAIN runs /\ runs[q].beside \subseteq DOMAIN runs BY <1>2, <2>1 DEF BesideInv
  <2>3. ~Analysed(r, s) /\ ~Analysed(r, s)' BY <1>4, <1>5 DEF Analysed, FinishedRuns
  <2>4. \A v \in DOMAIN runs : v # r => (v \in runs'[p].beside <=> v \in runs[p].beside) /\ (v \in runs'[q].beside <=> v \in runs[q].beside)
    BY <1>6, <2>1
  <2>5. runs'[p].beside \subseteq DOMAIN runs /\ runs'[q].beside \subseteq DOMAIN runs BY <1>3, <1>12, <2>1 DEF BesideInv
  <2>6. runs'[p].found = runs[p].found /\ runs'[q].found = runs[q].found BY <1>7, <2>1
  <2>7. (\A v \in (runs'[p].beside \cup runs'[q].beside) \ {p, q} : ~Analysed(v, s)')
        <=> (\A v \in (runs[p].beside \cup runs[q].beside) \ {p, q} : ~Analysed(v, s))
    BY <1>4, <2>2, <2>3, <2>4, <2>5
  <2>8. Locked(p, q, s)' <=> Locked(p, q, s) BY <2>6, <2>7 DEF Locked
  <2>9. RatedKeys(q, s)' = RatedKeys(q, s) /\ RatedKeys(p, s)' = RatedKeys(p, s) BY <1>7, <2>1 DEF RatedKeys, OfTable
  <2>10. QED BY <2>8, <2>9
<1>20. ASSUME NEW p \in DOMAIN runs \ {r}, NEW s PROVE (Raced(p, s)' <=> Raced(p, s)) /\ (Behind(p, s) => Behind(p, s)')
  <2>1. ~Analysed(r, s) /\ ~Analysed(r, s)' BY <1>4, <1>5 DEF Analysed, FinishedRuns
  <2>2. runs[p].beside \subseteq DOMAIN runs BY <1>2 DEF BesideInv
  <2>3. runs'[p].beside \subseteq runs[p].beside \cup {r} /\ runs[p].beside \subseteq runs'[p].beside BY <1>6
  <2>4. ASSUME Raced(p, s) PROVE Raced(p, s)'
    <3>1. PICK q \in runs[p].beside :
            Analysed(q, s) /\ RatedKeys(q, s) \intersect RatedKeys(p, s) = {} /\ ~Locked(p, q, s)
      BY <2>4 DEF Raced
    <3>2. q \in runs[p].beside \ {r} /\ q \in runs'[p].beside BY <2>1, <2>3, <3>1
    <3>3. Analysed(q, s)' BY <1>4, <2>2, <3>1
    <3>4. QED BY <1>19, <3>1, <3>2, <3>3 DEF Raced
  <2>5. ASSUME Raced(p, s)' PROVE Raced(p, s)
    <3>1. PICK q \in runs'[p].beside :
            Analysed(q, s)' /\ RatedKeys(q, s)' \intersect RatedKeys(p, s)' = {} /\ ~Locked(p, q, s)'
      BY <2>5 DEF Raced
    <3>2. q \in runs[p].beside \ {r} BY <2>1, <2>3, <3>1
    <3>3. Analysed(q, s) BY <1>4, <2>2, <3>1, <3>2
    <3>4. QED BY <1>19, <3>1, <3>2, <3>3 DEF Raced
  <2>6. ASSUME Behind(p, s) PROVE Behind(p, s)'
    <3>1. PICK q \in runs[p].beside :
            /\ Analysed(q, s) /\ ~Locked(p, q, s)
            /\ \A k \in RatedKeys(q, s) : \E y \in stored \ (runs[p].deleted \cup runs[p].targets) : HasKey(y, s, k)
      BY <2>6 DEF Behind
    <3>2. q \in runs[p].beside \ {r} /\ q \in runs'[p].beside BY <2>1, <2>3, <3>1
    <3>3. Analysed(q, s)' BY <1>4, <2>2, <3>1
    <3>4. runs'[p].targets = runs[p].targets /\ runs'[p].deleted = runs[p].deleted BY <1>7
    <3>5. ~Locked(p, q, s)' /\ RatedKeys(q, s)' = RatedKeys(q, s) BY <1>19, <3>1, <3>2
    <3>6. QED BY <1>3, <3>1, <3>2, <3>3, <3>4, <3>5 DEF Behind
  <2>7. QED BY <2>4, <2>5, <2>6
<1>21. \A p \in DOMAIN runs \ {r} : \A s : RankedRows(p, s)' = RankedRows(p, s) BY <1>7 DEF RankedRows, OfTable
<1>22. CoverInv'
  <2> SUFFICES ASSUME NEW q \in DOMAIN runs, Open(q)', NEW s \in DOMAIN runs'[q].read, ~Untouched(runs'[q], s)
               PROVE  Covered(q, s)'
    BY <1>3 DEF CoverInv
  <2>1. q # r BY <1>8 DEF Begun
  <2>2. /\ Open(q) /\ s \in DOMAIN runs[q].read
        /\ Doing(runs'[q], s) <=> Doing(runs[q], s)
        /\ Written(runs'[q], s) <=> Written(runs[q], s)
        /\ Over(runs'[q], s) <=> Over(runs[q], s)
        /\ ~Untouched(runs[q], s)
    BY <1>6, <1>7, <2>1 DEF Doing, Written, Over, Untouched
  <2>3. Covered(q, s) BY <1>2, <2>2 DEF CoverInv
  <2>4. Clean(runs'[q], s, stored) <=> Clean(runs[q], s, stored) BY <1>7, <2>1, <2>2 DEF Clean
  <2>5. runs'[q].inserted = runs[q].inserted /\ runs'[q].pending = runs[q].pending BY <1>7, <2>1
  <2>6. QED BY <1>3, <1>20, <1>21, <2>1, <2>2, <2>3, <2>4, <2>5 DEF Covered, InSeason
<1>23. AnalysisIsOfOneRun'
  <2> SUFFICES ASSUME NEW s \in SEASONS, NEW p \in DOMAIN runs, Latest(p, s)', ~Raced(p, s)'
               PROVE  (InSeason(stored, s) = RankedRows(p, s))'
    BY <1>3 DEF AnalysisIsOfOneRun
  <2>1. Analysed(p, s) BY <1>4 DEF Latest
  <2>2. \A q \in DOMAIN runs : Analysed(q, s) => q # r BY <1>5 DEF Analysed, FinishedRuns
  <2>3. \A q \in DOMAIN runs : Analysed(q, s) => runs'[q].stamp = runs[q].stamp BY <1>7, <2>2
  <2>4. Latest(p, s) BY <1>3, <1>4, <2>1, <2>3 DEF Latest
  <2>5. ~Raced(p, s) /\ RankedRows(p, s)' = RankedRows(p, s) BY <1>20, <1>21, <2>1, <2>2
  <2>6. QED BY <1>2, <1>3, <2>4, <2>5 DEF AnalysisIsOfOneRun, InSeason
<1>24. QED BY <1>9, <1>10, <1>11, <1>12, <1>13, <1>17, <1>18, <1>22, <1>23 DEF Inv

-----------------------------------------------------------------------------
(* What a run takes from the store when it commits, and what it puts there. *)
Takeoff(r) == runs[r].deleted \cup Rewritten(runs[r].pending, r)
Addition(r) == runs[r].inserted \cup runs[r].pending

Committed(r) ==
  /\ r \in DOMAIN runs /\ runs[r].at = "season" /\ runs[r].todo = <<>>
  /\ DOMAIN runs' = DOMAIN runs /\ \A q \in DOMAIN runs \ {r} : runs'[q] = runs[q]
  /\ stored' = (stored \ Takeoff(r)) \cup Addition(r)
  /\ LET x == runs[r]
         y == runs'[r]
     IN /\ IsRun(y) /\ y.at = "finished" /\ y.todo = <<>> /\ y.targets = x.targets /\ y.read = x.read /\ y.rows = x.rows
        /\ y.found = x.found /\ y.beside = x.beside
        /\ y.inserted = {} /\ y.deleted = {} /\ y.pending = {} /\ y.stamp = Stamp

(* What Commit does, if it does not roll back. *)
LEMMA CommitCommits ==
  ASSUME Inv, NEW r \in DOMAIN runs, Commit(r), ~Abort(r)
  PROVE  Committed(r)
<1> DEFINE x == runs[r]
           new == x.pending
           rewritten == Rewritten(new, r)
           done == [x EXCEPT !.inserted = @ \union new, !.deleted = @ \union rewritten, !.pending = {}]
           y == [done EXCEPT !.at = "finished", !.stamp = Stamp, !.inserted = {}, !.deleted = {}]
<1>1. /\ x.at = "season" /\ x.todo = <<>>
      /\ stored' = (stored \ done.deleted) \union done.inserted
      /\ runs' = [runs EXCEPT ![r] = y]
  BY DEF Commit, Flushed
<1>2. IsRun(x) BY DEF Inv, RunsInv, RunInv, Shape
<1> HIDE DEF rewritten
<1>3. done.deleted = x.deleted \cup rewritten /\ done.inserted = x.inserted \cup new
  <2>0. done = [x EXCEPT !.inserted = @ \union new, !.deleted = @ \union rewritten, !.pending = {}] OBVIOUS
  <2> HIDE DEF x, new, done
  <2>1. QED BY <1>2, <2>0 DEF IsRun
<1>4. /\ IsRun(y) /\ y.at = "finished" /\ y.todo = x.todo /\ y.targets = x.targets /\ y.read = x.read /\ y.rows = x.rows
      /\ y.found = x.found /\ y.beside = x.beside
      /\ y.inserted = {} /\ y.deleted = {} /\ y.pending = {} /\ y.stamp = Stamp
  <2> DEFINE n == Stamp
  <2>0. y = [[x EXCEPT !.inserted = @ \union new, !.deleted = @ \union rewritten, !.pending = {}]
              EXCEPT !.at = "finished", !.stamp = n, !.inserted = {}, !.deleted = {}]
    OBVIOUS
  <2> HIDE DEF x, new, y, n
  <2>1. /\ IsRun(y) /\ y.at = "finished" /\ y.todo = x.todo /\ y.targets = x.targets /\ y.read = x.read /\ y.rows = x.rows
        /\ y.found = x.found /\ y.beside = x.beside
        /\ y.inserted = {} /\ y.deleted = {} /\ y.pending = {} /\ y.stamp = n
    BY <1>2, <2>0 DEF IsRun
  <2>2. QED BY <2>1 DEF n
<1> HIDE DEF y, done
<1>5. DOMAIN runs' = DOMAIN runs /\ runs'[r] = y /\ \A q \in DOMAIN runs \ {r} : runs'[q] = runs[q] BY <1>1
<1>6. QED BY <1>1, <1>3, <1>4, <1>5 DEF Committed, Takeoff, Addition, rewritten

(* What it is that has changed. *)
LEMMA CommitFacts ==
  ASSUME Inv, NEW r, Committed(r)
  PROVE  /\ Open(r) /\ ~Open(r)' /\ r \notin FinishedRuns /\ FinishedRuns' = FinishedRuns \cup {r}
         /\ \A p \in DOMAIN runs \ {r} : Open(p)' <=> Open(p)
         /\ \A p \in DOMAIN runs : \A s : Analysed(p, s)' <=> Analysed(p, s) \/ (p = r /\ s \in DOMAIN runs[r].read)
         /\ \A z \in Addition(r) : /\ IsKept(z) /\ (z.season = "" \/ z.season \in DOMAIN runs[r].read)
                                   /\ z.run = r \/ (z.table = "ratings" /\ z.run \in FinishedRuns)
         /\ \A z \in Takeoff(r) : z.season \in DOMAIN runs[r].read
         /\ \A z \in Takeoff(r) : z \in runs[r].deleted \/
              (z \in stored /\ \E w \in runs[r].pending : w.table = "ratings" /\ SameKey(w, z) /\ w.run = z.run)
         /\ \A s : s # "" /\ s \notin DOMAIN runs[r].read => InSeason(stored', s) = InSeason(stored, s)
<1> DEFINE x == runs[r]
<1>1. RunInv(x, r, stored, FinishedRuns) /\ Shape(x) /\ Takes(x, FinishedRuns) /\ Writes(x, r, FinishedRuns)
  BY DEF Inv, RunsInv, RunInv, Committed
<1>2. x.at = "season" /\ runs'[r].at = "finished" /\ runs'[r].read = x.read BY DEF Committed
<1>3. Open(r) /\ ~Open(r)' /\ ~Finished(r) /\ Finished(r)' BY <1>2 DEF Open, Finished
<1>4. \A p \in DOMAIN runs \ {r} : (Open(p)' <=> Open(p)) /\ (Finished(p)' <=> Finished(p)) BY DEF Open, Finished, Committed
<1>5. r \notin FinishedRuns /\ FinishedRuns' = FinishedRuns \cup {r} BY <1>3, <1>4 DEF FinishedRuns, Committed
<1>6. ASSUME NEW p \in DOMAIN runs, NEW s PROVE Analysed(p, s)' <=> Analysed(p, s) \/ (p = r /\ s \in DOMAIN x.read)
  <2>1. CASE p = r BY <1>2, <1>3, <2>1 DEF Analysed
  <2>2. CASE p # r BY <1>4, <2>2 DEF Analysed, Committed
  <2>3. QED BY <2>1, <2>2
<1>7. \A z \in Addition(r) : /\ IsKept(z) /\ (z.season = "" \/ z.season \in DOMAIN x.read)
                             /\ z.run = r \/ (z.table = "ratings" /\ z.run \in FinishedRuns)
  BY <1>1 DEF Writes, Addition, Written
<1>8. \A w \in x.pending : w.run # r => IsKept(w) /\ w.table = "ratings" BY <1>7 DEF Addition
<1>9. \A z \in Rewritten(x.pending, r) :
        z \in stored /\ \E w \in x.pending : w.run # r /\ w.table = "ratings" /\ SameKey(w, z) /\ w.run = z.run
  <2> DEFINE new == x.pending
  <2>1. \A w \in new : w.run # r => IsKept(w) /\ w.table = "ratings" BY <1>8
  <2> HIDE DEF new
  <2>2. \A z \in Rewritten(new, r) :
          z \in stored /\ \E w \in new : w.run # r /\ w.table = "ratings" /\ SameKey(w, z) /\ w.run = z.run
    BY <2>1, RewrittenFacts
  <2>3. QED BY <2>2 DEF new
<1>10. ASSUME NEW z \in Takeoff(r)
       PROVE  /\ z.season \in DOMAIN x.read
              /\ z \in x.deleted \/
                   (z \in stored /\ \E w \in x.pending : w.table = "ratings" /\ SameKey(w, z) /\ w.run = z.run)
  <2>1. CASE z \in x.deleted BY <1>1, <2>1 DEF Takes
  <2>2. CASE z \notin x.deleted
    <3>1. z \in Rewritten(x.pending, r) BY <2>2 DEF Takeoff
    <3>2. PICK w \in x.pending : w.table = "ratings" /\ SameKey(w, z) /\ w.run = z.run BY <1>9, <3>1
    <3>3. w.season # "" /\ w.season = z.season BY <1>7, <3>2 DEF Addition, IsKept, SameKey
    <3>4. w.season \in DOMAIN x.read BY <1>7, <3>3 DEF Addition
    <3>5. QED BY <1>9, <3>1, <3>2, <3>3, <3>4
  <2>3. QED BY <2>1, <2>2
<1>11. ASSUME NEW s, s # "", s \notin DOMAIN x.read PROVE InSeason(stored', s) = InSeason(stored, s)
  <2>1. stored' = (stored \ Takeoff(r)) \cup Addition(r) BY DEF Committed
  <2>2. \A z \in Addition(r) : z.season # s BY <1>7, <1>11
  <2>3. \A z \in Takeoff(r) : z.season # s BY <1>10, <1>11
  <2>4. QED BY <2>1, <2>2, <2>3 DEF InSeason
<1>12. QED BY <1>3, <1>4, <1>5, <1>6, <1>7, <1>10, <1>11

(* What the committed rows are. *)
LEMMA CommitKept ==
  ASSUME Inv, NEW r, Committed(r)
  PROVE  KeptInv(stored, FinishedRuns)'
<1> DEFINE x == runs[r]
<1>1. Writes(x, r, FinishedRuns) /\ TakesAudits(x, stored) /\ KeptInv(stored, FinishedRuns)
  BY DEF Inv, RunsInv, RunInv, Committed
<1>2. /\ FinishedRuns' = FinishedRuns \cup {r}
      /\ \A z \in Addition(r) : IsKept(z) /\ (z.run = r \/ z.run \in FinishedRuns)
      /\ \A z \in Takeoff(r) : z \in x.deleted \/
           (z \in stored /\ \E w \in x.pending : w.table = "ratings" /\ SameKey(w, z) /\ w.run = z.run)
  BY CommitFacts
<1>3. stored' = (stored \ Takeoff(r)) \cup Addition(r) BY DEF Committed
<1>4. \A z \in stored' : IsKept(z) /\ z.run \in FinishedRuns' BY <1>1, <1>2, <1>3 DEF KeptInv
<1>5. ASSUME NEW a \in stored', a.table = "audits" PROVE \E w \in stored' : Rates(w, a)
  <2>1. CASE a \in Addition(r)
    <3>1. \E w \in Addition(r) : Rates(w, a) BY <1>1, <1>5, <2>1 DEF Writes, Paired, Addition
    <3>2. QED BY <1>3, <3>1
  <2>2. CASE a \in stored \ Takeoff(r)
    <3>1. PICK w \in stored : Rates(w, a) BY <1>1, <1>5, <2>2 DEF KeptInv, Paired
    <3>2. CASE w \notin Takeoff(r) BY <1>3, <3>1, <3>2
    <3>3. CASE w \in x.deleted
      <4>1. a \in x.deleted \/ \E v \in x.inserted : Rates(v, a) BY <1>1, <1>5, <2>2, <3>1, <3>3 DEF TakesAudits
      <4>2. a \notin x.deleted BY <2>2 DEF Takeoff
      <4>3. QED BY <1>3, <4>1, <4>2 DEF Addition
    <3>4. CASE w \in Takeoff(r) /\ w \notin x.deleted
      <4>1. PICK v \in x.pending : v.table = "ratings" /\ SameKey(v, w) /\ v.run = w.run BY <1>2, <3>4
      <4>2. Rates(v, a) BY <3>1, <4>1 DEF Rates, SameKey
      <4>3. QED BY <1>3, <4>2 DEF Addition
    <3>5. QED BY <3>2, <3>3, <3>4
  <2>3. QED BY <1>3, <2>1, <2>2
<1>6. QED BY <1>4, <1>5 DEF KeptInv, Paired

(* The other runs are in order. *)
LEMMA CommitRuns ==
  ASSUME Inv, NEW r, Committed(r)
  PROVE  RunsInv'
<1> DEFINE x == runs[r]
           y == runs'[r]
<1>1. RunsInv BY DEF Inv
<1>2. /\ FinishedRuns' = FinishedRuns \cup {r} /\ r \notin FinishedRuns
      /\ \A z \in Addition(r) : z.table = "audits" => z.run = r
  BY CommitFacts
<1>3. stored' = (stored \ Takeoff(r)) \cup Addition(r) /\ DOMAIN runs' = DOMAIN runs BY DEF Committed
<1>4. ASSUME NEW q \in DOMAIN runs \ {r} PROVE RunInv(runs[q], q, stored', FinishedRuns')
  <2> DEFINE v == runs[q]
  <2>1. /\ Shape(v) /\ Takes(v, FinishedRuns) /\ Writes(v, q, FinishedRuns) /\ Analyses(v, q) /\ TakesAudits(v, stored)
    BY <1>1 DEF RunsInv, RunInv
  <2> HIDE DEF v
  <2>2. Takes(v, FinishedRuns') BY <1>2, <2>1 DEF Takes
  <2>3. Writes(v, q, FinishedRuns')
    <3>1. \A z \in v.inserted \cup v.pending :
            /\ IsKept(z) /\ (z.season = "" \/ Written(v, z.season))
            /\ z.run = q \/ (z.table = "ratings" /\ z.run \in FinishedRuns')
      BY <1>2, <2>1 DEF Writes
    <3>2. QED BY <2>1, <3>1 DEF Writes
  <2>4. TakesAudits(v, stored')
    <3> SUFFICES ASSUME NEW z \in v.deleted, NEW a \in stored', a.table = "audits", Rates(z, a)
                 PROVE  a \in v.deleted \/ \E w \in v.inserted : Rates(w, a)
      BY DEF TakesAudits
    <3>1. CASE a \in stored BY <2>1, <3>1 DEF TakesAudits
    <3>2. CASE a \notin stored
      <4>1. a.run = r BY <1>2, <1>3, <3>2
      <4>2. z.run = r BY <4>1 DEF Rates
      <4>3. QED BY <1>2, <2>1, <4>2 DEF Takes
    <3>3. QED BY <3>1, <3>2
  <2>5. QED BY <2>1, <2>2, <2>3, <2>4 DEF RunInv, v
<1>5. RunInv(y, r, stored', FinishedRuns')
  <2>1. Shape(x) /\ Analyses(x, r) /\ x.at = "season" BY <1>1 DEF RunsInv, RunInv, Committed
  <2>2. /\ IsRun(y) /\ y.at = "finished" /\ y.todo = <<>> /\ y.targets = x.targets /\ y.read = x.read /\ y.rows = x.rows
        /\ y.found = x.found /\ y.inserted = {} /\ y.deleted = {} /\ y.pending = {}
    BY DEF Committed
  <2> HIDE DEF x, y
  <2>3. y.targets = {} BY <2>1, <2>2 DEF Shape
  <2>4. \A z : ~Doing(x, z) /\ ~Doing(y, z) BY <2>1, <2>2 DEF Doing, WORKING
  <2>5. ToSet(y.todo) = {} BY <2>2 DEF ToSet
  <2>6. Shape(y)
    <3>1. y.at \in STAGES /\ y.at \notin WORKING /\ y.at # "clear" /\ y.todo \in TODOS BY <2>2 DEF STAGES, WORKING, TODOS
    <3>2. QED BY <2>1, <2>2, <2>3, <2>4, <2>5, <3>1 DEF Shape
  <2>7. Takes(y, FinishedRuns') /\ Writes(y, r, FinishedRuns') /\ TakesAudits(y, stored')
    BY <2>2, <2>3 DEF Takes, Writes, TakesAudits, Paired
  <2>8. Analyses(y, r) BY <2>1, <2>2, <2>4 DEF Analyses, Written
  <2>9. QED BY <2>6, <2>7, <2>8 DEF RunInv
<1>6. ASSUME NEW q \in DOMAIN runs PROVE RunInv(runs'[q], q, stored', FinishedRuns')
  <2>1. CASE q = r BY <1>5, <2>1
  <2>2. CASE q # r
    <3>1. runs'[q] = runs[q] BY <2>2 DEF Committed
    <3>2. QED BY <1>4, <2>2, <3>1
  <2>3. QED BY <2>1, <2>2
<1>7. QED BY <1>3, <1>6 DEF RunsInv

(* What holds of two runs when one more has analysed the season. *)
LEMMA CommitPairs ==
  ASSUME Inv, NEW r, Committed(r), NEW p \in DOMAIN runs, NEW s
  PROVE  /\ Preceded(p, s) => Preceded(p, s)'
         /\ p # r => (Raced(p, s) => Raced(p, s)')
         /\ Raced(r, s) => Raced(r, s)'
         /\ p # r /\ s \notin DOMAIN runs[r].read =>
              (Raced(p, s)' => Raced(p, s)) /\ (InSeason(stored', s) = InSeason(stored, s) => (Behind(p, s) => Behind(p, s)'))
<1>1. BesideInv BY DEF Inv
<1>2. \A q \in DOMAIN runs : Analysed(q, s)' <=> Analysed(q, s) \/ (q = r /\ s \in DOMAIN runs[r].read) BY CommitFacts
<1>3. \A q \in DOMAIN runs : /\ runs[q].beside \subseteq DOMAIN runs
                             /\ runs'[q].beside = runs[q].beside /\ runs'[q].found = runs[q].found /\ runs'[q].rows = runs[q].rows
  BY <1>1 DEF BesideInv, Committed
<1>4. r \in DOMAIN runs /\ ~Analysed(r, s) BY CommitFacts DEF Committed, Analysed, FinishedRuns
<1>5. Preceded(p, s) => Preceded(p, s)' BY <1>2, <1>3 DEF Preceded
<1>6. \A v, q \in DOMAIN runs : Locked(v, q, s)' => Locked(v, q, s)
  <2> SUFFICES ASSUME NEW v \in DOMAIN runs, NEW q \in DOMAIN runs, Locked(v, q, s)' PROVE Locked(v, q, s) OBVIOUS
  <2>1. runs'[v].beside = runs[v].beside /\ runs'[q].beside = runs[q].beside
        /\ (runs[v].beside \union runs[q].beside) \subseteq DOMAIN runs
    BY <1>3
  <2>2. s \in runs[v].found \intersect runs[q].found BY <1>3 DEF Locked
  <2>3. \A w \in (runs[v].beside \union runs[q].beside) \ {v, q} : ~Analysed(w, s)' BY <2>1 DEF Locked
  <2>4. \A w \in (runs[v].beside \union runs[q].beside) \ {v, q} : ~Analysed(w, s) BY <1>2, <2>1, <2>3
  <2>5. QED BY <2>2, <2>4 DEF Locked
<1>7. \A q \in DOMAIN runs : RatedKeys(q, s)' = RatedKeys(q, s) BY <1>3 DEF RatedKeys, OfTable
<1>8. ASSUME NEW v \in DOMAIN runs, Raced(v, s) PROVE Raced(v, s)'
  <2>1. PICK q \in runs[v].beside : Analysed(q, s) /\ RatedKeys(q, s) \intersect RatedKeys(v, s) = {} /\ ~Locked(v, q, s)
    BY <1>8 DEF Raced
  <2>2. q \in DOMAIN runs BY <1>3
  <2>3. q \in runs'[v].beside /\ Analysed(q, s)' /\ ~Locked(v, q, s)' BY <1>2, <1>3, <1>6, <2>1, <2>2
  <2>4. RatedKeys(q, s)' \intersect RatedKeys(v, s)' = {} BY <1>7, <2>1, <2>2
  <2>5. QED BY <2>3, <2>4 DEF Raced
<1>9. ASSUME p # r, s \notin DOMAIN runs[r].read
      PROVE  /\ Raced(p, s)' => Raced(p, s)
             /\ InSeason(stored', s) = InSeason(stored, s) => (Behind(p, s) => Behind(p, s)')
  <2>1. \A q \in DOMAIN runs : Analysed(q, s)' <=> Analysed(q, s) BY <1>2, <1>9
  <2>2. \A v, q \in DOMAIN runs : Locked(v, q, s) => Locked(v, q, s)'
    <3> SUFFICES ASSUME NEW v \in DOMAIN runs, NEW q \in DOMAIN runs, Locked(v, q, s) PROVE Locked(v, q, s)' OBVIOUS
    <3>1. runs'[v].beside = runs[v].beside /\ runs'[q].beside = runs[q].beside
          /\ (runs[v].beside \union runs[q].beside) \subseteq DOMAIN runs
      BY <1>3
    <3>2. s \in runs'[v].found \intersect runs'[q].found BY <1>3 DEF Locked
    <3>3. \A w \in (runs[v].beside \union runs[q].beside) \ {v, q} : ~Analysed(w, s) BY DEF Locked
    <3>4. \A w \in (runs'[v].beside \union runs'[q].beside) \ {v, q} : ~Analysed(w, s)' BY <2>1, <3>1, <3>3
    <3>5. QED BY <3>2, <3>4 DEF Locked
  <2>3. ASSUME Raced(p, s)' PROVE Raced(p, s)
    <3>1. PICK q \in runs'[p].beside :
            Analysed(q, s)' /\ RatedKeys(q, s)' \intersect RatedKeys(p, s)' = {} /\ ~Locked(p, q, s)'
      BY <2>3 DEF Raced
    <3>2. q \in runs[p].beside /\ q \in DOMAIN runs BY <1>3
    <3>3. Analysed(q, s) /\ ~Locked(p, q, s) BY <2>1, <2>2, <3>1, <3>2
    <3>4. RatedKeys(q, s) \intersect RatedKeys(p, s) = {} BY <1>7, <3>1, <3>2
    <3>5. QED BY <3>2, <3>3, <3>4 DEF Raced
  <2>4. ASSUME InSeason(stored', s) = InSeason(stored, s), Behind(p, s) PROVE Behind(p, s)'
    <3>1. PICK q \in runs[p].beside :
            /\ Analysed(q, s) /\ ~Locked(p, q, s)
            /\ \A k \in RatedKeys(q, s) : \E y \in stored \ (runs[p].deleted \cup runs[p].targets) : HasKey(y, s, k)
      BY <2>4 DEF Behind
    <3>2. q \in DOMAIN runs /\ q \in runs'[p].beside BY <1>3
    <3>3. Analysed(q, s)' /\ ~Locked(p, q, s)' /\ RatedKeys(q, s)' = RatedKeys(q, s) BY <1>2, <1>6, <1>7, <3>1, <3>2
    <3>4. runs'[p] = runs[p] BY <1>9 DEF Committed
    <3>5. \A y \in stored : y.season = s => y \in stored' BY <2>4 DEF InSeason
    <3>6. ASSUME NEW k \in RatedKeys(q, s)
          PROVE  \E y \in stored' \ (runs'[p].deleted \cup runs'[p].targets) : HasKey(y, s, k)
      <4>1. PICK y \in stored \ (runs[p].deleted \cup runs[p].targets) : HasKey(y, s, k) BY <3>1
      <4>2. y \in stored' BY <3>5, <4>1 DEF HasKey
      <4>3. QED BY <3>4, <4>1, <4>2
    <3>7. QED BY <3>2, <3>3, <3>6 DEF Behind
  <2>5. QED BY <2>3, <2>4
<1>10. QED BY <1>4, <1>5, <1>8, <1>9

(* Stamps, who runs beside whom, and the keys of those that are open. *)
LEMMA CommitRest ==
  ASSUME Inv, NEW r, Committed(r)
  PROVE  StampsInv' /\ BesideInv' /\ KeysApart'
<1>1. StampsInv /\ BesideInv /\ KeysApart BY DEF Inv
<1>2. /\ FinishedRuns' = FinishedRuns \cup {r} /\ r \notin FinishedRuns /\ ~Open(r)'
      /\ \A p \in DOMAIN runs \ {r} : Open(p)' <=> Open(p)
  BY CommitFacts
<1>3. /\ DOMAIN runs' = DOMAIN runs /\ r \in DOMAIN runs /\ \A q \in DOMAIN runs \ {r} : runs'[q] = runs[q]
      /\ runs'[r].beside = runs[r].beside /\ runs'[r].stamp = Stamp
  BY DEF Committed
<1>4. StampsInv'
  <2>1. IsFiniteSet(FinishedRuns)
    <3>1. FinishedRuns \subseteq DOMAIN runs BY DEF FinishedRuns
    <3>2. QED BY <1>1, <3>1, FS_Subset DEF StampsInv
  <2>2. Cardinality(FinishedRuns) \in Nat BY <2>1, FS_CardinalityType
  <2>3. Cardinality(FinishedRuns') = Cardinality(FinishedRuns) + 1 BY <1>2, <2>1, FS_AddElement
  <2>4. Stamp = 1 + Cardinality(FinishedRuns) BY DEF Stamp, FinishedRuns
  <2>5. ASSUME NEW q \in FinishedRuns' PROVE runs'[q].stamp \in Nat /\ runs'[q].stamp <= Cardinality(FinishedRuns')
    <3>1. CASE q = r BY <1>3, <2>2, <2>3, <2>4, <3>1
    <3>2. CASE q # r
      <4>1. q \in FinishedRuns /\ q \in DOMAIN runs BY <1>2, <3>2 DEF FinishedRuns
      <4>2. runs[q].stamp \in Nat /\ runs[q].stamp <= Cardinality(FinishedRuns) BY <1>1, <4>1 DEF StampsInv
      <4>3. runs'[q] = runs[q] BY <1>3, <3>2, <4>1
      <4>4. QED BY <2>2, <2>3, <4>2, <4>3
    <3>3. QED BY <3>1, <3>2
  <2>6. QED BY <1>1, <1>3, <2>5 DEF StampsInv
<1>5. BesideInv'
  <2>1. \A q \in DOMAIN runs : runs'[q].beside = runs[q].beside BY <1>3
  <2>2. \A q \in DOMAIN runs : Open(q)' => Open(q) BY <1>2
  <2>3. \A q \in DOMAIN runs : Others(q)' \subseteq Others(q) BY <1>3, <2>2 DEF Others
  <2>4. QED BY <1>1, <1>3, <2>1, <2>2, <2>3 DEF BesideInv
<1>6. KeysApart'
  <2> SUFFICES ASSUME NEW p \in DOMAIN runs, NEW q \in DOMAIN runs, Open(p)', Open(q)', p # q,
                      NEW y \in runs'[p].inserted, NEW z \in runs'[q].inserted, y.table = "ratings"
               PROVE  ~SameKey(y, z)
    BY <1>3 DEF KeysApart, SameKey
  <2>1. p # r /\ q # r BY <1>2
  <2>2. Open(p) /\ Open(q) /\ runs'[p] = runs[p] /\ runs'[q] = runs[q] BY <1>2, <1>3, <2>1
  <2>3. QED BY <1>1, <2>2 DEF KeysApart
<1>7. QED BY <1>4, <1>5, <1>6

(* The audits: whoever aimed at those that are gone has been preceded. *)
LEMMA CommitAims ==
  ASSUME Inv, NEW r, Committed(r)
  PROVE  AimInv' /\ LockInv'
<1>1. RunsInv /\ BesideInv /\ AimInv /\ LockInv BY DEF Inv
<1>2. /\ ~Open(r)' /\ Open(r)
      /\ \A p \in DOMAIN runs \ {r} : Open(p)' <=> Open(p)
      /\ \A p \in DOMAIN runs : \A s : Analysed(p, s)' <=> Analysed(p, s) \/ (p = r /\ s \in DOMAIN runs[r].read)
      /\ \A s : s # "" /\ s \notin DOMAIN runs[r].read => InSeason(stored', s) = InSeason(stored, s)
  BY CommitFacts
<1>3. DOMAIN runs' = DOMAIN runs /\ r \in DOMAIN runs /\ \A q \in DOMAIN runs \ {r} : runs'[q] = runs[q] BY DEF Committed
<1>4. \A p \in DOMAIN runs : \A s : Preceded(p, s) => Preceded(p, s)' BY CommitPairs
<1>5. AimInv'
  <2> SUFFICES ASSUME NEW q \in DOMAIN runs, Open(q)', NEW s \in runs'[q].found PROVE Aimed(q, s)'
    BY <1>3 DEF AimInv
  <2>1. q # r BY <1>2
  <2>2. Open(q) /\ runs'[q] = runs[q] BY <1>2, <1>3, <2>1
  <2>3. Aimed(q, s) BY <1>1, <2>2 DEF AimInv
  <2>4. CASE s \in DOMAIN runs[r].read
    <3>1. r \in runs[q].beside BY <1>1, <1>2, <1>3, <2>1, <2>2 DEF BesideInv, Others
    <3>2. Preceded(q, s)' BY <1>2, <1>3, <2>2, <2>4, <3>1 DEF Preceded
    <3>3. QED BY <3>2 DEF Aimed
  <2>5. CASE s \notin DOMAIN runs[r].read
    <3>1. s # "" BY <1>1, <2>2 DEF RunsInv, RunInv, Shape, SEASONS
    <3>2. AuditsOf(s)' = AuditsOf(s) BY <1>2, <2>5, <3>1 DEF AuditsOf, OfTable, InSeason
    <3>3. QED BY <1>4, <2>2, <2>3, <3>2 DEF Aimed
  <2>6. QED BY <2>4, <2>5
<1>6. LockInv'
  <2> SUFFICES ASSUME NEW p \in DOMAIN runs, NEW q \in DOMAIN runs, Open(p)', Open(q)', p # q,
                      NEW s \in runs'[p].found \cap runs'[q].found, ~Aiming(runs'[p], s), ~Aiming(runs'[q], s)
               PROVE  Preceded(p, s)' \/ Preceded(q, s)'
    BY <1>3 DEF LockInv
  <2>1. p # r /\ q # r BY <1>2
  <2>2. Open(p) /\ Open(q) /\ runs'[p] = runs[p] /\ runs'[q] = runs[q] BY <1>2, <1>3, <2>1
  <2>3. Preceded(p, s) \/ Preceded(q, s) BY <1>1, <2>2 DEF LockInv
  <2>4. QED BY <1>4, <2>3
<1>7. QED BY <1>5, <1>6

(* What a season's other runs have cleared is still clear. *)
LEMMA CleanStays ==
  ASSUME NEW x, NEW s, NEW kept, NEW now, InSeason(now, s) = InSeason(kept, s), Clean(x, s, kept)
  PROVE  Clean(x, s, now)
<1> SUFFICES ASSUME NEW y \in InSeason(now, s)
             PROVE  \/ y \in x.deleted \cup x.targets
                    \/ Doing(x, s) /\ x.at = "clear" /\ y.table \in ToSet(x.clear)
                    \/ y.table = "audits" /\ \E z \in x.targets \cap now : Rates(z, y)
  BY DEF Clean
<1>1. y \in InSeason(kept, s) /\ y.season = s BY DEF InSeason
<1>2. CASE y \in x.deleted \cup x.targets BY <1>2
<1>3. CASE Doing(x, s) /\ x.at = "clear" /\ y.table \in ToSet(x.clear) BY <1>3
<1>4. CASE y.table = "audits" /\ \E z \in x.targets \cap kept : Rates(z, y)
  <2>1. PICK z \in x.targets \cap kept : Rates(z, y) BY <1>4
  <2>2. z \in InSeason(kept, s) BY <1>1, <2>1 DEF Rates, InSeason
  <2>3. z \in now BY <2>2 DEF InSeason
  <2>4. QED BY <1>4, <2>1, <2>3
<1>5. QED BY <1>1, <1>2, <1>3, <1>4 DEF Clean

(* A run that is still open: either this one has not read the season, or the two have met. *)
LEMMA CommitCover ==
  ASSUME Inv, NEW r, Committed(r)
  PROVE  CoverInv'
<1>1. RunsInv /\ BesideInv /\ LockInv /\ KeysApart /\ CoverInv BY DEF Inv
<1>2. /\ ~Open(r)' /\ Open(r) /\ r \notin FinishedRuns
      /\ \A p \in DOMAIN runs \ {r} : Open(p)' <=> Open(p)
      /\ \A p \in DOMAIN runs : \A s : Analysed(p, s)' <=> Analysed(p, s) \/ (p = r /\ s \in DOMAIN runs[r].read)
      /\ \A s : s # "" /\ s \notin DOMAIN runs[r].read => InSeason(stored', s) = InSeason(stored, s)
  BY CommitFacts
<1>3. /\ DOMAIN runs' = DOMAIN runs /\ r \in DOMAIN runs /\ \A q \in DOMAIN runs \ {r} : runs'[q] = runs[q]
      /\ runs'[r].found = runs[r].found /\ runs'[r].beside = runs[r].beside /\ runs'[r].rows = runs[r].rows
      /\ runs[r].at = "season" /\ stored' = (stored \ Takeoff(r)) \cup Addition(r)
  BY DEF Committed
<1> SUFFICES ASSUME NEW q \in DOMAIN runs, Open(q)', NEW s \in DOMAIN runs'[q].read, ~Untouched(runs'[q], s)
             PROVE  Covered(q, s)'
  BY <1>3 DEF CoverInv
<1>4. q # r BY <1>2
<1>5. Open(q) /\ runs'[q] = runs[q] BY <1>2, <1>3, <1>4
<1>6. Covered(q, s) BY <1>1, <1>5 DEF CoverInv
<1>7. s # "" BY <1>1, <1>5 DEF RunsInv, RunInv, Shape, SEASONS
<1>8. CASE s \notin DOMAIN runs[r].read
  <2>1. InSeason(stored', s) = InSeason(stored, s) BY <1>2, <1>7, <1>8
  <2>2. Clean(runs[q], s, stored) => Clean(runs'[q], s, stored') BY <1>5, <2>1, CleanStays
  <2>3. Raced(q, s) => Raced(q, s)' BY <1>4, CommitPairs
  <2>4. Behind(q, s) => Behind(q, s)' BY <1>4, <1>8, <2>1, CommitPairs
  <2>5. RankedRows(q, s)' = RankedRows(q, s) BY <1>5 DEF RankedRows, OfTable
  <2>6. QED BY <1>5, <1>6, <2>2, <2>3, <2>4, <2>5 DEF Covered
<1>9. CASE s \in DOMAIN runs[r].read
  <2>1. r \in runs[q].beside /\ runs[q].beside \subseteq DOMAIN runs /\ runs[r].beside \subseteq DOMAIN runs
    BY <1>1, <1>2, <1>3, <1>4, <1>5 DEF BesideInv, Others
  <2>2. Analysed(r, s)' BY <1>2, <1>3, <1>9
  <2>3. ~Locked(q, r, s)'
    <3> SUFFICES ASSUME Locked(q, r, s)' PROVE FALSE OBVIOUS
    <3>1. s \in runs[q].found \cap runs[r].found BY <1>3, <1>5 DEF Locked
    <3>2. ~Aiming(runs[q], s) /\ ~Aiming(runs[r], s) BY <1>3, <1>5 DEF Aiming, Untouched
    <3>3. Preceded(q, s) \/ Preceded(r, s) BY <1>1, <1>2, <1>3, <1>4, <1>5, <3>1, <3>2 DEF LockInv
    <3>4. PICK p \in runs[q].beside \cup runs[r].beside : Analysed(p, s) BY <3>3 DEF Preceded
    <3>5. p # q /\ p # r BY <1>2, <1>5, <3>4 DEF Analysed, Finished, Open
    <3>6. p \in DOMAIN runs /\ Analysed(p, s)' BY <1>2, <2>1, <3>4
    <3>7. QED BY <1>3, <1>5, <3>4, <3>5, <3>6 DEF Locked
  <2>4. \A k \in RatedKeys(r, s) : \E y \in runs[r].inserted : y.run = r /\ HasKey(y, s, k)
    <3>1. Analyses(runs[r], r) /\ Written(runs[r], s) BY <1>1, <1>3, <1>9 DEF RunsInv, RunInv, Written, Doing, WORKING
    <3>2. QED BY <1>3, <1>9, <3>1 DEF Analyses, RatedKeys, KeysOf
  <2>5. RatedKeys(r, s)' = RatedKeys(r, s) /\ RatedKeys(q, s)' = RatedKeys(q, s) BY <1>3, <1>5 DEF RatedKeys, OfTable
  <2>6. CASE ~Written(runs[q], s)
    <3>1. \A y \in runs[q].deleted \cup runs[q].targets : y.run # r
      <4>1. Takes(runs[q], FinishedRuns) BY <1>1 DEF RunsInv, RunInv
      <4>2. QED BY <1>2, <4>1 DEF Takes
    <3>2. ASSUME NEW k \in RatedKeys(r, s)
          PROVE  \E y \in stored' \ (runs[q].deleted \cup runs[q].targets) : HasKey(y, s, k)
      <4>1. PICK y \in runs[r].inserted : y.run = r /\ HasKey(y, s, k) BY <2>4
      <4>2. y \in stored' BY <1>3, <4>1 DEF Addition
      <4>3. QED BY <3>1, <4>1, <4>2
    <3>3. Behind(q, s)' BY <1>5, <2>1, <2>2, <2>3, <2>5, <3>2 DEF Behind
    <3>4. QED BY <1>5, <2>6, <3>3 DEF Covered
  <2>7. CASE Written(runs[q], s)
    <3>1. \A k \in RatedKeys(q, s) : \E z \in runs[q].inserted : HasKey(z, s, k)
      <4>1. Analyses(runs[q], q) /\ runs[q].at \notin {"finished", "failed"} BY <1>1, <1>5 DEF RunsInv, RunInv, Open
      <4>2. QED BY <1>5, <2>7, <4>1 DEF Analyses, RatedKeys, KeysOf
    <3>2. ASSUME NEW k \in RatedKeys(r, s) \intersect RatedKeys(q, s) PROVE FALSE
      <4>1. PICK y \in runs[r].inserted : HasKey(y, s, k) BY <2>4
      <4>2. PICK z \in runs[q].inserted : HasKey(z, s, k) BY <3>1
      <4>3. y.table = "ratings" /\ SameKey(y, z) BY <4>1, <4>2 DEF HasKey, SameKey
      <4>4. QED BY <1>1, <1>2, <1>3, <1>4, <1>5, <4>3 DEF KeysApart
    <3>3. RatedKeys(r, s)' \intersect RatedKeys(q, s)' = {} BY <2>5, <3>2
    <3>4. Raced(q, s)' BY <1>5, <2>1, <2>2, <2>3, <3>3 DEF Raced
    <3>5. QED BY <1>5, <2>7, <3>4 DEF Covered
  <2>8. QED BY <2>6, <2>7
<1>10. QED BY <1>8, <1>9

(* The seasons it has read are as its own rows say, unless it has raced; the others as before. *)
LEMMA CommitAnalysis ==
  ASSUME Inv, NEW r, Committed(r)
  PROVE  AnalysisIsOfOneRun'
<1>1. RunsInv /\ CoverInv /\ StampsInv /\ AnalysisIsOfOneRun BY DEF Inv
<1>2. /\ Open(r) /\ r \notin FinishedRuns
      /\ \A p \in DOMAIN runs : \A s : Analysed(p, s)' <=> Analysed(p, s) \/ (p = r /\ s \in DOMAIN runs[r].read)
      /\ \A s : s # "" /\ s \notin DOMAIN runs[r].read => InSeason(stored', s) = InSeason(stored, s)
  BY CommitFacts
<1>3. /\ DOMAIN runs' = DOMAIN runs /\ r \in DOMAIN runs /\ \A q \in DOMAIN runs \ {r} : runs'[q] = runs[q]
      /\ runs'[r].rows = runs[r].rows /\ runs'[r].stamp = Stamp
      /\ runs[r].at = "season" /\ stored' = (stored \ Takeoff(r)) \cup Addition(r)
  BY DEF Committed
<1> SUFFICES ASSUME NEW s \in SEASONS, NEW p \in DOMAIN runs, Latest(p, s)', ~Raced(p, s)'
             PROVE  InSeason(stored', s) = RankedRows(p, s)'
  BY <1>3 DEF AnalysisIsOfOneRun, InSeason
<1>4. s # "" BY DEF SEASONS
<1>5. RankedRows(p, s)' = RankedRows(p, s)
  <2>1. runs'[p].rows = runs[p].rows BY <1>3
  <2>2. QED BY <2>1 DEF RankedRows, OfTable
<1>6. CASE p = r
  <2>1. s \in DOMAIN runs[r].read BY <1>2, <1>6 DEF Latest, Analysed, FinishedRuns
  <2>2. ~Doing(runs[r], s) BY <1>3 DEF Doing, WORKING
  <2>3. ~Untouched(runs[r], s) /\ Written(runs[r], s) /\ Over(runs[r], s) BY <2>1, <2>2 DEF Untouched, Written, Over
  <2>4. Covered(r, s) BY <1>1, <1>2, <1>3, <2>1, <2>3 DEF CoverInv
  <2>5. ~Raced(r, s) BY <1>6, CommitPairs
  <2>6. Clean(runs[r], s, stored) /\ InSeason(Addition(r), s) = RankedRows(r, s)
    BY <2>3, <2>4, <2>5 DEF Covered, Addition
  <2>7. runs[r].targets = {} BY <1>1, <1>3 DEF RunsInv, RunInv, Shape
  <2>8. \A y \in InSeason(stored, s) : y \in Takeoff(r) BY <2>2, <2>6, <2>7 DEF Clean, Takeoff
  <2>9. InSeason(stored', s) = InSeason(Addition(r), s) BY <1>3, <2>8 DEF InSeason
  <2>10. QED BY <1>5, <1>6, <2>6, <2>9
<1>7. CASE p # r
  <2>1. Analysed(p, s) BY <1>2, <1>7 DEF Latest
  <2>2. s \notin DOMAIN runs[r].read
    <3> SUFFICES ASSUME s \in DOMAIN runs[r].read PROVE FALSE OBVIOUS
    <3>1. Analysed(r, s)' BY <1>2, <1>3
    <3>2. runs'[r].stamp <= runs'[p].stamp BY <1>3, <3>1 DEF Latest
    <3>3. p \in FinishedRuns BY <2>1 DEF Analysed, FinishedRuns
    <3>4. runs[p].stamp \in Nat /\ runs[p].stamp <= Cardinality(FinishedRuns) BY <1>1, <3>3 DEF StampsInv
    <3>5. Cardinality(FinishedRuns) \in Nat
      <4>1. FinishedRuns \subseteq DOMAIN runs BY DEF FinishedRuns
      <4>2. IsFiniteSet(FinishedRuns) BY <1>1, <4>1, FS_Subset DEF StampsInv
      <4>3. QED BY <4>2, FS_CardinalityType
    <3>6. Stamp = 1 + Cardinality(FinishedRuns) BY DEF Stamp, FinishedRuns
    <3>7. QED BY <1>3, <1>7, <3>2, <3>4, <3>5, <3>6
  <2>3. ~Raced(p, s) BY <1>7, CommitPairs
  <2>4. Latest(p, s)
    <3>1. \A q \in DOMAIN runs : Analysed(q, s) => q # r BY <1>2 DEF Analysed, FinishedRuns
    <3>2. \A q \in DOMAIN runs : Analysed(q, s) => runs'[q].stamp = runs[q].stamp BY <1>3, <3>1
    <3>3. QED BY <1>2, <1>3, <2>1, <3>2 DEF Latest
  <2>5. InSeason(stored, s) = RankedRows(p, s) BY <1>1, <2>3, <2>4 DEF AnalysisIsOfOneRun
  <2>6. QED BY <1>2, <1>4, <1>5, <2>2, <2>5
<1>8. QED BY <1>6, <1>7

(* A run that commits keeps all that has been said. *)
LEMMA CommitStep == ASSUME Inv, NEW r \in DOMAIN runs, Commit(r) PROVE Inv'
<1>1. CASE Abort(r)
  <2>1. Open(r) BY DEF Commit, Open
  <2>2. QED BY <1>1, <2>1, AbortStep
<1>2. CASE ~Abort(r)
  <2>1. Committed(r) BY <1>2, CommitCommits
  <2>2. RunsInv' /\ KeptInv(stored, FinishedRuns)' BY <2>1, CommitRuns, CommitKept
  <2>3. StampsInv' /\ BesideInv' /\ KeysApart' BY <2>1, CommitRest
  <2>4. AimInv' /\ LockInv' BY <2>1, CommitAims
  <2>5. CoverInv' /\ AnalysisIsOfOneRun' BY <2>1, CommitCover, CommitAnalysis
  <2>6. QED BY <2>2, <2>3, <2>4, <2>5 DEF Inv
<1>3. QED BY <1>1, <1>2

(* An ingestion touches neither the runs nor what they have stored. *)
LEMMA StandsStill == Inv /\ UNCHANGED <<stored, runs>> => Inv'
<1> SUFFICES ASSUME Inv, UNCHANGED <<stored, runs>> PROVE Inv' OBVIOUS
<1>1. stored' = stored /\ runs' = runs OBVIOUS
<1>2. /\ FinishedRuns' = FinishedRuns
      /\ \A q : (Open(q)' <=> Open(q)) /\ Others(q)' = Others(q) /\ \A s : Analysed(q, s)' <=> Analysed(q, s)
  BY <1>1 DEF FinishedRuns, Finished, Open, Others, Analysed
<1>3. RunsInv' /\ KeptInv(stored, FinishedRuns)'
  <2>1. RunsInv' BY <1>1, <1>2 DEF Inv, RunsInv
  <2>2. KeptInv(stored, FinishedRuns)' BY <1>1, <1>2 DEF Inv
  <2>3. QED BY <2>1, <2>2
<1>4. StampsInv' /\ BesideInv' /\ KeysApart'
  <2>1. StampsInv' BY <1>1, <1>2 DEF Inv, StampsInv
  <2>2. BesideInv' BY <1>1, <1>2 DEF Inv, BesideInv
  <2>3. KeysApart' BY <1>1, <1>2 DEF Inv, KeysApart, SameKey
  <2>4. QED BY <2>1, <2>2, <2>3
<1>5. \A q, s : Preceded(q, s)' <=> Preceded(q, s) BY <1>1, <1>2 DEF Preceded
<1>6. \A s : AuditsOf(s)' = AuditsOf(s) BY <1>1 DEF AuditsOf, OfTable, InSeason
<1>7. \A q, s : Aimed(q, s)' <=> Aimed(q, s)
  <2> SUFFICES ASSUME NEW q, NEW s PROVE Aimed(q, s)' <=> Aimed(q, s) OBVIOUS
  <2>1. Aiming(runs'[q], s) <=> Aiming(runs[q], s) BY <1>1
  <2>2. QED BY <1>1, <1>5, <1>6, <2>1 DEF Aimed
<1>8. AimInv' BY <1>1, <1>2, <1>7 DEF Inv, AimInv
<1>9. LockInv' BY <1>1, <1>2, <1>5 DEF Inv, LockInv, Aiming, Doing
<1>10. \A q, p, s : Locked(q, p, s)' <=> Locked(q, p, s) BY <1>1, <1>2 DEF Locked
<1>11. \A q, s : RatedKeys(q, s)' = RatedKeys(q, s) /\ RankedRows(q, s)' = RankedRows(q, s)
  BY <1>1 DEF RatedKeys, RankedRows, OfTable
<1>12. \A q, s : Raced(q, s)' <=> Raced(q, s) BY <1>1, <1>2, <1>10, <1>11 DEF Raced
<1>13. \A q, s : Behind(q, s)' <=> Behind(q, s) BY <1>1, <1>2, <1>10, <1>11 DEF Behind
<1>14. \A q, s : Covered(q, s)' <=> Covered(q, s)
  <2> SUFFICES ASSUME NEW q, NEW s PROVE Covered(q, s)' <=> Covered(q, s) OBVIOUS
  <2>1. Covered(q, s)' <=>
          IF ~Written(runs[q], s) THEN Clean(runs[q], s, stored) \/ Behind(q, s)'
          ELSE \/ /\ Clean(runs[q], s, stored)
                  /\ Over(runs[q], s) => InSeason(runs[q].inserted \cup runs[q].pending, s) = RankedRows(q, s)'
               \/ Raced(q, s)'
    BY <1>1 DEF Covered, InSeason
  <2>2. QED BY <1>11, <1>12, <1>13, <2>1 DEF Covered
<1>15. CoverInv' BY <1>1, <1>2, <1>14 DEF Inv, CoverInv, Untouched, Doing
<1>16. \A q, s : Latest(q, s)' <=> Latest(q, s) BY <1>1, <1>2 DEF Latest
<1>17. AnalysisIsOfOneRun' BY <1>1, <1>11, <1>12, <1>16 DEF Inv, AnalysisIsOfOneRun, InSeason
<1>18. QED BY <1>3, <1>4, <1>8, <1>9, <1>15, <1>17 DEF Inv

-----------------------------------------------------------------------------
(* The run that has analysed the database before: its seasons are analyses of its own. *)
LEMMA InitialRunFacts ==
  ASSUME NEW db
  PROVE  LET x == InitialRun(db)
         IN /\ IsRun(x) /\ x.at = "finished" /\ x.todo = <<>> /\ x.targets = {} /\ x.found = {} /\ x.inserted = {}
            /\ x.deleted = {} /\ x.pending = {} /\ x.beside = {} /\ x.stamp = 1
            /\ DOMAIN x.read \subseteq SEASONS /\ DOMAIN x.rows = DOMAIN x.read
            /\ \A s \in DOMAIN x.rows : IsAnalysis(x.rows[s], s, First)
<1> DEFINE x == InitialRun(db)
<1> DEFINE d == Databases[db]
           reading(s) == LET apps == {a \in d.appearances : a.season = s}
                             raw == CHOOSE f \in RawChoices({m \in d.metrics : m.season = s}, Appear(apps)) : TRUE
                         IN [primary |-> CHOOSE f \in PrimaryChoices(apps) : TRUE, minutes |-> TotalMinutes(apps),
                             players |-> [p \in Appear(apps) |-> d.players[p]], raw |-> raw,
                             registry |-> CHOOSE f \in RegistryChoices(raw) : TRUE, covered |-> FALSE,
                             competitions |-> d.competitions, teams |-> d.teams, end |-> d.ends[s]]
           A == {s \in SEASONS : \E a \in d.appearances : a.season = s}
           read == [s \in A |-> reading(s)]
           snapshots == d.snapshots
<1>1. x = [Idle EXCEPT !.at = "finished", !.snapshots = snapshots, !.read = read, !.stamp = 1,
                       !.rows = [s \in A |-> AnalysisRows(read[s], s, First)]]
  BY DEF InitialRun
<1>2. A \subseteq SEASONS /\ DOMAIN read = A
  <2> HIDE DEF reading
  <2>1. QED OBVIOUS
<1> HIDE DEF x, d, reading, A, read, snapshots
<1> DEFINE rows == [s \in A |-> AnalysisRows(read[s], s, First)]
<1>3. DOMAIN rows = A /\ \A s \in A : IsAnalysis(rows[s], s, First)
  <2>1. ASSUME NEW s \in A PROVE IsAnalysis(rows[s], s, First)
    <3>1. s \in SEASONS BY <1>2, <2>1
    <3>2. IsAnalysis(AnalysisRows(read[s], s, First), s, First) BY <3>1, AnalysisFacts
    <3>3. QED BY <2>1, <3>2
  <2>2. QED BY <2>1
<1> HIDE DEF rows
<1>4. x = [Idle EXCEPT !.at = "finished", !.snapshots = snapshots, !.read = read, !.stamp = 1, !.rows = rows]
  BY <1>1 DEF rows
<1> DEFINE none == <<>>
<1>5. Idle = [at |-> "idle", todo |-> none, clear |-> none, targets |-> {}, snapshots |-> {}, read |-> none, rows |-> none,
              found |-> {}, inserted |-> {}, deleted |-> {}, pending |-> {}, beside |-> {}, stamp |-> 0]
  BY DEF Idle
<1>6. none = <<>> OBVIOUS
<1> HIDE DEF none
<1>7. /\ IsRun(x) /\ x.at = "finished" /\ x.todo = none /\ x.targets = {} /\ x.found = {} /\ x.inserted = {}
      /\ x.deleted = {} /\ x.pending = {} /\ x.beside = {} /\ x.stamp = 1 /\ x.read = read /\ x.rows = rows
  BY <1>4, <1>5 DEF IsRun
<1>8. QED BY <1>2, <1>3, <1>6, <1>7 DEF x

(* Ranking an analysis leaves it one of the season and the run. *)
LEMMA RankedAnalysis ==
  ASSUME NEW rows, NEW s, NEW r, IsAnalysis(rows, s, r)
  PROVE  LET ratings == OfTable(rows, "ratings")
             all == (rows \ ratings) \cup Ranked(ratings)
         IN (\A y \in all : IsKept(y) /\ y.season = s /\ y.run = r) /\ Paired(all)
<1> DEFINE ratings == OfTable(rows, "ratings")
           all == (rows \ ratings) \cup Ranked(ratings)
<1>1. \A y \in rows : IsKept(y) /\ y.season = s /\ y.run = r BY DEF IsAnalysis
<1>2. \A y : y \in ratings <=> y \in rows /\ y.table = "ratings" BY DEF OfTable
<1> HIDE DEF ratings
<1>3. \A y \in ratings : IsKept(y) /\ y.table = "ratings" BY <1>1, <1>2
<1>4. /\ \A y \in Ranked(ratings) : IsKept(y) /\ y.table = "ratings"
              /\ \E z \in ratings : z.season = y.season /\ z.run = y.run
      /\ \A z \in ratings : \E y \in Ranked(ratings) :
              z.season = y.season /\ z.player = y.player /\ z.key = y.key /\ z.run = y.run
  BY <1>3, RankedFacts
<1>5. \A y \in all : IsKept(y) /\ y.season = s /\ y.run = r BY <1>1, <1>2, <1>4
<1>6. ASSUME NEW y \in all, y.table = "audits" PROVE \E w \in all : Rates(w, y)
  <2>1. y \in rows BY <1>4, <1>6
  <2>2. PICK z \in rows : Rates(z, y) BY <1>6, <2>1 DEF IsAnalysis, Paired
  <2>3. z \in ratings BY <1>2, <2>2 DEF Rates
  <2>4. PICK w \in Ranked(ratings) : z.season = w.season /\ z.player = w.player /\ z.key = w.key /\ z.run = w.run
    BY <1>4, <2>3
  <2>5. w.table = "ratings" BY <1>4
  <2>6. Rates(w, y) BY <2>2, <2>4, <2>5 DEF Rates
  <2>7. QED BY <2>6
<1>7. QED BY <1>5, <1>6 DEF Paired, ratings

(* An idle run is in order. *)
LEMMA IdleFacts ==
  ASSUME NEW r, NEW kept, NEW done
  PROVE  RunInv(Idle, r, kept, done) /\ Idle.at = "idle" /\ Idle.beside = {} /\ Idle.inserted = {}
<1> DEFINE x == Idle
           none == <<>>
<1>1. x = [at |-> "idle", todo |-> none, clear |-> none, targets |-> {}, snapshots |-> {}, read |-> none, rows |-> none,
           found |-> {}, inserted |-> {}, deleted |-> {}, pending |-> {}, beside |-> {}, stamp |-> 0]
  BY DEF Idle
<1>2. DOMAIN none = {} /\ ToSet(none) = {} /\ none \in TODOS BY DEF ToSet, TODOS
<1> HIDE DEF x, none
<1>3. /\ IsRun(x) /\ x.at = "idle" /\ x.todo = none /\ x.targets = {} /\ x.found = {} /\ x.inserted = {} /\ x.deleted = {}
      /\ x.pending = {} /\ x.read = none /\ x.rows = none /\ x.beside = {}
  BY <1>1 DEF IsRun
<1>4. x.at \in STAGES /\ x.at \notin WORKING /\ x.at # "clear" BY <1>3 DEF STAGES, WORKING
<1>5. Shape(x) BY <1>2, <1>3, <1>4 DEF Shape
<1>6. Takes(x, done) /\ Writes(x, r, done) /\ TakesAudits(x, kept) BY <1>3 DEF Takes, Writes, TakesAudits, Paired
<1>7. Analyses(x, r) BY <1>2, <1>3, <1>4 DEF Analyses
<1>8. QED BY <1>3, <1>5, <1>6, <1>7 DEF RunInv, x

(* A behaviour starts with what one run has analysed, or with nothing. *)
LEMMA InitInv == Init => Inv
<1> SUFFICES ASSUME Init PROVE Inv OBVIOUS
<1>1. PICK scenario \in Scenarios :
        LET before == IF scenario.analysed THEN {First} ELSE {}
        IN /\ runs = [r \in before \union scenario.runs |-> IF r = First THEN InitialRun(facts) ELSE Idle]
           /\ stored = UNION {Definitions(r) \union UNION {RankedRows(r, s) : s \in DOMAIN runs[r].rows} : r \in before}
  BY DEF Init
<1> DEFINE before == IF scenario.analysed THEN {First} ELSE {}
           rowsOf(r) == Definitions(r) \union UNION {RankedRows(r, s) : s \in DOMAIN runs[r].rows}
<1>2. /\ before \subseteq {First} /\ DOMAIN runs = before \cup scenario.runs
      /\ \A r \in DOMAIN runs : runs[r] = IF r = First THEN InitialRun(facts) ELSE Idle
  BY <1>1
<1>3. \A y : y \in stored <=>
        \E r \in before : y \in Definitions(r) \/ \E s \in DOMAIN runs[r].rows : y \in RankedRows(r, s)
  <2>1. stored = UNION {rowsOf(r) : r \in before} BY <1>1
  <2>2. \A r, y : y \in rowsOf(r) <=> y \in Definitions(r) \/ \E s \in DOMAIN runs[r].rows : y \in RankedRows(r, s)
    OBVIOUS
  <2> HIDE DEF rowsOf, before
  <2>3. \A y : y \in stored <=> \E r \in before : y \in rowsOf(r) BY <2>1
  <2>4. QED BY <2>2, <2>3, Zenon
<1>4. IsFiniteSet(scenario.runs) /\ First \notin scenario.runs BY ScenariosAssumption
<1> HIDE DEF before
<1> DEFINE x == InitialRun(facts)
<1>5. /\ IsRun(x) /\ x.at = "finished" /\ x.todo = <<>> /\ x.targets = {} /\ x.found = {} /\ x.inserted = {}
      /\ x.deleted = {} /\ x.pending = {} /\ x.beside = {} /\ x.stamp = 1
      /\ DOMAIN x.read \subseteq SEASONS /\ DOMAIN x.rows = DOMAIN x.read
      /\ \A s \in DOMAIN x.rows : IsAnalysis(x.rows[s], s, First)
  BY InitialRunFacts
<1> HIDE DEF x
<1>6. \A r \in DOMAIN runs : (r \in before <=> r = First) /\ runs[r] = IF r \in before THEN x ELSE Idle
  BY <1>2, <1>4 DEF x
<1>7. Idle.at = "idle" /\ Idle.beside = {} /\ Idle.inserted = {} BY IdleFacts
<1>8. \A r \in DOMAIN runs : ~Open(r) /\ (Finished(r) <=> r \in before) /\ runs[r].beside = {}
  BY <1>5, <1>6, <1>7 DEF Open, Finished
<1>9. FinishedRuns = before BY <1>2, <1>8 DEF FinishedRuns
<1>10. RunInv(x, First, stored, FinishedRuns)
  <2>1. x.at \in STAGES /\ x.at \notin WORKING /\ x.at # "clear" BY <1>5 DEF STAGES, WORKING
  <2>2. ToSet(x.todo) = {} /\ x.todo \in TODOS BY <1>5 DEF ToSet, TODOS
  <2>3. Shape(x) BY <1>5, <2>1, <2>2 DEF Shape
  <2>4. Takes(x, FinishedRuns) /\ Writes(x, First, FinishedRuns) /\ TakesAudits(x, stored)
    BY <1>5 DEF Takes, Writes, TakesAudits, Paired
  <2>5. Analyses(x, First) BY <1>5, <2>1 DEF Analyses
  <2>6. QED BY <2>3, <2>4, <2>5 DEF RunInv
<1>11. RunsInv
  <2> SUFFICES ASSUME NEW r \in DOMAIN runs PROVE RunInv(runs[r], r, stored, FinishedRuns) BY DEF RunsInv
  <2>1. CASE r \in before BY <1>6, <1>10, <2>1
  <2>2. CASE r \notin before
    <3>1. runs[r] = Idle BY <1>6, <2>2
    <3>2. QED BY <3>1, IdleFacts
  <2>3. QED BY <2>1, <2>2
<1>12. ASSUME NEW r \in before, NEW s \in DOMAIN runs[r].rows
       PROVE  (\A y \in RankedRows(r, s) : IsKept(y) /\ y.season = s /\ y.run = r) /\ Paired(RankedRows(r, s))
  <2>1. r = First /\ r \in DOMAIN runs /\ runs[r] = x BY <1>2, <1>6
  <2>2. IsAnalysis(runs[r].rows[s], s, r) BY <1>5, <2>1
  <2>3. QED BY <2>2, RankedAnalysis DEF RankedRows
<1>13. KeptInv(stored, FinishedRuns)
  <2>1. \A y \in stored : IsKept(y) /\ y.run \in FinishedRuns
    <3> SUFFICES ASSUME NEW y \in stored PROVE IsKept(y) /\ y.run \in FinishedRuns OBVIOUS
    <3>1. PICK r \in before : y \in Definitions(r) \/ \E s \in DOMAIN runs[r].rows : y \in RankedRows(r, s) BY <1>3
    <3>2. CASE y \in Definitions(r) BY <1>9, <3>2, DefinitionFacts
    <3>3. CASE \E s \in DOMAIN runs[r].rows : y \in RankedRows(r, s) BY <1>9, <1>12, <3>3
    <3>4. QED BY <3>1, <3>2, <3>3
  <2>2. ASSUME NEW y \in stored, y.table = "audits" PROVE \E z \in stored : Rates(z, y)
    <3>1. PICK r \in before : y \in Definitions(r) \/ \E s \in DOMAIN runs[r].rows : y \in RankedRows(r, s) BY <1>3
    <3>2. y \notin Definitions(r) BY <2>2, DefinitionFacts
    <3>3. PICK s \in DOMAIN runs[r].rows : y \in RankedRows(r, s) BY <3>1, <3>2
    <3>4. PICK z \in RankedRows(r, s) : Rates(z, y) BY <1>12, <2>2, <3>3 DEF Paired
    <3>5. QED BY <1>3, <3>3, <3>4
  <2>3. QED BY <2>1, <2>2 DEF KeptInv, Paired
<1>14. StampsInv
  <2>1. IsFiniteSet({First}) /\ IsFiniteSet({}) BY FS_Singleton, FS_EmptySet
  <2>2. IsFiniteSet(before) BY <1>2, <2>1, FS_Subset
  <2>3. IsFiniteSet(DOMAIN runs)
    <3> DEFINE others == scenario.runs
    <3>1. IsFiniteSet(others) BY <1>4
    <3>2. DOMAIN runs = before \cup others BY <1>2
    <3> HIDE DEF others
    <3>3. IsFiniteSet(before \cup others) BY <2>2, <3>1, FS_Union
    <3>4. QED BY <3>2, <3>3
  <2>4. ASSUME NEW r \in FinishedRuns PROVE runs[r].stamp \in Nat /\ runs[r].stamp <= Cardinality(FinishedRuns)
    <3>1. r = First /\ r \in DOMAIN runs /\ runs[r] = x BY <1>2, <1>6, <1>9, <2>4
    <3>2. FinishedRuns = {First} BY <1>2, <1>9, <2>4
    <3>3. Cardinality(FinishedRuns) = 1 BY <3>2, FS_Singleton
    <3>4. QED BY <1>5, <3>1, <3>3
  <2>5. QED BY <2>3, <2>4 DEF StampsInv
<1>15. BesideInv /\ KeysApart /\ AimInv /\ LockInv /\ CoverInv
  BY <1>8 DEF BesideInv, KeysApart, AimInv, LockInv, CoverInv
<1>16. AnalysisIsOfOneRun
  <2> SUFFICES ASSUME NEW s \in SEASONS, NEW r \in DOMAIN runs, Latest(r, s)
               PROVE  InSeason(stored, s) = RankedRows(r, s)
    BY DEF AnalysisIsOfOneRun
  <2>1. Finished(r) /\ s \in DOMAIN runs[r].read BY DEF Latest, Analysed
  <2>2. r \in before /\ r = First /\ runs[r] = x /\ s \in DOMAIN runs[r].rows BY <1>5, <1>6, <1>8, <2>1
  <2>3. \A y \in RankedRows(r, s) : y \in stored /\ y.season = s BY <1>3, <1>12, <2>2
  <2>4. ASSUME NEW y \in stored, y.season = s PROVE y \in RankedRows(r, s)
    <3>1. PICK q \in before : y \in Definitions(q) \/ \E z \in DOMAIN runs[q].rows : y \in RankedRows(q, z) BY <1>3
    <3>2. q = r BY <1>2, <2>2
    <3>3. y \notin Definitions(q)
      <4>1. s # "" BY DEF SEASONS
      <4>2. QED BY <2>4, <4>1, DefinitionFacts
    <3>4. PICK z \in DOMAIN runs[q].rows : y \in RankedRows(q, z) BY <3>1, <3>3
    <3>5. y.season = z BY <1>12, <3>4
    <3>6. QED BY <2>4, <3>2, <3>4, <3>5
  <2>5. QED BY <2>3, <2>4 DEF InSeason
<1>17. QED BY <1>11, <1>13, <1>14, <1>15, <1>16 DEF Inv

(* Every step keeps it. *)
LEMMA NextInv == Inv /\ [Next]_vars => Inv'
<1> SUFFICES ASSUME Inv, [Next]_vars PROVE Inv' OBVIOUS
<1>1. ASSUME NEW r \in DOMAIN runs, Begin(r) PROVE Inv' BY <1>1, BeginStep
<1>2. ASSUME NEW r \in DOMAIN runs, ReadAppearances(r) PROVE Inv' BY <1>2, ReadAppearancesStep
<1>3. ASSUME NEW r \in DOMAIN runs, ReadRatingIds(r) PROVE Inv' BY <1>3, ReadRatingIdsStep
<1>4. ASSUME NEW r \in DOMAIN runs, FinishDelete(r) PROVE Inv' BY <1>4, FinishDeleteStep
<1>5. ASSUME NEW r \in DOMAIN runs, StartDelete(r) PROVE Inv' BY <1>5, StartDeleteStep
<1>6. ASSUME NEW r \in DOMAIN runs, ReadPlayers(r) PROVE Inv' BY <1>6, ReadPlayersStep
<1>7. ASSUME NEW r \in DOMAIN runs, ReadRaw(r) PROVE Inv' BY <1>7, ReadRawStep
<1>8. ASSUME NEW r \in DOMAIN runs, Analyse(r) PROVE Inv' BY <1>8, AnalyseStep
<1>9. ASSUME NEW r \in DOMAIN runs, FlushRatings(r) PROVE Inv' BY <1>9, FlushRatingsStep
<1>10. ASSUME NEW r \in DOMAIN runs, AssignRanks(r) PROVE Inv' BY <1>10, AssignRanksStep
<1>11. ASSUME NEW r \in DOMAIN runs, Commit(r) PROVE Inv' BY <1>11, CommitStep
<1>12. ASSUME NEW r \in DOMAIN runs, Crash(r) PROVE Inv' BY <1>12, AbortStep DEF Crash
<1>13. CASE Ingest BY <1>13, StandsStill DEF Ingest
<1>14. CASE UNCHANGED vars BY <1>14, StandsStill DEF vars
<1>15. QED
  BY <1>1, <1>2, <1>3, <1>4, <1>5, <1>6, <1>7, <1>8, <1>9, <1>10, <1>11, <1>12, <1>13, <1>14 DEF Next

(* What a run has read, deleted and written agrees with what the others have, *)
(* at every moment, for any number of runs and ingestions.                    *)
THEOREM InvHolds == Spec => []Inv
<1>1. QED BY InitInv, NextInv, PTL DEF Spec

(* Whatever overlapped, failed or was published in between, the store holds for a season *)
(* exactly the rows of the last run that finished it, unless that run has raced another. *)
THEOREM AnalysisHolds == Spec => []AnalysisIsOfOneRun
<1>1. Inv => AnalysisIsOfOneRun BY DEF Inv
<1>2. QED BY <1>1, InvHolds, PTL

-----------------------------------------------------------------------------
(* Finite sets: induction on their parts, and the folds, sums and choices over them. *)

(* Induction on the parts of a finite set, one chosen element at a time. *)
LEMMA Parts ==
  ASSUME NEW S, IsFiniteSet(S), NEW T, {} \in T,
         \A s \in SUBSET S : s # {} /\ s \ {CHOOSE x \in s : TRUE} \in T => s \in T
  PROVE  SUBSET S \subseteq T
<1> DEFINE one(s) == CHOOSE x \in s : TRUE
           N == {n \in Nat : \A s \in SUBSET S : Cardinality(s) = n => s \in T}
<1>1. \A s \in SUBSET S : IsFiniteSet(s) /\ Cardinality(s) \in Nat BY FS_Subset, FS_CardinalityType
<1>2. \A s \in SUBSET S : s # {} => one(s) \in s OBVIOUS
<1> HIDE DEF one
<1>3. 0 \in N BY <1>1, FS_EmptySet
<1>4. ASSUME NEW n \in Nat, n \in N PROVE n + 1 \in N
  <2> SUFFICES ASSUME NEW s \in SUBSET S, Cardinality(s) = n + 1 PROVE s \in T OBVIOUS
  <2>1. s # {} BY FS_EmptySet
  <2>5. IsFiniteSet(s) /\ one(s) \in s BY <1>1, <1>2, <2>1
  <2>6. Cardinality(s \ {one(s)}) = Cardinality(s) - 1 BY <2>5, FS_RemoveElement
  <2>2. Cardinality(s \ {one(s)}) = n BY <2>6
  <2>3. s \ {one(s)} \in T BY <1>4, <2>2
  <2>4. QED BY <2>1, <2>3 DEF one
<1> HIDE DEF N
<1>5. Nat \subseteq N BY <1>3, <1>4, Inductive
<1>6. QED BY <1>1, <1>5 DEF N

(* The recursive function of a fold; h[<<x, v>>] is what the element x makes of v. *)
IsFold(g, S, base, h) ==
  g = [s \in SUBSET S |-> IF s = {} THEN base ELSE h[<<CHOOSE x \in s : TRUE, g[s \ {CHOOSE x \in s : TRUE}]>>]]

(* Every finite set has one. *)
LEMMA FoldExists == ASSUME NEW S, IsFiniteSet(S), NEW base, NEW h PROVE \E g : IsFold(g, S, base, h)
<1> DEFINE one(s) == CHOOSE x \in s : TRUE
           next(g, s) == h[<<one(s), g[s \ {one(s)}]>>]
           upTo(n) == {s \in SUBSET S : Cardinality(s) <= n}
           is(g, n) == g = [s \in upTo(n) |-> IF s = {} THEN base ELSE next(g, s)]
           N == {n \in Nat : \E g : is(g, n)}
<1>1. \A s \in SUBSET S : IsFiniteSet(s) /\ Cardinality(s) \in Nat BY FS_Subset, FS_CardinalityType
<1>2. \A s \in SUBSET S : s # {} => one(s) \in s OBVIOUS
<1>3. \A s \in SUBSET S : s # {} => s \ {one(s)} \in SUBSET S /\ Cardinality(s \ {one(s)}) = Cardinality(s) - 1
  BY <1>1, <1>2, FS_RemoveElement
<1> HIDE DEF one
<1>4. 0 \in N
  <2>1. \A s \in upTo(0) : s = {} BY <1>1, FS_EmptySet
  <2>2. is([s \in upTo(0) |-> base], 0)
    <3> HIDE DEF upTo, next
    <3>1. QED BY <2>1
  <2>3. QED BY <2>2
<1>5. ASSUME NEW n \in Nat, n \in N PROVE n + 1 \in N
  <2>1. PICK g : is(g, n) BY <1>5
  <2> DEFINE f == [s \in upTo(n + 1) |-> IF s \in upTo(n) THEN g[s] ELSE next(g, s)]
  <2>2. \A s \in upTo(n + 1) : f[s] = IF s = {} THEN base ELSE next(f, s)
    <3> TAKE s \in upTo(n + 1)
    <3>1. s # {} => s \ {one(s)} \in upTo(n) /\ s \ {one(s)} \in upTo(n + 1) BY <1>1, <1>3
    <3>2. s # {} => f[s \ {one(s)}] = g[s \ {one(s)}] BY <3>1
    <3>3. s # {} => next(f, s) = next(g, s) BY <3>2
    <3>4. CASE s \in upTo(n)
      <4>1. f[s] = g[s] BY <3>4
      <4>2. g[s] = IF s = {} THEN base ELSE next(g, s) BY <2>1, <3>4
      <4> HIDE DEF f, upTo, next
      <4>3. QED BY <3>3, <4>1, <4>2
    <3>5. CASE s \notin upTo(n)
      <4>1. s # {} BY <3>5, FS_EmptySet
      <4>2. f[s] = next(g, s) BY <3>5
      <4> HIDE DEF f, upTo, next
      <4>3. QED BY <3>3, <4>1, <4>2
    <3>6. QED BY <3>4, <3>5
  <2>3. is(f, n + 1)
    <3>1. f = [s \in upTo(n + 1) |-> f[s]] OBVIOUS
    <3> HIDE DEF f, upTo, next
    <3>2. QED BY <2>2, <3>1
  <2>4. \E e : is(e, n + 1) BY <2>3
  <2> HIDE DEF is
  <2>5. QED BY <2>4
<1> HIDE DEF N
<1>6. Cardinality(S) \in N BY <1>1, <1>4, <1>5, Inductive
<1>7. PICK g : is(g, Cardinality(S)) BY <1>6 DEF N
<1>8. upTo(Cardinality(S)) = SUBSET S BY FS_Subset
<1>9. g = [s \in SUBSET S |-> IF s = {} THEN base ELSE next(g, s)] BY <1>7, <1>8
<1>10. QED BY <1>9 DEF IsFold, one

(* A finite set that is not empty has an element of the most. *)
LEMMA MostIs ==
  ASSUME NEW S, IsFiniteSet(S), S # {}, NEW f, \A a \in S : f[a] \in Int
  PROVE  \E a \in S : \A b \in S : f[b] <= f[a]
<1> DEFINE top(s) == \E a \in s : \A b \in s : f[b] <= f[a]
           one(s) == CHOOSE x \in s : TRUE
           T == {s \in SUBSET S : s = {} \/ top(s)}
<1>1. {} \in T
  <2>1. {} \in SUBSET S OBVIOUS
  <2>2. QED BY <2>1
<1>2. ASSUME NEW s \in SUBSET S, s # {}, s \ {one(s)} \in T PROVE s \in T
  <2>1. PICK x : x = one(s) OBVIOUS
  <2>2. x \in s /\ f[x] \in Int /\ \A b \in s : f[b] \in Int BY <1>2, <2>1
  <2>3. s \ {x} = {} \/ top(s \ {x}) BY <1>2, <2>1
  <2> HIDE DEF one
  <2>4. CASE s \ {x} = {}
    <3>1. \A b \in s : b = x BY <2>4
    <3>2. f[x] <= f[x] BY <2>2
    <3>3. top(s) BY <2>2, <3>1, <3>2
    <3>4. QED BY <3>3
  <2>5. CASE top(s \ {x})
    <3>1. PICK a \in s \ {x} : \A b \in s \ {x} : f[b] <= f[a] BY <2>5
    <3>2. f[a] \in Int BY <2>2
    <3>3. CASE f[x] <= f[a]
      <4>1. \A b \in s : f[b] <= f[a] BY <3>1, <3>3
      <4>2. top(s) BY <4>1
      <4>3. QED BY <4>2
    <3>4. CASE f[a] <= f[x]
      <4>1. ASSUME NEW b \in s PROVE f[b] <= f[x]
        <5>1. CASE b = x BY <2>2, <5>1
        <5>2. CASE b # x BY <2>2, <3>1, <3>2, <3>4, <5>2
        <5>3. QED BY <5>1, <5>2
      <4>2. top(s) BY <2>2, <4>1
      <4>3. QED BY <4>2
    <3>5. QED BY <2>2, <3>2, <3>3, <3>4
  <2>6. QED BY <2>3, <2>4, <2>5
<1>3. \A s \in SUBSET S : s # {} /\ s \ {CHOOSE x \in s : TRUE} \in T => s \in T BY <1>2
<1>4. S \in SUBSET S OBVIOUS
<1>5. S \in T
  <2> HIDE DEF T
  <2>1. SUBSET S \subseteq T BY <1>1, <1>3, Parts
  <2>2. QED BY <1>4, <2>1
<1>6. QED BY <1>5

(* The sums of the parts of S, each element x of which weighs w[x]. *)
Sums(g, w, S) ==
  g = [s \in SUBSET S |-> IF s = {} THEN 0 ELSE w[CHOOSE x \in s : TRUE] + g[s \ {CHOOSE x \in s : TRUE}]]

(* Such sums exist. *)
LEMMA SumsExist == ASSUME NEW S, IsFiniteSet(S), NEW w \in [S -> Int] PROVE \E g : Sums(g, w, S)
<1> DEFINE one(s) == CHOOSE x \in s : TRUE
           h == [q \in S \X Int |-> w[q[1]] + q[2]]
<1>1. PICK g : IsFold(g, S, 0, h) BY FoldExists
<1>2. \A s \in SUBSET S : g[s] = IF s = {} THEN 0 ELSE h[<<one(s), g[s \ {one(s)}]>>] BY <1>1 DEF IsFold
<1> DEFINE T == {s \in SUBSET S : g[s] \in Int}
<1>3. \A s \in SUBSET S : s # {} => one(s) \in S OBVIOUS
<1>4. \A x \in S : \A v \in Int : h[<<x, v>>] = w[x] + v /\ w[x] + v \in Int OBVIOUS
<1> HIDE DEF one, h
<1>5. {} \in T
  <2>1. {} \in SUBSET S OBVIOUS
  <2>2. g[{}] = 0 BY <1>2, <2>1
  <2>3. QED BY <2>1, <2>2
<1>6. ASSUME NEW s \in SUBSET S, s # {}, s \ {one(s)} \in T PROVE s \in T
  <2>1. g[s] = h[<<one(s), g[s \ {one(s)}]>>] /\ one(s) \in S /\ g[s \ {one(s)}] \in Int BY <1>2, <1>3, <1>6
  <2> HIDE DEF T
  <2>2. g[s] \in Int BY <1>4, <2>1
  <2>3. QED BY <2>2 DEF T
<1>7. SUBSET S \subseteq T
  <2> HIDE DEF T
  <2>1. QED BY <1>5, <1>6, Parts DEF one
<1>8. \A s \in SUBSET S : g[s] = IF s = {} THEN 0 ELSE w[one(s)] + g[s \ {one(s)}]
  BY <1>2, <1>3, <1>4, <1>7
<1>9. g = [s \in SUBSET S |-> g[s]] BY <1>1 DEF IsFold
<1>10. g = [s \in SUBSET S |-> IF s = {} THEN 0 ELSE w[one(s)] + g[s \ {one(s)}]] BY <1>8, <1>9
<1>11. QED BY <1>10 DEF Sums, one

(* They are numbers, and none is negative when no weight is. *)
LEMMA SumsAre ==
  ASSUME NEW S, IsFiniteSet(S), NEW w \in [S -> Int], NEW g, Sums(g, w, S)
  PROVE  /\ \A s \in SUBSET S : g[s] \in Int
         /\ (\A x \in S : w[x] >= 0) => \A s \in SUBSET S : g[s] >= 0
<1> DEFINE one(s) == CHOOSE x \in s : TRUE
           T == {s \in SUBSET S : g[s] \in Int}
           U == {s \in T : g[s] >= 0}
<1>1. \A s \in SUBSET S : g[s] = IF s = {} THEN 0 ELSE w[one(s)] + g[s \ {one(s)}] BY DEF Sums
<1>2. \A s \in SUBSET S : s # {} => one(s) \in S OBVIOUS
<1> HIDE DEF one
<1>3. SUBSET S \subseteq T
  <2>1. {} \in T
    <3>1. {} \in SUBSET S OBVIOUS
    <3>2. g[{}] = 0 BY <1>1, <3>1
    <3>3. QED BY <3>1, <3>2
  <2>2. ASSUME NEW s \in SUBSET S, s # {}, s \ {one(s)} \in T PROVE s \in T BY <1>1, <1>2, <2>2
  <2> HIDE DEF T
  <2>3. QED BY <2>1, <2>2, Parts DEF one
<1>4. ASSUME \A x \in S : w[x] >= 0 PROVE SUBSET S \subseteq U
  <2>1. {} \in U
    <3>1. {} \in SUBSET S OBVIOUS
    <3>2. g[{}] = 0 BY <1>1, <3>1
    <3>3. QED BY <3>1, <3>2
  <2>2. ASSUME NEW s \in SUBSET S, s # {}, s \ {one(s)} \in U PROVE s \in U
    <3>1. g[s] = w[one(s)] + g[s \ {one(s)}] /\ w[one(s)] \in Int /\ w[one(s)] >= 0 BY <1>1, <1>2, <1>4, <2>2
    <3>2. QED BY <2>2, <3>1
  <2> HIDE DEF U
  <2>3. QED BY <2>1, <2>2, Parts DEF one
<1>5. QED BY <1>3, <1>4

(* They grow with the weights. *)
LEMMA SumsGrow ==
  ASSUME NEW S, IsFiniteSet(S), NEW w \in [S -> Int], NEW v \in [S -> Int], NEW g, NEW f, Sums(g, w, S), Sums(f, v, S),
         \A x \in S : w[x] <= v[x]
  PROVE  \A s \in SUBSET S : g[s] <= f[s]
<1> DEFINE one(s) == CHOOSE x \in s : TRUE
           T == {s \in SUBSET S : g[s] <= f[s]}
<1>1. \A s \in SUBSET S : /\ g[s] = IF s = {} THEN 0 ELSE w[one(s)] + g[s \ {one(s)}]
                          /\ f[s] = IF s = {} THEN 0 ELSE v[one(s)] + f[s \ {one(s)}]
  BY DEF Sums
<1>2. \A s \in SUBSET S : s # {} => one(s) \in S OBVIOUS
<1>3. \A s \in SUBSET S : g[s] \in Int /\ f[s] \in Int BY SumsAre
<1> HIDE DEF one
<1>4. {} \in T
  <2>1. {} \in SUBSET S OBVIOUS
  <2>2. g[{}] = 0 /\ f[{}] = 0 BY <1>1, <2>1
  <2>3. QED BY <2>1, <2>2
<1>5. ASSUME NEW s \in SUBSET S, s # {}, s \ {one(s)} \in T PROVE s \in T
  <2>1. /\ g[s] = w[one(s)] + g[s \ {one(s)}] /\ f[s] = v[one(s)] + f[s \ {one(s)}]
        /\ w[one(s)] \in Int /\ v[one(s)] \in Int /\ w[one(s)] <= v[one(s)]
    BY <1>1, <1>2, <1>5
  <2>2. g[s \ {one(s)}] \in Int /\ f[s \ {one(s)}] \in Int /\ g[s \ {one(s)}] <= f[s \ {one(s)}] BY <1>3, <1>5
  <2>3. QED BY <2>1, <2>2
<1> HIDE DEF T
<1>6. SUBSET S \subseteq T BY <1>4, <1>5, Parts DEF one
<1>7. QED BY <1>6 DEF T

(* The minutes of a player. *)
LEMMA PlayedSums ==
  ASSUME NEW S, IsFiniteSet(S), \A a \in S : Played(a) \in Int
  PROVE  \E g : Sums(g, [a \in S |-> Played(a)], S) /\ MapThenSumSet(Played, S) = g[S]
<1> DEFINE w == [a \in S |-> Played(a)]
           Fold(g) == g = [s \in SUBSET S |-> IF s = {} THEN 0 ELSE LET x == CHOOSE x \in s : TRUE IN Played(x) + g[s \ {x}]]
           g == CHOOSE e : Fold(e)
<1>1. MapThenSumSet(Played, S) = g[S] BY Zenon DEF MapThenSumSet, MapThenFoldSet
<1>2. \A e : Fold(e) <=> Sums(e, w, S)
  <2> TAKE e
  <2>1. \A s \in SUBSET S : s # {} => w[CHOOSE x \in s : TRUE] = Played(CHOOSE x \in s : TRUE)
    <3>1. \A s \in SUBSET S : s # {} => (CHOOSE x \in s : TRUE) \in S OBVIOUS
    <3>2. QED BY <3>1
  <2> HIDE DEF w
  <2>2. QED BY <2>1 DEF Sums
<1>3. \E e : Sums(e, w, S) BY SumsExist
<1> HIDE DEF w, Fold
<1>4. Sums(g, w, S) BY <1>2, <1>3
<1>5. QED BY <1>1, <1>4 DEF w

(* The functions of some keys that choose one of each key's options. *)
Chooses(f, options, keys) == DOMAIN f = keys /\ \A k \in keys : f[k] \in options[k]

(* What selections are: such functions, and some when every key has an option. *)
LEMMA SelectionsFacts ==
  ASSUME NEW options, IsFiniteSet(DOMAIN options)
  PROVE  /\ \A f \in Selections(options) : Chooses(f, options, DOMAIN options)
         /\ (\A k \in DOMAIN options : options[k] # {}) => Selections(options) # {}
<1> DEFINE S == DOMAIN options
           one(s) == CHOOSE x \in s : TRUE
           all == UNION {options[k] : k \in S}
           part == UNION {[t -> all] : t \in SUBSET S}
           op(k, chosen) == UNION {{With(f, k, v) : v \in options[k]} : f \in chosen}
           h == [q \in S \X SUBSET part |-> op(q[1], q[2])]
           Fold(g) == g = [s \in SUBSET S |-> IF s = {} THEN {<<>>} ELSE LET x == CHOOSE x \in s : TRUE IN op(x, g[s \ {x}])]
           g == CHOOSE e : Fold(e)
<1>1. Selections(options) = g[S] BY Zenon DEF Selections, FoldSet, MapThenFoldSet
<1>2. \A s \in SUBSET S : s # {} => one(s) \in s OBVIOUS
<1>3. {<<>>} \in SUBSET part
  <2>1. <<>> \in [{} -> all] OBVIOUS
  <2>2. {} \in SUBSET S OBVIOUS
  <2> HIDE DEF all
  <2>3. QED BY <2>1, <2>2
<1>4. ASSUME NEW k \in S, NEW chosen \in SUBSET part PROVE op(k, chosen) \in SUBSET part
  <2> SUFFICES ASSUME NEW f \in chosen, NEW v \in options[k] PROVE With(f, k, v) \in part OBVIOUS
  <2>1. PICK t \in SUBSET S : f \in [t -> all] OBVIOUS
  <2>2. v \in all OBVIOUS
  <2> HIDE DEF all
  <2>3. With(f, k, v) \in [t \cup {k} -> all] BY <2>1, <2>2 DEF With
  <2>4. t \cup {k} \in SUBSET S BY <2>1
  <2>5. QED BY <2>3, <2>4
<1> DEFINE V == SUBSET part
<1>5. \A k \in S : \A chosen \in V : h[<<k, chosen>>] = op(k, chosen)
  <2> HIDE DEF part, op
  <2>1. QED OBVIOUS
<1>6. PICK e : IsFold(e, S, {<<>>}, h)
  <2> HIDE DEF h
  <2>1. QED BY FoldExists
<1>7. \A s \in SUBSET S : e[s] = IF s = {} THEN {<<>>} ELSE h[<<one(s), e[s \ {one(s)}]>>] BY <1>6, Zenon DEF IsFold
<1> DEFINE T == {s \in SUBSET S : e[s] \in V}
<1> HIDE DEF one, h, op, part, V
<1>8. SUBSET S \subseteq T
  <2>1. {} \in T
    <3>1. {} \in SUBSET S OBVIOUS
    <3>2. e[{}] = {<<>>} BY <1>7, <3>1
    <3>3. QED BY <1>3, <3>1, <3>2 DEF V
  <2>2. ASSUME NEW s \in SUBSET S, s # {}, s \ {one(s)} \in T PROVE s \in T
    <3>1. e[s] = h[<<one(s), e[s \ {one(s)}]>>] /\ one(s) \in S /\ e[s \ {one(s)}] \in V BY <1>2, <1>7, <2>2
    <3>4. e[s] = op(one(s), e[s \ {one(s)}]) BY <1>5, <3>1
    <3>5. e[s \ {one(s)}] \in SUBSET part BY <3>1 DEF V
    <3>2. e[s] \in V BY <1>4, <3>1, <3>4, <3>5 DEF V
    <3>3. QED BY <3>2
  <2> HIDE DEF T
  <2>3. QED BY <2>1, <2>2, Parts DEF one
<1>9. Fold(e)
  <2>1. \A s \in SUBSET S : e[s] = IF s = {} THEN {<<>>} ELSE op(one(s), e[s \ {one(s)}])
    BY <1>2, <1>5, <1>7, <1>8
  <2>2. e = [s \in SUBSET S |-> e[s]] BY <1>6 DEF IsFold
  <2>3. e = [s \in SUBSET S |-> IF s = {} THEN {<<>>} ELSE op(one(s), e[s \ {one(s)}])] BY <2>1, <2>2
  <2>4. QED BY <2>3 DEF one
<1>10. Fold(g)
  <2> HIDE DEF Fold
  <2>1. QED BY <1>9
<1> HIDE DEF g
<1>11. \A s \in SUBSET S : g[s] = IF s = {} THEN {<<>>} ELSE op(one(s), g[s \ {one(s)}]) BY <1>10 DEF one
<1> DEFINE Filled(s) == \A k \in s : options[k] # {}
           Right(s) == /\ \A f \in g[s] : Chooses(f, options, s)
                       /\ Filled(s) => g[s] # {}
           R == {s \in SUBSET S : Right(s)}
<1>12. SUBSET S \subseteq R
  <2>1. {} \in R
    <3>1. {} \in SUBSET S OBVIOUS
    <3>2. g[{}] = {<<>>} BY <1>11, <3>1
    <3>3. DOMAIN <<>> = {} OBVIOUS
    <3>4. Chooses(<<>>, options, {}) BY <3>3 DEF Chooses
    <3>5. QED BY <3>1, <3>2, <3>4
  <2>2. ASSUME NEW s \in SUBSET S, s # {}, s \ {one(s)} \in R PROVE s \in R
    <3> DEFINE k == one(s)
               rest == s \ {k}
    <3>1. g[s] = op(k, g[rest]) /\ k \in s /\ Right(rest) BY <1>2, <1>11, <2>2
    <3> HIDE DEF k
    <3>2. s = rest \cup {k} /\ k \notin rest BY <3>1
    <3>3. \A f, v : Chooses(f, options, rest) /\ v \in options[k] => Chooses(With(f, k, v), options, s)
      BY <3>2 DEF Chooses, With
    <3>4. \A c \in g[s] : \E f \in g[rest] : \E v \in options[k] : c = With(f, k, v)
      <4>1. \A c \in op(k, g[rest]) : \E f \in g[rest] : \E v \in options[k] : c = With(f, k, v) BY DEF op
      <4>2. QED BY <3>1, <4>1
    <3>5. \A c \in g[s] : Chooses(c, options, s) BY <3>1, <3>3, <3>4
    <3>6. ASSUME Filled(s) PROVE g[s] # {}
      <4>1. g[rest] # {} /\ options[k] # {} BY <3>1, <3>6
      <4>2. PICK f \in g[rest], v \in options[k] : TRUE BY <4>1
      <4>3. With(f, k, v) \in op(k, g[rest]) BY DEF op
      <4>4. QED BY <3>1, <4>3
    <3>7. QED BY <3>5, <3>6
  <2> HIDE DEF R
  <2>3. QED BY <2>1, <2>2, Parts DEF one
<1>13. Right(S) BY <1>12
<1>14. QED BY <1>1, <1>13

-----------------------------------------------------------------------------
(* The arithmetic of a rating. *)

(* A product grows with its factor. *)
LEMMA TimesGrows == ASSUME NEW a \in Int, NEW b \in Int, a <= b, NEW d \in Nat PROVE a * d <= b * d
<1>1. (b - a) * d >= 0 OBVIOUS
<1>2. b * d = a * d + (b - a) * d OBVIOUS
<1>3. QED BY <1>1, <1>2

(* A quotient grows with what is divided. *)
LEMMA QuotientGrows ==
  ASSUME NEW a \in Int, NEW b \in Int, a <= b, NEW d \in Nat, d > 0
  PROVE  a \div d \in Int /\ a \div d <= b \div d
<1> DEFINE p == a \div d
           q == b \div d
<1>1. p \in Int /\ q \in Int OBVIOUS
<1>2. p * d <= a /\ b < q * d + d OBVIOUS
<1> HIDE DEF p, q
<1>3. ASSUME p >= q + 1 PROVE FALSE
  <2>1. (q + 1) * d <= p * d BY <1>1, <1>3, TimesGrows
  <2>2. (q + 1) * d = q * d + d BY <1>1
  <2>3. q * d \in Int /\ p * d \in Int BY <1>1
  <2>4. QED BY <1>2, <2>1, <2>2, <2>3
<1>4. p <= q BY <1>1, <1>3
<1>5. QED BY <1>1, <1>4 DEF p, q

(* So does its rounding to the nearest. *)
LEMMA NearestGrows ==
  ASSUME NEW a \in Int, NEW b \in Int, a <= b, NEW d \in Nat, d > 0
  PROVE  Nearest(a, d) \in Int /\ Nearest(a, d) <= Nearest(b, d)
<1>1. 2 * a + d \in Int /\ 2 * b + d \in Int /\ 2 * a + d <= 2 * b + d /\ 2 * d \in Nat /\ 2 * d > 0 OBVIOUS
<1>2. QED BY <1>1, QuotientGrows DEF Nearest

(* What is not negative is rounded to what is not negative. *)
LEMMA NearestNat == ASSUME NEW a \in Nat, NEW d \in Nat, d > 0 PROVE Nearest(a, d) \in Nat
<1>1. 0 <= a BY DEF Nat
<1>2. Nearest(0, d) <= Nearest(a, d) /\ Nearest(a, d) \in Int BY <1>1, NearestGrows
<1>3. Nearest(0, d) = 0
  <2>1. d \in Int /\ 0 <= d /\ d < 2 * d OBVIOUS
  <2>2. d \div (2 * d) = 0 BY <2>1
  <2>3. QED BY <2>2 DEF Nearest
<1>4. QED BY <1>2, <1>3

(* The least of two numbers. *)
LEMMA MinIs == ASSUME NEW a \in Int, NEW b \in Int PROVE Min({a, b}) = IF a <= b THEN a ELSE b
BY DEF Min
(* The most of two. *)
LEMMA MaxIs == ASSUME NEW a \in Int, NEW b \in Int PROVE Max({a, b}) = IF a >= b THEN a ELSE b
BY DEF Max

(* A confidence grows with its score. *)
LEMMA LevelsGrow ==
  ASSUME NEW a \in Int, NEW b \in Int, a <= b
  PROVE  /\ Sure(ConfidenceFromScore(a)) <= Sure(ConfidenceFromScore(b))
         /\ a < 5000 => Sure(ConfidenceFromScore(a)) <= Sure("low")
         /\ ConfidenceFromScore(0) = "unknown"
<1> DEFINE level(c) == IF c <= 0 THEN "unknown" ELSE IF c < 5000 THEN "low" ELSE IF c < 8000 THEN "medium" ELSE "high"
<1>1. ASSUME NEW c \in Int PROVE ConfidenceFromScore(c) = level(c)
  <2>1. (c \in 1 .. 4999 <=> 1 <= c /\ c <= 4999) /\ (c \in 5000 .. 7999 <=> 5000 <= c /\ c <= 7999) OBVIOUS
  <2> DEFINE low == c \in 1 .. 4999
             medium == c \in 5000 .. 7999
  <2>2. ConfidenceFromScore(c) = IF c <= 0 THEN "unknown" ELSE IF low THEN "low" ELSE IF medium THEN "medium" ELSE "high"
    <3>1. (low => c > 0) /\ (medium => c > 0 /\ ~low) BY <2>1
    <3> HIDE DEF low, medium
    <3>2. ConfidenceFromScore(c) = CASE c <= 0 -> "unknown" [] low -> "low" [] medium -> "medium" [] OTHER -> "high"
      BY DEF ConfidenceFromScore, low, medium
    <3>3. QED BY <3>1, <3>2
  <2> HIDE DEF low, medium
  <2>3. (low <=> 1 <= c /\ c <= 4999) /\ (medium <=> 5000 <= c /\ c <= 7999) BY <2>1 DEF low, medium
  <2>4. QED BY <2>2, <2>3
<1>2. Sure("unknown") = 0 /\ Sure("low") = 1 /\ Sure("medium") = 2 /\ Sure("high") = 3 BY DEF Sure, ConfidenceOrder
<1>3. \A c \in Int : Sure(level(c)) = IF c <= 0 THEN 0 ELSE IF c < 5000 THEN 1 ELSE IF c < 8000 THEN 2 ELSE 3 BY <1>2
<1>4. level(0) = "unknown" OBVIOUS
<1> HIDE DEF level
<1>5. QED BY <1>1, <1>2, <1>3, <1>4

(* More minutes, more of what is required and a smaller penalty never lower the trust. *)
LEMMA ConfidenceGrows ==
  ASSUME NEW role, RoleNumbers(role), NEW m \in Int, NEW n \in Int, m <= n,
         NEW A, NEW B, A \subseteq B, NEW a \in Int, NEW b \in Int, b <= a
  PROVE  /\ Sure(ComputeConfidence(m, role, A, a)) <= Sure(ComputeConfidence(n, role, B, b))
         /\ role.required # {} /\ role.required \intersect A = {} => ComputeConfidence(m, role, A, a) = "unknown"
         /\ m < role.minMinutes => Sure(ComputeConfidence(m, role, A, a)) <= Sure("low")
<1> DEFINE required == Cardinality(role.required)
           factor(k) == IF role.fullMinutes = 0 THEN Unit ELSE Min({Unit, Nearest(Unit * k, role.fullMinutes)})
           coverage(P) == IF required = 0 THEN Unit ELSE Nearest(Unit * Cardinality(role.required \intersect P), required)
           score(k, P, c) == Max({0, Nearest(55 * factor(k) + 45 * coverage(P), 100) - c})
           capped(k, P, c) == IF k < role.minMinutes THEN Min({score(k, P, c), SmallSampleCap}) ELSE score(k, P, c)
           final(k, P, c) == IF coverage(P) = 0 THEN 0 ELSE capped(k, P, c)
<1>1. \A k, P, c : ComputeConfidence(k, role, P, c) = ConfidenceFromScore(final(k, P, c)) BY DEF ComputeConfidence
<1>2. Unit = 10000 /\ SmallSampleCap = 4000 /\ role.minMinutes \in Nat /\ role.fullMinutes \in Nat
  BY DEF Unit, SmallSampleCap, RoleNumbers
<1>3. /\ required \in Nat /\ (required = 0 <=> role.required = {})
      /\ Cardinality(role.required \intersect A) \in Nat /\ Cardinality(role.required \intersect B) \in Nat
      /\ Cardinality(role.required \intersect A) <= Cardinality(role.required \intersect B)
  <2>1. IsFiniteSet(role.required) BY DEF RoleNumbers
  <2>2. role.required \intersect B \in SUBSET role.required /\ role.required \intersect A \in SUBSET (role.required \intersect B)
    OBVIOUS
  <2>3. IsFiniteSet(role.required \intersect B) BY <2>1, <2>2, FS_Subset
  <2>4. IsFiniteSet(role.required \intersect A)
        /\ Cardinality(role.required \intersect A) <= Cardinality(role.required \intersect B)
    BY <2>2, <2>3, FS_Subset
  <2>5. QED BY <2>1, <2>3, <2>4, FS_CardinalityType, FS_EmptySet
<1>4. factor(m) \in Int /\ factor(n) \in Int /\ factor(m) <= factor(n)
  <2>1. CASE role.fullMinutes = 0 BY <1>2, <2>1
  <2>2. CASE role.fullMinutes # 0
    <3> DEFINE p == Nearest(Unit * m, role.fullMinutes)
               q == Nearest(Unit * n, role.fullMinutes)
    <3>1. Unit * m \in Int /\ Unit * n \in Int /\ Unit * m <= Unit * n /\ role.fullMinutes > 0 BY <1>2, <2>2
    <3>2. p \in Int /\ q \in Int /\ p <= q BY <1>2, <3>1, NearestGrows
    <3>3. factor(m) = Min({Unit, p}) /\ factor(n) = Min({Unit, q}) BY <2>2
    <3> HIDE DEF p, q, factor
    <3>4. factor(m) = (IF Unit <= p THEN Unit ELSE p) /\ factor(n) = (IF Unit <= q THEN Unit ELSE q)
      BY <1>2, <3>2, <3>3, MinIs
    <3>5. QED BY <1>2, <3>2, <3>4
  <2>3. QED BY <2>1, <2>2
<1>5. coverage(A) \in Nat /\ coverage(B) \in Nat /\ coverage(A) <= coverage(B)
  <2>1. CASE required = 0 BY <1>2, <2>1
  <2>2. CASE required # 0
    <3> DEFINE p == Unit * Cardinality(role.required \intersect A)
               q == Unit * Cardinality(role.required \intersect B)
    <3>1. p \in Nat /\ q \in Nat /\ p <= q /\ required > 0 BY <1>2, <1>3, <2>2
    <3>2. coverage(A) = Nearest(p, required) /\ coverage(B) = Nearest(q, required) BY <2>2
    <3> HIDE DEF p, q, coverage, required
    <3>3. p \in Int /\ q \in Int BY <3>1
    <3>4. Nearest(p, required) <= Nearest(q, required) BY <1>3, <3>1, <3>3, NearestGrows
    <3>5. QED BY <1>3, <3>1, <3>2, <3>4, NearestNat
  <2>3. QED BY <2>1, <2>2
<1>6. role.required # {} /\ role.required \intersect A = {} => coverage(A) = 0
  <2>1. SUFFICES ASSUME role.required # {}, role.required \intersect A = {} PROVE coverage(A) = 0 OBVIOUS
  <2>2. Cardinality(role.required \intersect A) = 0 BY <2>1, FS_EmptySet
  <2>3. coverage(A) = Nearest(0, required) /\ required \in Nat /\ required > 0 BY <1>2, <1>3, <2>1, <2>2
  <2> HIDE DEF required, coverage
  <2>4. required \div (2 * required) = 0
    <3>1. required \in Int /\ 0 <= required /\ required < 2 * required BY <2>3
    <3>2. QED BY <3>1
  <2>5. QED BY <2>3, <2>4 DEF Nearest
<1> HIDE DEF factor, coverage, required
<1>7. score(m, A, a) \in Nat /\ score(n, B, b) \in Nat /\ score(m, A, a) <= score(n, B, b)
  <2> DEFINE p == 55 * factor(m) + 45 * coverage(A)
             q == 55 * factor(n) + 45 * coverage(B)
  <2>1. p \in Int /\ q \in Int /\ p <= q BY <1>4, <1>5
  <2> HIDE DEF p, q
  <2>2. Nearest(p, 100) \in Int /\ Nearest(q, 100) \in Int /\ Nearest(p, 100) <= Nearest(q, 100) BY <2>1, NearestGrows
  <2> DEFINE u == Nearest(p, 100) - a
             v == Nearest(q, 100) - b
  <2>3. u \in Int /\ v \in Int /\ u <= v BY <2>2
  <2>4. score(m, A, a) = Max({0, u}) /\ score(n, B, b) = Max({0, v}) BY DEF p, q
  <2> HIDE DEF u, v, score
  <2>5. score(m, A, a) = (IF 0 >= u THEN 0 ELSE u) /\ score(n, B, b) = (IF 0 >= v THEN 0 ELSE v) BY <2>3, <2>4, MaxIs
  <2>6. QED BY <2>3, <2>5
<1> HIDE DEF score
<1>8. /\ capped(m, A, a) \in Nat /\ capped(n, B, b) \in Nat /\ capped(m, A, a) <= capped(n, B, b)
      /\ m < role.minMinutes => capped(m, A, a) <= 4000
  <2>1. /\ Min({score(m, A, a), SmallSampleCap}) = IF score(m, A, a) <= 4000 THEN score(m, A, a) ELSE 4000
        /\ Min({score(n, B, b), SmallSampleCap}) = IF score(n, B, b) <= 4000 THEN score(n, B, b) ELSE 4000
    BY <1>2, <1>7, MinIs
  <2>2. n < role.minMinutes => m < role.minMinutes BY <1>2
  <2>3. QED BY <1>2, <1>7, <2>1, <2>2
<1> HIDE DEF capped
<1>9. /\ final(m, A, a) \in Int /\ final(n, B, b) \in Int /\ final(m, A, a) <= final(n, B, b)
      /\ m < role.minMinutes => final(m, A, a) < 5000
  BY <1>5, <1>8
<1>10. coverage(A) = 0 => final(m, A, a) = 0 OBVIOUS
<1> HIDE DEF final
<1>11. QED BY <1>1, <1>6, <1>9, <1>10, LevelsGrow

-----------------------------------------------------------------------------
(* What the rows of an analysis say of their players. *)

(* The rating of a player in a role, whole. *)
RatingOf(read, p, k) ==
  RoleRating(RoleConfigs[k], RolePercentiles(read, k)[p], ContextOf(read, p), PerformanceMinutes(read, p))

\* What a row says of its player.
Says(x, read, p) ==
  /\ x.player = p
  /\ x.table = "ratings" =>
       x.key \in Rated(read, p) /\ x.value = RatingOf(read, p, x.key).score /\ x.trust = RatingOf(read, p, x.key).confidence
  /\ x.table = "playstyles" =>
       \E risk, label : \E b \in ComputePlaystyles(Percentiles(read)[p], Group(read, p), PerformanceMinutes(read, p), risk, label) :
         x.key = b.key

(* What the rows of a player say of it. *)
LEMMA RowsSay ==
  ASSUME NEW read, NEW s, NEW r, NEW p, NEW x \in PlayerRows(read, s, r, p)
  PROVE  Says(x, read, p)
<1> DEFINE row(table, key, value, trust) == Row(table, s, p, key, r, value, trust)
           context == ContextOf(read, p)
           ratings == Ratings(read, p, context)
           percentiles == Percentiles(read)[p]
           market == EstimateMarket(MarketInputs(read, p, context, Scores(ratings)))
           minutes == PerformanceMinutes(read, p)
           rated == {row("ratings", k, ratings[k].score, ratings[k].confidence) : k \in DOMAIN ratings}
           audits == {row("audits", k, 0, "") : k \in DOMAIN ratings}
           judged == {row("context", "", context.multiplier, context.confidence),
                      row("market", "", market.asking.high, market.confidence),
                      row("membership", "", IF IsMember(read, p) THEN 1 ELSE 0, ""),
                      row("similarity", "style", 0, ""), row("similarity", "quality", 0, "")}
           metrics == {row("metrics", m, percentiles[m], MinutesConfidence(minutes)) : m \in DOMAIN percentiles}
           earned == ComputePlaystyles(percentiles, Group(read, p), minutes, context.risk, market.label)
           badges == {row("playstyles", b.key, 0, b.confidence) : b \in earned}
<1>1. PlayerRows(read, s, r, p) = (rated \cup audits) \cup ((judged \cup metrics) \cup badges)
  BY Zenon DEF PlayerRows
<1> DEFINE Of(y, table, key, value, trust) ==
             y.table = table /\ y.player = p /\ y.key = key /\ y.value = value /\ y.trust = trust
<1>2. \A table, key, value, trust : Of(row(table, key, value, trust), table, key, value, trust) BY DEF Row
<1>3. DOMAIN ratings = Rated(read, p) /\ \A k \in DOMAIN ratings : ratings[k] = RatingOf(read, p, k)
  BY DEF Ratings, RatingOf
<1>4. earned = ComputePlaystyles(Percentiles(read)[p], Group(read, p), PerformanceMinutes(read, p), context.risk, market.label)
  OBVIOUS
<1> DEFINE risk == context.risk
           label == market.label
           of(c, l) == ComputePlaystyles(Percentiles(read)[p], Group(read, p), PerformanceMinutes(read, p), c, l)
<1>5. earned = of(risk, label) OBVIOUS
<1> HIDE DEF row, context, ratings, percentiles, market, minutes, earned, risk, label, of
<1>6. CASE x \in rated
  <2>1. PICK k \in DOMAIN ratings : x = row("ratings", k, ratings[k].score, ratings[k].confidence) BY <1>6
  <2>2. Of(x, "ratings", k, ratings[k].score, ratings[k].confidence) BY <1>2, <2>1
  <2>3. QED BY <1>3, <2>2 DEF Says
<1>7. CASE x \in audits \cup judged \cup metrics
  <2> DEFINE Other(y) == y.table \notin {"ratings", "playstyles"} /\ y.player = p
  <2>0. \A key, value, trust : \A table \in {"audits", "context", "market", "membership", "similarity", "metrics"} :
          Other(row(table, key, value, trust))
    BY <1>2
  <2> HIDE DEF Other, Of
  <2>1. Other(x)
    <3>1. \A y \in audits : Other(y) BY <2>0
    <3>2. \A y \in judged : Other(y) BY <2>0
    <3>3. \A y \in metrics : Other(y) BY <2>0
    <3>4. QED BY <1>7, <3>1, <3>2, <3>3
  <2>2. QED BY <2>1 DEF Says, Other
<1>8. CASE x \in badges
  <2>1. PICK b \in earned : x = row("playstyles", b.key, 0, b.confidence) BY <1>8
  <2>2. Of(x, "playstyles", b.key, 0, b.confidence) BY <1>2, <2>1
  <2>3. \E c, l : \E e \in of(c, l) : x.key = e.key BY <1>5, <2>2
  <2>4. QED BY <2>2, <2>3 DEF Says, of
<1>9. QED BY <1>1, <1>6, <1>7, <1>8

(* Each row of an analysis says it of a player who has appeared. *)
LEMMA AnalysisSays ==
  ASSUME NEW read, NEW s, NEW r, NEW x \in AnalysisRows(read, s, r)
  PROVE  x.player \in DOMAIN read.primary /\ Says(x, read, x.player)
<1>1. PICK p \in DOMAIN read.primary : x \in PlayerRows(read, s, r, p) BY DEF AnalysisRows
<1>2. Says(x, read, p) BY <1>1, RowsSay
<1>3. x.player = p BY <1>2 DEF Says
<1>4. QED BY <1>2, <1>3

(* The trust of a rating, of the metrics the player has. *)
LEMMA TrustIs ==
  ASSUME NEW read, NEW p, NEW k \in Rated(read, p)
  PROVE  /\ k \in DOMAIN RoleConfigs
         /\ RatingOf(read, p, k).confidence =
              ComputeConfidence(PerformanceMinutes(read, p), RoleConfigs[k], DOMAIN read.registry[p], ContextOf(read, p).penalty)
<1>1. k \in DOMAIN RoleConfigs /\ p \in Eligible(read, k) BY DEF Rated
<1>2. DOMAIN RolePercentiles(read, k)[p] = DOMAIN read.registry[p] BY <1>1 DEF RolePercentiles, NormalizeMetrics
<1>3. \A percentiles, context, minutes :
        RoleRating(RoleConfigs[k], percentiles, context, minutes).confidence =
          ComputeConfidence(minutes, RoleConfigs[k], DOMAIN percentiles, context.penalty)
  BY DEF RoleRating
<1>4. QED BY <1>1, <1>2, <1>3 DEF RatingOf

(* A playstyle is shown of the metrics it requires. *)
LEMMA StrengthIsThere ==
  ASSUME NEW read, NEW p \in DOMAIN read.primary, NEW group, NEW minutes, NEW risk, NEW label,
         NEW c \in ComputePlaystyles(Percentiles(read)[p], group, minutes, risk, label), NEW b \in Positives, b.key = c.key
  PROVE  b.required \subseteq DOMAIN read.registry[p]
<1> DEFINE percentiles == Percentiles(read)[p]
<1>1. DOMAIN percentiles = DOMAIN read.registry[p] BY DEF Percentiles, NormalizeMetrics
<1> HIDE DEF percentiles
<1>2. c \in PositiveBadges(percentiles, group, minutes) \/ c \in ConcernBadges(percentiles, group, minutes, risk, label)
  BY DEF ComputePlaystyles, percentiles
<1>3. CASE c \in PositiveBadges(percentiles, group, minutes)
  <2>1. PICK a \in Positives : a.required \subseteq DOMAIN percentiles /\ c.key = a.key
    <3>1. PICK a \in {x \in Positives :
               /\ group \in x.groups /\ minutes >= x.minMinutes
               /\ x.required \subseteq DOMAIN percentiles
               /\ \E w \in WeightedMean(x.metrics, percentiles) : TierFor(w, x.tiers) # {}} :
            c = [key |-> a.key, tier |-> TierFor(The(WeightedMean(a.metrics, percentiles)), a.tiers),
                 confidence |-> MinutesConfidence(minutes), concern |-> FALSE]
      BY <1>3, Zenon DEF PositiveBadges
    <3>2. QED BY <3>1
  <2>2. a = b BY <2>1, BadgeAssumption
  <2>3. QED BY <1>1, <2>1, <2>2
<1>4. CASE c \in ConcernBadges(percentiles, group, minutes, risk, label)
  <2>1. PICK a \in Concerns : c.key = a.key BY <1>4 DEF ConcernBadges
  <2>2. QED BY <2>1, BadgeAssumption
<1>5. QED BY <1>2, <1>3, <1>4

(* The values of a function on a finite set are finite. *)
LEMMA ImageFinite == ASSUME NEW S, IsFiniteSet(S), NEW f PROVE IsFiniteSet({f[x] : x \in S})
<1> DEFINE T == {f[x] : x \in S}
           g == [x \in S |-> f[x]]
<1>1. g \in Surjection(S, T) BY DEF Surjection
<1> HIDE DEF g, T
<1>2. QED BY <1>1, FS_Surjection DEF T

(* The penalty of a context is a number, whatever the competition and the team. *)
LEMMA PenaltyIsNumber == ASSUME NEW read, NEW p PROVE ContextOf(read, p).penalty \in Int
<1> DEFINE table == ContextConfig.leagues
           tiers == ContextConfig.tiers
<1>1. ASSUME NEW slug PROVE LeagueDimension(slug).penalty \in Int
  <2> DEFINE entry == Or(Lookup(table, slug), ContextConfig.leagueDefault)
  <2>1. entry \in LeagueEntry BY NumbersAssumption DEF ContextNumbers, Or, The, Lookup
  <2>2. LeagueDimension(slug) = [entry EXCEPT !.multiplier = Clamp(@, ContextConfig.leagueBand)] BY DEF LeagueDimension
  <2> HIDE DEF entry
  <2>3. QED BY <2>1, <2>2 DEF LeagueEntry
<1>2. ASSUME NEW team PROVE TeamDimension(team).penalty \in Int
  <2> DEFINE entry == Or(Lookup(tiers, {TeamTier(team)}), tiers[ContextConfig.defaultTier])
  <2>1. entry \in TierEntry BY NumbersAssumption DEF ContextNumbers, Or, The, Lookup
  <2>2. TeamDimension(team) = [entry EXCEPT !.multiplier = Clamp(@, ContextConfig.teamBand)] BY DEF TeamDimension
  <2> HIDE DEF entry
  <2>3. QED BY <2>1, <2>2 DEF TierEntry
<1>3. \A competition, team, minutes, form :
        BuildContext(competition, team, minutes, form).penalty =
          LeagueDimension({c.slug : c \in competition}).penalty + TeamDimension(team).penalty
  BY DEF BuildContext
<1>4. ASSUME NEW competition, NEW team, NEW minutes, NEW form
      PROVE  BuildContext(competition, team, minutes, form).penalty \in Int
  <2> DEFINE a == LeagueDimension({c.slug : c \in competition}).penalty
             b == TeamDimension(team).penalty
  <2>1. BuildContext(competition, team, minutes, form).penalty = a + b BY <1>3
  <2>2. a \in Int /\ b \in Int BY <1>1, <1>2
  <2> HIDE DEF a, b
  <2>3. QED BY <2>1, <2>2
<1>5. QED BY <1>4 DEF ContextOf

(* What is read of the appearances: a primary one of each player, and the minutes of all. *)
LEMMA AppearancesAre ==
  ASSUME NEW apps, IsFiniteSet(apps), \A a \in apps : a.minutes \subseteq Int
  PROVE  /\ IsFiniteSet(Appear(apps))
         /\ \A f \in PrimaryChoices(apps) : DOMAIN f = Appear(apps)
         /\ \A p \in Appear(apps) : TotalMinutes(apps)[p] \in Int
<1>1. IsFiniteSet(Appear(apps))
  <2> DEFINE f == [a \in apps |-> a.player]
  <2>1. Appear(apps) = {f[a] : a \in apps} BY DEF Appear
  <2> HIDE DEF f
  <2>2. QED BY <2>1, ImageFinite
<1>2. ASSUME NEW f \in PrimaryChoices(apps) PROVE DOMAIN f = Appear(apps)
  <2> DEFINE of(p) == {a \in apps : a.player = p}
             options == [p \in Appear(apps) |-> {a \in of(p) : \A b \in of(p) : Played(b) =< Played(a)}]
  <2>1. f \in Selections(options) /\ DOMAIN options = Appear(apps) BY Zenon DEF PrimaryChoices
  <2> HIDE DEF options
  <2>2. QED BY <1>1, <2>1, SelectionsFacts DEF Chooses
<1>3. ASSUME NEW p \in Appear(apps) PROVE TotalMinutes(apps)[p] \in Int
  <2> DEFINE of == {a \in apps : a.player = p}
  <2>1. IsFiniteSet(of) BY FS_Subset
  <2>2. \A a \in of : Played(a) \in Int BY DEF Played, Or, The
  <2>3. TotalMinutes(apps)[p] = MapThenSumSet(Played, of) BY Zenon DEF TotalMinutes
  <2> HIDE DEF of
  <2> DEFINE w == [a \in of |-> Played(a)]
  <2>4. PICK g : Sums(g, w, of) /\ MapThenSumSet(Played, of) = g[of] BY <2>1, <2>2, PlayedSums
  <2>5. w \in [of -> Int] BY <2>2
  <2> HIDE DEF w
  <2>6. of \in SUBSET of OBVIOUS
  <2>7. g[of] \in Int BY <2>1, <2>4, <2>5, <2>6, SumsAre
  <2>8. QED BY <2>3, <2>4, <2>7
<1>4. QED BY <1>1, <1>2, <1>3

\* What is read of the metrics of the players: numbers.
AreNumbers(f, players) == DOMAIN f = players /\ \A p \in players : IsFiniteSet(DOMAIN f[p]) /\ \A k \in DOMAIN f[p] : f[p][k] \in Int

(* What is read of the metrics is such. *)
LEMMA RawAre ==
  ASSUME NEW metrics, IsFiniteSet(metrics), \A m \in metrics : m.value \subseteq Int, NEW players, IsFiniteSet(players)
  PROVE  RawChoices(metrics, players) # {} /\ \A raw \in RawChoices(metrics, players) : AreNumbers(raw, players)
<1> DEFINE values(p, name) == UNION {m.value : m \in {n \in MetricsOf(metrics, p) : n.name = name}}
           of(p) == [name \in Named(metrics, p) |-> values(p, name)]
           options == [p \in players |-> Selections(of(p))]
<1>1. RawChoices(metrics, players) = Selections(options) BY Zenon DEF RawChoices
<1>2. ASSUME NEW p PROVE IsFiniteSet(Named(metrics, p))
  <2> DEFINE some == MetricsOf(metrics, p)
  <2>1. IsFiniteSet(some) BY FS_Subset DEF MetricsOf
  <2>2. Named(metrics, p) = {m.name : m \in some} BY DEF Named
  <2> HIDE DEF some
  <2> DEFINE f == [m \in some |-> m.name]
  <2>3. Named(metrics, p) = {f[m] : m \in some} BY <2>2
  <2> HIDE DEF f
  <2>4. QED BY <2>1, <2>3, ImageFinite
<1>3. \A p, name : values(p, name) \subseteq Int BY DEF MetricsOf
<1>4. ASSUME NEW p, NEW name \in Named(metrics, p) PROVE values(p, name) # {}
  <2>1. PICK m \in MetricsOf(metrics, p) : m.name = name BY DEF Named
  <2>2. m.value # {} BY <2>1 DEF MetricsOf
  <2>3. QED BY <2>1, <2>2
<1> HIDE DEF values
<1>5. ASSUME NEW p PROVE /\ Selections(of(p)) # {}
                         /\ \A f \in Selections(of(p)) : DOMAIN f = Named(metrics, p) /\ \A k \in DOMAIN f : f[k] \in Int
  <2>1. DOMAIN of(p) = Named(metrics, p) /\ \A k \in DOMAIN of(p) : of(p)[k] = values(p, k) OBVIOUS
  <2> DEFINE o == of(p)
  <2> HIDE DEF o, of
  <2>2. o = of(p) BY DEF o
  <2>3. IsFiniteSet(DOMAIN o) /\ \A k \in DOMAIN o : o[k] # {} BY <1>2, <1>4, <2>1, <2>2
  <2>4. Selections(o) # {} /\ \A f \in Selections(o) : Chooses(f, o, DOMAIN o) BY <2>3, SelectionsFacts
  <2>5. QED BY <1>3, <2>1, <2>2, <2>4 DEF Chooses
<1> HIDE DEF of
<1>6. DOMAIN options = players /\ \A p \in players : options[p] = Selections(of(p)) OBVIOUS
<1> HIDE DEF options
<1>7. Selections(options) # {} /\ \A raw \in Selections(options) : Chooses(raw, options, players)
  BY <1>5, <1>6, SelectionsFacts
<1>8. ASSUME NEW raw, Chooses(raw, options, players) PROVE AreNumbers(raw, players)
  <2>1. \A p \in players : raw[p] \in Selections(of(p)) BY <1>6, <1>8 DEF Chooses
  <2>2. QED BY <1>2, <1>5, <1>8, <2>1 DEF AreNumbers, Chooses
<1>9. QED BY <1>1, <1>7, <1>8

(* So is what is made of it by metric. *)
LEMMA RegistryAre ==
  ASSUME NEW raw, NEW players, IsFiniteSet(players), AreNumbers(raw, players)
  PROVE  RegistryChoices(raw) # {} /\ \A registry \in RegistryChoices(raw) : AreNumbers(registry, players)
<1> DEFINE resolved(p) == UNION {ResolveMetric(name) : name \in DOMAIN raw[p]} \intersect PERFORMANCE_METRICS
           of(p) == [m \in resolved(p) |-> {raw[p][name] : name \in {n \in DOMAIN raw[p] : ResolveMetric(n) = {m}}}]
           options == [p \in DOMAIN raw |-> RegistryOf(raw[p])]
<1>1. RegistryChoices(raw) = Selections(options) BY Zenon DEF RegistryChoices
<1>2. \A p : RegistryOf(raw[p]) = Selections(of(p)) BY Zenon DEF RegistryOf
<1>3. ASSUME NEW name PROVE ResolveMetric(name) = {} \/ \E m : ResolveMetric(name) = {m}
  BY DEF ResolveMetric, Lookup
<1>4. ASSUME NEW p \in players
      PROVE  /\ IsFiniteSet(resolved(p))
             /\ \A m \in resolved(p) : \E name \in DOMAIN raw[p] : ResolveMetric(name) = {m}
  <2> DEFINE names == DOMAIN raw[p]
             sets == {ResolveMetric(name) : name \in names}
  <2>1. IsFiniteSet(names) BY DEF AreNumbers
  <2>2. IsFiniteSet(sets)
    <3> HIDE DEF names
    <3> DEFINE f == [name \in names |-> ResolveMetric(name)]
    <3>1. sets = {f[name] : name \in names} OBVIOUS
    <3> HIDE DEF f, sets
    <3>2. QED BY <2>1, <3>1, ImageFinite
  <2>3. ASSUME NEW s \in sets PROVE IsFiniteSet(s)
    <3>1. PICK name \in names : s = ResolveMetric(name) OBVIOUS
    <3>2. s = {} \/ \E m : s = {m} BY <1>3, <3>1
    <3>3. QED BY <3>2, FS_EmptySet, FS_Singleton
  <2>4. IsFiniteSet(UNION sets)
    <3> HIDE DEF sets
    <3>1. QED BY <2>2, <2>3, FS_UNION
  <2>5. resolved(p) \in SUBSET (UNION sets) OBVIOUS
  <2>6. IsFiniteSet(resolved(p))
    <3> HIDE DEF sets, resolved
    <3>1. QED BY <2>4, <2>5, FS_Subset
  <2>7. ASSUME NEW m \in resolved(p) PROVE \E name \in names : ResolveMetric(name) = {m}
    <3>1. PICK name \in names : m \in ResolveMetric(name) OBVIOUS
    <3>2. ResolveMetric(name) = {m} BY <1>3, <3>1
    <3>3. QED BY <3>2
  <2>8. QED BY <2>6, <2>7
<1>5. ASSUME NEW p \in players
      PROVE  /\ Selections(of(p)) # {}
             /\ \A f \in Selections(of(p)) : DOMAIN f = resolved(p) /\ \A k \in DOMAIN f : f[k] \in Int
  <2> DEFINE o == of(p)
  <2>1. DOMAIN o = resolved(p) OBVIOUS
  <2>2. ASSUME NEW k \in DOMAIN o PROVE o[k] # {} /\ o[k] \subseteq Int
    <3> DEFINE same == {n \in DOMAIN raw[p] : ResolveMetric(n) = {k}}
    <3>1. o[k] = {raw[p][name] : name \in same} OBVIOUS
    <3>2. \E name \in DOMAIN raw[p] : ResolveMetric(name) = {k} BY <1>4
    <3>3. \A name \in same : raw[p][name] \in Int BY DEF AreNumbers
    <3>4. same # {} BY <3>2
    <3> HIDE DEF same, o
    <3>5. QED BY <3>1, <3>3, <3>4
  <2> HIDE DEF o, resolved
  <2>3. IsFiniteSet(DOMAIN o) BY <1>4, <2>1
  <2>4. Selections(o) # {} /\ \A f \in Selections(o) : Chooses(f, o, DOMAIN o) BY <2>2, <2>3, SelectionsFacts
  <2>5. \A f \in Selections(o) : DOMAIN f = resolved(p) /\ \A k \in DOMAIN f : f[k] \in Int BY <2>1, <2>2, <2>4 DEF Chooses
  <2>6. QED BY <2>4, <2>5 DEF o
<1> HIDE DEF of, resolved
<1>6. DOMAIN options = players /\ \A p \in players : options[p] = Selections(of(p)) BY <1>2 DEF AreNumbers
<1> HIDE DEF options
<1>7. Selections(options) # {} /\ \A f \in Selections(options) : Chooses(f, options, players)
  BY <1>5, <1>6, SelectionsFacts
<1>8. ASSUME NEW f, Chooses(f, options, players) PROVE AreNumbers(f, players)
  <2>1. \A p \in players : f[p] \in Selections(of(p)) BY <1>6, <1>8 DEF Chooses
  <2>2. QED BY <1>4, <1>5, <1>8, <2>1 DEF AreNumbers, Chooses
<1>9. QED BY <1>1, <1>7, <1>8

-----------------------------------------------------------------------------
(* What a run has been told, and that every row there is comes of it. *)

(* What has been read of a season when its metrics are still to be read, and when they have been. *)
Counted(read) ==
  /\ {"primary", "minutes"} \subseteq DOMAIN read /\ IsFiniteSet(DOMAIN read.primary) /\ DOMAIN read.primary \subseteq Int
  /\ \A p \in DOMAIN read.primary : read.minutes[p] \in Int

TOLD == {"primary", "minutes", "raw", "registry", "covered"}
Told(read) ==
  /\ TOLD \subseteq DOMAIN read /\ IsFiniteSet(DOMAIN read.primary) /\ DOMAIN read.primary \subseteq Int
  /\ AreNumbers(read.raw, DOMAIN read.primary) /\ AreNumbers(read.registry, DOMAIN read.primary)
  /\ \A p \in DOMAIN read.primary : PerformanceMinutes(read, p) \in Int

\* The rows of a run are what it makes of what it has read.
RunTold(x, r) ==
  /\ DOMAIN x.rows \subseteq DOMAIN x.read
  /\ \A s \in DOMAIN x.rows : Told(x.read[s]) /\ x.rows[s] = AnalysisRows(x.read[s], s, r)
  /\ x.at \in {"ids", "clear", "raw", "world"} =>
       /\ Head(x.todo) \notin DOMAIN x.rows
       /\ IF x.at = "world" THEN Told(x.read[Head(x.todo)]) ELSE Counted(x.read[Head(x.todo)])
  /\ x.at = "idle" => DOMAIN x.rows = {}

\* A row as it was written, whatever its rank.
Alike(z, y) ==
  /\ z.table = y.table /\ z.season = y.season /\ z.player = y.player /\ z.key = y.key /\ z.run = y.run
  /\ z.value = y.value /\ z.trust = y.trust

FromRun(y, x) == y.season \in DOMAIN x.rows /\ \E z \in x.rows[y.season] : Alike(z, y)
From(y) == y.season # "" => y.run \in DOMAIN runs /\ FromRun(y, runs[y.run])

ToldInv ==
  /\ facts \in DOMAIN Databases
  /\ \A r \in DOMAIN runs : RunTold(runs[r], r)
  /\ \A y \in stored : From(y)
  /\ \A r \in DOMAIN runs : \A y \in runs[r].inserted \cup runs[r].pending : From(y)

(* Every player of a season has a first appearance with the most minutes. *)
LEMMA PrimaryThere ==
  ASSUME NEW apps, IsFiniteSet(apps), \A a \in apps : a.minutes \subseteq Int
  PROVE  PrimaryChoices(apps) # {}
<1> DEFINE of(p) == {a \in apps : a.player = p}
           most(p) == {a \in of(p) : \A b \in of(p) : Played(b) =< Played(a)}
           options == [p \in Appear(apps) |-> most(p)]
<1>1. PrimaryChoices(apps) = Selections(options) BY Zenon DEF PrimaryChoices
<1>2. \A a \in apps : Played(a) \in Int BY DEF Played, Or, The
<1>3. ASSUME NEW S, S \subseteq apps, S # {} PROVE \E a \in S : \A b \in S : Played(b) =< Played(a)
  <2> DEFINE f == [a \in S |-> Played(a)]
  <2>1. IsFiniteSet(S) BY <1>3, FS_Subset
  <2>2. \A a \in S : f[a] = Played(a) /\ f[a] \in Int BY <1>2, <1>3
  <2> HIDE DEF f
  <2>3. PICK a \in S : \A b \in S : f[b] <= f[a] BY <1>3, <2>1, <2>2, MostIs
  <2>4. QED BY <2>2, <2>3
<1>4. ASSUME NEW p \in Appear(apps) PROVE options[p] # {}
  <2>1. of(p) # {} /\ of(p) \subseteq apps BY DEF Appear
  <2> HIDE DEF of
  <2>2. \E a \in of(p) : \A b \in of(p) : Played(b) =< Played(a) BY <1>3, <2>1
  <2>3. most(p) # {} BY <2>2
  <2>4. QED BY <2>3
<1>5. IsFiniteSet(Appear(apps)) BY AppearancesAre
<1>6. DOMAIN options = Appear(apps) OBVIOUS
<1> HIDE DEF options
<1>7. QED BY <1>1, <1>4, <1>5, <1>6, SelectionsFacts

(* Once its metrics are there, the minutes of a player are a number. *)
LEMMA MinutesAre ==
  ASSUME NEW read, NEW p, IsFiniteSet(DOMAIN read.raw[p]), \A k \in DOMAIN read.raw[p] : read.raw[p][k] \in Int,
         read.minutes[p] \in Int
  PROVE  PerformanceMinutes(read, p) \in Int
<1> DEFINE there == Raw(read, p, "performance_covered_minutes")
<1>1. there \subseteq Int BY DEF Raw, Lookup
<1> HIDE DEF there
<1>2. CASE there = {} BY <1>2 DEF PerformanceMinutes, Or, there
<1>3. CASE there # {}
  <2>1. The(there) \in there BY <1>3 DEF The
  <2>2. PerformanceMinutes(read, p) = The(there) BY <1>3 DEF PerformanceMinutes, Or, there
  <2>3. QED BY <1>1, <2>1, <2>2
<1>4. QED BY <1>2, <1>3

(* A field that is laid over keeps the others. *)
LEMMA OverlaidFacts ==
  ASSUME NEW f, NEW g
  PROVE  /\ DOMAIN Overlaid(f, g) = DOMAIN f \cup DOMAIN g
         /\ \A k \in DOMAIN f : Overlaid(f, g)[k] = f[k]
         /\ \A k \in DOMAIN g \ DOMAIN f : Overlaid(f, g)[k] = g[k]
BY DEF Overlaid

(* The appearances of a season are counted. *)
LEMMA CountedFirst ==
  ASSUME NEW apps, IsFiniteSet(apps), \A a \in apps : a.player \in Int /\ a.minutes \subseteq Int,
         NEW f \in PrimaryChoices(apps), NEW end
  PROVE  Counted([primary |-> f, minutes |-> TotalMinutes(apps), end |-> end])
<1>1. /\ IsFiniteSet(DOMAIN f) /\ DOMAIN f = Appear(apps) /\ Appear(apps) \subseteq Int
      /\ \A p \in DOMAIN f : TotalMinutes(apps)[p] \in Int
  <2>1. Appear(apps) \subseteq Int BY DEF Appear
  <2>2. QED BY <2>1, AppearancesAre
<1>2. QED BY <1>1 DEF Counted

(* More that is read leaves them so. *)
LEMMA CountedStays ==
  ASSUME NEW read, Counted(read), NEW new, DOMAIN new \cap {"primary", "minutes"} = {}
  PROVE  Counted(Overlaid(new, read)) /\ Overlaid(new, read).primary = read.primary
<1> DEFINE e == Overlaid(new, read)
<1>1. DOMAIN e = DOMAIN new \cup DOMAIN read BY OverlaidFacts
<1>2. e["primary"] = read["primary"] /\ e["minutes"] = read["minutes"]
  <2>1. {"primary", "minutes"} \subseteq DOMAIN read \ DOMAIN new BY DEF Counted
  <2>2. \A k \in DOMAIN read \ DOMAIN new : e[k] = read[k] BY OverlaidFacts
  <2> HIDE DEF e
  <2>3. "primary" \in DOMAIN read \ DOMAIN new /\ "minutes" \in DOMAIN read \ DOMAIN new BY <2>1
  <2>4. QED BY <2>2, <2>3
<1> HIDE DEF e
<1>3. QED BY <1>1, <1>2 DEF Counted, e

(* With the metrics it is told. *)
LEMMA ToldFirst ==
  ASSUME NEW read, Counted(read), NEW raw, AreNumbers(raw, DOMAIN read.primary),
         NEW registry, AreNumbers(registry, DOMAIN read.primary), NEW covered
  PROVE  Told(Overlaid([raw |-> raw, registry |-> registry, covered |-> covered], read))
<1> DEFINE new == [raw |-> raw, registry |-> registry, covered |-> covered]
           e == Overlaid(new, read)
<1>1. DOMAIN new = {"raw", "registry", "covered"} /\ new["raw"] = raw /\ new["registry"] = registry OBVIOUS
<1> HIDE DEF new
<1>2. DOMAIN e = DOMAIN new \cup DOMAIN read /\ e["raw"] = raw /\ e["registry"] = registry
  <2>1. DOMAIN e = DOMAIN new \cup DOMAIN read /\ \A k \in DOMAIN new : e[k] = new[k] BY OverlaidFacts
  <2> HIDE DEF e
  <2>2. "raw" \in DOMAIN new /\ "registry" \in DOMAIN new BY <1>1
  <2>3. QED BY <1>1, <2>1, <2>2
<1>3. Counted(e) /\ e.primary = read.primary BY <1>1, CountedStays
<1> HIDE DEF e
<1>4. ASSUME NEW p \in DOMAIN e.primary PROVE PerformanceMinutes(e, p) \in Int
  <2>1. IsFiniteSet(DOMAIN e.raw[p]) /\ (\A k \in DOMAIN e.raw[p] : e.raw[p][k] \in Int) /\ e.minutes[p] \in Int
    BY <1>2, <1>3 DEF AreNumbers, Counted
  <2>2. QED BY <2>1, MinutesAre
<1>5. TOLD \subseteq DOMAIN e BY <1>1, <1>2, <1>3 DEF TOLD, Counted
<1>6. QED BY <1>2, <1>3, <1>4, <1>5 DEF Told, Counted, e, new

(* And stays so. *)
LEMMA ToldStays ==
  ASSUME NEW read, Told(read), NEW new, DOMAIN new \cap TOLD = {}
  PROVE  Told(Overlaid(new, read))
<1> DEFINE e == Overlaid(new, read)
<1>1. DOMAIN e = DOMAIN new \cup DOMAIN read /\ \A k \in TOLD : e[k] = read[k]
  <2>1. TOLD \subseteq DOMAIN read \ DOMAIN new BY DEF Told
  <2>2. QED BY <2>1, OverlaidFacts
<1> HIDE DEF e
<1>2. /\ e["primary"] = read["primary"] /\ e["minutes"] = read["minutes"] /\ e["raw"] = read["raw"]
      /\ e["registry"] = read["registry"] /\ e["covered"] = read["covered"]
  BY <1>1 DEF TOLD
<1>3. \A p : PerformanceMinutes(e, p) = PerformanceMinutes(read, p) BY <1>2 DEF PerformanceMinutes, Raw
<1>4. QED BY <1>1, <1>2, <1>3 DEF Told, e

\* The analyses of a run stay as they are.
Grows(x, y) == \A s \in DOMAIN x.rows : s \in DOMAIN y.rows /\ y.rows[s] = x.rows[s]
\* A row is one there was, with another rank, or one of the run's analyses.
Stems(z, x, y, r) ==
  (\E w \in stored \cup x.inserted \cup x.pending : Alike(w, z)) \/ (z.run = r /\ FromRun(z, y))

(* A row that is like one of a run's analyses is itself of the run. *)
LEMMA LikeIsFrom == ASSUME NEW w, NEW z, From(w), Alike(w, z) PROVE From(z)
<1>1. w.season = z.season /\ w.run = z.run BY DEF Alike
<1>2. CASE z.season = "" BY <1>2 DEF From
<1>3. CASE z.season # ""
  <2>1. z.run \in DOMAIN runs /\ FromRun(w, runs[z.run]) BY <1>1, <1>3 DEF From
  <2>2. PICK v \in runs[z.run].rows[z.season] : Alike(v, w) BY <1>1, <2>1 DEF FromRun
  <2>3. Alike(v, z) BY <2>2 DEF Alike
  <2>4. FromRun(z, runs[z.run]) BY <1>1, <2>1, <2>3 DEF FromRun
  <2>5. QED BY <2>1, <2>4 DEF From
<1>4. QED BY <1>2, <1>3

(* Where analyses only grow, a row remains what a run has made of its reading. *)
LEMMA FromStays ==
  ASSUME DOMAIN runs' = DOMAIN runs, \A q \in DOMAIN runs : Grows(runs[q], runs'[q])
  PROVE  \A z : From(z) => From(z)'
<1> SUFFICES ASSUME NEW z, From(z) PROVE From(z)' OBVIOUS
<1>1. CASE z.season = "" BY <1>1 DEF From
<1>2. CASE z.season # ""
  <2>1. z.run \in DOMAIN runs /\ FromRun(z, runs[z.run]) BY <1>2 DEF From
  <2>2. Grows(runs[z.run], runs'[z.run]) BY <2>1
  <2>3. FromRun(z, runs'[z.run]) BY <2>1, <2>2 DEF FromRun, Grows
  <2>4. QED BY <2>1, <2>3 DEF From
<1>3. QED BY <1>1, <1>2

(* A statement that writes only what it was given keeps all that has been told. *)
LEMMA ToldStep ==
  ASSUME ToldInv, NEW r \in DOMAIN runs, NEW y, Step(r, y), RunTold(y, r), Grows(runs[r], y),
         \A z \in y.inserted \cup y.pending : Stems(z, runs[r], y, r)
  PROVE  ToldInv'
<1>1. /\ DOMAIN runs' = DOMAIN runs /\ runs'[r] = y /\ \A q \in DOMAIN runs : q # r => runs'[q] = runs[q]
      /\ stored' = stored /\ facts' = facts
  BY DEF Step
<1>2. /\ facts \in DOMAIN Databases /\ \A q \in DOMAIN runs : RunTold(runs[q], q)
      /\ \A z \in stored : From(z)
      /\ \A q \in DOMAIN runs : \A z \in runs[q].inserted \cup runs[q].pending : From(z)
  BY DEF ToldInv
<1>3. \A q \in DOMAIN runs : Grows(runs[q], runs'[q]) BY <1>1 DEF Grows
<1>4. \A z : From(z) => From(z)' BY <1>1, <1>3, FromStays
<1>5. ASSUME NEW z \in y.inserted \cup y.pending PROVE From(z)'
  <2>1. CASE \E w \in stored \cup runs[r].inserted \cup runs[r].pending : Alike(w, z)
    <3>1. PICK w \in stored \cup runs[r].inserted \cup runs[r].pending : Alike(w, z) BY <2>1
    <3>2. From(w) BY <1>2
    <3>3. From(z) BY <3>1, <3>2, LikeIsFrom
    <3>4. QED BY <1>4, <3>3
  <2>2. CASE z.run = r /\ FromRun(z, y) BY <1>1, <2>2 DEF From
  <2>3. QED BY <2>1, <2>2 DEF Stems
<1>6. \A q \in DOMAIN runs : RunTold(runs'[q], q) BY <1>1, <1>2
<1>7. \A q \in DOMAIN runs : \A z \in runs'[q].inserted \cup runs'[q].pending : From(z)'
  <2> SUFFICES ASSUME NEW q \in DOMAIN runs, NEW z \in runs'[q].inserted \cup runs'[q].pending PROVE From(z)' OBVIOUS
  <2>1. CASE q = r BY <1>1, <1>5, <2>1
  <2>2. CASE q # r BY <1>1, <1>2, <1>4, <2>2
  <2>3. QED BY <2>1, <2>2
<1>8. \A z \in stored' : From(z)' BY <1>1, <1>2, <1>4
<1>9. QED BY <1>1, <1>2, <1>6, <1>7, <1>8 DEF ToldInv

(* A row is like itself. *)
LEMMA OwnStems == ASSUME NEW x, NEW y, NEW r, NEW z \in x.inserted \cup x.pending PROVE Stems(z, x, y, r)
BY DEF Stems, Alike

(* A statement that reads, or deletes, keeps all that has been told. *)
LEMMA ToldReads ==
  ASSUME ToldInv, NEW r \in DOMAIN runs, NEW y, Step(r, y), RunTold(y, r), y.rows = runs[r].rows,
         y.inserted \subseteq runs[r].inserted, y.pending \subseteq runs[r].pending
  PROVE  ToldInv'
<1>1. Grows(runs[r], y) BY DEF Grows
<1>2. \A z \in y.inserted \cup y.pending : Stems(z, runs[r], y, r) BY OwnStems
<1>3. QED BY <1>1, <1>2, ToldStep

(* The published facts are one of the databases. *)
LEMMA DbMeasured == ASSUME ToldInv PROVE Measured(Db)
BY DatabasesAssumption DEF ToldInv, Db

(* A run has told what its reading says, whatever the order of the statement it is in. *)
LEMMA SameTold ==
  ASSUME NEW x, NEW y, NEW r, RunTold(x, r), y.read = x.read, y.rows = x.rows,
         y.at \notin {"ids", "clear", "raw", "world", "idle"} \/ (y.at = x.at /\ y.todo = x.todo)
           \/ ({x.at, y.at} \subseteq {"ids", "clear", "raw"} /\ y.todo = x.todo)
  PROVE  RunTold(y, r)
BY DEF RunTold

(* The appearances of a season are read. *)
LEMMA ReadAppearancesTold == ASSUME Inv, ToldInv, NEW r \in DOMAIN runs, ReadAppearances(r) PROVE ToldInv'
<1> DEFINE x == runs[r]
           s == Season(r)
           apps == {a \in Db.appearances : a.season = s}
           reading(f) == [primary |-> f, minutes |-> TotalMinutes(apps), end |-> Db.ends[s]]
           skip == [x EXCEPT !.todo = Tail(@)]
           go(f) == [x EXCEPT !.at = "ids", !.read = With(@, s, reading(f))]
<1>1. Shape(x) /\ IsRun(x) /\ RunTold(x, r) BY DEF Inv, RunsInv, RunInv, Shape, ToldInv
<1>2. x.at = "season" /\ x.todo # <<>> /\ (Step(r, skip) \/ \E f \in PrimaryChoices(apps) : Step(r, go(f)))
  BY DEF ReadAppearances
<1>3. s = Head(x.todo) /\ s \notin DOMAIN x.read
  <2>1. s = Head(x.todo) BY DEF Season
  <2>2. s \in ToSet(x.todo)
    <3>1. x.todo \in TODOS BY <1>1 DEF Shape
    <3>2. ToSet(x.todo) = {Head(x.todo)} \cup ToSet(Tail(x.todo)) BY <1>2, <3>1, Todos
    <3>3. QED BY <2>1, <3>2
  <2>3. ~Doing(x, s) BY <1>2 DEF Doing, WORKING
  <2>4. QED BY <1>1, <2>1, <2>2, <2>3 DEF Shape
<1>4. CASE Step(r, skip)
  <2> DEFINE y == skip
  <2>1. y.at = "season" /\ y.read = x.read /\ y.rows = x.rows /\ y.inserted = x.inserted /\ y.pending = x.pending
    <3>0. y = [x EXCEPT !.todo = Tail(x.todo)] OBVIOUS
    <3> HIDE DEF x, y, s
    <3>1. QED BY <1>1, <1>2, <3>0 DEF IsRun
  <2> HIDE DEF skip
  <2>2. RunTold(y, r)
    <3> HIDE DEF x, s
    <3>1. QED BY <1>1, <2>1, SameTold
  <2>3. QED BY <1>4, <2>1, <2>2, ToldReads
<1>5. ASSUME NEW f \in PrimaryChoices(apps), Step(r, go(f)) PROVE ToldInv'
  <2> DEFINE y == go(f)
             e == reading(f)
  <2>1. Counted(e)
    <3>1. IsFiniteSet(apps) /\ \A a \in apps : a.player \in Int /\ a.minutes \subseteq Int BY DbMeasured, FS_Subset DEF Measured
    <3> HIDE DEF apps
    <3>2. QED BY <3>1, CountedFirst
  <2>0. y = [x EXCEPT !.at = "ids", !.read = With(x.read, s, e)] OBVIOUS
  <2> HIDE DEF e
  <2>2. /\ y.at = "ids" /\ y.todo = x.todo /\ y.read = With(x.read, s, e) /\ y.rows = x.rows
        /\ y.inserted = x.inserted /\ y.pending = x.pending
    <3> HIDE DEF x, y, s
    <3>1. QED BY <1>1, <2>0 DEF IsRun
  <2> HIDE DEF go
  <2>3. RunTold(y, r)
    <3> HIDE DEF x, s
    <3>1. DOMAIN y.read = DOMAIN x.read \cup {s} /\ y.read[s] = e /\ \A z \in DOMAIN x.read : y.read[z] = x.read[z]
      BY <1>3, <2>2 DEF With
    <3>2. DOMAIN x.rows \subseteq DOMAIN x.read BY <1>1 DEF RunTold
    <3>3. QED BY <1>1, <1>3, <2>1, <2>2, <3>1, <3>2 DEF RunTold
  <2>4. QED BY <1>5, <2>2, <2>3, ToldReads
<1>6. QED BY <1>2, <1>4, <1>5

(* The ratings of the season are read. *)
LEMMA ReadRatingIdsTold == ASSUME Inv, ToldInv, NEW r \in DOMAIN runs, ReadRatingIds(r) PROVE ToldInv'
<1> DEFINE x == runs[r]
           s == Season(r)
           ids == OfTable(InSeason(Visible(r), s), "ratings")
           audits == OfTable(Visible(r), "audits") \intersect {Row("audits", z.season, z.player, z.key, z.run, 0, "") : z \in ids}
           more == IF audits = {} THEN x.found ELSE x.found \union {s}
           y == [x EXCEPT !.at = "clear", !.clear = CLEARED, !.targets = audits, !.found = more]
<1>1. IsRun(x) /\ RunTold(x, r) BY DEF Inv, RunsInv, RunInv, Shape, ToldInv
<1>2. x.at = "ids" /\ Step(r, y) BY DEF ReadRatingIds
<1> HIDE DEF audits, more
<1>3. /\ y.at = "clear" /\ y.todo = x.todo /\ y.read = x.read /\ y.rows = x.rows
      /\ y.inserted = x.inserted /\ y.pending = x.pending
  <2>0. y = [x EXCEPT !.at = "clear", !.clear = CLEARED, !.targets = audits, !.found = more] OBVIOUS
  <2> HIDE DEF x, y
  <2>1. QED BY <1>1, <2>0 DEF IsRun
<1> HIDE DEF y
<1>4. RunTold(y, r)
  <2> HIDE DEF x
  <2>1. QED BY <1>1, <1>2, <1>3, SameTold
<1>5. QED BY <1>2, <1>3, <1>4, ToldReads

(* A DELETE changes neither what is read nor what is written. *)
LEMMA TakingTold ==
  ASSUME Inv, ToldInv, NEW r \in DOMAIN runs, runs[r].at = "clear", NEW y,
         \E clear, targets, deleted : y = [runs[r] EXCEPT !.clear = clear, !.targets = targets, !.deleted = deleted],
         Step(r, y)
  PROVE  ToldInv'
<1> DEFINE x == runs[r]
<1>1. IsRun(x) /\ RunTold(x, r) BY DEF Inv, RunsInv, RunInv, Shape, ToldInv
<1>2. PICK clear, targets, deleted : y = [x EXCEPT !.clear = clear, !.targets = targets, !.deleted = deleted] OBVIOUS
<1>3. /\ y.at = x.at /\ y.todo = x.todo /\ y.read = x.read /\ y.rows = x.rows
      /\ y.inserted = x.inserted /\ y.pending = x.pending
  <2> HIDE DEF x
  <2>1. QED BY <1>1, <1>2 DEF IsRun
<1>4. RunTold(y, r)
  <2> HIDE DEF x
  <2>1. QED BY <1>1, <1>3, SameTold
<1>5. QED BY <1>3, <1>4, ToldReads

(* The two that are. *)
LEMMA DeletesTold == ASSUME Inv, ToldInv, NEW r \in DOMAIN runs, FinishDelete(r) \/ StartDelete(r) PROVE ToldInv'
<1> DEFINE x == runs[r]
           gone(rows) == x.deleted \union (rows \intersect stored) \union Cascaded(rows \intersect stored)
           new(clear, targets, deleted) == [x EXCEPT !.clear = clear, !.targets = targets, !.deleted = deleted]
<1>1. IsRun(x) BY DEF Inv, RunsInv, RunInv, Shape
<1>2. x.at = "clear" BY DEF FinishDelete, StartDelete
<1>3. ASSUME NEW rows PROVE Taking(r, rows) = new(x.clear, {}, gone(rows))
  <2>1. PICK g : g = gone(rows) OBVIOUS
  <2>2. Taking(r, rows) = [x EXCEPT !.targets = {}, !.deleted = g] BY <2>1 DEF Taking
  <2> HIDE DEF x, gone
  <2>3. [x EXCEPT !.targets = {}, !.deleted = g] = [x EXCEPT !.clear = x.clear, !.targets = {}, !.deleted = g]
    BY <1>1 DEF IsRun
  <2>4. QED BY <2>1, <2>2, <2>3
<1>4. ASSUME NEW rows, NEW rest PROVE [Taking(r, rows) EXCEPT !.clear = rest] = new(rest, {}, gone(rows))
  <2>1. PICK g : g = gone(rows) OBVIOUS
  <2>2. Taking(r, rows) = [x EXCEPT !.clear = x.clear, !.targets = {}, !.deleted = g] BY <1>3, <2>1
  <2> HIDE DEF x, gone
  <2>3. [[x EXCEPT !.clear = x.clear, !.targets = {}, !.deleted = g] EXCEPT !.clear = rest] =
        [x EXCEPT !.clear = rest, !.targets = {}, !.deleted = g]
    BY <1>1 DEF IsRun
  <2>4. QED BY <2>1, <2>2, <2>3
<1>5. ASSUME NEW rows, NEW rest PROVE [x EXCEPT !.clear = rest, !.targets = rows] = new(rest, rows, x.deleted)
  <2> HIDE DEF x
  <2>1. QED BY <1>1 DEF IsRun
<1>6. \E clear, targets, deleted : Step(r, new(clear, targets, deleted))
  <2>1. CASE FinishDelete(r)
    <3>1. Step(r, Taking(r, x.targets)) BY <2>1 DEF FinishDelete
    <3>2. Step(r, new(x.clear, {}, gone(x.targets))) BY <1>3, <3>1
    <3> HIDE DEF new
    <3>3. QED BY <3>2
  <2>2. CASE StartDelete(r)
    <3> DEFINE rows == OfTable(InSeason(Visible(r), Season(r)), Head(x.clear))
               rest == Tail(x.clear)
    <3>1. Step(r, [x EXCEPT !.clear = rest, !.targets = rows]) \/ Step(r, [Taking(r, rows) EXCEPT !.clear = rest])
      BY <2>2 DEF StartDelete
    <3> HIDE DEF rows, rest
    <3>2. Step(r, new(rest, rows, x.deleted)) \/ Step(r, new(rest, {}, gone(rows))) BY <1>4, <1>5, <3>1
    <3> HIDE DEF new
    <3>3. QED BY <3>2
  <2>3. QED BY <2>1, <2>2
<1>7. PICK clear, targets, deleted : Step(r, new(clear, targets, deleted)) BY <1>6
<1>8. PICK y : y = new(clear, targets, deleted) OBVIOUS
<1>9. \E c, t, d : y = [runs[r] EXCEPT !.clear = c, !.targets = t, !.deleted = d] BY <1>8
<1>10. Step(r, y) BY <1>7, <1>8
<1> HIDE DEF new, gone
<1>11. QED BY <1>2, <1>9, <1>10, TakingTold

(* The players are read. *)
LEMMA ReadPlayersTold == ASSUME Inv, ToldInv, NEW r \in DOMAIN runs, ReadPlayers(r) PROVE ToldInv'
<1> DEFINE x == runs[r]
           s == Season(r)
           new == [players |-> Kept(r, "players", [p \in DOMAIN Reading(r).primary |-> Db.players[p]])]
           e == Overlaid(new, x.read[s])
           y == [x EXCEPT !.at = "raw", !.read[s] = e]
<1>1. IsRun(x) /\ Shape(x) /\ RunTold(x, r) BY DEF Inv, RunsInv, RunInv, Shape, ToldInv
<1>2. x.at = "clear" /\ Step(r, y) BY DEF ReadPlayers
<1>3. s = Head(x.todo) /\ s \in DOMAIN x.read /\ s \notin DOMAIN x.rows /\ Counted(x.read[s])
  <2>1. s = Head(x.todo) BY DEF Season
  <2> HIDE DEF x, s
  <2>2. QED BY <1>1, <1>2, <2>1 DEF Shape, WORKING, RunTold
<1>4. Counted(e)
  <2>1. DOMAIN new = {"players"} OBVIOUS
  <2> HIDE DEF new, x, s
  <2>2. DOMAIN new \cap {"primary", "minutes"} = {} BY <2>1
  <2>3. QED BY <1>3, <2>2, CountedStays
<1> HIDE DEF e
<1>5. /\ y.at = "raw" /\ y.todo = x.todo /\ y.read = [x.read EXCEPT ![s] = e] /\ y.rows = x.rows
      /\ y.inserted = x.inserted /\ y.pending = x.pending
  <2>0. y = [x EXCEPT !.at = "raw", !.read[s] = e] OBVIOUS
  <2> HIDE DEF x, y, s
  <2>1. QED BY <1>1, <2>0 DEF IsRun
<1> HIDE DEF y
<1>6. RunTold(y, r)
  <2> HIDE DEF x, s
  <2>1. DOMAIN y.read = DOMAIN x.read /\ y.read[s] = e /\ \A z \in DOMAIN x.read : z # s => y.read[z] = x.read[z]
    BY <1>3, <1>5
  <2>2. \A z \in DOMAIN x.rows : z \in DOMAIN x.read /\ z # s BY <1>1, <1>3 DEF RunTold
  <2>3. QED BY <1>1, <1>3, <1>4, <1>5, <2>1, <2>2 DEF RunTold
<1>7. QED BY <1>2, <1>5, <1>6, ToldReads

(* The metrics are read. *)
LEMMA ReadRawTold == ASSUME Inv, ToldInv, NEW r \in DOMAIN runs, ReadRaw(r) PROVE ToldInv'
<1> DEFINE x == runs[r]
           s == Season(r)
           rows == {m \in Db.metrics : m.season = s}
           covered == \E m \in rows : m.provider = "statsbomb"
<1>1. IsRun(x) /\ Shape(x) /\ RunTold(x, r) BY DEF Inv, RunsInv, RunInv, Shape, ToldInv
<1>2. x.at = "raw" BY DEF ReadRaw
<1>3. PICK raw \in RawChoices(rows, DOMAIN Reading(r).primary) : \E registry \in RegistryChoices(raw) :
        Step(r, [x EXCEPT !.at = "world", !.read[s] = Overlaid([raw |-> raw, registry |-> registry, covered |-> covered], @)])
  BY DEF ReadRaw
<1>4. PICK registry \in RegistryChoices(raw) :
        Step(r, [x EXCEPT !.at = "world", !.read[s] = Overlaid([raw |-> raw, registry |-> registry, covered |-> covered], @)])
  BY <1>3
<1> DEFINE e == Overlaid([raw |-> raw, registry |-> registry, covered |-> covered], x.read[s])
           y == [x EXCEPT !.at = "world", !.read[s] = e]
<1>5. Step(r, y) BY <1>4
<1>6. s = Head(x.todo) /\ s \in DOMAIN x.read /\ s \notin DOMAIN x.rows /\ Counted(x.read[s])
  <2>1. s = Head(x.todo) BY DEF Season
  <2> HIDE DEF x, s
  <2>2. QED BY <1>1, <1>2, <2>1 DEF Shape, WORKING, RunTold
<1>7. Reading(r) = x.read[s] BY DEF Reading
<1>8. Told(e)
  <2>1. IsFiniteSet(rows) /\ \A m \in rows : m.value \subseteq Int BY DbMeasured, FS_Subset DEF Measured
  <2> DEFINE players == DOMAIN x.read[s].primary
  <2>2. IsFiniteSet(players) /\ raw \in RawChoices(rows, players) BY <1>3, <1>6, <1>7 DEF Counted
  <2> HIDE DEF rows, players
  <2>3. AreNumbers(raw, players) BY <2>1, <2>2, RawAre
  <2>4. AreNumbers(registry, players) BY <2>2, <2>3, RegistryAre
  <2> HIDE DEF x, s, covered
  <2>5. QED BY <1>6, <2>3, <2>4, ToldFirst DEF players
<1> HIDE DEF e
<1>9. /\ y.at = "world" /\ y.todo = x.todo /\ y.read = [x.read EXCEPT ![s] = e] /\ y.rows = x.rows
      /\ y.inserted = x.inserted /\ y.pending = x.pending
  <2>0. y = [x EXCEPT !.at = "world", !.read[s] = e] OBVIOUS
  <2> HIDE DEF x, y, s
  <2>1. QED BY <1>1, <2>0 DEF IsRun
<1> HIDE DEF y
<1>10. RunTold(y, r)
  <2> HIDE DEF x, s
  <2>1. DOMAIN y.read = DOMAIN x.read /\ y.read[s] = e /\ \A z \in DOMAIN x.read : z # s => y.read[z] = x.read[z]
    BY <1>6, <1>9
  <2>2. \A z \in DOMAIN x.rows : z \in DOMAIN x.read /\ z # s BY <1>1, <1>6 DEF RunTold
  <2>3. QED BY <1>1, <1>6, <1>8, <1>9, <2>1, <2>2 DEF RunTold
<1>11. QED BY <1>5, <1>9, <1>10, ToldReads

(* The season is analysed. *)
LEMMA AnalyseTold == ASSUME Inv, ToldInv, NEW r \in DOMAIN runs, Analyse(r) PROVE ToldInv'
<1> DEFINE x == runs[r]
           s == Season(r)
           world == [competitions |-> Kept(r, "competitions", Db.competitions), teams |-> Kept(r, "teams", Db.teams)]
           e == Overlaid(world, Reading(r))
           a == AnalysisRows(e, s, r)
           y == [x EXCEPT !.at = "rate", !.read[s] = e, !.rows = With(@, s, a)]
<1>1. IsRun(x) /\ Shape(x) /\ RunTold(x, r) BY DEF Inv, RunsInv, RunInv, Shape, ToldInv
<1>2. x.at = "world" /\ Step(r, y) BY DEF Analyse
<1>3. s = Head(x.todo) /\ s \in DOMAIN x.read /\ s \notin DOMAIN x.rows /\ Told(x.read[s])
  <2>1. s = Head(x.todo) BY DEF Season
  <2> HIDE DEF x, s
  <2>2. QED BY <1>1, <1>2, <2>1 DEF Shape, WORKING, RunTold
<1>4. Told(e)
  <2>1. DOMAIN world = {"competitions", "teams"} OBVIOUS
  <2>2. Reading(r) = x.read[s] BY DEF Reading
  <2> HIDE DEF world, x, s
  <2>3. DOMAIN world \cap TOLD = {} BY <2>1 DEF TOLD
  <2>4. QED BY <1>3, <2>2, <2>3, ToldStays
<1>5. a = AnalysisRows(e, s, r) OBVIOUS
<1> HIDE DEF e, a
<1>6. /\ y.at = "rate" /\ y.read = [x.read EXCEPT ![s] = e] /\ y.rows = With(x.rows, s, a)
      /\ y.inserted = x.inserted /\ y.pending = x.pending
  <2>0. y = [x EXCEPT !.at = "rate", !.read[s] = e, !.rows = With(x.rows, s, a)] OBVIOUS
  <2> HIDE DEF x, y, s
  <2>1. QED BY <1>1, <2>0 DEF IsRun
<1> HIDE DEF y
<1>7. DOMAIN y.rows = {s} \cup DOMAIN x.rows /\ y.rows[s] = a /\ \A z \in DOMAIN x.rows : y.rows[z] = x.rows[z]
  BY <1>3, <1>6 DEF With
<1>8. RunTold(y, r)
  <2> HIDE DEF x, s
  <2>1. DOMAIN y.read = DOMAIN x.read /\ y.read[s] = e /\ \A z \in DOMAIN x.read : z # s => y.read[z] = x.read[z]
    BY <1>3, <1>6
  <2>2. \A z \in DOMAIN x.rows : z \in DOMAIN x.read /\ z # s BY <1>1, <1>3 DEF RunTold
  <2>3. \A z \in DOMAIN y.rows : Told(y.read[z]) /\ y.rows[z] = AnalysisRows(y.read[z], z, r)
    BY <1>1, <1>4, <1>5, <1>7, <2>1, <2>2 DEF RunTold
  <2>4. DOMAIN y.rows \subseteq DOMAIN y.read BY <1>3, <1>7, <2>1, <2>2
  <2>5. QED BY <1>6, <2>3, <2>4 DEF RunTold
<1>9. Grows(x, y) BY <1>7 DEF Grows
<1>10. \A z \in y.inserted \cup y.pending : Stems(z, x, y, r)
  <2> HIDE DEF x
  <2>1. QED BY <1>6, OwnStems
<1>11. QED BY <1>2, <1>8, <1>9, <1>10, ToldStep

(* A run that rolls back keeps what it has told. *)
LEMMA AbortTold == ASSUME Inv, ToldInv, NEW r \in DOMAIN runs, Abort(r) PROVE ToldInv'
<1> DEFINE x == runs[r]
           y == RolledBack(r)
<1>1. IsRun(x) /\ RunTold(x, r) BY DEF Inv, RunsInv, RunInv, Shape, ToldInv
<1>2. Step(r, y) BY DEF Abort
<1>3. y.at = "failed" /\ y.inserted = {} /\ y.pending = {} /\ y.read = x.read /\ y.rows = x.rows
  <2>0. y = [x EXCEPT !.at = "failed", !.todo = <<>>, !.clear = <<>>, !.targets = {},
                      !.inserted = {}, !.deleted = {}, !.pending = {}]
    BY DEF RolledBack
  <2> HIDE DEF x, y
  <2>1. QED BY <1>1, <2>0 DEF IsRun
<1> HIDE DEF y
<1>4. RunTold(y, r)
  <2> HIDE DEF x
  <2>1. QED BY <1>1, <1>3, SameTold
<1>5. y.inserted \subseteq x.inserted /\ y.pending \subseteq x.pending BY <1>3
<1>6. QED BY <1>2, <1>3, <1>4, <1>5, ToldReads

(* A row of an analysis is of the run. *)
LEMMA RowStems ==
  ASSUME NEW x, NEW y, NEW r, NEW s, IsAnalysis(x.rows[s], s, r), s \in DOMAIN x.rows, y.rows = x.rows, NEW z \in x.rows[s]
  PROVE  Stems(z, x, y, r)
<1>1. z.season = s /\ z.run = r BY DEF IsAnalysis
<1>2. Alike(z, z) BY DEF Alike
<1>3. FromRun(z, y) BY <1>1, <1>2 DEF FromRun
<1>4. QED BY <1>1, <1>3 DEF Stems

(* The rows that are flushed are of the analysis. *)
LEMMA FlushRatingsTold == ASSUME Inv, ToldInv, NEW r \in DOMAIN runs, FlushRatings(r) PROVE ToldInv'
<1> DEFINE x == runs[r]
           rows == OfTables(x.rows[Season(r)], SCORED)
           new == x.pending \union rows
           rewritten == Rewritten(new, r)
           ya == [x EXCEPT !.at = "rank", !.pending = new]
           yb == [[x EXCEPT !.inserted = @ \union new, !.deleted = @ \union rewritten, !.pending = {}] EXCEPT !.at = "rank"]
<1>1. Shape(x) /\ Analyses(x, r) /\ IsRun(x) /\ RunTold(x, r) BY DEF Inv, RunsInv, RunInv, Shape, ToldInv
<1>2. x.at = "rate" /\ (Step(r, ya) \/ Step(r, yb) \/ Abort(r)) BY DEF FlushRatings, Flushed
<1>3. PICK s : s = Head(x.todo) OBVIOUS
<1>4. s \in DOMAIN x.rows /\ IsAnalysis(x.rows[s], s, r) /\ rows \subseteq x.rows[s]
  <2>1. s \in DOMAIN x.read BY <1>1, <1>2, <1>3 DEF Shape, WORKING
  <2>2. s \in DOMAIN x.rows /\ IsAnalysis(x.rows[s], s, r) BY <1>1, <1>2, <2>1 DEF Analyses
  <2>3. QED BY <1>3, <2>2 DEF OfTables, Season
<1> HIDE DEF rows
<1>5. ASSUME NEW y, y.rows = x.rows, NEW z \in x.inserted \cup x.pending \cup rows PROVE Stems(z, x, y, r)
  <2> HIDE DEF x
  <2>1. CASE z \in rows BY <1>4, <1>5, <2>1, RowStems
  <2>2. CASE z \in x.inserted \cup x.pending BY <2>2, OwnStems
  <2>3. QED BY <2>1, <2>2
<1>6. ASSUME NEW y, Step(r, y), y.at = "rank", y.read = x.read, y.rows = x.rows,
             y.inserted \cup y.pending \subseteq x.inserted \cup x.pending \cup rows
      PROVE  ToldInv'
  <2>1. RunTold(y, r)
    <3> HIDE DEF x
    <3>1. QED BY <1>1, <1>6, SameTold
  <2>2. Grows(x, y) BY <1>6 DEF Grows
  <2>3. \A z \in y.inserted \cup y.pending : Stems(z, x, y, r)
    <3> HIDE DEF x
    <3>1. QED BY <1>5, <1>6
  <2>4. QED BY <1>6, <2>1, <2>2, <2>3, ToldStep
<1>7. CASE Step(r, ya)
  <2> DEFINE y == ya
  <2>1. /\ y.at = "rank" /\ y.read = x.read /\ y.rows = x.rows
        /\ y.inserted \cup y.pending \subseteq x.inserted \cup x.pending \cup rows
    <3>0. y = [x EXCEPT !.at = "rank", !.pending = x.pending \cup rows] OBVIOUS
    <3> HIDE DEF x, y, new
    <3>1. QED BY <1>1, <3>0 DEF IsRun
  <2> HIDE DEF ya, x
  <2>2. QED BY <1>6, <1>7, <2>1
<1>8. CASE Step(r, yb)
  <2> DEFINE y == yb
  <2> HIDE DEF rewritten
  <2>1. /\ y.at = "rank" /\ y.read = x.read /\ y.rows = x.rows
        /\ y.inserted \cup y.pending \subseteq x.inserted \cup x.pending \cup rows
    <3>0. y = [[x EXCEPT !.inserted = @ \union (x.pending \cup rows), !.deleted = @ \union rewritten, !.pending = {}]
                EXCEPT !.at = "rank"]
      OBVIOUS
    <3> HIDE DEF x, y, new
    <3>1. QED BY <1>1, <3>0 DEF IsRun
  <2> HIDE DEF yb, x
  <2>2. QED BY <1>6, <1>8, <2>1
<1>9. CASE Abort(r) BY <1>9, AbortTold
<1>10. QED BY <1>2, <1>7, <1>8, <1>9

(* A new rank leaves a row like it was. *)
LEMMA RankAlike == ASSUME NEW z, IsRow(z), NEW n PROVE Alike(z, [z EXCEPT !.rank = n])
<1> DEFINE full(q) == [table |-> z.table, season |-> z.season, player |-> z.player, key |-> z.key, run |-> z.run,
                       value |-> z.value, trust |-> z.trust, rank |-> q]
           y == [z EXCEPT !.rank = n]
<1>1. z = full(z.rank) BY Zenon DEF IsRow
<1>2. y = full(n) BY <1>1
<1> HIDE DEF y
<1>3. Alike(z, y) BY <1>2 DEF Alike
<1>4. QED BY <1>3 DEF y

(* A row that is ranked is a row there is. *)
LEMMA RankedAlike ==
  ASSUME NEW rows, \A w \in rows : IsRow(w), NEW z \in Ranked(rows)
  PROVE  \E w \in rows : Alike(w, z)
<1>1. PICK w \in rows : z = [w EXCEPT !.rank = RankAmong(w, rows)] BY DEF Ranked
<1>2. QED BY <1>1, RankAlike

(* The ratings of the season are ranked. *)
LEMMA AssignRanksTold == ASSUME Inv, ToldInv, NEW r \in DOMAIN runs, AssignRanks(r) PROVE ToldInv'
<1> DEFINE x == runs[r]
           s == Season(r)
           seen == OfTable(InSeason(Visible(r), s), "ratings")
           own == seen \intersect x.inserted
           ranked == Ranked(seen)
           derived == {z \in x.rows[s] : z.table \notin SCORED}
           ins == (x.inserted \ own) \union {z \in ranked : z.run = r}
           pend == x.pending \union derived \union {z \in ranked \ stored : z.run # r}
           y == [x EXCEPT !.at = "season", !.todo = Tail(@), !.inserted = ins, !.pending = pend]
<1>1. /\ Shape(x) /\ Analyses(x, r) /\ IsRun(x) /\ RunTold(x, r) /\ Writes(x, r, FinishedRuns)
      /\ KeptInv(stored, FinishedRuns)
  BY DEF Inv, RunsInv, RunInv, Shape, ToldInv
<1>2. x.at = "rank" /\ Step(r, y) BY DEF AssignRanks
<1>3. s \in DOMAIN x.rows /\ IsAnalysis(x.rows[s], s, r)
  <2>0. s = Head(x.todo) BY DEF Season
  <2> HIDE DEF s
  <2>1. s \in DOMAIN x.read BY <1>1, <1>2, <2>0 DEF Shape, WORKING
  <2>2. Written(x, s) BY <1>2, <2>1 DEF Written
  <2>3. QED BY <1>1, <1>2, <2>1, <2>2 DEF Analyses
<1>4. \A z \in seen : z \in stored \cup x.inserted /\ IsRow(z)
  <2>1. \A z \in seen : z \in stored \cup x.inserted BY DEF OfTable, InSeason, Visible
  <2>2. \A z \in stored \cup x.inserted : IsRow(z) BY <1>1 DEF KeptInv, Writes, IsKept
  <2> HIDE DEF seen, x
  <2>3. QED BY <2>1, <2>2
<1> HIDE DEF seen, s
<1>5. \A z \in ranked : \E w \in stored \cup x.inserted \cup x.pending : Alike(w, z)
  <2> SUFFICES ASSUME NEW z \in Ranked(seen) PROVE \E w \in stored \cup x.inserted \cup x.pending : Alike(w, z) OBVIOUS
  <2> HIDE DEF x
  <2>1. \A w \in seen : IsRow(w) BY <1>4
  <2>2. PICK w \in seen : Alike(w, z) BY <2>1, RankedAlike
  <2>3. QED BY <1>4, <2>2
<1>6. y.at = "season" /\ y.read = x.read /\ y.rows = x.rows /\ y.inserted = ins /\ y.pending = pend
  <2>0. y = [x EXCEPT !.at = "season", !.todo = Tail(x.todo), !.inserted = ins, !.pending = pend] OBVIOUS
  <2> HIDE DEF x, y, ins, pend
  <2>1. QED BY <1>1, <2>0 DEF IsRun
<1> HIDE DEF y
<1>7. \A z \in y.inserted \cup y.pending : Stems(z, x, y, r)
  <2> SUFFICES ASSUME NEW z \in y.inserted \cup y.pending PROVE Stems(z, x, y, r) OBVIOUS
  <2> HIDE DEF x, ranked, own
  <2>1. z \in x.inserted \cup x.pending \/ z \in ranked \/ z \in x.rows[s] BY <1>6
  <2>2. CASE z \in x.inserted \cup x.pending BY <2>2, OwnStems
  <2>3. CASE z \in ranked BY <1>5, <2>3 DEF Stems
  <2>4. CASE z \in x.rows[s] BY <1>3, <1>6, <2>4, RowStems
  <2>5. QED BY <2>1, <2>2, <2>3, <2>4
<1>8. RunTold(y, r)
  <2> HIDE DEF x
  <2>1. QED BY <1>1, <1>6, SameTold
<1>9. Grows(x, y) BY <1>6 DEF Grows
<1>10. QED BY <1>2, <1>7, <1>8, <1>9, ToldStep

(* What a run commits is what it has written. *)
LEMMA CommitTold == ASSUME Inv, ToldInv, NEW r \in DOMAIN runs, Commit(r) PROVE ToldInv'
<1>1. CASE Abort(r) BY <1>1, AbortTold
<1>2. CASE ~Abort(r)
  <2> DEFINE x == runs[r]
             y == runs'[r]
  <2>1. /\ DOMAIN runs' = DOMAIN runs /\ \A q \in DOMAIN runs \ {r} : runs'[q] = runs[q]
        /\ stored' = (stored \ Takeoff(r)) \cup (x.inserted \cup x.pending)
        /\ y.at = "finished" /\ y.read = x.read /\ y.rows = x.rows /\ y.inserted = {} /\ y.pending = {}
    BY <1>2, CommitCommits DEF Committed, Addition
  <2>2. facts' = facts
    <3>1. Commit(r) => Abort(r) \/ UNCHANGED facts
      <4> DEFINE a == Abort(r)
      <4> HIDE DEF a
      <4>1. Commit(r) => a \/ UNCHANGED <<facts, events>> BY DEF Commit, a
      <4>2. QED BY <4>1 DEF a
    <3>2. QED BY <1>2, <3>1
  <2>3. /\ facts \in DOMAIN Databases /\ \A q \in DOMAIN runs : RunTold(runs[q], q)
        /\ \A z \in stored : From(z)
        /\ \A q \in DOMAIN runs : \A z \in runs[q].inserted \cup runs[q].pending : From(z)
    BY DEF ToldInv
  <2>4. \A q \in DOMAIN runs : Grows(runs[q], runs'[q]) BY <2>1 DEF Grows
  <2>5. \A z : From(z) => From(z)' BY <2>1, <2>4, FromStays
  <2>6. RunTold(y, r)
    <3>1. RunTold(x, r) BY <2>3
    <3> HIDE DEF x, y
    <3>2. QED BY <2>1, <3>1, SameTold
  <2>7. \A q \in DOMAIN runs : RunTold(runs'[q], q)
    <3> SUFFICES ASSUME NEW q \in DOMAIN runs PROVE RunTold(runs'[q], q) OBVIOUS
    <3>1. CASE q = r BY <2>6, <3>1
    <3>2. CASE q # r BY <2>1, <2>3, <3>2
    <3>3. QED BY <3>1, <3>2
  <2>8. \A z \in stored' : From(z)' BY <2>1, <2>3, <2>5
  <2>9. \A q \in DOMAIN runs : \A z \in runs'[q].inserted \cup runs'[q].pending : From(z)'
    <3> SUFFICES ASSUME NEW q \in DOMAIN runs, NEW z \in runs'[q].inserted \cup runs'[q].pending PROVE From(z)' OBVIOUS
    <3>1. CASE q = r BY <2>1, <3>1
    <3>2. CASE q # r BY <2>1, <2>3, <2>5, <3>2
    <3>3. QED BY <3>1, <3>2
  <2>10. QED BY <2>1, <2>2, <2>3, <2>7, <2>8, <2>9 DEF ToldInv
<1>3. QED BY <1>1, <1>2

(* A run that begins has told nothing. *)
LEMMA BeginTold == ASSUME Inv, ToldInv, NEW r \in DOMAIN runs, Begin(r) PROVE ToldInv'
<1>1. Joined(r) BY BeginJoins
<1>2. /\ stored' = stored /\ DOMAIN runs' = DOMAIN runs /\ runs[r].at = "idle"
      /\ Begun(runs'[r]) /\ runs'[r].pending \subseteq Definitions(r)
  BY <1>1 DEF Joined
<1>3. \A q \in DOMAIN runs \ {r} : LET x == runs[q]
                                       y == runs'[q] IN
        /\ y.at = x.at /\ y.todo = x.todo /\ y.read = x.read /\ y.rows = x.rows
        /\ y.inserted = x.inserted /\ y.pending = x.pending
  BY <1>1, JoinedFacts
<1>4. facts' = facts BY DEF Begin
<1>5. /\ facts \in DOMAIN Databases /\ \A q \in DOMAIN runs : RunTold(runs[q], q)
      /\ \A z \in stored : From(z)
      /\ \A q \in DOMAIN runs : \A z \in runs[q].inserted \cup runs[q].pending : From(z)
  BY DEF ToldInv
<1>6. DOMAIN runs[r].rows = {} BY <1>2, <1>5 DEF RunTold
<1>7. \A q \in DOMAIN runs : Grows(runs[q], runs'[q])
  <2> SUFFICES ASSUME NEW q \in DOMAIN runs PROVE Grows(runs[q], runs'[q]) OBVIOUS
  <2>1. CASE q = r BY <1>6, <2>1 DEF Grows
  <2>2. CASE q # r BY <1>3, <2>2 DEF Grows
  <2>3. QED BY <2>1, <2>2
<1>8. \A z : From(z) => From(z)' BY <1>2, <1>7, FromStays
<1>9. \A q \in DOMAIN runs : RunTold(runs'[q], q)
  <2> SUFFICES ASSUME NEW q \in DOMAIN runs PROVE RunTold(runs'[q], q) OBVIOUS
  <2>1. CASE q = r
    <3>1. runs'[r].at = "season" /\ DOMAIN runs'[r].rows = {} BY <1>2 DEF Begun
    <3>2. QED BY <2>1, <3>1 DEF RunTold
  <2>2. CASE q # r BY <1>3, <1>5, <2>2 DEF RunTold
  <2>3. QED BY <2>1, <2>2
<1>10. \A q \in DOMAIN runs : \A z \in runs'[q].inserted \cup runs'[q].pending : From(z)'
  <2> SUFFICES ASSUME NEW q \in DOMAIN runs, NEW z \in runs'[q].inserted \cup runs'[q].pending PROVE From(z)' OBVIOUS
  <2>1. CASE q = r
    <3>1. z \in Definitions(r) BY <1>2, <2>1 DEF Begun
    <3>2. z.season = "" BY <3>1, DefinitionFacts
    <3>3. QED BY <3>2 DEF From
  <2>2. CASE q # r
    <3>1. From(z) BY <1>3, <1>5, <2>2
    <3>2. QED BY <1>8, <3>1
  <2>3. QED BY <2>1, <2>2
<1>11. \A z \in stored' : From(z)' BY <1>2, <1>5, <1>8
<1>12. QED BY <1>2, <1>4, <1>5, <1>9, <1>10, <1>11 DEF ToldInv

(* An ingestion publishes one of the databases. *)
LEMMA StillTold ==
  ASSUME ToldInv, UNCHANGED <<stored, runs>>, facts' = facts \/ facts' \in Successors[facts]
  PROVE  ToldInv'
<1>1. facts' \in DOMAIN Databases BY DatabasesAssumption DEF ToldInv
<1>2. stored' = stored /\ runs' = runs OBVIOUS
<1>3. \A q \in DOMAIN runs : Grows(runs[q], runs'[q]) BY <1>2 DEF Grows
<1>4. \A z : From(z) => From(z)' BY <1>2, <1>3, FromStays
<1>5. QED BY <1>1, <1>2, <1>4 DEF ToldInv

(* What the run before has read is told, and its rows are made of it. *)
LEMMA InitialTold == ASSUME NEW db \in DOMAIN Databases PROVE RunTold(InitialRun(db), First)
<1> DEFINE x == InitialRun(db)
           d == Databases[db]
           apps(s) == {a \in d.appearances : a.season = s}
           rows(s) == {m \in d.metrics : m.season = s}
           primary(s) == CHOOSE f \in PrimaryChoices(apps(s)) : TRUE
           raw(s) == CHOOSE f \in RawChoices(rows(s), Appear(apps(s))) : TRUE
           registry(s) == CHOOSE f \in RegistryChoices(raw(s)) : TRUE
           made(s, f, g, h) == [primary |-> f, minutes |-> TotalMinutes(apps(s)),
                             players |-> [p \in Appear(apps(s)) |-> d.players[p]], raw |-> g,
                             registry |-> h, covered |-> FALSE,
                             competitions |-> d.competitions, teams |-> d.teams, end |-> d.ends[s]]
           reading(s) == made(s, primary(s), raw(s), registry(s))
           A == {s \in SEASONS : \E a \in d.appearances : a.season = s}
           read == [s \in A |-> reading(s)]
           snapshots == d.snapshots
<1>1. x = [Idle EXCEPT !.at = "finished", !.snapshots = snapshots, !.read = read, !.stamp = 1,
                       !.rows = [s \in A |-> AnalysisRows(read[s], s, First)]]
  BY DEF InitialRun
<1>2. ASSUME NEW s PROVE Told(reading(s))
  <2> DEFINE a == apps(s)
             m == rows(s)
  <2>1. Measured(d) BY DatabasesAssumption
  <2>2. IsFiniteSet(a) /\ (\A z \in a : z.minutes \subseteq Int) /\ IsFiniteSet(m) /\ \A z \in m : z.value \subseteq Int
    BY <2>1, FS_Subset DEF Measured
  <2>3. PICK f : f = primary(s) OBVIOUS
  <2>4. PICK g : g = raw(s) OBVIOUS
  <2>5. PICK h : h = registry(s) OBVIOUS
  <2>6. f \in PrimaryChoices(a)
    <3>1. f = CHOOSE e \in PrimaryChoices(a) : TRUE BY <2>3
    <3> HIDE DEF a
    <3>2. PrimaryChoices(a) # {} BY <2>2, PrimaryThere
    <3>3. QED BY <3>1, <3>2
  <2>7. g \in RawChoices(m, Appear(a))
    <3>1. g = CHOOSE e \in RawChoices(m, Appear(a)) : TRUE BY <2>4
    <3> HIDE DEF a, m
    <3>2. IsFiniteSet(Appear(a)) BY <2>2, AppearancesAre
    <3>3. RawChoices(m, Appear(a)) # {} BY <2>2, <3>2, RawAre
    <3>4. QED BY <3>1, <3>3
  <2>8. AreNumbers(g, Appear(a)) /\ IsFiniteSet(Appear(a))
    <3> HIDE DEF a, m
    <3>1. IsFiniteSet(Appear(a)) BY <2>2, AppearancesAre
    <3>2. QED BY <2>2, <2>7, <3>1, RawAre
  <2>9. AreNumbers(h, Appear(a))
    <3>1. h = CHOOSE e \in RegistryChoices(g) : TRUE BY <2>4, <2>5
    <3> HIDE DEF a
    <3>2. RegistryChoices(g) # {} /\ \A e \in RegistryChoices(g) : AreNumbers(e, Appear(a)) BY <2>8, RegistryAre
    <3>3. QED BY <3>1, <3>2
  <2>16. Appear(a) \subseteq Int
    <3>1. \A z \in a : z.player \in Int BY <2>1 DEF Measured
    <3> HIDE DEF a
    <3>2. QED BY <3>1 DEF Appear
  <2>10. DOMAIN f = Appear(a) /\ \A p \in Appear(a) : TotalMinutes(a)[p] \in Int
    <3> HIDE DEF a
    <3>1. QED BY <2>2, <2>6, AppearancesAre
  <2> DEFINE e == made(s, f, g, h)
  <2>11. e = reading(s) BY <2>3, <2>4, <2>5
  <2>12. /\ TOLD \subseteq DOMAIN e /\ e.primary = f /\ e.raw = g /\ e.registry = h
         /\ e.minutes = TotalMinutes(a)
    BY DEF TOLD
  <2> HIDE DEF e, a
  <2>13. ASSUME NEW p \in DOMAIN e.primary PROVE PerformanceMinutes(e, p) \in Int
    <3>1. p \in Appear(a) BY <2>10, <2>12
    <3>2. /\ IsFiniteSet(DOMAIN e.raw[p]) /\ (\A k \in DOMAIN e.raw[p] : e.raw[p][k] \in Int)
          /\ e.minutes[p] \in Int
      BY <2>8, <2>10, <2>12, <3>1 DEF AreNumbers
    <3>3. QED BY <3>2, MinutesAre
  <2>14. Told(e) BY <2>8, <2>9, <2>10, <2>12, <2>13, <2>16 DEF Told
  <2>15. QED BY <2>11, <2>14
<1> HIDE DEF reading
<1>3. DOMAIN read = A /\ \A s \in A : Told(read[s]) BY <1>2
<1> HIDE DEF x, d, A, read, snapshots
<1> DEFINE all == [s \in A |-> AnalysisRows(read[s], s, First)]
<1>4. DOMAIN all = A /\ \A s \in A : all[s] = AnalysisRows(read[s], s, First) OBVIOUS
<1>5. x = [Idle EXCEPT !.at = "finished", !.snapshots = snapshots, !.read = read, !.stamp = 1, !.rows = all] BY <1>1
<1> HIDE DEF all
<1> DEFINE none == <<>>
<1>6. Idle = [at |-> "idle", todo |-> none, clear |-> none, targets |-> {}, snapshots |-> {}, read |-> none, rows |-> none,
              found |-> {}, inserted |-> {}, deleted |-> {}, pending |-> {}, beside |-> {}, stamp |-> 0]
  BY DEF Idle
<1> HIDE DEF none
<1>7. x.at = "finished" /\ x.read = read /\ x.rows = all BY <1>5, <1>6
<1>8. RunTold(x, First) BY <1>3, <1>4, <1>7 DEF RunTold
<1>9. QED BY <1>8 DEF x

(* A behaviour starts with what one run has told, or with nothing. *)
LEMMA InitTold == Init => ToldInv
<1> SUFFICES ASSUME Init PROVE ToldInv OBVIOUS
<1>1. Inv BY InitInv
<1>2. PICK scenario \in Scenarios :
        LET before == IF scenario.analysed THEN {First} ELSE {}
        IN /\ facts = scenario.facts
           /\ runs = [r \in before \union scenario.runs |-> IF r = First THEN InitialRun(facts) ELSE Idle]
           /\ stored = UNION {Definitions(r) \union UNION {RankedRows(r, s) : s \in DOMAIN runs[r].rows} : r \in before}
  BY DEF Init
<1> DEFINE before == IF scenario.analysed THEN {First} ELSE {}
           rowsOf(r) == Definitions(r) \union UNION {RankedRows(r, s) : s \in DOMAIN runs[r].rows}
<1>3. facts \in DOMAIN Databases BY <1>2, ScenariosAssumption
<1>4. /\ before \subseteq {First} /\ before \subseteq DOMAIN runs
      /\ \A r \in DOMAIN runs : runs[r] = IF r = First THEN InitialRun(facts) ELSE Idle
  BY <1>2
<1>5. \A y \in stored : \E r \in before : y \in Definitions(r) \/ \E s \in DOMAIN runs[r].rows : y \in RankedRows(r, s)
  <2>1. stored = UNION {rowsOf(r) : r \in before} BY <1>2
  <2>2. \A r, y : y \in rowsOf(r) <=> y \in Definitions(r) \/ \E s \in DOMAIN runs[r].rows : y \in RankedRows(r, s)
    OBVIOUS
  <2> HIDE DEF rowsOf, before
  <2>3. \A y : y \in stored <=> \E r \in before : y \in rowsOf(r) BY <2>1
  <2>4. QED BY <2>2, <2>3, Zenon
<1> HIDE DEF before
<1>6. Idle.at = "idle" /\ DOMAIN Idle.rows = {} /\ Idle.inserted = {} /\ Idle.pending = {}
  <2> DEFINE none == <<>>
  <2>1. Idle = [at |-> "idle", todo |-> none, clear |-> none, targets |-> {}, snapshots |-> {}, read |-> none, rows |-> none,
                found |-> {}, inserted |-> {}, deleted |-> {}, pending |-> {}, beside |-> {}, stamp |-> 0]
    BY DEF Idle
  <2>2. DOMAIN none = {} OBVIOUS
  <2> HIDE DEF none
  <2>3. QED BY <2>1, <2>2
<1> DEFINE x == InitialRun(facts)
<1>7. x.inserted = {} /\ x.pending = {} /\ x.at = "finished" BY InitialRunFacts
<1>8. RunTold(x, First) BY <1>3, InitialTold
<1> HIDE DEF x
<1>9. \A r \in DOMAIN runs : /\ runs[r] = IF r = First THEN x ELSE Idle
                             /\ RunTold(runs[r], r) /\ runs[r].inserted = {} /\ runs[r].pending = {}
  <2> SUFFICES ASSUME NEW r \in DOMAIN runs
               PROVE  /\ runs[r] = IF r = First THEN x ELSE Idle
                      /\ RunTold(runs[r], r) /\ runs[r].inserted = {} /\ runs[r].pending = {}
    OBVIOUS
  <2>1. CASE r = First BY <1>4, <1>7, <1>8, <2>1 DEF x
  <2>2. CASE r # First
    <3>1. runs[r] = Idle BY <1>4, <2>2
    <3>2. RunTold(Idle, r) BY <1>6 DEF RunTold
    <3>3. QED BY <1>6, <2>2, <3>1, <3>2
  <2>3. QED BY <2>1, <2>2
<1>10. ASSUME NEW y \in stored PROVE From(y)
  <2>1. PICK r \in before : y \in Definitions(r) \/ \E s \in DOMAIN runs[r].rows : y \in RankedRows(r, s) BY <1>5
  <2>2. CASE y \in Definitions(r)
    <3>1. y.season = "" BY <2>2, DefinitionFacts
    <3>2. QED BY <3>1 DEF From
  <2>3. CASE \E s \in DOMAIN runs[r].rows : y \in RankedRows(r, s)
    <3>1. PICK s \in DOMAIN runs[r].rows : y \in RankedRows(r, s) BY <2>3
    <3> DEFINE all == runs[r].rows[s]
               ratings == OfTable(all, "ratings")
    <3>2. r \in DOMAIN runs BY <1>4
    <3>3. IsAnalysis(all, s, r) BY <1>1, <3>1, <3>2 DEF Inv, RunsInv, RunInv, Analyses
    <3>4. y \in all \/ y \in Ranked(ratings) BY <3>1 DEF RankedRows
    <3>5. ratings \subseteq all BY DEF OfTable
    <3> HIDE DEF all, ratings
    <3>6. \A z \in all : IsRow(z) /\ z.season = s /\ z.run = r BY <3>3 DEF IsAnalysis, IsKept
    <3>7. \E z \in all : Alike(z, y)
      <4>1. CASE y \in all BY <4>1 DEF Alike
      <4>2. CASE y \in Ranked(ratings)
        <5>1. \A z \in ratings : IsRow(z) BY <3>5, <3>6
        <5>2. \E z \in ratings : Alike(z, y) BY <4>2, <5>1, RankedAlike
        <5>3. QED BY <3>5, <5>2
      <4>3. QED BY <3>4, <4>1, <4>2
    <3>8. y.season = s /\ y.run = r BY <3>6, <3>7 DEF Alike
    <3>9. FromRun(y, runs[r]) BY <3>1, <3>7, <3>8 DEF FromRun, all
    <3>10. QED BY <3>2, <3>8, <3>9 DEF From
  <2>4. QED BY <2>1, <2>2, <2>3
<1>11. QED BY <1>3, <1>9, <1>10 DEF ToldInv

(* Every step keeps what has been told. *)
LEMMA NextTold == Inv /\ ToldInv /\ [Next]_vars => ToldInv'
<1> SUFFICES ASSUME Inv, ToldInv, [Next]_vars PROVE ToldInv' OBVIOUS
<1>1. ASSUME NEW r \in DOMAIN runs, Begin(r) PROVE ToldInv' BY <1>1, BeginTold
<1>2. ASSUME NEW r \in DOMAIN runs, ReadAppearances(r) PROVE ToldInv' BY <1>2, ReadAppearancesTold
<1>3. ASSUME NEW r \in DOMAIN runs, ReadRatingIds(r) PROVE ToldInv' BY <1>3, ReadRatingIdsTold
<1>4. ASSUME NEW r \in DOMAIN runs, FinishDelete(r) PROVE ToldInv' BY <1>4, DeletesTold
<1>5. ASSUME NEW r \in DOMAIN runs, StartDelete(r) PROVE ToldInv' BY <1>5, DeletesTold
<1>6. ASSUME NEW r \in DOMAIN runs, ReadPlayers(r) PROVE ToldInv' BY <1>6, ReadPlayersTold
<1>7. ASSUME NEW r \in DOMAIN runs, ReadRaw(r) PROVE ToldInv' BY <1>7, ReadRawTold
<1>8. ASSUME NEW r \in DOMAIN runs, Analyse(r) PROVE ToldInv' BY <1>8, AnalyseTold
<1>9. ASSUME NEW r \in DOMAIN runs, FlushRatings(r) PROVE ToldInv' BY <1>9, FlushRatingsTold
<1>10. ASSUME NEW r \in DOMAIN runs, AssignRanks(r) PROVE ToldInv' BY <1>10, AssignRanksTold
<1>11. ASSUME NEW r \in DOMAIN runs, Commit(r) PROVE ToldInv' BY <1>11, CommitTold
<1>12. ASSUME NEW r \in DOMAIN runs, Crash(r) PROVE ToldInv' BY <1>12, AbortTold DEF Crash
<1>13. CASE Ingest BY <1>13, StillTold DEF Ingest
<1>14. CASE UNCHANGED vars BY <1>14, StillTold DEF vars
<1>15. QED
  BY <1>1, <1>2, <1>3, <1>4, <1>5, <1>6, <1>7, <1>8, <1>9, <1>10, <1>11, <1>12, <1>13, <1>14 DEF Next

(* Every row there is, committed or not, is as some run made it of one reading of its *)
(* season, whatever was published, deleted, ranked anew or rolled back since.         *)
THEOREM ToldHolds == Spec => []ToldInv
<1>1. QED BY InitTold, NextTold, InvHolds, PTL DEF Spec

(* What a committed row says is what its run's reading says. *)
LEMMA StoredSay ==
  ASSUME Inv, ToldInv, NEW x \in stored, x.season # ""
  PROVE  LET read == runs[x.run].read[x.season]
         IN Told(read) /\ x.player \in DOMAIN read.primary /\ Says(x, read, x.player)
<1> DEFINE run == runs[x.run]
           read == run.read[x.season]
<1>1. x.run \in DOMAIN runs /\ FromRun(x, run) BY DEF ToldInv, From
<1>2. RunTold(run, x.run) BY <1>1 DEF ToldInv
<1> HIDE DEF run
<1>3. x.season \in DOMAIN run.rows BY <1>1 DEF FromRun
<1>4. PICK z \in run.rows[x.season] : Alike(z, x) BY <1>1 DEF FromRun
<1>5. Told(read) /\ run.rows[x.season] = AnalysisRows(read, x.season, x.run) BY <1>2, <1>3 DEF RunTold
<1> HIDE DEF read
<1>6. z.player \in DOMAIN read.primary /\ Says(z, read, z.player) BY <1>4, <1>5, AnalysisSays
<1>7. x.player = z.player /\ x.table = z.table /\ x.key = z.key /\ x.value = z.value /\ x.trust = z.trust
  BY <1>4 DEF Alike
<1>8. Says(x, read, x.player) BY <1>6, <1>7 DEF Says
<1>9. QED BY <1>5, <1>6, <1>7, <1>8 DEF read, run

(* So a rating is trusted as its evidence allows, and a strength is of metrics there are. *)
LEMMA ToldDecides == Inv /\ ToldInv => EvidenceDecidesTrust
<1> SUFFICES ASSUME Inv, ToldInv PROVE EvidenceDecidesTrust OBVIOUS
<1> DEFINE of(x) == runs[x.run].read[x.season]
           present(x) == DOMAIN of(x).registry[x.player]
           trust(x) == ComputeConfidence(PerformanceMinutes(of(x), x.player), RoleConfigs[x.key], present(x),
                                         ContextOf(of(x), x.player).penalty)
<1>1. \A x \in stored : IsKept(x) BY DEF Inv, KeptInv
<1>2. ASSUME NEW x \in stored, x.table \in TABLES PROVE x.season # "" BY <1>1, <1>2 DEF IsKept, TABLES
<1>3. ASSUME NEW x \in OfTable(stored, "ratings")
      PROVE  /\ x.key \in DOMAIN RoleConfigs /\ RoleNumbers(RoleConfigs[x.key]) /\ x.trust = trust(x)
             /\ PerformanceMinutes(of(x), x.player) \in Int /\ ContextOf(of(x), x.player).penalty \in Int
  <2>1. x \in stored /\ x.table = "ratings" /\ x.table \in TABLES BY DEF OfTable, TABLES
  <2>2. PICK read : read = of(x) OBVIOUS
  <2>3. Told(read) /\ x.player \in DOMAIN read.primary /\ Says(x, read, x.player) BY <1>2, <2>1, <2>2, StoredSay
  <2>4. x.key \in Rated(read, x.player) /\ x.trust = RatingOf(read, x.player, x.key).confidence BY <2>1, <2>3 DEF Says
  <2>5. x.key \in DOMAIN RoleConfigs /\ x.trust = trust(x) BY <2>2, <2>4, TrustIs
  <2>6. RoleNumbers(RoleConfigs[x.key]) BY <2>5, NumbersAssumption
  <2>7. PerformanceMinutes(read, x.player) \in Int BY <2>3 DEF Told
  <2>8. ContextOf(read, x.player).penalty \in Int BY PenaltyIsNumber
  <2>9. QED BY <2>2, <2>5, <2>6, <2>7, <2>8
<1> HIDE DEF of
<1>4. ASSUME NEW x \in OfTable(stored, "ratings"), NEW y \in OfTable(stored, "ratings"),
             x.key = y.key, MoreEvidence(of(x), x.player, y.player), of(x) = of(y)
      PROVE  Sure(y.trust) =< Sure(x.trust)
  <2>1. /\ present(y) \subseteq present(x)
        /\ PerformanceMinutes(of(y), y.player) <= PerformanceMinutes(of(x), x.player)
        /\ ContextOf(of(x), x.player).penalty <= ContextOf(of(y), y.player).penalty
    BY <1>4 DEF MoreEvidence
  <2>2. x.trust = trust(x) /\ y.trust = trust(y) /\ RoleNumbers(RoleConfigs[x.key])
        /\ PerformanceMinutes(of(x), x.player) \in Int /\ ContextOf(of(x), x.player).penalty \in Int
        /\ PerformanceMinutes(of(y), y.player) \in Int /\ ContextOf(of(y), y.player).penalty \in Int
    BY <1>3
  <2>3. PICK A, B, a, b, m, n : /\ A = present(y) /\ B = present(x) /\ m = PerformanceMinutes(of(y), y.player)
                                /\ n = PerformanceMinutes(of(x), x.player)
                                /\ a = ContextOf(of(y), y.player).penalty /\ b = ContextOf(of(x), x.player).penalty
    OBVIOUS
  <2>4. x.trust = ComputeConfidence(n, RoleConfigs[x.key], B, b) /\ y.trust = ComputeConfidence(m, RoleConfigs[x.key], A, a)
    BY <1>4, <2>2, <2>3
  <2>5. A \subseteq B /\ m \in Int /\ n \in Int /\ m <= n /\ a \in Int /\ b \in Int /\ b <= a BY <2>1, <2>2, <2>3
  <2>6. Sure(ComputeConfidence(m, RoleConfigs[x.key], A, a)) <= Sure(ComputeConfidence(n, RoleConfigs[x.key], B, b))
    BY <2>2, <2>5, ConfidenceGrows
  <2>7. QED BY <2>4, <2>6
<1>5. ASSUME NEW x \in OfTable(stored, "ratings")
      PROVE  /\ RoleConfigs[x.key].required # {} /\ RoleConfigs[x.key].required \intersect present(x) = {} => x.trust = "unknown"
             /\ PerformanceMinutes(of(x), x.player) < RoleConfigs[x.key].minMinutes => Sure(x.trust) =< Sure("low")
  <2>1. PICK A, a, m : /\ A = present(x) /\ m = PerformanceMinutes(of(x), x.player) /\ a = ContextOf(of(x), x.player).penalty
    OBVIOUS
  <2>2. /\ RoleNumbers(RoleConfigs[x.key]) /\ x.trust = ComputeConfidence(m, RoleConfigs[x.key], A, a) /\ m \in Int /\ a \in Int
    BY <1>3, <2>1
  <2>3. m <= m /\ a <= a BY <2>2
  <2>4. /\ RoleConfigs[x.key].required # {} /\ RoleConfigs[x.key].required \intersect A = {} =>
             ComputeConfidence(m, RoleConfigs[x.key], A, a) = "unknown"
        /\ m < RoleConfigs[x.key].minMinutes => Sure(ComputeConfidence(m, RoleConfigs[x.key], A, a)) <= Sure("low")
    BY <2>2, <2>3, ConfidenceGrows
  <2>5. QED BY <2>1, <2>2, <2>4
<1>6. ASSUME NEW x \in OfTable(stored, "playstyles"), NEW b \in Positives, x.key = b.key
      PROVE  b.required \subseteq present(x)
  <2>1. x \in stored /\ x.table = "playstyles" /\ x.table \in TABLES BY DEF OfTable, TABLES
  <2>2. PICK read : read = of(x) OBVIOUS
  <2>3. Told(read) /\ x.player \in DOMAIN read.primary /\ Says(x, read, x.player)
    BY <1>2, <2>1, <2>2, StoredSay DEF of
  <2>4. PICK risk, label : \E c \in ComputePlaystyles(Percentiles(read)[x.player], Group(read, x.player),
                                                    PerformanceMinutes(read, x.player), risk, label) : x.key = c.key
    BY <2>1, <2>3 DEF Says
  <2>5. b.required \subseteq DOMAIN read.registry[x.player] BY <1>6, <2>3, <2>4, StrengthIsThere
  <2>6. QED BY <2>2, <2>5
<1>7. \A x, y \in OfTable(stored, "ratings") : x.run = y.run /\ x.season = y.season => of(x) = of(y) BY DEF of
<1>8. QED BY <1>4, <1>5, <1>6, <1>7, Zenon DEF EvidenceDecidesTrust, of

(* More evidence is never trusted less, whatever was published between the reads. *)
THEOREM EvidenceHolds == Spec => []EvidenceDecidesTrust
<1>1. QED BY ToldDecides, InvHolds, ToldHolds, PTL

-----------------------------------------------------------------------------
(* From a better metric to a better rank. *)

(* Of two values, the one at least as good has the higher percentile. *)
LEMMA RanksGrow ==
  ASSUME NEW values, IsFiniteSet(DOMAIN values), \A k \in DOMAIN values : values[k] \in Int, NEW higher \in BOOLEAN,
         NEW p \in DOMAIN values, NEW q \in DOMAIN values,
         IF higher THEN values[q] <= values[p] ELSE values[p] <= values[q]
  PROVE  LET ranks == PercentileRanks(values, higher)
         IN ranks[p] \in Int /\ ranks[q] \in Int /\ ranks[q] <= ranks[p]
<1> DEFINE n == Cardinality(DOMAIN values)
           below(k) == {j \in DOMAIN values : values[j] < values[k]}
           same(k) == {j \in DOMAIN values : values[j] = values[k]}
           share(k) == Unit * (2 * Cardinality(below(k)) + Cardinality(same(k)))
           rank(k) == Nearest(share(k), 2 * n)
           ranks == PercentileRanks(values, higher)
<1>1. \A k \in DOMAIN values : ranks[k] = IF higher THEN rank(k) ELSE Unit - rank(k) BY DEF PercentileRanks
<1>2. n \in Nat /\ n > 0
  <2>1. n \in Nat /\ (n = 0 => DOMAIN values = {}) BY FS_CardinalityType, FS_EmptySet
  <2>2. QED BY <2>1
<1>3. \A k : /\ IsFiniteSet(below(k)) /\ IsFiniteSet(same(k))
             /\ Cardinality(below(k)) \in Nat /\ Cardinality(same(k)) \in Nat
  <2> TAKE k
  <2>1. below(k) \in SUBSET DOMAIN values /\ same(k) \in SUBSET DOMAIN values OBVIOUS
  <2> HIDE DEF below, same
  <2>2. IsFiniteSet(below(k)) /\ IsFiniteSet(same(k)) BY <2>1, FS_Subset
  <2>3. QED BY <2>2, FS_CardinalityType
<1>4. ASSUME NEW a \in DOMAIN values, NEW b \in DOMAIN values, values[a] <= values[b]
      PROVE  share(a) \in Int /\ share(b) \in Int /\ share(a) <= share(b)
  <2> DEFINE la == Cardinality(below(a))
             lb == Cardinality(below(b))
             ea == Cardinality(same(a))
             eb == Cardinality(same(b))
  <2>1. la \in Nat /\ lb \in Nat /\ ea \in Nat /\ eb \in Nat BY <1>3
  <2>2. 2 * la + ea <= 2 * lb + eb
    <3>1. CASE values[a] = values[b]
      <4>1. below(a) = below(b) /\ same(a) = same(b) BY <3>1
      <4>2. la = lb /\ ea = eb BY <4>1
      <4> HIDE DEF la, lb, ea, eb
      <4>3. QED BY <2>1, <4>2
    <3>2. CASE values[a] < values[b]
      <4>1. below(a) \cup same(a) \subseteq below(b) /\ below(a) \cap same(a) = {}
        <5>1. values[a] \in Int /\ values[b] \in Int OBVIOUS
        <5>2. \A j \in DOMAIN values : values[j] \in Int OBVIOUS
        <5>3. QED BY <3>2, <5>1, <5>2
      <4>2. IsFiniteSet(below(a)) /\ IsFiniteSet(same(a)) /\ IsFiniteSet(below(b)) BY <1>3
      <4> DEFINE L == below(a)
                 E == same(a)
                 B == below(b)
      <4>3. Cardinality(L \cup E) = Cardinality(L) + Cardinality(E)
        <5> HIDE DEF L, E
        <5>1. L \cap E = {} /\ IsFiniteSet(L) /\ IsFiniteSet(E) BY <4>1, <4>2 DEF L, E
        <5>2. Cardinality(L \cap E) = 0 BY <5>1, FS_EmptySet
        <5>3. Cardinality(L) \in Nat /\ Cardinality(E) \in Nat BY <5>1, FS_CardinalityType
        <5>4. Cardinality(L \cup E) = Cardinality(L) + Cardinality(E) - Cardinality(L \cap E) BY <5>1, FS_Union
        <5>5. QED BY <5>2, <5>3, <5>4
      <4>4. Cardinality(L \cup E) <= Cardinality(B)
        <5> HIDE DEF L, E, B
        <5>1. L \cup E \in SUBSET B /\ IsFiniteSet(B) BY <4>1, <4>2 DEF L, E, B
        <5>2. QED BY <5>1, FS_Subset
      <4>5. la + ea <= lb BY <4>3, <4>4
      <4> HIDE DEF la, lb, ea, eb
      <4>6. QED BY <2>1, <4>5
    <3>3. values[a] \in Int /\ values[b] \in Int OBVIOUS
    <3>4. QED BY <1>4, <3>1, <3>2, <3>3
  <2> HIDE DEF la, lb, ea, eb, below, same
  <2>3. share(a) = 10000 * (2 * la + ea) /\ share(b) = 10000 * (2 * lb + eb) BY DEF la, lb, ea, eb, Unit
  <2> HIDE DEF share
  <2>4. QED BY <2>1, <2>2, <2>3
<1> HIDE DEF share
<1>5. ASSUME NEW a \in DOMAIN values, NEW b \in DOMAIN values, values[a] <= values[b]
      PROVE  rank(a) \in Int /\ rank(b) \in Int /\ rank(a) <= rank(b)
  <2>1. share(a) \in Int /\ share(b) \in Int /\ share(a) <= share(b) /\ share(b) <= share(b) BY <1>4, <1>5
  <2>2. 2 * n \in Nat /\ 2 * n > 0 BY <1>2
  <2> HIDE DEF n
  <2>3. QED BY <2>1, <2>2, NearestGrows
<1> HIDE DEF rank, ranks
<1>6. CASE higher
  <2>1. ranks[p] = rank(p) /\ ranks[q] = rank(q) BY <1>1, <1>6
  <2>2. rank(p) \in Int /\ rank(q) \in Int /\ rank(q) <= rank(p) BY <1>5, <1>6
  <2>3. QED BY <2>1, <2>2 DEF ranks
<1>7. CASE ~higher
  <2>1. ranks[p] = Unit - rank(p) /\ ranks[q] = Unit - rank(q) BY <1>1, <1>7
  <2>2. rank(p) \in Int /\ rank(q) \in Int /\ rank(p) <= rank(q) BY <1>5, <1>7
  <2>3. Unit = 10000 BY DEF Unit
  <2>4. QED BY <2>1, <2>2, <2>3 DEF ranks
<1>8. QED BY <1>6, <1>7

(* So a player at least as good as another in every metric is so in its percentiles. *)
LEMMA PercentilesGrow ==
  ASSUME NEW read, Told(read), NEW k, NEW p \in Eligible(read, k), NEW q \in Eligible(read, k), AtLeastAsGood(read, p, q)
  PROVE  LET P == RolePercentiles(read, k)[p]
             Q == RolePercentiles(read, k)[q]
         IN DOMAIN P = DOMAIN Q /\ \A m \in DOMAIN Q : P[m] \in Int /\ Q[m] \in Int /\ Q[m] <= P[m]
<1> DEFINE R == read.registry
           all == RolePercentiles(read, k)
           having(m) == {e \in Eligible(read, k) : m \in DOMAIN R[e]}
           values(m) == [e \in having(m) |-> R[e][m]]
<1>1. /\ DOMAIN all[p] = DOMAIN R[p] /\ DOMAIN all[q] = DOMAIN R[q]
      /\ \A m \in DOMAIN R[p] : all[p][m] = PercentileRanks(values(m), m \in HigherBetter)[p]
      /\ \A m \in DOMAIN R[q] : all[q][m] = PercentileRanks(values(m), m \in HigherBetter)[q]
  <2> DEFINE groupOf == [e \in Eligible(read, k) |-> k]
             among(g, m) == {e \in DOMAIN groupOf : groupOf[e] = g /\ m \in DOMAIN R[e]}
             ranked == [e \in DOMAIN groupOf |-> [m \in DOMAIN R[e] |->
                          PercentileRanks([o \in among(groupOf[e], m) |-> R[o][m]], m \in HigherBetter)[e]]]
  <2>1. all = ranked BY Zenon DEF RolePercentiles, NormalizeMetrics
  <2>2. DOMAIN groupOf = Eligible(read, k) /\ \A e \in Eligible(read, k) : groupOf[e] = k OBVIOUS
  <2>3. \A m : among(k, m) = having(m) BY <2>2
  <2>4. \A m : [o \in among(k, m) |-> R[o][m]] = values(m) BY <2>3
  <2> HIDE DEF groupOf, among, values, having
  <2>5. \A e \in Eligible(read, k) :
          all[e] = [m \in DOMAIN R[e] |-> PercentileRanks([o \in among(k, m) |-> R[o][m]], m \in HigherBetter)[e]]
    BY <2>1, <2>2
  <2>6. \A e \in Eligible(read, k) : all[e] = [m \in DOMAIN R[e] |-> PercentileRanks(values(m), m \in HigherBetter)[e]]
    BY <2>4, <2>5
  <2> HIDE DEF all
  <2>7. QED BY <2>6
<1>2. Eligible(read, k) \subseteq DOMAIN read.primary /\ AreNumbers(R, DOMAIN read.primary) /\ IsFiniteSet(DOMAIN read.primary)
  BY DEF Eligible, Told
<1>3. DOMAIN R[p] = DOMAIN R[q]
      /\ \A m \in DOMAIN R[q] : IF m \in HigherBetter THEN R[q][m] <= R[p][m] ELSE R[p][m] <= R[q][m]
  <2>1. \A m \in DOMAIN R[q] : R[q][m] \in Int /\ R[p][m] \in Int BY <1>2 DEF AreNumbers, AtLeastAsGood
  <2>2. QED BY <2>1 DEF AtLeastAsGood
<1> HIDE DEF all
<1>4. ASSUME NEW m \in DOMAIN R[q] PROVE all[p][m] \in Int /\ all[q][m] \in Int /\ all[q][m] <= all[p][m]
  <2>1. p \in having(m) /\ q \in having(m) BY <1>3
  <2>2. IsFiniteSet(having(m))
    <3>1. having(m) \in SUBSET DOMAIN read.primary BY <1>2
    <3>2. QED BY <1>2, <3>1, FS_Subset
  <2>3. \A e \in having(m) : R[e][m] \in Int BY <1>2 DEF AreNumbers
  <2> DEFINE v == values(m)
  <2>4. DOMAIN v = having(m) /\ \A e \in having(m) : v[e] = R[e][m] OBVIOUS
  <2>5. all[p][m] = PercentileRanks(v, m \in HigherBetter)[p] /\ all[q][m] = PercentileRanks(v, m \in HigherBetter)[q]
    BY <1>1, <1>3
  <2> DEFINE higher == m \in HigherBetter
  <2>6. IF higher THEN v[q] <= v[p] ELSE v[p] <= v[q] BY <1>3, <2>1, <2>4
  <2>7. higher \in BOOLEAN OBVIOUS
  <2>8. IsFiniteSet(DOMAIN v) /\ (\A e \in DOMAIN v : v[e] \in Int) /\ p \in DOMAIN v /\ q \in DOMAIN v
    BY <2>1, <2>2, <2>3, <2>4
  <2> HIDE DEF v, higher, having
  <2>9. PercentileRanks(v, higher)[p] \in Int /\ PercentileRanks(v, higher)[q] \in Int
        /\ PercentileRanks(v, higher)[q] <= PercentileRanks(v, higher)[p]
    BY <2>6, <2>7, <2>8, RanksGrow
  <2>10. QED BY <2>5, <2>9 DEF higher
<1>5. QED BY <1>1, <1>3, <1>4 DEF all

(* The sums of a mean and of the penalties. *)
Total(weights, S) == MapThenSumSet(LAMBDA m : weights[m], S)
Weighed(weights, values, S) == MapThenSumSet(LAMBDA m : weights[m] * values[m], S)
Lost(percentiles, S) == MapThenSumSet(LAMBDA rule : Points(rule, percentiles), S)

(* What weights add up to. *)
LEMMA WeightSums ==
  ASSUME NEW weights, NEW S, IsFiniteSet(S), \A m \in S : weights[m] \in Int
  PROVE  \E g : Sums(g, [m \in S |-> weights[m]], S) /\ Total(weights, S) = g[S]
<1> DEFINE w == [m \in S |-> weights[m]]
           Fold(g) == g = [s \in SUBSET S |-> IF s = {} THEN 0 ELSE LET x == CHOOSE x \in s : TRUE IN weights[x] + g[s \ {x}]]
           g == CHOOSE e : Fold(e)
<1>1. Total(weights, S) = g[S] BY Zenon DEF Total, MapThenSumSet, MapThenFoldSet
<1>2. \A e : Fold(e) <=> Sums(e, w, S)
  <2> TAKE e
  <2>1. \A s \in SUBSET S : s # {} => w[CHOOSE x \in s : TRUE] = weights[CHOOSE x \in s : TRUE]
    <3>1. \A s \in SUBSET S : s # {} => (CHOOSE x \in s : TRUE) \in S OBVIOUS
    <3>2. QED BY <3>1
  <2> HIDE DEF w
  <2>2. QED BY <2>1 DEF Sums
<1>3. \E e : Sums(e, w, S) BY SumsExist
<1> HIDE DEF w, Fold
<1>4. Sums(g, w, S) BY <1>2, <1>3
<1>5. QED BY <1>1, <1>4 DEF w

(* What weighed values add up to. *)
LEMMA ProductSums ==
  ASSUME NEW weights, NEW values, NEW S, IsFiniteSet(S), \A m \in S : weights[m] * values[m] \in Int
  PROVE  \E g : /\ Sums(g, [m \in S |-> weights[m] * values[m]], S)
                /\ Weighed(weights, values, S) = g[S]
<1> DEFINE w == [m \in S |-> weights[m] * values[m]]
           Fold(g) == g = [s \in SUBSET S |-> IF s = {} THEN 0
                                              ELSE LET x == CHOOSE x \in s : TRUE IN weights[x] * values[x] + g[s \ {x}]]
           g == CHOOSE e : Fold(e)
<1>1. Weighed(weights, values, S) = g[S] BY Zenon DEF Weighed, MapThenSumSet, MapThenFoldSet
<1>2. \A e : Fold(e) <=> Sums(e, w, S)
  <2> TAKE e
  <2>1. \A s \in SUBSET S : s # {} =>
          w[CHOOSE x \in s : TRUE] = weights[CHOOSE x \in s : TRUE] * values[CHOOSE x \in s : TRUE]
    <3>1. \A s \in SUBSET S : s # {} => (CHOOSE x \in s : TRUE) \in S OBVIOUS
    <3>2. QED BY <3>1
  <2> HIDE DEF w
  <2>2. QED BY <2>1 DEF Sums
<1>3. \E e : Sums(e, w, S) BY SumsExist
<1> HIDE DEF w, Fold
<1>4. Sums(g, w, S) BY <1>2, <1>3
<1>5. QED BY <1>1, <1>4 DEF w

(* What the rules of a role take off. *)
LEMMA PointsSums ==
  ASSUME NEW percentiles, NEW S, IsFiniteSet(S), \A rule \in S : Points(rule, percentiles) \in Int
  PROVE  \E g : /\ Sums(g, [rule \in S |-> Points(rule, percentiles)], S)
                /\ Lost(percentiles, S) = g[S]
<1> DEFINE w == [rule \in S |-> Points(rule, percentiles)]
           Fold(g) == g = [s \in SUBSET S |-> IF s = {} THEN 0
                                              ELSE LET x == CHOOSE x \in s : TRUE IN Points(x, percentiles) + g[s \ {x}]]
           g == CHOOSE e : Fold(e)
<1>1. Lost(percentiles, S) = g[S] BY Zenon DEF Lost, MapThenSumSet, MapThenFoldSet
<1>2. \A e : Fold(e) <=> Sums(e, w, S)
  <2> TAKE e
  <2>1. \A s \in SUBSET S : s # {} => w[CHOOSE x \in s : TRUE] = Points(CHOOSE x \in s : TRUE, percentiles)
    <3>1. \A s \in SUBSET S : s # {} => (CHOOSE x \in s : TRUE) \in S OBVIOUS
    <3>2. QED BY <3>1
  <2> HIDE DEF w
  <2>2. QED BY <2>1 DEF Sums
<1>3. \E e : Sums(e, w, S) BY SumsExist
<1> HIDE DEF w, Fold
<1>4. Sums(g, w, S) BY <1>2, <1>3
<1>5. QED BY <1>1, <1>4 DEF w

\* v has the values u has, and each of them is at least as high.
Above(v, u) == DOMAIN v = DOMAIN u /\ \A m \in DOMAIN u : u[m] \in Int /\ v[m] \in Int /\ u[m] <= v[m]
\* Nothing, or a number and one at least as high.
Rises(U, V) == (U = {} /\ V = {}) \/ \E a, b \in Int : a <= b /\ U = {a} /\ V = {b}

(* A mean grows with what it is of. *)
LEMMA MeanGrows ==
  ASSUME NEW weights, Weights(weights), NEW u, NEW v, Above(v, u)
  PROVE  Rises(WeightedMean(weights, u), WeightedMean(weights, v))
<1> DEFINE S == DOMAIN weights \intersect DOMAIN u
           total == Total(weights, S)
           sum(e) == Weighed(weights, e, S)
           Mean(e) == IF total = 0 THEN {} ELSE {Nearest(sum(e), total)}
<1>1. WeightedMean(weights, u) = Mean(u) BY Zenon DEF WeightedMean, Total, Weighed
<1>2. WeightedMean(weights, v) = Mean(v)
  <2>1. DOMAIN u = DOMAIN v BY DEF Above
  <2>2. WeightedMean(weights, v) =
          LET usable == DOMAIN weights \intersect DOMAIN v
              of == Total(weights, usable)
          IN IF of = 0 THEN {} ELSE {Nearest(Weighed(weights, v, usable), of)}
    BY Zenon DEF WeightedMean, Total, Weighed
  <2>3. QED BY <2>1, <2>2, Zenon
<1>3. IsFiniteSet(S) /\ S \subseteq DOMAIN u
  <2>1. S \in SUBSET DOMAIN weights OBVIOUS
  <2>2. QED BY <2>1, FS_Subset DEF Weights
<1>4. \A m \in S : weights[m] \in Nat /\ u[m] \in Int /\ v[m] \in Int /\ u[m] <= v[m] BY DEF Weights, Above
<1>5. \A m \in S : weights[m] \in Int /\ weights[m] >= 0 BY <1>4
<1> DEFINE p == [m \in S |-> weights[m] * u[m]]
           q == [m \in S |-> weights[m] * v[m]]
           w == [m \in S |-> weights[m]]
<1>6. \A m \in S : weights[m] * u[m] \in Int /\ weights[m] * v[m] \in Int /\ weights[m] * u[m] <= weights[m] * v[m]
  <2> TAKE m \in S
  <2>1. PICK a, b, d : a = u[m] /\ b = v[m] /\ d = weights[m] OBVIOUS
  <2>2. a \in Int /\ b \in Int /\ a <= b /\ d \in Nat BY <1>4, <2>1
  <2>3. a * d <= b * d BY <2>2, TimesGrows
  <2>4. a * d = d * a /\ b * d = d * b /\ d * a \in Int /\ d * b \in Int BY <2>2
  <2>5. QED BY <2>1, <2>3, <2>4
<1>7. p \in [S -> Int] /\ q \in [S -> Int] /\ (\A m \in S : p[m] <= q[m]) BY <1>6
<1>8. w \in [S -> Int] /\ \A m \in S : w[m] >= 0 BY <1>5
<1> HIDE DEF S
<1>9. PICK f : Sums(f, w, S) /\ total = f[S]
  <2>1. \A m \in S : weights[m] \in Int BY <1>5
  <2>2. \E g : Sums(g, [m \in S |-> weights[m]], S) /\ Total(weights, S) = g[S]
    BY <1>3, <2>1, WeightSums
  <2>3. QED BY <2>2
<1>10. PICK g : Sums(g, p, S) /\ sum(u) = g[S]
  <2>1. \A m \in S : weights[m] * u[m] \in Int BY <1>6
  <2>2. \E g : /\ Sums(g, [m \in S |-> weights[m] * u[m]], S)
               /\ Weighed(weights, u, S) = g[S]
    BY <1>3, <2>1, ProductSums
  <2>3. QED BY <2>2
<1>11. PICK h : Sums(h, q, S) /\ sum(v) = h[S]
  <2>1. \A m \in S : weights[m] * v[m] \in Int BY <1>6
  <2>2. \E e : /\ Sums(e, [m \in S |-> weights[m] * v[m]], S)
               /\ Weighed(weights, v, S) = e[S]
    BY <1>3, <2>1, ProductSums
  <2>3. QED BY <2>2
<1> HIDE DEF p, q, w, total, sum
<1>12. S \in SUBSET S OBVIOUS
<1>13. f[S] \in Int /\ f[S] >= 0 BY <1>3, <1>8, <1>9, <1>12, SumsAre
<1>14. g[S] \in Int /\ h[S] \in Int BY <1>3, <1>7, <1>10, <1>11, <1>12, SumsAre
<1>15. g[S] <= h[S] BY <1>3, <1>7, <1>10, <1>11, <1>12, SumsGrow
<1>16. CASE total = 0 BY <1>1, <1>2, <1>16 DEF Rises
<1>17. CASE total # 0
  <2>1. total \in Nat /\ total > 0 BY <1>9, <1>13, <1>17
  <2>2. sum(u) \in Int /\ sum(v) \in Int /\ sum(u) <= sum(v) /\ sum(v) <= sum(v) BY <1>10, <1>11, <1>14, <1>15
  <2>3. Nearest(sum(u), total) \in Int /\ Nearest(sum(u), total) <= Nearest(sum(v), total)
        /\ Nearest(sum(v), total) \in Int
    BY <2>1, <2>2, NearestGrows
  <2>4. QED BY <1>1, <1>2, <1>17, <2>3 DEF Rises
<1>18. QED BY <1>16, <1>17

(* A role's raw score grows with the percentiles. *)
LEMMA RawScoreGrows ==
  ASSUME NEW role, RoleNumbers(role), NEW u, NEW v, Above(v, u)
  PROVE  RawScore(role, u) \in Int /\ RawScore(role, v) \in Int /\ RawScore(role, u) <= RawScore(role, v)
<1> DEFINE groups == DOMAIN role.groups
           U(g) == WeightedMean(role.groups[g].metrics, u)
           V(g) == WeightedMean(role.groups[g].metrics, v)
           weights == [g \in groups |-> role.groups[g].weight \div 100]
           su == GroupScores(role, u)
           sv == GroupScores(role, v)
<1>1. ASSUME NEW g \in groups PROVE Rises(U(g), V(g))
  <2>1. Weights(role.groups[g].metrics) BY DEF RoleNumbers
  <2>2. QED BY <2>1, MeanGrows
<1>2. su = [g \in {h \in groups : U(h) # {}} |-> The(U(g))] /\ sv = [g \in {h \in groups : V(h) # {}} |-> The(V(g))]
  BY Zenon DEF GroupScores
<1>3. \A a : The({a}) = a BY DEF The
<1>4. RawScore(role, u) = Or(WeightedMean(weights, su), 0) /\ RawScore(role, v) = Or(WeightedMean(weights, sv), 0)
  BY DEF RawScore
<1>5. Weights(weights)
  <2>1. IsFiniteSet(groups) /\ \A g \in groups : role.groups[g].weight \in Nat BY DEF RoleNumbers
  <2>2. \A n \in Nat : n \div 100 \in Nat OBVIOUS
  <2>3. DOMAIN weights = groups /\ \A g \in groups : weights[g] \in Nat BY <2>1, <2>2
  <2> HIDE DEF weights, groups
  <2>4. QED BY <2>1, <2>3 DEF Weights
<1> HIDE DEF U, V, weights, groups, su, sv
<1>6. {h \in groups : U(h) # {}} = {h \in groups : V(h) # {}} BY <1>1 DEF Rises
<1>7. Above(sv, su)
  <2>1. DOMAIN su = {h \in groups : U(h) # {}} /\ DOMAIN sv = DOMAIN su BY <1>2, <1>6
  <2>2. ASSUME NEW g \in DOMAIN su PROVE su[g] \in Int /\ sv[g] \in Int /\ su[g] <= sv[g]
    <3>1. g \in groups /\ U(g) # {} BY <2>1
    <3>2. PICK a \in Int, b \in Int : a <= b /\ U(g) = {a} /\ V(g) = {b} BY <1>1, <3>1 DEF Rises
    <3>3. su[g] = The(U(g)) /\ sv[g] = The(V(g)) BY <1>2, <2>1
    <3>4. QED BY <1>3, <3>2, <3>3
  <2>3. QED BY <2>1, <2>2 DEF Above
<1>8. Rises(WeightedMean(weights, su), WeightedMean(weights, sv)) BY <1>5, <1>7, MeanGrows
<1> DEFINE meanU == WeightedMean(weights, su)
           meanV == WeightedMean(weights, sv)
<1> HIDE DEF meanU, meanV
<1>9. CASE meanU = {} /\ meanV = {}
  <2>1. Or(meanU, 0) = 0 /\ Or(meanV, 0) = 0 BY <1>9 DEF Or
  <2>2. QED BY <1>4, <2>1 DEF meanU, meanV
<1>10. CASE \E a, b \in Int : a <= b /\ meanU = {a} /\ meanV = {b}
  <2>1. PICK a \in Int, b \in Int : a <= b /\ meanU = {a} /\ meanV = {b} BY <1>10
  <2>2. Or(meanU, 0) = a /\ Or(meanV, 0) = b BY <1>3, <2>1 DEF Or
  <2>3. QED BY <1>4, <2>1, <2>2 DEF meanU, meanV
<1>11. QED BY <1>8, <1>9, <1>10 DEF Rises, meanU, meanV

(* A rule takes off less of higher percentiles. *)
LEMMA PointsShrink ==
  ASSUME NEW rule, rule.threshold \in Int, rule.penalty \in Nat, NEW u, NEW v, Above(v, u)
  PROVE  Points(rule, u) \in Nat /\ Points(rule, v) \in Nat /\ Points(rule, v) <= Points(rule, u)
<1> DEFINE t == TriggerLevel(rule)
           m == rule.metric
           Fires(e) == m \in DOMAIN e /\ t > 0 /\ e[m] <= t
           lost(e) == Nearest(rule.penalty * (t - e[m]), t)
<1>1. \A e : Points(rule, e) = IF Fires(e) THEN lost(e) ELSE 0 BY DEF Points
<1>2. t \in Int BY DEF TriggerLevel, Unit
<1>3. DOMAIN v = DOMAIN u /\ (m \in DOMAIN u => u[m] \in Int /\ v[m] \in Int /\ u[m] <= v[m]) BY DEF Above
<1> HIDE DEF t, m
<1>4. ASSUME NEW e, e[m] \in Int, Fires(e) PROVE rule.penalty * (t - e[m]) \in Nat /\ lost(e) \in Nat
  <2>1. PICK d : d = t - e[m] OBVIOUS
  <2>2. d \in Nat BY <1>2, <1>4, <2>1
  <2>3. rule.penalty * d \in Nat BY <2>2
  <2>4. t \in Nat /\ t > 0 BY <1>2, <1>4
  <2>5. Nearest(rule.penalty * d, t) \in Nat BY <2>3, <2>4, NearestNat
  <2>6. QED BY <2>1, <2>3, <2>5
<1>5. Fires(v) => Fires(u) BY <1>2, <1>3
<1>6. (Fires(u) => lost(u) \in Nat) /\ (Fires(v) => lost(v) \in Nat) BY <1>3, <1>4
<1>7. ASSUME Fires(v) PROVE lost(v) <= lost(u)
  <2>1. PICK a, b : a = t - v[m] /\ b = t - u[m] OBVIOUS
  <2>2. a \in Int /\ b \in Int /\ a <= b /\ t \in Nat /\ t > 0 BY <1>2, <1>3, <1>7, <2>1
  <2>3. a * rule.penalty <= b * rule.penalty BY <2>2, TimesGrows
  <2>4. a * rule.penalty = rule.penalty * a /\ b * rule.penalty = rule.penalty * b
        /\ rule.penalty * a \in Int /\ rule.penalty * b \in Int
    BY <2>2
  <2>5. PICK c, d : c = rule.penalty * a /\ d = rule.penalty * b OBVIOUS
  <2>6. c \in Int /\ d \in Int /\ c <= d BY <2>3, <2>4, <2>5
  <2>7. Nearest(c, t) <= Nearest(d, t) BY <2>2, <2>6, NearestGrows
  <2>8. QED BY <2>1, <2>5, <2>7
<1> HIDE DEF Fires, lost
<1>8. QED BY <1>1, <1>5, <1>6, <1>7

(* So do all the rules of a role together. *)
LEMMA PenaltiesShrink ==
  ASSUME NEW role, RoleNumbers(role), NEW u, NEW v, Above(v, u)
  PROVE  PenaltiesTotal(role, u) \in Int /\ PenaltiesTotal(role, v) \in Int /\ PenaltiesTotal(role, v) <= PenaltiesTotal(role, u)
<1> DEFINE S == role.concerns
           p == [rule \in S |-> Points(rule, v)]
           q == [rule \in S |-> Points(rule, u)]
<1>1. PenaltiesTotal(role, u) = Min({800, Lost(u, S)}) /\ PenaltiesTotal(role, v) = Min({800, Lost(v, S)})
  BY Zenon DEF PenaltiesTotal, MAX_TOTAL_PENALTY, Lost
<1>2. IsFiniteSet(S) /\ \A rule \in S : rule.threshold \in Int /\ rule.penalty \in Nat BY DEF RoleNumbers
<1> HIDE DEF S
<1>3. \A rule \in S : Points(rule, u) \in Int /\ Points(rule, v) \in Int /\ Points(rule, v) <= Points(rule, u)
  BY <1>2, PointsShrink
<1>4. PICK g : Sums(g, p, S) /\ Lost(v, S) = g[S]
  <2>1. \A rule \in S : Points(rule, v) \in Int BY <1>3
  <2>2. QED BY <1>2, <2>1, PointsSums
<1>5. PICK h : Sums(h, q, S) /\ Lost(u, S) = h[S]
  <2>1. \A rule \in S : Points(rule, u) \in Int BY <1>3
  <2>2. QED BY <1>2, <2>1, PointsSums
<1>6. p \in [S -> Int] /\ q \in [S -> Int] /\ \A rule \in S : p[rule] <= q[rule] BY <1>3
<1> HIDE DEF p, q
<1>7. S \in SUBSET S OBVIOUS
<1>8. g[S] \in Int /\ h[S] \in Int BY <1>2, <1>4, <1>5, <1>6, <1>7, SumsAre
<1>9. g[S] <= h[S] BY <1>2, <1>4, <1>5, <1>6, <1>7, SumsGrow
<1>10. /\ PenaltiesTotal(role, u) = IF 800 <= h[S] THEN 800 ELSE h[S]
       /\ PenaltiesTotal(role, v) = IF 800 <= g[S] THEN 800 ELSE g[S]
  BY <1>1, <1>4, <1>5, <1>8, MinIs
<1>11. QED BY <1>8, <1>9, <1>10

(* Within a band. *)
LEMMA ClampGrows ==
  ASSUME NEW band, band.min \in Int, band.max \in Int, NEW a \in Int, NEW b \in Int, a <= b
  PROVE  Clamp(a, band) \in Int /\ Clamp(b, band) \in Int /\ Clamp(a, band) <= Clamp(b, band) /\ Clamp(a, band) >= band.min
<1> DEFINE low == band.min
           high == band.max
           c == IF high <= a THEN high ELSE a
           d == IF high <= b THEN high ELSE b
<1>1. Min({high, a}) = c /\ Min({high, b}) = d BY MinIs
<1>2. c \in Int /\ d \in Int /\ c <= d /\ low \in Int OBVIOUS
<1>3. Clamp(a, band) = Max({low, c}) /\ Clamp(b, band) = Max({low, d}) BY <1>1 DEF Clamp
<1> HIDE DEF c, d, low, high
<1>4. Clamp(a, band) = (IF low >= c THEN low ELSE c) /\ Clamp(b, band) = (IF low >= d THEN low ELSE d)
  BY <1>2, <1>3, MaxIs
<1>5. QED BY <1>2, <1>4 DEF low

(* A band that does not reach below zero keeps a number there. *)
LEMMA ClampNat == ASSUME NEW band \in BandEntry, NEW a \in Int PROVE Clamp(a, band) \in Nat
<1>1. band.min \in Nat /\ band.max \in Int /\ a <= a BY DEF BandEntry
<1>2. band.min \in Int BY <1>1
<1>3. Clamp(a, band) \in Int /\ Clamp(a, band) >= band.min BY <1>1, <1>2, ClampGrows
<1>4. QED BY <1>1, <1>3

(* A product of what is not negative is not. *)
LEMMA TimesNat == ASSUME NEW a \in Nat, NEW b \in Nat PROVE Times(a, b) \in Nat
<1>1. a * b \in Nat OBVIOUS
<1>2. PICK c : c = a * b OBVIOUS
<1>3. Nearest(c, 10000) \in Nat BY <1>1, <1>2, NearestNat
<1>4. QED BY <1>2, <1>3 DEF Times, Unit

(* The sample of some minutes is one of the configured ones. *)
LEMMA SampleIs ==
  ASSUME NEW minutes \in Int
  PROVE  SampleDimension(minutes).multiplier \in Nat
<1> DEFINE samples == ContextConfig.samples
           reached == {t \in samples : minutes >= t.minutes}
           best(S) == CHOOSE t \in S : \A u \in S : t.minutes >= u.minutes
           least == CHOOSE t \in samples : \A u \in samples : t.minutes =< u.minutes
           chosen == IF reached = {} THEN least ELSE best(reached)
<1>1. SampleDimension(minutes) = [chosen EXCEPT !.multiplier = Clamp(@, ContextConfig.sampleBand)]
  BY Zenon DEF SampleDimension
<1>2. IsFiniteSet(samples) /\ samples # {} /\ samples \subseteq SampleEntry /\ ContextConfig.sampleBand \in BandEntry
  BY NumbersAssumption DEF ContextNumbers
<1>3. \A t \in samples : t.minutes \in Int BY <1>2 DEF SampleEntry
<1>4. \E t \in samples : \A u \in samples : t.minutes <= u.minutes
  <2> DEFINE f == [t \in samples |-> 0 - t.minutes]
  <2>1. \A t \in samples : f[t] \in Int /\ f[t] = 0 - t.minutes BY <1>3
  <2> HIDE DEF f, samples
  <2>2. PICK t \in samples : \A u \in samples : f[u] <= f[t] BY <1>2, <2>1, MostIs
  <2>3. \A u \in samples : t.minutes <= u.minutes BY <1>3, <2>1, <2>2
  <2>4. QED BY <2>3
<1>5. reached # {} => \E t \in reached : \A u \in reached : t.minutes >= u.minutes
  <2> SUFFICES ASSUME reached # {} PROVE \E t \in reached : \A u \in reached : t.minutes >= u.minutes OBVIOUS
  <2> DEFINE f == [t \in reached |-> t.minutes]
  <2>1. \A t \in reached : f[t] \in Int /\ f[t] = t.minutes BY <1>3
  <2>2. IsFiniteSet(reached)
    <3>1. reached \in SUBSET samples OBVIOUS
    <3> HIDE DEF reached
    <3>2. QED BY <1>2, <3>1, FS_Subset
  <2> HIDE DEF f, reached
  <2>3. PICK t \in reached : \A u \in reached : f[u] <= f[t] BY <2>1, <2>2, MostIs
  <2>4. \A u \in reached : t.minutes >= u.minutes BY <2>1, <2>3
  <2>5. QED BY <2>4
<1>6. least \in samples BY <1>4
<1>7. reached # {} => best(reached) \in samples
  <2>1. reached # {} => best(reached) \in reached
    <3> HIDE DEF reached
    <3>1. QED BY <1>5
  <2>2. reached \subseteq samples OBVIOUS
  <2>3. QED BY <2>1, <2>2
<1>8. chosen \in samples
  <2> HIDE DEF least, best, reached
  <2>1. QED BY <1>6, <1>7
<1> HIDE DEF chosen
<1>9. chosen \in SampleEntry BY <1>2, <1>8
<1>10. SampleDimension(minutes).multiplier = Clamp(chosen.multiplier, ContextConfig.sampleBand) /\ chosen.multiplier \in Int
  BY <1>1, <1>9 DEF SampleEntry
<1>11. QED BY <1>2, <1>10, ClampNat

(* A context never turns a score round, and its bonus is a number. *)
LEMMA ContextIs ==
  ASSUME NEW competition, NEW team, NEW minutes \in Int, NEW form, form \subseteq Int
  PROVE  LET context == BuildContext(competition, team, minutes, form)
         IN context.multiplier \in Nat /\ context.formBonus \in Int
<1> DEFINE config == ContextConfig
           league == LeagueDimension({c.slug : c \in competition})
           side == TeamDimension(team)
           opposition == OppositionDimension(league)
           stakes == StakesDimension(UNION {c.type : c \in competition})
           sample == SampleDimension(minutes)
           bonus == FormBonusPoints(form, sample.confidence)
           context == BuildContext(competition, team, minutes, form)
<1>1. /\ context.multiplier = Times(Times(Times(league.multiplier, side.multiplier), Times(opposition, stakes)), sample.multiplier)
      /\ context.formBonus = bonus
  <2>1. context = [multiplier |-> Times(Times(Times(league.multiplier, side.multiplier), Times(opposition, stakes)), sample.multiplier),
                   league |-> league.multiplier, risk |-> league.risk, confidence |-> sample.confidence, tier |-> TeamTier(team),
                   penalty |-> league.penalty + side.penalty, formBonus |-> bonus]
    BY Zenon DEF BuildContext
  <2> HIDE DEF context, league, side, opposition, stakes, sample, bonus
  <2>2. QED BY <2>1
<1>2. {config.leagueBand, config.teamBand, config.stakesBand, config.oppositionBand, config.sampleBand} \subseteq BandEntry
  BY NumbersAssumption DEF ContextNumbers
<1>3. league.multiplier \in Nat
  <2> DEFINE slug == {c.slug : c \in competition}
             entry == Or(Lookup(config.leagues, slug), config.leagueDefault)
  <2> HIDE DEF slug
  <2>1. entry \in LeagueEntry BY NumbersAssumption DEF ContextNumbers, Or, The, Lookup
  <2>2. league = [entry EXCEPT !.multiplier = Clamp(@, config.leagueBand)] BY DEF LeagueDimension, slug
  <2> HIDE DEF entry, league
  <2>3. league.multiplier = Clamp(entry.multiplier, config.leagueBand) /\ entry.multiplier \in Int
    BY <2>1, <2>2 DEF LeagueEntry
  <2>4. QED BY <1>2, <2>3, ClampNat
<1>4. side.multiplier \in Nat
  <2> DEFINE entry == Or(Lookup(config.tiers, {TeamTier(team)}), config.tiers[config.defaultTier])
  <2>1. entry \in TierEntry BY NumbersAssumption DEF ContextNumbers, Or, The, Lookup
  <2>2. side = [entry EXCEPT !.multiplier = Clamp(@, config.teamBand)] BY DEF TeamDimension
  <2> HIDE DEF entry, side
  <2>3. side.multiplier = Clamp(entry.multiplier, config.teamBand) /\ entry.multiplier \in Int BY <2>1, <2>2 DEF TierEntry
  <2>4. QED BY <1>2, <2>3, ClampNat
<1> HIDE DEF league, side
<1>5. opposition \in Nat
  <2>1. PICK a : a = (league.multiplier - Unit) * 6 OBVIOUS
  <2>2. a \in Int BY <1>3, <2>1 DEF Unit
  <2>3. Nearest(a, 10) \in Int
    <3>1. a <= a /\ 10 \in Nat /\ 10 > 0 BY <2>2
    <3>2. QED BY <2>2, <3>1, NearestGrows
  <2>4. PICK n : n = Unit + Nearest(a, 10) OBVIOUS
  <2>5. n \in Int BY <2>3, <2>4 DEF Unit
  <2>6. opposition = Clamp(n, config.oppositionBand) BY <2>1, <2>4 DEF OppositionDimension
  <2>7. QED BY <1>2, <2>5, <2>6, ClampNat
<1>6. stakes \in Nat
  <2> DEFINE type == UNION {c.type : c \in competition}
             value == Or(Lookup(config.stakes, type), Unit)
  <2> HIDE DEF type
  <2>1. value \in Int BY NumbersAssumption DEF ContextNumbers, Or, The, Lookup, Unit
  <2>2. stakes = Clamp(value, config.stakesBand) BY DEF StakesDimension, type
  <2> HIDE DEF value
  <2>3. QED BY <1>2, <2>1, <2>2, ClampNat
<1>7. sample.multiplier \in Nat BY SampleIs
<1> HIDE DEF opposition, stakes, sample
<1>8. context.multiplier \in Nat
  <2>1. PICK a, b, c, d, e : a = league.multiplier /\ b = side.multiplier /\ c = opposition /\ d = stakes /\ e = sample.multiplier
    OBVIOUS
  <2>2. Times(a, b) \in Nat /\ Times(c, d) \in Nat BY <1>3, <1>4, <1>5, <1>6, <2>1, TimesNat
  <2>3. Times(Times(a, b), Times(c, d)) \in Nat BY <2>2, TimesNat
  <2>4. Times(Times(Times(a, b), Times(c, d)), e) \in Nat BY <1>7, <2>1, <2>3, TimesNat
  <2>5. QED BY <1>1, <2>1, <2>4
<1>9. bonus \in Int
  <2> DEFINE most == config.formPoints
             Weak == form = {} \/ ConfidenceOrder[sample.confidence] < ConfidenceOrder[config.formRequires]
             high == Max({0, The(form) - 5000})
             more == Nearest(high * 2 * most, Unit)
  <2>1. bonus = IF Weak THEN 0 ELSE Min({most, more}) BY Zenon DEF FormBonusPoints
  <2>2. CASE Weak BY <2>1, <2>2
  <2>3. CASE ~Weak
    <3>1. The(form) \in Int BY <2>3 DEF The
    <3>2. PICK v : v = The(form) - 5000 OBVIOUS
    <3>3. v \in Int BY <3>1, <3>2
    <3>4. high = IF 0 >= v THEN 0 ELSE v BY <3>2, <3>3, MaxIs
    <3>5. high \in Int BY <3>3, <3>4
    <3>6. most \in Int BY NumbersAssumption DEF ContextNumbers
    <3> HIDE DEF high, most
    <3>7. PICK w : w = high * 2 * most OBVIOUS
    <3>8. w \in Int BY <3>5, <3>6, <3>7
    <3>9. more \in Int
      <4>1. w <= w /\ 10000 \in Nat /\ 10000 > 0 BY <3>8
      <4>2. Nearest(w, 10000) \in Int BY <3>8, <4>1, NearestGrows
      <4>3. QED BY <3>7, <4>2 DEF Unit
    <3> HIDE DEF more
    <3>10. Min({most, more}) = IF most <= more THEN most ELSE more BY <3>6, <3>9, MinIs
    <3>11. QED BY <2>1, <2>3, <3>6, <3>9, <3>10
  <2>4. QED BY <2>2, <2>3
<1> HIDE DEF context, bonus
<1>10. QED BY <1>1, <1>8, <1>9 DEF context

(* The score of a player in a role grows with the percentiles. *)
LEMMA ScoreGrows ==
  ASSUME NEW role, RoleNumbers(role), NEW u, NEW v, Above(v, u), NEW context, context.multiplier \in Nat,
         context.formBonus \in Int, NEW minutes, NEW other
  PROVE  LET low == RoleRating(role, u, context, other).score
             high == RoleRating(role, v, context, minutes).score
         IN low \in Int /\ high \in Int /\ low <= high
<1> DEFINE m == context.multiplier
           f == context.formBonus
           final(e) == Times(RawScore(role, e), m) + f - PenaltiesTotal(role, e)
<1>1. \A e, n : RoleRating(role, e, context, n).score = Nearest(Clamp(final(e), DISPLAY_SCALE), 10) BY DEF RoleRating
<1>2. PICK a, b : a = RawScore(role, u) /\ b = RawScore(role, v) OBVIOUS
<1>3. a \in Int /\ b \in Int /\ a <= b BY <1>2, RawScoreGrows
<1>4. a * m \in Int /\ b * m \in Int /\ a * m <= b * m
  <2>1. a * m <= b * m BY <1>3, TimesGrows
  <2>2. QED BY <1>3, <2>1
<1>5. Times(a, m) \in Int /\ Times(b, m) \in Int /\ Times(a, m) <= Times(b, m)
  <2>1. PICK c, d : c = a * m /\ d = b * m OBVIOUS
  <2>2. c \in Int /\ d \in Int /\ c <= d /\ d <= d /\ 10000 \in Nat /\ 10000 > 0 BY <1>4, <2>1
  <2>3. Nearest(c, 10000) \in Int /\ Nearest(d, 10000) \in Int /\ Nearest(c, 10000) <= Nearest(d, 10000)
    BY <2>2, NearestGrows
  <2>4. QED BY <2>1, <2>3 DEF Times, Unit
<1>6. PenaltiesTotal(role, u) \in Int /\ PenaltiesTotal(role, v) \in Int /\ PenaltiesTotal(role, v) <= PenaltiesTotal(role, u)
  BY PenaltiesShrink
<1>7. final(u) \in Int /\ final(v) \in Int /\ final(u) <= final(v) BY <1>2, <1>5, <1>6
<1> HIDE DEF final
<1>8. DISPLAY_SCALE.min \in Int /\ DISPLAY_SCALE.max \in Int BY DEF DISPLAY_SCALE
<1>9. PICK c, d : c = Clamp(final(u), DISPLAY_SCALE) /\ d = Clamp(final(v), DISPLAY_SCALE) OBVIOUS
<1>10. c \in Int /\ d \in Int /\ c <= d BY <1>7, <1>8, <1>9, ClampGrows
<1>11. d <= d /\ 10 \in Nat /\ 10 > 0 BY <1>10
<1>12. Nearest(c, 10) \in Int /\ Nearest(d, 10) \in Int /\ Nearest(c, 10) <= Nearest(d, 10)
  BY <1>10, <1>11, NearestGrows
<1>13. QED BY <1>1, <1>9, <1>12

(* Of two players of a role in the same surroundings, the one at least as good scores at least as high. *)
LEMMA BetterScores ==
  ASSUME NEW read, Told(read), NEW k \in DOMAIN RoleConfigs, NEW p \in Eligible(read, k), NEW q \in Eligible(read, k),
         AtLeastAsGood(read, p, q), SameSurroundings(read, p, q)
  PROVE  /\ RatingOf(read, p, k).score \in Int /\ RatingOf(read, q, k).score \in Int
         /\ RatingOf(read, q, k).score <= RatingOf(read, p, k).score
<1> DEFINE u == RolePercentiles(read, k)[q]
           v == RolePercentiles(read, k)[p]
           context == ContextOf(read, p)
<1>1. Above(v, u) BY PercentilesGrow DEF Above
<1>2. q \in DOMAIN read.primary /\ p \in DOMAIN read.primary BY DEF Eligible
<1>3. context.multiplier \in Nat /\ context.formBonus \in Int
  <2> DEFINE form == Raw(read, p, "recent_form_index")
             minutes == PerformanceMinutes(read, p)
  <2>1. form \subseteq Int BY <1>2 DEF Told, AreNumbers, Raw, Lookup
  <2>2. minutes \in Int BY <1>2 DEF Told
  <2>3. context = BuildContext(Competition(read, p), Team(read, p), minutes, form) BY DEF ContextOf
  <2> HIDE DEF form, minutes, context
  <2>4. QED BY <2>1, <2>2, <2>3, ContextIs
<1>4. RoleNumbers(RoleConfigs[k]) BY NumbersAssumption
<1>5. /\ RatingOf(read, p, k) = RoleRating(RoleConfigs[k], v, context, PerformanceMinutes(read, p))
      /\ RatingOf(read, q, k) = RoleRating(RoleConfigs[k], u, context, PerformanceMinutes(read, q))
  BY DEF RatingOf, SameSurroundings
<1> HIDE DEF u, v, context
<1>6. QED BY <1>1, <1>3, <1>4, <1>5, ScoreGrows

(* Every score is a number. *)
LEMMA ScoreIs ==
  ASSUME NEW read, Told(read), NEW p, NEW k \in Rated(read, p)
  PROVE  RatingOf(read, p, k).score \in Int
<1>1. k \in DOMAIN RoleConfigs /\ p \in Eligible(read, k) /\ p \in DOMAIN read.primary BY DEF Rated, Eligible
<1>2. \A m \in DOMAIN read.registry[p] : read.registry[p][m] \in Int BY <1>1 DEF Told, AreNumbers
<1>3. AtLeastAsGood(read, p, p) BY <1>2 DEF AtLeastAsGood
<1>4. SameSurroundings(read, p, p) BY DEF SameSurroundings
<1>5. QED BY <1>1, <1>3, <1>4, BetterScores

(* The ratings of a role in an analysis: finitely many, with numbers to order them by. *)
LEMMA RatingsAre ==
  ASSUME NEW read, Told(read), NEW s, NEW r, IsAnalysis(AnalysisRows(read, s, r), s, r), NEW k
  PROVE  LET rows == {z \in OfTable(AnalysisRows(read, s, r), "ratings") : z.key = k}
         IN IsFiniteSet(rows) /\ \A z \in rows : z.player \in Int /\ z.value \in Int
<1> DEFINE all == AnalysisRows(read, s, r)
           rows == {z \in OfTable(all, "ratings") : z.key = k}
           players == DOMAIN read.primary
           of == [p \in players |-> [table |-> "ratings", season |-> s, player |-> p, key |-> k, run |-> r,
                                     value |-> RatingOf(read, p, k).score, trust |-> RatingOf(read, p, k).confidence,
                                     rank |-> 0]]
<1>1. ASSUME NEW z \in rows
      PROVE  /\ z.player \in players /\ z.player \in Int /\ z.value \in Int
             /\ z = of[z.player]
  <2>1. z \in all /\ z.table = "ratings" /\ z.key = k BY DEF OfTable
  <2>2. IsRow(z) /\ z.season = s /\ z.run = r /\ z.rank = 0 BY <2>1 DEF IsAnalysis, IsKept
  <2>3. z.player \in players /\ Says(z, read, z.player) BY <2>1, AnalysisSays
  <2>4. k \in Rated(read, z.player) /\ z.value = RatingOf(read, z.player, k).score
        /\ z.trust = RatingOf(read, z.player, k).confidence
    BY <2>1, <2>3 DEF Says
  <2>5. z.value \in Int BY <2>4, ScoreIs
  <2>6. z.player \in Int BY <2>3 DEF Told
  <2>7. z = of[z.player] BY <2>1, <2>2, <2>3, <2>4 DEF IsRow
  <2>8. QED BY <2>3, <2>5, <2>6, <2>7
<1>2. IsFiniteSet(players) BY DEF Told
<1> HIDE DEF of, players, rows
<1>3. rows \subseteq {of[p] : p \in players} BY <1>1
<1>4. IsFiniteSet({of[p] : p \in players}) BY <1>2, ImageFinite
<1>5. IsFiniteSet(rows) BY <1>3, <1>4, FS_Subset
<1>6. QED BY <1>1, <1>5 DEF rows, all

(* A rating before another of its role is ranked higher. *)
LEMMA BeforeRanks ==
  ASSUME NEW rows, NEW k, IsFiniteSet({z \in rows : z.key = k}),
         \A z \in rows : z.key = k => z.player \in Int /\ z.value \in Int,
         NEW x \in rows, NEW y \in rows, x.key = k, y.key = k, Before(x, y)
  PROVE  RankAmong(x, rows) < RankAmong(y, rows)
<1> DEFINE X == {z \in rows : z.key = k /\ Before(z, x)}
           Y == {z \in rows : z.key = k /\ Before(z, y)}
           K == {z \in rows : z.key = k}
<1>1. RankAmong(x, rows) = 1 + Cardinality(X) /\ RankAmong(y, rows) = 1 + Cardinality(Y) BY DEF RankAmong
<1>2. x.player \in Int /\ x.value \in Int /\ y.player \in Int /\ y.value \in Int OBVIOUS
<1>3. X \subseteq Y
  <2> SUFFICES ASSUME NEW z \in X PROVE Before(z, y) OBVIOUS
  <2>1. z.player \in Int /\ z.value \in Int OBVIOUS
  <2>2. QED BY <1>2, <2>1 DEF Before
<1>4. x \in Y /\ x \notin X BY <1>2 DEF Before
<1>5. IsFiniteSet(Y)
  <2>1. Y \in SUBSET K OBVIOUS
  <2> HIDE DEF Y
  <2>2. QED BY <2>1, FS_Subset
<1> HIDE DEF X, Y
<1>6. X \in SUBSET (Y \ {x}) /\ IsFiniteSet(Y \ {x}) BY <1>3, <1>4, <1>5, FS_RemoveElement
<1>7. Cardinality(Y \ {x}) = Cardinality(Y) - 1 BY <1>4, <1>5, FS_RemoveElement
<1>8. IsFiniteSet(X) /\ Cardinality(X) <= Cardinality(Y \ {x}) BY <1>6, FS_Subset
<1>9. Cardinality(X) \in Nat /\ Cardinality(Y) \in Nat BY <1>5, <1>8, FS_CardinalityType
<1>10. QED BY <1>1, <1>7, <1>8, <1>9

(* So in a season whose last run ranked it alone. *)
LEMMA RanksAgree ==
  ASSUME Inv, ToldInv, NEW r, NEW s, Latest(r, s), ~Raced(r, s),
         NEW x \in OfTable(stored, "ratings"), NEW y \in OfTable(stored, "ratings"),
         x.run = r, y.run = r, x.season = s, y.season = s, x.key = y.key, Before(x, y)
  PROVE  x.rank < y.rank
<1> DEFINE read == runs[r].read[s]
           all == runs[r].rows[s]
           ratings == OfTable(all, "ratings")
<1>1. x \in stored /\ y \in stored /\ x.table = "ratings" /\ y.table = "ratings" BY DEF OfTable
<1>2. r \in DOMAIN runs /\ Finished(r) /\ s \in DOMAIN runs[r].read
  <2>1. x.run \in FinishedRuns BY <1>1 DEF Inv, KeptInv
  <2>2. QED BY <2>1 DEF FinishedRuns, Latest, Analysed
<1>3. RunInv(runs[r], r, stored, FinishedRuns) /\ RunTold(runs[r], r) BY <1>2 DEF Inv, RunsInv, ToldInv
<1>4. s \in SEASONS /\ s \in DOMAIN runs[r].rows
  <2>1. runs[r].at = "finished" BY <1>2 DEF Finished
  <2>2. Written(runs[r], s) BY <1>2, <2>1 DEF Written, Doing, WORKING
  <2>3. s \in SEASONS BY <1>2, <1>3 DEF RunInv, Shape
  <2>4. QED BY <1>2, <1>3, <2>1, <2>2, <2>3 DEF RunInv, Analyses
<1>5. all = AnalysisRows(read, s, r) /\ Told(read) BY <1>3, <1>4 DEF RunTold
<1>6. IsAnalysis(all, s, r) BY <1>3, <1>4 DEF RunInv, Analyses
<1>7. InSeason(stored, s) = (all \ ratings) \cup Ranked(ratings)
  BY <1>2, <1>4 DEF Inv, AnalysisIsOfOneRun, RankedRows
<1> HIDE DEF read, all
<1>8. ASSUME NEW z \in stored, z.season = s, z.table = "ratings"
      PROVE  \E e \in ratings : e.key = z.key /\ e.value = z.value /\ e.player = z.player /\ z.rank = RankAmong(e, ratings)
  <2>1. z \in (all \ ratings) \cup Ranked(ratings) BY <1>7, <1>8 DEF InSeason
  <2>2. z \notin all \ ratings BY <1>8 DEF OfTable
  <2>3. PICK e \in ratings : z = [e EXCEPT !.rank = RankAmong(e, ratings)] BY <2>1, <2>2 DEF Ranked
  <2>4. IsRow(e) BY <1>6, <2>3 DEF OfTable, IsAnalysis, IsKept
  <2> HIDE DEF ratings
  <2>5. PICK n : n = RankAmong(e, ratings) OBVIOUS
  <2>6. z = [e EXCEPT !.rank = n] BY <2>3, <2>5
  <2>7. e.key = z.key /\ e.value = z.value /\ e.player = z.player /\ z.rank = n BY <2>4, <2>6 DEF IsRow
  <2>8. QED BY <2>5, <2>7
<1>9. PICK a \in ratings : a.key = x.key /\ a.value = x.value /\ a.player = x.player /\ x.rank = RankAmong(a, ratings)
  BY <1>1, <1>8
<1>10. PICK b \in ratings : b.key = y.key /\ b.value = y.value /\ b.player = y.player /\ y.rank = RankAmong(b, ratings)
  BY <1>1, <1>8
<1>11. IsFiniteSet({z \in ratings : z.key = x.key}) /\ \A z \in ratings : z.key = x.key => z.player \in Int /\ z.value \in Int
  <2>1. IsAnalysis(AnalysisRows(read, s, r), s, r) BY <1>5, <1>6
  <2>2. LET rows == {z \in OfTable(AnalysisRows(read, s, r), "ratings") : z.key = x.key}
        IN IsFiniteSet(rows) /\ \A z \in rows : z.player \in Int /\ z.value \in Int
    BY <1>5, <2>1, RatingsAre
  <2>3. QED BY <1>5, <2>2
<1> HIDE DEF ratings
<1>12. Before(a, b) BY <1>9, <1>10 DEF Before
<1>13. RankAmong(a, ratings) < RankAmong(b, ratings) BY <1>9, <1>10, <1>11, <1>12, BeforeRanks
<1>14. QED BY <1>9, <1>10, <1>13

(* So a player at least as good is never below. *)
LEMMA ToldRanks == Inv /\ ToldInv => BetterNeverRanksBelow
<1> SUFFICES ASSUME Inv, ToldInv PROVE BetterNeverRanksBelow OBVIOUS
<1>1. SUFFICES ASSUME NEW x \in OfTable(stored, "ratings"), NEW y \in OfTable(stored, "ratings"),
                      x.run = y.run, x.season = y.season, x.key = y.key, x.player # y.player,
                      AtLeastAsGood(runs[x.run].read[x.season], x.player, y.player),
                      SameSurroundings(runs[x.run].read[x.season], x.player, y.player)
               PROVE  /\ x.value >= y.value
                      /\ Latest(x.run, x.season) /\ ~Raced(x.run, x.season) =>
                           x.rank < y.rank \/ (x.value = y.value /\ y.player < x.player)
  BY DEF BetterNeverRanksBelow
<1>2. PICK read : read = runs[x.run].read[x.season] OBVIOUS
<1>3. x \in stored /\ y \in stored /\ x.table = "ratings" /\ y.table = "ratings" BY DEF OfTable
<1>4. x.season # "" BY <1>3 DEF Inv, KeptInv, IsKept
<1>5. Told(read) /\ x.player \in DOMAIN read.primary /\ Says(x, read, x.player) BY <1>2, <1>3, <1>4, StoredSay
<1>6. y.player \in DOMAIN read.primary /\ Says(y, read, y.player) BY <1>1, <1>2, <1>3, <1>4, StoredSay
<1>7. /\ x.key \in Rated(read, x.player) /\ x.value = RatingOf(read, x.player, x.key).score
      /\ x.key \in Rated(read, y.player) /\ y.value = RatingOf(read, y.player, x.key).score
  BY <1>1, <1>3, <1>5, <1>6 DEF Says
<1>8. x.key \in DOMAIN RoleConfigs /\ x.player \in Eligible(read, x.key) /\ y.player \in Eligible(read, x.key)
  BY <1>7 DEF Rated
<1>9. x.value \in Int /\ y.value \in Int /\ y.value <= x.value BY <1>1, <1>2, <1>5, <1>7, <1>8, BetterScores
<1>10. x.player \in Int /\ y.player \in Int BY <1>5, <1>6 DEF Told
<1>11. ASSUME Latest(x.run, x.season), ~Raced(x.run, x.season), ~(x.value = y.value /\ y.player < x.player)
       PROVE  x.rank < y.rank
  <2>1. Before(x, y) BY <1>1, <1>9, <1>10, <1>11 DEF Before
  <2>2. QED BY <1>1, <1>11, <2>1, RanksAgree
<1>12. QED BY <1>9, <1>11

(* Being at least as good is never scored below, nor ranked below where one run ranked the season. *)
THEOREM BetterHolds == Spec => []BetterNeverRanksBelow
<1>1. QED BY ToldRanks, InvHolds, ToldHolds, PTL
=============================================================================
