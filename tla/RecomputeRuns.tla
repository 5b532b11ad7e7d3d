---------------------------- MODULE RecomputeRuns ----------------------------
(***************************************************************************)
(* Recomputes (data_pipeline/jobs/recompute.py), each one transaction at   *)
(* READ COMMITTED over every season, statement by statement, while another *)
(* recompute runs and ingestions publish between its reads.  A session     *)
(* does not flush before a query: what a run has added and not flushed is  *)
(* pending, what it has flushed is seen by others when it commits.         *)
(***************************************************************************)
EXTENDS SeasonAnalysis

CONSTANTS Databases,    \* the facts ingestions have published, by name
          Successors,   \* name -> the databases the next ingestion may leave
          Scenarios     \* [facts, events, runs, analysed]: what a behaviour starts from

First == 0                  \* the run that analysed the database before
ASSUME ScenariosAssumption ==
  \A scenario \in Scenarios :
    IsFiniteSet(scenario.runs) /\ First \notin scenario.runs /\ scenario.facts \in DOMAIN Databases

\* Players are numbered, minutes are whole, a raw metric is a number; either of these may be missing.
Measured(db) ==
  /\ IsFiniteSet(db.appearances) /\ \A a \in db.appearances : a.player \in Int /\ a.minutes \subseteq Int
  /\ IsFiniteSet(db.metrics) /\ \A m \in db.metrics : m.value \subseteq Int
ASSUME DatabasesAssumption ==
  \A name \in DOMAIN Databases : Measured(Databases[name]) /\ Successors[name] \subseteq DOMAIN Databases

VARIABLES facts,        \* the name of the published facts
          events,       \* ingestions still to come
          stored,       \* the committed rows
          runs          \* the recomputes

vars == <<facts, events, stored, runs>>

SEASONS == {"s1", "s2"}
SeasonOrder == <<"s1", "s2">>
\* A mutant: the badges are not cleared.
BadgesLeft == <<"ratings", "metrics", "context", "market", "similarity", "membership">>

CLEARED == <<"ratings", "metrics", "context", "playstyles", "market", "similarity", "membership">>

Db == Databases[facts]
InSeason(rows, s) == {x \in rows : x.season = s}
OfTable(rows, t) == {x \in rows : x.table = t}
OfTables(rows, T) == {x \in rows : x.table \in T}

Idle == [at |-> "idle", todo |-> <<>>, clear |-> <<>>, targets |-> {}, snapshots |-> {}, read |-> <<>>,
         rows |-> <<>>, found |-> {}, inserted |-> {}, deleted |-> {}, pending |-> {}, beside |-> {}, stamp |-> 0]

Open(r) == runs[r].at \notin {"idle", "finished", "failed"}
Finished(r) == runs[r].at = "finished"
Others(r) == {q \in DOMAIN runs \ {r} : Open(q)}
Season(r) == Head(runs[r].todo)
Reading(r) == runs[r].read[Season(r)]

\* What a statement of the run sees.
Visible(r) == (stored \ runs[r].deleted) \union runs[r].inserted

Definition(k, r) == Row("definitions", "", 0, k, r, 0, "")
Definitions(r) == {Definition(k, r) : k \in DOMAIN RoleConfigs}

(* Rank in the peer group of a role: the better score, then the lower id.   *)
Before(x, y) == x.value > y.value \/ (x.value = y.value /\ x.player < y.player)
RankAmong(x, rows) == 1 + Cardinality({y \in rows : y.key = x.key /\ Before(y, x)})
Ranked(rows) == {[x EXCEPT !.rank = RankAmong(x, rows)] : x \in rows}

(* Unique keys: a row another transaction has written makes the insert wait, *)
(* one that is committed makes it fail.                                      *)
UNIQUE == {"ratings", "membership", "definitions"}
SameKey(x, y) == x.table = y.table /\ x.season = y.season /\ x.player = y.player /\ x.key = y.key
Taken(x, rows) == x.table \in UNIQUE /\ \E y \in rows : SameKey(x, y)

\* A row of another run in the pending ones is a stored row with a new rank.
Rewritten(new, r) == {y \in stored : \E x \in new : x.run # r /\ y = [x EXCEPT !.rank = y.rank]}

Waits(r, new) ==
  \E q \in Others(r) :
    \/ Rewritten(new, r) \intersect runs[q].deleted # {}
    \/ \E x \in new : Taken(x, runs[q].deleted \union runs[q].inserted)

Clashes(r, new) ==
  \/ \E x \in new : x.run # r /\ Rewritten({x}, r) = {}
  \/ \E x \in new : Taken(x, stored \ (runs[r].deleted \union Rewritten(new, r) \union UNION {runs[q].deleted : q \in Others(r)}))

Flushed(r, new) ==
  [runs[r] EXCEPT !.inserted = @ \union new, !.deleted = @ \union Rewritten(new, r), !.pending = {}]

RolledBack(r) ==
  [runs[r] EXCEPT !.at = "failed", !.todo = <<>>, !.clear = <<>>, !.targets = {},
                  !.inserted = {}, !.deleted = {}, !.pending = {}]

Step(r, record) == runs' = [runs EXCEPT ![r] = record] /\ UNCHANGED <<facts, events, stored>>
Abort(r) == Step(r, RolledBack(r))

-----------------------------------------------------------------------------
InitialRun(db) ==
  LET d == Databases[db]
      reading(s) == LET apps == {a \in d.appearances : a.season = s}
                        raw == CHOOSE f \in RawChoices({m \in d.metrics : m.season = s}, Appear(apps)) : TRUE
                    IN [primary |-> CHOOSE f \in PrimaryChoices(apps) : TRUE, minutes |-> TotalMinutes(apps),
                        players |-> [p \in Appear(apps) |-> d.players[p]], raw |-> raw,
                        registry |-> CHOOSE f \in RegistryChoices(raw) : TRUE, covered |-> FALSE,
                        competitions |-> d.competitions, teams |-> d.teams, end |-> d.ends[s]]
      analysed == {s \in SEASONS : \E a \in d.appearances : a.season = s}
      read == [s \in analysed |-> reading(s)]
  IN [Idle EXCEPT !.at = "finished", !.snapshots = d.snapshots, !.read = read, !.stamp = 1,
                  !.rows = [s \in analysed |-> AnalysisRows(read[s], s, First)]]

RankedRows(r, s) ==
  LET ratings == OfTable(runs[r].rows[s], "ratings")
  IN (runs[r].rows[s] \ ratings) \union Ranked(ratings)

Init ==
  \E scenario \in Scenarios :
    LET before == IF scenario.analysed THEN {First} ELSE {}
    IN /\ facts = scenario.facts /\ events = scenario.events
       /\ runs = [r \in before \union scenario.runs |-> IF r = First THEN InitialRun(facts) ELSE Idle]
       /\ stored = UNION {Definitions(r) \union UNION {RankedRows(r, s) : s \in DOMAIN runs[r].rows} : r \in before}

\* start_run and the definitions; the run's own row is seen by nobody before it commits.
Begin(r) ==
  /\ runs[r].at = "idle"
  /\ runs' = [q \in DOMAIN runs |->
       IF q = r
       THEN [Idle EXCEPT !.at = "season", !.todo = SeasonOrder, !.snapshots = Db.snapshots, !.beside = Others(r),
                         !.pending = {x \in Definitions(r) : \A y \in stored : ~SameKey(x, y)}]
       ELSE IF Open(q) THEN [runs[q] EXCEPT !.beside = @ \union {r}] ELSE runs[q]]
  /\ UNCHANGED <<facts, events, stored>>

ReadAppearances(r) ==
  /\ runs[r].at = "season" /\ runs[r].todo # <<>>
  /\ LET apps == {a \in Db.appearances : a.season = Season(r)}
         reading(f) == [primary |-> f, minutes |-> TotalMinutes(apps), end |-> Db.ends[Season(r)]]
     IN IF apps = {} THEN Step(r, [runs[r] EXCEPT !.todo = Tail(@)])
        ELSE \E f \in PrimaryChoices(apps) :
               Step(r, [runs[r] EXCEPT !.at = "ids", !.read = With(@, Season(r), reading(f))])

\* _clear_season: the audits of the ratings it finds, then the tables one by one.
ReadRatingIds(r) ==
  /\ runs[r].at = "ids"
  /\ LET ids == OfTable(InSeason(Visible(r), Season(r)), "ratings")
         audits == OfTable(Visible(r), "audits") \intersect {Row("audits", x.season, x.player, x.key, x.run, 0, "") : x \in ids}
     IN Step(r, [runs[r] EXCEPT !.at = "clear", !.clear = CLEARED, !.targets = audits,
                                !.found = IF audits = {} THEN @ ELSE @ \union {Season(r)}])

Held(r, rows) == \E q \in Others(r) : runs[q].deleted \intersect rows # {}
Cascaded(rows) ==
  {y \in OfTable(stored, "audits") : \E x \in OfTable(rows, "ratings") : SameKey(y, [x EXCEPT !.table = "audits"]) /\ y.run = x.run}

Taking(r, rows) ==
  LET taken == rows \intersect stored
  IN [runs[r] EXCEPT !.targets = {}, !.deleted = @ \union taken \union Cascaded(taken)]

\* A DELETE takes the rows it saw when it started, once no other transaction holds them.
FinishDelete(r) ==
  /\ runs[r].at = "clear" /\ runs[r].targets # {} /\ ~Held(r, runs[r].targets)
  /\ Step(r, Taking(r, runs[r].targets))

StartDelete(r) ==
  /\ runs[r].at = "clear" /\ runs[r].targets = {} /\ runs[r].clear # <<>>
  /\ LET rows == OfTable(InSeason(Visible(r), Season(r)), Head(runs[r].clear))
         rest == Tail(runs[r].clear)
     IN IF Held(r, rows) THEN Step(r, [runs[r] EXCEPT !.clear = rest, !.targets = rows])
        ELSE Step(r, [Taking(r, rows) EXCEPT !.clear = rest])

\* The objects the last season has left in the session keep what was read then.
Kept(r, what, now) ==
  LET before == {s \in DOMAIN runs[r].read : s # Season(r)}
      last == CHOOSE s \in before : TRUE
  IN IF before = {} THEN now
     ELSE [k \in DOMAIN now |-> Or(Lookup(runs[r].read[last][what], {k}), now[k])]

ReadPlayers(r) ==
  /\ runs[r].at = "clear" /\ runs[r].targets = {} /\ runs[r].clear = <<>>
  /\ LET players == Kept(r, "players", [p \in DOMAIN Reading(r).primary |-> Db.players[p]])
     IN Step(r, [runs[r] EXCEPT !.at = "raw", !.read[Season(r)] = Overlaid([players |-> players], @)])

ReadRaw(r) ==
  /\ runs[r].at = "raw"
  /\ LET rows == {m \in Db.metrics : m.season = Season(r)}
     IN \E raw \in RawChoices(rows, DOMAIN Reading(r).primary) : \E registry \in RegistryChoices(raw) :
          Step(r, [runs[r] EXCEPT !.at = "world", !.read[Season(r)] =
            Overlaid([raw |-> raw, registry |-> registry, covered |-> \E m \in rows : m.provider = "statsbomb"], @)])

\* The competitions and the teams, and with them all that the analysis takes.
Analyse(r) ==
  /\ runs[r].at = "world"
  /\ LET world == [competitions |-> Kept(r, "competitions", Db.competitions), teams |-> Kept(r, "teams", Db.teams)]
         read == Overlaid(world, Reading(r))
     IN Step(r, [runs[r] EXCEPT !.at = "rate", !.read[Season(r)] = read,
                                !.rows = With(@, Season(r), AnalysisRows(read, Season(r), r))])

\* The first rating flushes all there is; a season that rates nobody flushes nothing.
SCORED == {"metrics", "context", "ratings", "audits"}
FlushRatings(r) ==
  /\ runs[r].at = "rate"
  /\ LET rows == OfTables(runs[r].rows[Season(r)], SCORED)
         new == runs[r].pending \union rows
     IN \/ /\ OfTable(rows, "ratings") = {}
           /\ Step(r, [runs[r] EXCEPT !.at = "rank", !.pending = new])
        \/ /\ OfTable(rows, "ratings") # {} /\ ~Waits(r, new) /\ ~Clashes(r, new)
           /\ Step(r, [Flushed(r, new) EXCEPT !.at = "rank"])
        \/ OfTable(rows, "ratings") # {} /\ Clashes(r, new) /\ Abort(r)

\* _assign_ranks ranks every rating of the season it sees.
AssignRanks(r) ==
  /\ runs[r].at = "rank"
  /\ LET seen == OfTable(InSeason(Visible(r), Season(r)), "ratings")
         own == seen \intersect runs[r].inserted
         ranked == Ranked(seen)
         derived == {x \in runs[r].rows[Season(r)] : x.table \notin SCORED}
     IN Step(r, [runs[r] EXCEPT !.at = "season", !.todo = Tail(@),
          !.inserted = (@ \ own) \union {x \in ranked : x.run = r},
          !.pending = @ \union derived \union {x \in ranked \ stored : x.run # r}])

Stamp == 1 + Cardinality({q \in DOMAIN runs : Finished(q)})

Commit(r) ==
  /\ runs[r].at = "season" /\ runs[r].todo = <<>>
  /\ LET new == runs[r].pending
         done == Flushed(r, new)
     IN \/ /\ ~Waits(r, new) /\ ~Clashes(r, new)
           /\ stored' = (stored \ done.deleted) \union done.inserted
           /\ runs' = [runs EXCEPT ![r] = [done EXCEPT !.at = "finished", !.stamp = Stamp, !.inserted = {}, !.deleted = {}]]
           /\ UNCHANGED <<facts, events>>
        \/ Clashes(r, new) /\ Abort(r)

\* The process ends, or the connection does.
Crash(r) == Open(r) /\ Abort(r)

Ingest ==
  /\ events > 0 /\ events' = events - 1
  /\ facts' \in Successors[facts]
  /\ UNCHANGED <<stored, runs>>

Next ==
  \/ \E r \in DOMAIN runs :
       \/ Begin(r) \/ ReadAppearances(r) \/ ReadRatingIds(r) \/ FinishDelete(r) \/ StartDelete(r) \/ ReadPlayers(r)
       \/ ReadRaw(r) \/ Analyse(r) \/ FlushRatings(r) \/ AssignRanks(r) \/ Commit(r) \/ Crash(r)
  \/ Ingest

Spec == Init /\ [][Next]_vars
(***************************************************************************)
(* What a recompute promises.                                              *)
(***************************************************************************)
Analysed(r, s) == Finished(r) /\ s \in DOMAIN runs[r].read
Latest(r, s) == Analysed(r, s) /\ \A q \in DOMAIN runs : Analysed(q, s) => runs[q].stamp =< runs[r].stamp

RatedKeys(r, s) == {[player |-> x.player, key |-> x.key] : x \in OfTable(runs[r].rows[s], "ratings")}

\* Both found audits to delete, and nobody else analysed the season beside either: one of
\* them waited for the other to end before it read which ratings to delete.
Locked(r, q, s) ==
  /\ s \in runs[r].found \intersect runs[q].found
  /\ \A p \in (runs[r].beside \union runs[q].beside) \ {r, q} : ~Analysed(p, s)

\* Two analyses of a season that overlapped and rate nobody in one role: no unique key
\* of the season's ratings made one of them wait for the other.
Raced(r, s) ==
  \E q \in runs[r].beside :
    Analysed(q, s) /\ RatedKeys(q, s) \intersect RatedKeys(r, s) = {} /\ ~Locked(r, q, s)

(* Whatever overlapped, failed or was published in between, the eight tables hold    *)
(* for a season exactly the rows and ranks of the last run that finished it: none of *)
(* an older run, none missing, none of a run that rolled back.                       *)
AnalysisIsOfOneRun ==
  \A s \in SEASONS : \A r \in DOMAIN runs :
    Latest(r, s) /\ ~Raced(r, s) => InSeason(stored, s) = RankedRows(r, s)

AtLeastAsGood(read, p, q) ==
  /\ DOMAIN read.registry[p] = DOMAIN read.registry[q]
  /\ \A m \in DOMAIN read.registry[p] :
       IF m \in HigherBetter THEN read.registry[p][m] >= read.registry[q][m]
       ELSE read.registry[p][m] =< read.registry[q][m]

\* All that the score takes from a player's surroundings.
SameSurroundings(read, p, q) ==
  ContextOf(read, p) = ContextOf(read, q) /\ PerformanceMinutes(read, p) = PerformanceMinutes(read, q)

(* Of two players of a role in the same surroundings, one who is at least as good in *)
(* every metric, in that metric's own direction, is never scored below; nor ranked   *)
(* below, in a season whose last run ranked it alone.                                *)
BetterNeverRanksBelow ==
  \A x, y \in OfTable(stored, "ratings") :
    /\ x.run = y.run /\ x.season = y.season /\ x.key = y.key /\ x.player # y.player
    /\ LET read == runs[x.run].read[x.season]
       IN AtLeastAsGood(read, x.player, y.player) /\ SameSurroundings(read, x.player, y.player)
    => /\ x.value >= y.value
       /\ Latest(x.run, x.season) /\ ~Raced(x.run, x.season) =>
            x.rank < y.rank \/ (x.value = y.value /\ y.player < x.player)

MoreEvidence(read, p, q) ==
  /\ DOMAIN read.registry[q] \subseteq DOMAIN read.registry[p]
  /\ PerformanceMinutes(read, q) =< PerformanceMinutes(read, p)
  /\ ContextOf(read, p).penalty =< ContextOf(read, q).penalty

Sure(level) == ConfidenceOrder[level]

(* Of two players of a role, one with all the metrics of the other, at least the      *)
(* minutes and no weaker a league or club is never trusted less; one with none of the *)
(* metrics a role requires, when it requires any, is unknown, and one with few        *)
(* minutes never better than low; no strength is claimed of a metric not there.       *)
EvidenceDecidesTrust ==
  LET of(x) == runs[x.run].read[x.season]
      present(x) == DOMAIN of(x).registry[x.player]
  IN /\ \A x, y \in OfTable(stored, "ratings") :
          /\ x.run = y.run /\ x.season = y.season /\ x.key = y.key
          /\ MoreEvidence(of(x), x.player, y.player)
          => Sure(y.trust) =< Sure(x.trust)
     /\ \A x \in OfTable(stored, "ratings") :
          /\ RoleConfigs[x.key].required # {} /\ RoleConfigs[x.key].required \intersect present(x) = {} => x.trust = "unknown"
          /\ PerformanceMinutes(of(x), x.player) < RoleConfigs[x.key].minMinutes => Sure(x.trust) =< Sure("low")
     /\ \A x \in OfTable(stored, "playstyles") : \A b \in Positives : x.key = b.key => b.required \subseteq present(x)
=============================================================================
