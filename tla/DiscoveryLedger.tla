--------------------------- MODULE DiscoveryLedger ---------------------------
(***************************************************************************)
(* Discovery end to end: the address the filter rail and the ledger are    *)
(* both derived from, the query cache between them and the API, the        *)
(* statements one request is made of, and the publications (an ingestion   *)
(* or a recompute that commits) that fall between those statements         *)
(* (web/src/components/search, web/src/lib/api/hooks.ts and                *)
(* api/app/services/players_service.py).                                   *)
(*                                                                         *)
(* A request runs in a READ COMMITTED transaction: each statement sees     *)
(* what is published when it starts.                                       *)
(***************************************************************************)
EXTENDS SavedWorkContent, PlayerComparison, Lists

CONSTANTS Databases,     \* the databases that may be published, by name
          Links,         \* the addresses a visit may start from, each with the number
                         \* of events it is followed for
          SavedViews,    \* canonical views a scout may open
          Patches        \* the filter changes the rail offers

\* The numbers of an address, of a view and of a change of the rail are numbers, and
\* their texts lists of words.
NumbersIn(params) == \A f \in DOMAIN params : "num" \in DOMAIN params[f] => params[f].num \in Int
TextsIn(params) == \A f \in DOMAIN params : "txt" \in DOMAIN params[f] => IsList(params[f].txt)
Numbered(k) == \A f \in NumberFields \union {"page"} : Field(k, f) \subseteq Int
Worded(k) == \A f \in TextFields : \A text \in Field(k, f) : IsList(text)
ASSUME AddressesAssumption ==
  /\ DEFAULT_PAGE_SIZE \in Nat
  /\ \A link \in Links : NumbersIn(link.params) /\ TextsIn(link.params)
  /\ \A view \in SavedViews : Numbered(view) /\ Worded(view)
  /\ \A patch \in Patches : \A f \in DOMAIN patch :
       /\ f \in NumberFields => patch[f] \subseteq Int
       /\ f \in TextFields => \A text \in patch[f] : IsList(text)

\* What the rail offers the API knows: its positions, the roles of the configuration, the
\* sorts; and its keys have the shape of one, a playstyle's unless it is too long.
ASSUME RailAssumption ==
  /\ PositionGroups \subseteq DISCOVERABLE_POSITION_GROUPS /\ Roles \subseteq Range(RoleKeys)
  /\ SortOptions \subseteq SEARCH_SORTS
  /\ Roles \union SortOptions \union (Slugs \ LongWords) \subseteq Keys
  /\ DEFAULT_PAGE_SIZE \in 1 .. PAGE_SIZE_CEILING /\ TextFilterMax \in Nat

\* What the columns hold: one birth date, position or group, or none; ids that identify;
\* roles of the configuration; at most one season flagged as the current one.
Recorded(d) ==
  /\ IsFiniteSet(d.appearances) /\ \A a \in d.appearances : a.player \in Int \intersect DOMAIN d.players
  /\ \A a \in d.appearances : a.id \in Int /\ a.minutes \subseteq Int /\ \A g, h \in a.group : g = h
  /\ \A a, b \in d.appearances : a.id = b.id => a = b
  /\ \A p \in DOMAIN d.players :
       /\ d.players[p].nameRank \in Int /\ d.players[p].birth \subseteq 1 .. LastDay
       /\ \A a, b \in d.players[p].birth : a = b
       /\ \A x, y \in d.players[p].position : x = y
  /\ \A r \in d.ratings : r.id \in Int /\ r.score \in Int /\ r.role \in Range(RoleKeys) /\ r.confidence \in DOMAIN CONFIDENCE_RANK
  /\ \A r, o \in d.ratings : r.id = o.id => r = o
  /\ \A m \in d.markets : m.low \subseteq Int
  /\ \A s \in d.seasons : s.id \in Int /\ s.end \subseteq Int /\ \A a, b \in s.end : a = b
  /\ \A s, t \in d.seasons : s.id = t.id \/ (s.current /\ t.current) => s = t

\* Nobody in a season is 999 years old, or born a year after it ends.
Aged(d, e) ==
  \A s \in d.seasons, p \in DOMAIN e.players : AgeFor(e.players[p].birth, s.end) \subseteq UNKNOWN_AGE_DESC + 1 .. UNKNOWN_AGE_ASC - 1

ASSUME DatabasesAssumption ==
  /\ LastDay \in Nat /\ IsList(RoleKeys)
  /\ \A d, e \in DOMAIN Databases : Recorded(Databases[d]) /\ Aged(Databases[d], Databases[e])

VARIABLES published,     \* the name of the published database
          publications,  \* how many publications there have been
          url,           \* the parameters of the address
          cache,         \* request -> [data, failed]
          calls,         \* the requests in flight, at most one for each key
          events         \* the clicks, publications, losses and repeated requests left

db == Databases[published]

vars == <<published, publications, url, cache, calls, events>>

(***************************************************************************)
(* The address.                                                            *)
(***************************************************************************)
ScopeFromParams(params) ==
  LET offered == KeyOf(Field(params, "scope"), SEARCH_SCOPE_KEYS)
  IN IF offered = {} THEN DEFAULT_SEARCH_SCOPE ELSE Value(offered)

View(params) == DiscoveryViewFromParams(params)

DefaultFilters == [scope |-> DEFAULT_SEARCH_SCOPE, sort |-> DEFAULT_SORT,
                   page |-> DEFAULT_PAGE, page_size |-> DEFAULT_PAGE_SIZE]

\* The request an address means; it is also the key of the query cache.
Filters(params) ==
  Overlaid([scope |-> ScopeFromParams(params), page |-> Or(ParsePage(Field(params, "page")), DEFAULT_PAGE)],
           Overlaid(View(params), DefaultFilters))

SetFilters(next) ==
  Overlaid(DiscoveryViewToParams(DiscoveryViewFromFilters(next)),
    Overlaid([f \in (IF next.page # DEFAULT_PAGE THEN {"page"} ELSE {}) |-> [num |-> 10 * next.page]],
             [f \in (IF next.scope # DEFAULT_SEARCH_SCOPE THEN {"scope"} ELSE {}) |-> [txt |-> <<next.scope>>]]))

Key == Filters(url)

(***************************************************************************)
(* The query cache.                                                        *)
(***************************************************************************)
NoEntry == [data |-> {}, failed |-> FALSE]
Entry(k) == IF k \in DOMAIN cache THEN cache[k] ELSE NoEntry
Fetching(k) == \E c \in calls : c.key = k

Call(k, attempt) ==
  [key |-> k, attempt |-> attempt, at |-> "sent", filters |-> {}, total |-> 0, rows |-> <<>>,
   response |-> {}, asOf |-> {}]

\* The ledger is on screen when there are rows to show and no error.
LedgerShown == LET e == Entry(Key) IN ~e.failed /\ \E r \in e.data : r.items # <<>>

(***************************************************************************)
(* The request the API receives.                                           *)
(***************************************************************************)
Hundredths(years) == {100 * y : y \in years}

Query(k) ==
  [f \in DISCOVERY_VIEW_FIELDS \union {"universe", "age_band", "scope"} |->
     CASE f \in {"age_min", "age_max"} -> Hundredths(Field(k, f))
       [] f = "scope" -> {k.scope}
       [] OTHER -> Field(k, f)]

\* The ranges the route declares for its parameters.
WithinLimits(k) ==
  /\ \A n \in Field(k, "min_minutes") : n \in 0 .. MINUTES_MAX
  /\ \A n \in Field(k, "rolefit_min") \union Field(k, "rolefit_max") : n \in 0 .. ROLEFIT_MAX
  /\ \A n \in Field(k, "value_min") \union Field(k, "value_max") : n >= 0
  /\ k.page >= 1 /\ k.page_size \in 1 .. PAGE_SIZE_CEILING

Accepted(k) ==
  /\ WithinLimits(k)
  /\ k.sort \in SEARCH_SORTS
  /\ Field(k, "position_group") \subseteq {"ATT", "MID", "DEF", "GK"}
  /\ Field(k, "role") \subseteq Range(RoleKeys)
  /\ \A least \in Field(k, "value_min"), most \in Field(k, "value_max") : least =< most

TotalPages(c) == CeilDiv(c.total, c.key.page_size)
ServedPage(c) == EffectivePage(c.key.page, TotalPages(c))

Ranking(k) == Explanation(k.sort, Field(k, "role"))

EmptyResponse(k, asOf) ==
  [items |-> <<>>, total |-> 0, page |-> 1, total_pages |-> 0, ranking |-> Ranking(k), asOf |-> asOf]

Response(c, badgesOf(_)) ==
  LET f == The(c.filters)
  IN [items |-> [i \in DOMAIN c.rows |-> CardFromRow(c.rows[i], badgesOf(c.rows[i].player), f)],
      total |-> c.total, page |-> ServedPage(c), total_pages |-> TotalPages(c),
      ranking |-> Ranking(c.key), asOf |-> c.asOf]

(***************************************************************************)
(* Actions of the server.                                                  *)
(***************************************************************************)
Init ==
  /\ published \in DOMAIN Databases /\ publications = 0
  /\ \E link \in Links : url = link.params /\ events = link.events
  /\ cache = [k \in {} |-> NoEntry] /\ calls = {}

Event == events > 0 /\ events' = events - 1
Move(c, d) == calls' = (calls \ {c}) \union {d}
ServerStep == UNCHANGED <<published, publications, url, cache, events>>

ReadSeason(c) ==
  LET season == GetCurrentSeason(db)
  IN /\ c.at = "sent"
     /\ Move(c, IF ~Accepted(c.key) THEN [c EXCEPT !.at = "refused"]
                ELSE IF season = {} THEN [c EXCEPT !.at = "done", !.response = {EmptyResponse(c.key, {publications})}]
                ELSE [c EXCEPT !.at = "count", !.filters = {Resolved(Query(c.key), The(season))},
                                   !.asOf = {publications}])
     /\ ServerStep

CountMatches(c) ==
  /\ c.at = "count"
  /\ Move(c, [c EXCEPT !.at = "page", !.total = CountPlayers(db, The(c.filters)),
                       !.asOf = @ \union {publications}])
  /\ ServerStep

FetchRows(c) ==
  LET offset == Offset(ServedPage(c), c.key.page_size)
      seen == [c EXCEPT !.at = "badges", !.asOf = @ \union {publications}]
  IN /\ c.at = "page"
     /\ IF TotalPages(c) = 0 THEN Move(c, seen)
        ELSE \E rows \in FetchPage(db, The(c.filters), c.key.sort, c.key.page_size, offset) :
               Move(c, [seen EXCEPT !.rows = rows])
     /\ ServerStep

FetchBadges(c) ==
  LET badgesOf(p) == Of(db.badges, p, The(c.filters).season)
  IN /\ c.at = "badges"
     /\ Move(c, [c EXCEPT !.at = "done", !.response = {Response(c, badgesOf)}])
     /\ ServerStep

\* An ingestion or a recompute commits, or a player is deleted; a season never is.
Publish ==
  /\ Event
  /\ publications' = publications + 1
  /\ published' \in {d \in DOMAIN Databases : Databases[d].seasons # {}} \ {published}
  /\ UNCHANGED <<url, cache, calls>>

(***************************************************************************)
(* Actions of the browser.                                                 *)
(***************************************************************************)
Stored(k, entry) == [x \in DOMAIN cache \union {k} |-> IF x = k THEN entry ELSE cache[x]]

\* A key without an answer is asked for as soon as it is on screen.
Ask ==
  LET k == Key
  IN /\ Entry(k) = NoEntry /\ ~Fetching(k)
     /\ calls' = calls \union {Call(k, 1)}
     /\ UNCHANGED <<published, publications, url, cache, events>>

\* An answer that has failed, or gone stale meanwhile, is asked for again when it comes
\* on screen or the network comes back; what it holds stays on screen.
AskAgain ==
  LET k == Key
      e == Entry(k)
  IN /\ Event
     /\ e # NoEntry /\ ~Fetching(k)
     /\ calls' = calls \union {Call(k, 1)}
     /\ cache' = Stored(k, [e EXCEPT !.failed = e.failed /\ e.data # {}])
     /\ UNCHANGED <<published, publications, url>>

Answered(c) ==
  /\ c.at = "done"
  /\ cache' = Stored(c.key, [data |-> c.response, failed |-> FALSE])
  /\ calls' = calls \ {c}
  /\ UNCHANGED <<published, publications, url, events>>

\* One retry, then the error is kept beside what the key already held.
Failed(c) ==
  IF c.attempt = 1
  THEN Move(c, Call(c.key, 2)) /\ UNCHANGED cache
  ELSE /\ calls' = calls \ {c}
       /\ cache' = Stored(c.key, [Entry(c.key) EXCEPT !.failed = TRUE])

\* A request or a response is lost, or the API refuses the request.
Lost(c) ==
  /\ c.at = "refused" \/ events > 0
  /\ events' = IF c.at = "refused" THEN events ELSE events - 1
  /\ Failed(c)
  /\ UNCHANGED <<published, publications, url>>

\* A mutant: the answer is stored under the page that was asked for.
RequestedKey(k, page) == k
CanonicalKey(k, page) == [k EXCEPT !.page = page]

\* The answer is for another page than was asked for: it is stored under the page
\* it is for, and the address follows it.
SyncCanonicalPage ==
  LET k == Key
  IN \E served \in Entry(k).data :
       /\ served.page # k.page
       /\ cache' = Stored(CanonicalKey(k, served.page), [data |-> {served}, failed |-> FALSE])
       /\ url' = SetFilters([k EXCEPT !.page = served.page])
       /\ UNCHANGED <<published, publications, calls, events>>

Navigate(next) ==
  /\ Event
  /\ url' = next /\ url' # url
  /\ UNCHANGED <<published, publications, cache, calls>>

\* A change of a control: its fields replace those of the request, on page 1.
ChangeFilter == \E patch \in Patches :
  Navigate(SetFilters(Patched(Key, With(patch, "page", {1}))))

RemoveCriterion == \E c \in ActiveCriteria(Key) :
  Navigate(SetFilters(Patched(Key, With(RemovalPatch(c), "page", {1}))))

ClearAll == Navigate(SetFilters(DefaultFilters))

TurnPage ==
  /\ events > 0 /\ LedgerShown
  /\ LET k == Key
     IN \E shown \in Entry(k).data, step \in {-1, 1} :
          /\ shown.page + step \in 1 .. shown.total_pages
          /\ Navigate(SetFilters([k EXCEPT !.page = shown.page + step]))

OpenView == \E v \in SavedViews : Navigate(DiscoveryViewToParams(v))

Server == \E c \in calls : ReadSeason(c) \/ CountMatches(c) \/ FetchRows(c) \/ FetchBadges(c)
Network == \E c \in calls : Answered(c)

Next ==
  \/ Publish \/ Server \/ Network \/ (\E c \in calls : Lost(c))
  \/ Ask \/ AskAgain \/ SyncCanonicalPage
  \/ ChangeFilter \/ RemoveCriterion \/ ClearAll \/ TurnPage \/ OpenView

Spec == Init /\ [][Next]_vars

(***************************************************************************)
(* Properties.                                                             *)
(***************************************************************************)
\* What a card shows, read against the request it answers.
CardMeets(card, k) ==
  /\ \A role \in Field(k, "role") : card.resultRole = {role}
  /\ k.scope = "analyzed" => card.bestRole # {}
  /\ k.scope = "high_coverage_u23" => card.evidence = "high_coverage"
  /\ Field(k, "position_group") \subseteq card.group
  /\ \A y \in Field(k, "age_min") : \E a \in card.age : a >= 10 * y
  /\ \A y \in Field(k, "age_max") : \E a \in card.age : a =< 10 * y
  /\ \A n \in Field(k, "min_minutes") : card.minutes >= n
  /\ \A n \in Field(k, "rolefit_min") : \E s \in card.resultScore : s >= n
  /\ \A n \in Field(k, "rolefit_max") : \E s \in card.resultScore : s =< n
  /\ \A n \in Field(k, "value_min") : \E high \in card.high : high >= n
  /\ \A n \in Field(k, "value_max") : \E low \in card.low : low =< n

\* What a card shows of a key of the explanation: nothing when the value is unknown.
ShownFor(card, key) ==
  CASE key.unit \in {"rolefit_score", "rating_status"} -> card.resultScore
    [] key.unit = "confidence" -> {CONFIDENCE_RANK[card.confidence]}
    [] key.unit = "age_years" -> card.age
    [] key.unit \in {"eur", "price_status"} -> card.low
    [] key.unit = "name" -> {card.nameRank}
    [] key.unit = "player_id" -> {card.id}

Before(key, a, b) ==
  LET x == ShownFor(a, key)
      y == ShownFor(b, key)
      known == x # {} /\ y # {}
  IN \/ x # {} /\ y = {}
     \/ /\ known /\ key.role # "placement"
        /\ IF key.direction = "ascending" THEN The(x) < The(y) ELSE The(x) > The(y)

\* By the keys of the explanation alone, read off the two cards, a comes before b.
ExplainedBefore(a, b, keys) ==
  \E i \in DOMAIN keys : Before(keys[i], a, b) /\ \A j \in 1 .. i - 1 : ~Before(keys[j], b, a)

\* The explanation and the cards tell the same of the role the page is judged by.
RoleContextHolds(context, items) ==
  \A i \in DOMAIN items :
    /\ context.source = "selected_role" => items[i].resultRole = context.role
    /\ context.source = "best_role" => /\ items[i].resultRole = items[i].bestRole
                                       /\ items[i].resultScore = items[i].bestScore

\* Every card of every answer meets the criteria of its request by the values the card
\* itself shows (the rounded age, the result role and its score, the stored price ends),
\* no page is longer than asked for, and the cards come in exactly the order the
\* explanation beside them states: by its keys in turn, known values first, each key
\* read off the cards, and never two cards it leaves undecided
\* (discovery_repo.py:605-633, players_service.py:144-149, discovery_explanation.py:1-22).
CardsMeetTheRequest ==
  \A k \in DOMAIN cache : \A r \in cache[k].data :
    /\ Len(r.items) =< k.page_size
    /\ \A i \in DOMAIN r.items : CardMeets(r.items[i], k)
    /\ \A i, j \in DOMAIN r.items : i < j => ExplainedBefore(r.items[i], r.items[j], r.ranking.keys)
    /\ RoleContextHolds(r.ranking.roleContext, r.items)

\* The cached pages of one request that nothing was published between.
Pages(k) == {r \in UNION {cache[x].data : x \in {y \in DOMAIN cache : [y EXCEPT !.page = k.page] = k}} :
               r.asOf = {publications}}

NarrowsByText(k) == DOMAIN k \intersect {"q", "league", "club", "nationality", "playstyle"} # {}

\* The card of a player, whatever the request narrows by.
CardOf(p, k) ==
  LET season == The(GetCurrentSeason(db))
      f == [season |-> season.id, seasonEnd |-> season.end, role |-> Field(k, "role")]
  IN CardFromRow(Candidate(db, f, p), {}, f)

WithAppearance == {a.player : a \in {b \in db.appearances : {b.season} = {s.id : s \in GetCurrentSeason(db)}}}

\* When every page of a result has been read with no publication in between, each
\* player whose card meets the request is on exactly one of them, and nobody else is:
\* the order is total (player_id last), the window of birth dates agrees with the
\* displayed ages, and the pages neither overlap nor leave a gap.
WalkIsComplete ==
  \A k \in {x \in DOMAIN cache : x.page = 1} :
    LET pages == Pages(k)
        totals == {r.total : r \in pages}
        cards == UNION {{<<r.page, i>> : i \in DOMAIN r.items} : r \in pages}
        ids == UNION {{r.items[i].id : i \in DOMAIN r.items} : r \in pages}
    IN pages # {} /\ {{1} \union 1 .. r.total_pages : r \in pages} = {{r.page : r \in pages}} =>
         /\ totals = {Cardinality(cards)} /\ totals = {Cardinality(ids)}
         /\ ~NarrowsByText(k) => ids = {p \in WithAppearance : CardMeets(CardOf(p, k), k)}

\* The answers of the other two routes, of every player.
Dossiers == [d \in DOMAIN Databases |->
               [p \in DOMAIN Databases[d].players |-> BuildPlayerCard(Databases[d], p)]]
Similars == [d \in DOMAIN Databases |->
               [p \in DOMAIN Databases[d].players |-> FindSimilar(Databases[d], p)]]

\* The answers of the comparison, for every two players with no role named or any.
Asked == {{}} \union {{role} : role \in Range(RoleKeys)}
Ever == UNION {DOMAIN Databases[d].players : d \in DOMAIN Databases}
Comparisons ==
  [d \in DOMAIN Databases |->
     [c \in Ever \X Ever \X Asked |-> ComparePlayers(Databases[d], c[1], c[2], c[3])]]

\* The appearance that represents a player is not a matter of the order of rows.
OnePrimary(p, season) == Cardinality(PrimaryAppearances(db, p, season)) =< 1

SameAnalysis(shown, card) ==
  shown.age = card.age /\ shown.bestRole = card.bestRole /\ shown.bestScore = card.bestScore

DossierMatches(dossier, card, season) ==
  /\ SameAnalysis(dossier, card) /\ dossier.evidence = card.evidence
  /\ card.playstyles \subseteq dossier.playstyles
  /\ OnePrimary(card.id, season) => dossier.club = card.club /\ dossier.group \subseteq card.group
  /\ Cardinality(MarketsForPlayer(db, card.id, season)) =< 1 => dossier.low = card.low /\ dossier.high = card.high

SimilarMatches(similar, card, season) ==
  /\ card.id \in DOMAIN similar.rows => SameAnalysis(similar.rows[card.id], card)
  /\ \A g \in DOMAIN similar.groups : \A i, j \in DOMAIN similar.groups[g] :
       LET q == similar.groups[g][i] IN
         /\ q # card.id /\ (q = similar.groups[g][j] => i = j)
         /\ OnePrimary(card.id, season) => similar.rows[q].group = card.group
         /\ g = "upside" => \A s \in card.bestScore : \E better \in similar.rows[q].bestScore : better > s

Swapped(side) == IF side = "first" THEN "second" ELSE IF side = "second" THEN "first" ELSE side

\* The same comparison told from the other side.
MirrorOf(c) ==
  [c EXCEPT !.cautions = {3 - side : side \in @},
            !.comparison = {[x EXCEPT !.scores = <<@[2], @[1]>>, !.confidences = <<@[2], @[1]>>,
                                      !.higher = Swapped(@)] : x \in @}]

\* Two cards of one answer, the first before the second.
ComparisonMatches(first, second, k) ==
  /\ \A asked \in Asked :
       Comparisons[published][second.id, first.id, asked]
         = {MirrorOf(c) : c \in Comparisons[published][first.id, second.id, asked]}
  /\ \A c \in Comparisons[published][first.id, second.id, {}] :
       /\ c.role # {} <=> c.outcome = "compared"
       /\ c.role # {} /\ first.bestRole = second.bestRole =>
            \A x \in c.comparison : {x.scores[1]} = first.bestScore /\ {x.scores[2]} = second.bestScore
  /\ \A role \in Field(k, "role") : \A c \in Comparisons[published][first.id, second.id, {role}] :
       \A x \in c.comparison :
         /\ {x.scores[1]} = first.resultScore /\ {x.scores[2]} = second.resultScore
         /\ k.sort = "rolefit_desc" => x.higher # "second"

\* Two cards saved as a comparison: the setup is accepted with the sides in their order,
\* and after any publication it opens exactly while both sides are shown as available.
SetupOpens(first, second, role) ==
  LET named(p) == db.players[p].name
      body == [label |-> <<"setup">>, ids |-> <<first.id, second.id>>,
               labels |-> <<named(first.id), named(second.id)>>, role |-> role]
      opens(d, setup) == Comparisons[d][first.id, second.id, setup.role] # {}
  IN /\ ValidComparison(body) # {}
     /\ \A setup \in ValidComparison(body) :
          /\ ValidateComparison(db, setup) = {}
          /\ ComparisonFingerprint(setup) = [a |-> first.id, b |-> second.id, role |-> role]
          /\ \A d \in {x \in DOMAIN Databases : Databases[x].seasons # {}} :
               LET sides == ComparisonRecord(Databases[d], setup).sides
               IN (\A i \in 1 .. 2 : sides[i].available) <=> opens(d, setup)

\* A card of the ledger, the dossier of its player and the groups of players similar to
\* him agree, though each picks its rows by code of its own: the best role and its score
\* however ratings tie, the age, the evidence, the badges; the club and the group unless
\* two appearances have the same minutes, the price unless the season has two
\* (discovery_repo.py:363-433, players_repo.py:50, _common.py:124). A similar player is
\* another of the group on the card, and "higher upside" is higher than the card's score.
\* Two cards compared tell the same whichever is put first; the role the server chooses
\* for them is one both are rated in, and shows both at their best when that is one role;
\* in the role of the request they have the scores of the ledger, and its order
\* (compare_service.py:32-75); saved as a setup they open as long as both players exist
\* (saved_work_service.py:222-231, 506-531).
DossierAgrees ==
  \A k \in DOMAIN cache : \A r \in cache[k].data : r.asOf = {publications} =>
    \A season \in GetCurrentSeason(db) : \A i \in DOMAIN r.items :
      LET card == r.items[i] IN
        /\ Dossiers[published][card.id] # {}
        /\ \A d \in Dossiers[published][card.id] : DossierMatches(d, card, season.id)
        /\ \A s \in Similars[published][card.id] : SimilarMatches(s, card, season.id)
        /\ \A j \in i + 1 .. Len(r.items) :
             ComparisonMatches(card, r.items[j], k) /\ SetupOpens(card, r.items[j], Field(k, "role"))

\* The criteria a saved view cannot hold.
Unstorable(view) ==
  {f \in DOMAIN view : \/ f \in TextFields /\ Len(view[f]) > TextFilterMax
                       \/ f \in {"value_min", "value_max"} /\ view[f] > ASKING_MAX
                       \/ f = "playstyle" /\ view[f] \in LongWords}

HasControl(view) ==
  \E f \in DOMAIN view \intersect TextFields : \E i \in DOMAIN view[f] : view[f][i] \in ControlWords

\* What the server makes of a view the browser would save.
ServerKeeps(view) ==
  LET sent == DiscoveryViewToParams(view)
      unknown == IF Field(view, "playstyle") \subseteq KnownPlaystyles THEN {} ELSE {"unknown playstyle"}
  IN /\ ValidFilters(sent) = {} <=> HasControl(view)
     /\ \A kept \in ValidFilters(sent) :
          /\ kept = view /\ ValidateViewFilters(kept) = unknown
          /\ ViewRecord(ViewRow(kept)) = {[filters |-> view, fingerprint |-> ViewFingerprint(kept)]}
          /\ RecoverDiscoveryView(DiscoveryViewToParams(kept)) = [view |-> view, dropped |-> {}]

Canonical(k, view) ==
  LET written == SetFilters(k)
      criteria == ActiveCriteria(view)
  IN /\ View(DiscoveryViewToParams(view)) = view
     /\ RecoverDiscoveryView(DiscoveryViewToParams(view)) =
          [view |-> Restrict(view, DOMAIN view \ Unstorable(view)), dropped |-> Unstorable(view)]
     /\ ServerKeeps(Restrict(view, DOMAIN view \ Unstorable(view)))
     /\ Accepted(k)
     /\ View(written) = view /\ Filters(written) = k
     /\ Cardinality(criteria) = DiscoveryViewCriteriaCount(view)
     /\ \A c \in criteria :
          ActiveCriteria(View(SetFilters(Patched(k, RemovalPatch(c))))) = criteria \ {c}

\* Whatever address is opened or arrived at (looked at while no request is in flight),
\* the view it means is canonical: written to an address and
\* read back it is the same view, written to storage and read back it has lost and
\* reported only the criteria that are too large to be stored, the API accepts its
\* request, and removing one of its criteria removes that one and no other
\* (canonical.ts:169-177, criteria.ts:52-57). The server takes the rest of it as it is,
\* refusing only a text with a control character and a playstyle it does not know, and
\* hands back the same view under the same fingerprint (saved_work.py:43-50, 141-154).
ViewIsCanonical ==
  calls = {} => \A k \in {Key}, view \in {View(url)} : Canonical(k, view)

\* The address follows the page that was served, and nothing else changes in it: the
\* ledger is the answer already held, there is no error and nothing left to rewrite, so
\* it converges at once and no request is made (SearchExperience.tsx:139-151).
AddressFollowsTheAnswer ==
  [][events' = events /\ SyncCanonicalPage => \E r \in Entry(Key).data :
       /\ Key' = [Key EXCEPT !.page = r.page]
       /\ Entry(Key)' = [data |-> {r}, failed |-> FALSE]]_vars
=============================================================================
