# ScoutBoy: specifications, model checking and proofs

ScoutBoy lets a football scout search players, compare them and keep lists. Two
kinds of state are at work. What a scout owns (favourites, saved work, a compare
queue) lives on a device and in an account, shared by browser tabs, sessions and
concurrent API requests. What a scout reads (players, ratings, prices) is published
by ingestions and recomputes, jobs that overlap, fail and die, and is searched while
they commit. These specifications model both, and the pure rules that decide what
is rated, priced, found and shown. Line numbers are of the files under `src/`.

## Inventory

| Component | Code | State | Operations | Hard parts |
|---|---|---|---|---|
| Server favourites | `apps/api/app/services/favorites_service.py`, `api/routes/me.py` 96-192, `core/auth.py` 271-351, `models/orm/accounts.py` | `app_users` and `user_favorites` rows | list, add, remove, merge; find or create the account row | two requests of one person at once; a merge that loses a uniqueness race; deadlocked merges; failures between flush, commit and answer |
| Web favourites | `apps/web/src/lib/state/scouting-state.tsx`, `lib/api/favorites.ts` | device list (state and localStorage), account list with its generation token, write book (intents, revisions, chains) | sign in/out, load or merge, toggle in three modes, retry | late and reordered answers, superseded writes, rollback, cross-account bleed, the only copy of a guest's list |
| Compare queue, guest-only provider | `scouting-state.tsx` 103-335, `components/common/PlayerActions.tsx` | two lists and their copies in localStorage, the tray | toggle, remove, clear, hydrate, store | the storage effect that runs before hydration, eviction at the limit, a tray that leaves |
| Auth session | `lib/auth/session.tsx`, `generation.ts`, `clerk-session.tsx` | provider status, a latched timer | status changes, time-out, recovery | timer racing a late answer |
| Token verification | `core/auth.py` 79-235 | cached key set, expiry, lock | resolve a key | stale cache, stampede |
| Saved work, browser | `lib/state/saved-work.tsx`, `lib/storage/*.ts`, `lib/api/saved-work.ts` | two collections, intents, device envelope | create, rename, remove, load, merge, retry | as favourites, and every caller's promise must resolve |
| Saved work, server | `services/saved_work_service.py`, `routes/me.py` 214- | saved views and comparisons | check, normalize, upsert, rename, delete, merge, project | fingerprint and client-id races, the limit of a collection, a body two programs read |
| Account suggestion | `components/account/AccountSuggestion.tsx`, `lib/auth/suggestion-state.ts`, `lib/motion/presence.ts` | open, seen, suppressed until, presence | save signal, dismiss, close, timers | exit timer racing a new reason to show, the 30-day window |
| Ingestion | `packages/data_pipeline/jobs/ingest.py`, `_common.py`, `quality`, `normalize`, `provenance` | runs, snapshots, canonical tables, quarantine | plan, validate, skip, block, publish, replay, fail | one commit, idempotent skips, two jobs at once, a crash between two commits |
| Performance CSV adapter | `adapters/csv_adapter.py` | none | rows to a bundle and quarantine candidates | which line is wrong, and why |
| Recompute | `jobs/recompute.py` | eight derived tables of each season | clear, read, analyse, flush, rank, commit | one transaction over everything beside others, rows in no order |
| Rating engine | `packages/rating_engine` | none | percentiles, role scores, context, confidence, playstyles | missing data, direction of a metric, ties |
| Market model | `packages/market_model` | none | value, asking price, ranges, label | missing data, rounding |
| Discovery, server | `services/players_service.py`, `services/compare_service.py`, `services/discovery_explanation.py`, `repositories/discovery_repo.py`, `repositories/discovery_sort.py`, `core/search_aliases.py` | none | search, sort, explain, page, card, dossier, similar players, compare | a request of several statements, ages, order with ties, two choices of one row |
| Discovery, browser | `lib/filters/*.ts`, `lib/api/hooks.ts`, `components/search` | the address, the query cache | filter, remove a criterion, page, open a view, rewrite the page | one cohort in three forms, answers for another page |
| Operations reports, evaluation, interface, generated code, adapters, command line | the rest | - | - | - |

The browser calls the private API with a token that names the account; the API
resolves the token to an account row and runs one database transaction or several.
The browser's provider is told of sessions by the auth session and tells the
account suggestion when a guest has saved something. An ingestion publishes what an
adapter delivered; a recompute reads the canonical tables and rebuilds what is
derived from them; discovery reads both, and the browser derives its rail and its
ledger from one address. Nothing a scout owns is touched by publications, except
that deleting a player deletes it from lists.

## What makes each part correct

* Server favourites: a caller sees one list that changes in single steps; nothing
  acknowledged is lost except to a removal; a merge is never answered with a list
  that omits an offered player; what was committed adds up to the list, and a merge's
  report departs from it only by what came between; reads write nothing.
* Web favourites: no list under the wrong account; no late answer applied; the last
  thing asked for is what the account and the screen end up with; a guest's list is
  on the device until an account holds it; nothing says "saving" for ever.
* Device lists, suggestion: what the screen shows, the device holds and the scout
  left there are one thing; an offer opens only for a save it was earned by, once;
  what leaves the rail is gone in the end.
* Saved work: the same as favourites, one row per fingerprint and per client id,
  never more than the limit, each caller answered; a success is in the account.
* Ingestion: a run ends in one state; a run that failed, was blocked or died has
  published nothing; what was rejected is on record, and resolved only by a replay
  that answers it; a skip leaves none of its players out; an ambiguous record is
  linked to nobody.
* Recompute, rating, market: the derived rows of a season are those of one run,
  whole; a player who is better in everything is never scored below, nor ranked below
  by a run that ranks the season alone; less evidence is never trusted more.
* Discovery: every card meets the request it answers; the pages of a walk neither
  overlap nor leave a gap; an address, a saved view and a request that mean the same
  cohort read as the same; the dossier and the ledger tell the same of a player; the
  explanation is the order, and a comparison does not depend on who is put first.

## Modules

| Module | Role |
|---|---|
| `FavoritesContract` | Abstract: one set of players, requests opened, taking effect, answered or refused |
| `FavoritesStore` | Server favourites at statement level; refines `FavoritesContract` |
| `ScoutingState` | Web favourites, one tab, with network and server |
| `SavedWorkRequests` | What a caller of the saved-work API may ask for |
| `SavedWorkContract` | Abstract: one list of entries that changes in single moments |
| `SavedWorkStore` | Server saved work at statement level; refines `SavedWorkContract` |
| `AuthSession` | Who the visitor is taken to be; used by the next two of the browser |
| `DurableCollection` | The envelope of a collection in localStorage and its list operations |
| `SavedWorkWeb` | One saved collection in the browser, with session, network and server |
| `DeviceScouting` | The device's lists, the tray, the account suggestion, the exit timers |
| `IngestBundle` | What an adapter delivers: contract, quality findings, fingerprint, candidates |
| `PerformanceCsv` | The CSV adapter, as a producer of bundles |
| `IdentityResolution` | Which canonical player a source record stands for |
| `CanonicalStore` | The canonical tables, and what publishing a bundle makes of them |
| `IngestRuns` | Jobs, runs, quarantine, replay, overlap and crashes |
| `RoleFit` | The rating engine as operators |
| `MarketModel` | The market model as operators |
| `SeasonAnalysis` | The analysis of one season as a function of what was read |
| `RecomputeRuns` | Recomputes statement by statement, beside others and ingestions |
| `DiscoverySort` | The keys of each sort mode, which order the ledger and explain it |
| `DiscoverySearch` | Which players qualify, in which order, and what a card shows |
| `PlayerDossier` | Dossier and similar players, which choose their rows by other code |
| `PlayerComparison` | Two players side by side |
| `DiscoveryView` | What an address, a saved view and a request mean in the browser |
| `SavedWorkContent` | What the private API lets into a saved view or comparison, and tells of it later |
| `DiscoveryLedger` | Address, cache, requests of four statements, publications in between |
| `Lists` | Filtered lists by a set, as a recursive function a proof can unfold; functions changed at one place |
| `Players` | The players both models of the provider keep lists of |
| `ListFacts` | Lemmas about lists, and induction over the numbers |
| `*_proofs` | TLAPS proofs about `FavoritesStore`, `SavedWorkStore`, `ScoutingState` (with `DeviceScouting`, the same provider without an account), `SavedWorkWeb`, `IngestRuns`, `RecomputeRuns`, `DiscoveryLedger` |
| `MC*` | Small instances for TLC |

`SavedWorkWeb` and `DeviceScouting` INSTANCE `AuthSession`; `IngestRuns` extends the
chain `IngestBundle`, `IdentityResolution`, `CanonicalStore`; `RecomputeRuns` the chain
`RoleFit`, `MarketModel`, `SeasonAnalysis`; `DiscoveryLedger` composes the server's
`DiscoverySearch` (on `DiscoverySort`), `PlayerDossier`, `PlayerComparison` and
`SavedWorkContent` with the browser's `DiscoveryView`. `ScoutingState`, `DeviceScouting`,
`DurableCollection` and the ingestion chain take their filtered lists from `Lists`, and
`RecomputeRuns` its changed functions. The operators
named "mutant" are wrong on purpose: each replaces the definition it stands
before, to show that a property can fail.

### FavoritesStore

The state is the account row, the committed rows with the stamp that orders them
(`created_at`, `id`), and per request a program position, the account row it works
on, its uncommitted rows, what it committed (`changed`), the requests that had
committed when a merge began (`prior`), and its answer (`reply`): its status, the list
and the players reported as changed. For an add or a removal those are `changed`; a
merge reports what was not on the account when it began (`Reported`,
`favorites_service.py:230`), which another call may have inserted, or removed for the
merge to insert again. `ChangeLedger` is therefore about commits, and `ReportsExplained`
says when a merge's report may differ from its commit. An action is a
statement of the handler, or a statement and the commit that follows at once. The
database is modelled as PostgreSQL at READ COMMITTED: uncommitted rows are visible
to their session alone; an insert of a key another session holds waits; a session
fails in a deadlock (`BreakDeadlock`) or because its worker dies (`Abort`), at any
step, and its rows are undone. A row is stamped when it is flushed, and becomes
visible at the commit. A player either exists (`KnownPlayer`) or does not;
deletion of players is left out, as are other identities, which share no row.

`FavoritesContract` says what a caller may rely on: `Take` changes the set as the
request's kind allows, `Answer` needs the goal to hold now (or, for an add or a
removal, to have held while the request was open), and a merge is answered only
with a list that holds all it offered. The refinement maps the committed rows to
the set; `Phase` and `Witnessed` are read off the program position.

### ScoutingState

The state is React's (`session`, `epoch`, `attempt`, `fav`, `guest`), the refs
(`live`, `book`, `queued` for the promise chains), localStorage (`device`), the
requests and answers on the network, and each account's list on the server. A
render and its effects are two steps (`SessionChange` or `RetrySync`, then
`RunEffects`), and an answer may come between them; a click may not, because React
flushes pending effects before it handles one. A toggle is its whole handler: the
intent, the optimistic list, the hop queued on the chain. `removeShortlist` is a
toggle of a listed player. The server handles a request in one step, which is what
`FavoritesStore` is shown to promise (`ContractCorrect`): its list, and the answer
carries that list. Left out: full storage, players unknown to the server, tokens
that cannot be minted (a request that fails), the wording of messages.

Bounds: `MaxEpoch`, `MaxAttempt`, `MaxWrites`, `MaxOtherTab` cap session changes,
retries, toggles and other tabs' saves. History variables (`seen`, `saved`,
`asked`, `disturbed`, `overtaken`) are read by properties only. `DeviceKept` is about what
this tab's guest saved: a player another tab saves while a merge is out is cleared with
the device copy (below).

### SavedWorkStore

The state is whether the account row exists, the committed rows as a set of
records, the next primary key (which also orders the list), and per request a
position and what its handler has read: the loaded row, the fingerprints a merge
began with, the number of rows its limit check counted, what is missing, and its
uncommitted rows. Saved views and saved comparisons have the same five handlers and
the same constraints, so one collection stands for both; a content is its
fingerprint, and whether it may be stored is a constant. The races for the account
row are those of `FavoritesStore` and are one step here.

A save looks for its fingerprint, then for its client id, then inserts; a row that
was found is changed by a later statement that names its primary key, and writes
only the columns that differ from what was loaded. So another request may rename,
rewrite or remove the row in between (`RowGone`), and the rewrite of a row can meet
a fingerprint someone else has inserted: that commit
(`saved_work_service.py:612`) is not guarded, and the request fails with a 500
(`RewriteClash`), storing nothing. The row lock such a rewrite holds while it waits
is left out; a cycle through it ends in an `Abort`. `outgrown` is history: some
insert was committed although the list had grown since its request counted it.

`SavedWorkContract` lets an open request add entries, update the entry it chose, rename
or remove; `Answer` needs that each thing asked for has held while the request was
open. The refinement maps the committed rows to the list and reads `met` and
`target` off the position. A save that loses a race for its client id to another
content is answered with the winner's entry, which is why the contract is content
with an entry of either key.

### SavedWorkWeb, DurableCollection, AuthSession

One saved collection in the browser; views and comparisons are two instances that
share nothing. The session is `AuthSession`: what the provider last said, and the
latch of the resolve timer, whose `Effective` status the collection follows.
`stored` is the envelope in localStorage in any condition it can be found in (absent,
of another version, with malformed or repeated items) and `ReadCollection` is its
reader. As in `ScoutingState` a render and its effects are two steps and a click is
its whole handler. A write has a number: `told` is what its caller's promise was
resolved with, and `orphans` are the writes whose book a retry has replaced and which
are still awaited. `book.canonical` is what the account was last seen to hold and
every intent's rollback `baseline` is taken from it (`RollbackBaseline`, `Rebased`); before the
account has been seen in this generation, which a click can only meet after a failed load, it
is the item the write was queued against (`QueuedAgainst`). The server handles a
request in one step, as `SavedWorkStore` is shown to promise, by the same rules
(`Handled`). Left out: timestamps, wording, the React Query cache, players unknown to
the server.

### DeviceScouting

One tab without the server: the guest's list and the compare queue with their copies
in localStorage, the account suggestion with its dismissal, and the two surfaces of
the bottom rail with their presence (`UsePresence`, `Armed`, `Ended`). An event, its
render, the effects and the renders they cause are one step; so is a page load with
hydration, in a new browser session or the same. `Merged` is `ScoutingState`'s
confirmed merge, seen from here. Time is counted in days, focus is left out, the list
is a set (its order is `ScoutingState`'s), and storage never throws. `Stored` is what a
browser may hold when the tab opens, including entries nobody can read.

### IngestBundle, PerformanceCsv, IdentityResolution, CanonicalStore, IngestRuns

`IngestBundle` is everything the job derives from a bundle without writing: the
contract report of the adapter, conformance of what it delivered, the quality
findings, the fingerprint and the quarantine candidates. `PerformanceCsv` makes a
bundle from rows, `IdentityResolution` decides which player a record stands for, and
`CanonicalStore!Publish` computes the whole write of `ingest_bundle` on the tables as a
transaction reads them, including the rows of one bundle that clash on a unique key.

`IngestRuns` is the life of runs: jobs are processes with a session of their own.
A step ends where the job reads what others may have committed or where it commits:
`Start` and `Validate` commit the run's states, `SkipIdempotent`, `Block`, `Abort` and
`Commit` end it; between `FindSnapshot` and `Commit` the job holds what it read in its
own record, and loses it in a `Crash`. A snapshot's insert waits for another job that
holds the key and fails when that one commits (`InsertConflict`). A commit writes what the
job computed over what others have committed since (`Merged`): the rows it changed, and the
observations it deletes and inserts again though they are as before (`Rewritten`); a unique
key either of them meets fails the job (`Conflict`). Any input may be
ingested again or replayed for a failed or warned run. Fields no rule reads are left
out of records; the dry-run and validate-only modes and the listings write nothing
and are left out. `Read` is one step, where the code reads the tables and the quarantine in many
statements, each of which sees what is committed then (`ingest.py:588-986`,
`identity_resolution.py:60-96`): a job that reads some tables before another's commit and some
after it is left out.

`ResolvedIsAnswered` is about the commit that resolves an issue: the replay rejects neither the
record again nor its line or identity, and has stored the line, or a row of the player, with its own
snapshot. Whether the line still holds the same record is beyond it (`StillInvalidStaysOpen`
below). `SkipLeavesNobodyOut` is about the players a skipped input names: each is linked, or an issue of that
snapshot says why not. Other content may be lost in a skip (`SkippedIsUnchanged` below).

### RoleFit, MarketModel, SeasonAnalysis, RecomputeRuns

`RoleFit` and `MarketModel` are the scoring rules over any configuration, in whole
numbers: ten-thousandths, hundredths and thousandths, rounded to the nearest where
the code carries a float on. So nothing here is about the last digits of a score;
it is about order, missing facts, caps and levels. `SeasonAnalysis` is the body of the
season loop as a function of what was read; where the code reads rows without an
order and keeps one of several, `PrimaryChoices`, `RawChoices` and `RegistryChoices` hold
every outcome.

`RecomputeRuns` runs that body in its transaction at READ COMMITTED: each read is a
step that sees what is committed then; `_clear_season` is a DELETE per table that waits
for rows another transaction holds and then takes the rows it saw when it started;
a flush waits or fails on unique keys; players, competitions and teams read for one
season stay in the session for the next (`Kept`); `AssignRanks` ranks every rating of
the season the session sees; a run may die anywhere. `inserted`, `deleted` and
`pending` are the transaction's, `stored` is committed. The flushes of a season's
ratings are one step, seasons come in a fixed order, playstyle definitions are left
out. The read of the ratings to delete is one step with the start of the DELETE of their audits
(`recompute.py:79-83`), and the end of a season is read with its appearances, where the job has it
from the list it read at its start (115); no publication changes one here. `read` and `rows` are read by the properties too; `found` (the seasons whose audits the
run had to delete) and `beside` (the runs it overlaps) by them alone.

### DiscoverySearch, PlayerDossier, DiscoveryView, DiscoveryLedger

`DiscoverySearch` is the query: validation, season, filters with their aliases, the
window of birth dates an age bound becomes, order, count, page, badges and cards; the
order is that of `DiscoverySort`, whose keys the explanation beside the ledger states. A
text is a sequence of words, a substring a run of them; how a collation orders names
is a rank given with the database. `PlayerDossier` is the other way the API represents a
player: rows loaded whole and picked in Python, any of several when nothing orders
them; the cosine of two style vectors is given with the database. `PlayerComparison`
chooses the role of a comparison, who rates higher in it and by which groups, and whom
to read with caution. `DiscoveryView` is the browser's canonical view: read from
parameters, from storage and from a request, written back, and described as criteria.
`SavedWorkContent` is the server's reading of the same view, and of a saved comparison:
what is refused, what is normalized, what is fingerprinted, and whether a stored
comparison opens exactly. A length is a number of words here, where the server counts
code points and the browser UTF-16 units; the digest of a fingerprint is taken to be
injective; a control character is left out (the server refuses a text with one, the
browser would save it).

`DiscoveryLedger` composes them. The address is the only state of the rail and the
ledger; `cache` is React Query's, by request; a call in flight is at one of four
statements of its request, and `Publish` may fall between any two of them. `asOf`
records which publications a response has seen. An answer for another page than was
asked for is copied under its own key and the address follows (`SyncCanonicalPage`). A
publication may also delete a player. Left out: dossier metrics, sources, facets, focus,
half-typed drafts; an audit is the score of each group of a rating.

## Runs

| Run | Instance | Shows |
|---|---|---|
| `store_safety` | 3 concurrent requests of any kind, 2 existing players and 1 unknown, guest lists in both orders and with a duplicate, 2 attempts | one account row, reads write nothing, the ledger of commits, a merge's report explained, refinement of the contract; 681331 states |
| `store_live` | 2 requests, all kinds, fair handlers | every request is answered; a merge keeps the guest's order, retried or not |
| `web_sessions` | 2 accounts, 3 players, 4 session changes, a retry, 2 toggles | no bleed between accounts and guests, the device list kept, tokens never reused, every pending player worked on, failures stay reported |
| `web_writes` | 1 account signed into twice, 2 players, 3 toggles, another tab loaded in between, fair progress | the last intent wins, the settled list is the server's, writes and loads settle |
| `saved_safety` | 3 concurrent requests of any kind, 3 items of 2 contents, a list, 3 starting collections, limit 2, 2 attempts | exclusive keys, the limit unless outgrown, refinement of the contract |
| `saved_live` | 2 requests, 5 items (one that cannot be stored), 5 lists, fair handlers | every request is answered, though an id stands in a merge's way on every attempt |
| `client` | an envelope in any condition, an account with an item, 3 changes of identity with a provider that may stall, a retry, 2 clicks, a refused write | the screen is what was confirmed, or says that it is not, the device copy is kept, a success is held, every caller is told |
| `client_limit` | a limit of one and two saves of a guest | expected violation: "A partial success cannot lose somebody's saved work" |
| `ingest` | 2 jobs, 3 runs, 8 inputs: a squad, the same with a name, a position and a metric corrected, the same with other minutes (which the fingerprint does not tell apart), an ambiguous feed with identifiers, a match, lineups, events, coverage and evidence, 2 CSVs, a blocking file, an unreadable one; 439573 states | failed runs publish nothing, rejections are recorded and resolved only by a replay that stored what it answers, a skip leaves nobody out, ambiguity links nobody |
| `recompute` | 2 recomputes of 2 seasons beside an ingestion, from an empty, an analysed and an unrated database; 288 grids of three wingers | the derived rows are of one run, the better is never scored below nor, where one run ranked the season, ranked below, evidence decides trust |
| `discovery` | 3 databases, 19 addresses, 2 saved views, 4 changes of the rail, up to 2 events | cards meet the request, a walk is complete and its order the one explained, views are canonical and a view saved by the server has one fingerprint with the browser's, a saved comparison opens exactly while both sides can be compared, the address follows the answer, the dossier agrees, a comparison is symmetric and agrees with the dossiers; 136138 states |
| `device` | 3 storages, 3 players, 5 events, 3 days | the device's lists survive, an offer is earned, exits end |

### Bounds

Server stores. Three requests are the smallest number at which a merge, the add it
collides with and the removal that makes the collision stale meet; two attempts are
enough for a retry and for the bound. Two players are enough for two chains and for a
deadlock. For saved work the third request is also what makes a row vanish between a
lost race and the look-up of its winner (`WinnerGone`); a limit of two lets one list
fill the collection, and a third content (`f3`) is there to be counted without ever
colliding. Two labels tell a rename from none. Requests are interchangeable, so the
safety runs use symmetry; the runs with liveness do not.

Browser. `MaxEpoch`, `MaxAttempt`, `MaxWrites`, `MaxOtherTab` and `MaxRefused` cap
identity changes, retries, clicks, other tabs' saves and refused writes. Four session
changes are sign-in, sign-out, the other account and the first again; three are
signing out and in again; three toggles are the shortest sequence in which an intent
is superseded by one that is itself superseded. In `client` one retry replaces a book
with writes on it, and two clicks overlap in every combination of create, rename and
remove. In `device`, `DISMISSAL_WINDOW` is 2 days instead of 30 and `MaxNow` 3, so that a
dismissal both stands and lapses; `MaxEvents` 5 is add, dismiss, reload, add, and one more.

Ingestion. `MaxRuns` 3 is a publication, a failure or warning, and its replay or an
overlap; `Alone` 1 lets the first run go by itself, so that two others overlap over what
it left. The metric registry has one core metric with one alias.

Recompute. Two runs overlap at every statement; one ingestion (`events`) changes facts
between two reads, one of them so that no rating keeps its key; two seasons carry the identity map from one to the next. Two
roles share a position, so that one player has two ratings and one role two players.
In the grids one wing's metrics and minutes vary over every combination beside
another's.

Discovery. The 5 players include ties in score, confidence and name, birth dates on
either side of a rounding boundary, and missing rows of each kind. `ASKING_MAX` is 10^8
instead of 10^12, for TLC's integers, `TextFilterMax` counts words, `LongWords` are the words longer than
`KEY_MAX` (a playstyle an address may name and a saved view may not hold), `SimilarLimit` is 1
instead of 5, a page holds one or two rows. `ScanLimit` (60 days) bounds the scan for a
window's edge, which is that near. An address is followed for 0 to 2 events (clicks,
publications, losses), enough to turn a page while a publication commits.

`CHECK_DEADLOCK FALSE` everywhere: all requests may be answered, the scout may stop.

### Fairness

`FavoritesStore!FairSpec` and `SavedWorkStore!FairSpec`: a handler that has started is
run by a worker until it ends; nothing makes a request arrive or fail.
`ScoutingState!FairSpec` and `SavedWorkWeb!FairSpec`: effects of a committed render run,
promise chains run, the server handles what reaches it and an answer that is not lost
arrives. `DeviceScouting!DeviceFairSpec`: an armed timer runs out. Nothing assumes that a
scout presses anything, that a retry is made or that a request succeeds: behaviours
in which every request is lost are covered. Ingestion, recompute and discovery state
safety only: an operator starts a job, and nothing owns the run of a process that died.

## Where code and documents disagree

One disagreement has a run. `saved-work.ts:313`: the reader keeps no more than the
limit and the writer has none, so a guest's save beyond it is acknowledged and gone
from the next read (`client_limit`), against "A partial success cannot lose somebody's
saved work".

Some of the others are definitions of the modules that no run lists: put the
definition in the cfg named and TLC finds the counterexample.

| Statement | The code | Definition, cfg |
|---|---|---|
| "leaves every still-invalid or unaddressed original record open" (`ingestion-quarantine-and-replay.md:40`) | an issue is looked for by its line (`ingest.py:333`): with a line inserted above it, a row that is still wrong is taken for answered | `StillInvalidStaysOpen`, `IngestRuns_safety.cfg` with `Available` = squad, csv, shifted |
| "If a completed snapshot with that key exists" a run is skipped (`README.md:386`, `milestone_5_data_operations.md:71`) | two overlapping jobs both find none, and both complete | `PublishedOnce`, `IngestRuns_safety.cfg` with `Alone` = 0 |
| "Corrected content changes the inventory fingerprint" (`milestone_5_data_operations.md:73`) | of appearances, registrations and events only the number is in it (`ingest.py:88`): corrected minutes are skipped | `SkippedIsUnchanged`, `IngestRuns_safety.cfg` with `Available` = squad, minutes |
| "the visible list IS the server's canonical list" (`scouting-state.tsx:49`) | answers of different players may overtake one another, and each replaces the whole list (764) | `AccountModeIsServerList`, `ScoutingState_writes.cfg` |
| a baseline of the draft's own is "a state no account write can currently reach" (`saved-work.tsx:814`), and "nothing is fabricated" (1017) | the collection can be written to after a failed load: create an item, rename it, and with both refused the rollback of the rename puts back what the create had drawn, an item the server never held, under "not saved" | `NothingFabricated`, `SavedWorkWeb_client.cfg` |
| "the last thing the user asked for is the thing that happens" (`saved-work.tsx`) | a content removed and saved again has two ids and two chains; the save may be handled first, as an update of the row the removal then deletes | `LastSaveHeld`, `SavedWorkWeb_client.cfg` |

The rest follow from one or two steps, or from a part that is left out.

* `favorites_service.py:176`: players the account holds "are NOT re-inserted"; one
  removed between `before` and the attempt is, and is reported as already present
  (`ReportsExplained` says that nothing else can make it so).
* `scouting-state.tsx:791`: anchors are recorded on a list that already lacks other
  optimistic removals; when both fail the order differs.
* `scouting-state.tsx:656`: what is retired is the device list of now, not the one that
  was merged; two tabs of one guest overwrite each other's list (857).
* `schemas/saved_work.py:47`: the limit is checked by counting, then inserting, without
  a lock; simultaneous requests pass together (`LimitUnlessOutgrown` is what holds).
* An account row with nothing to own is left by a save of an unknown player
  (`core/auth.py:291`); a retried merge's remainder need not shrink
  (`favorites_service.py:106`); a merge whose response is lost is in the account while
  the interface says it is not (`scouting-state.tsx:54`); a press after a failed load
  shows a count, although `scouting-state.tsx:66` keeps it null.
* A save that loses a race answers "updated" with the winner's label
  (`saved_work_service.py:626`); the rewrite of a row can fail with a 500 (612).
* `saved-work.tsx:334`: a merge retires the device copy even of items the answer lists
  as rejected; a create replayed over an answer that has it shows it twice.
* `durable-collection.ts:107`: an envelope of a version this build does not know reads as
  empty, and hydration writes that back, which the comment rules out.
* `AccountSuggestion.tsx` claims "no window where an account holder can see" the offer;
  its exit holds it for 120 ms after a sign-in, with its buttons working. An offer left
  open returns on sign-out without a new favourite
  (`milestone_8_4a_optional_accounts.md:420`).
* `ingest.py:6` says appearances are replaced in place; they are only upserted, and a
  return to earlier content is skipped. `recompute.py`'s docstring names flags it
  ignores. `failed-ingestion-or-recompute.md:3` asks for the id of the failed run; a
  failed recompute rolls its run back too.
* `rating_methodology.md:85`: the same inputs reproduce the same scores, unless two rows
  are equal in what the reader orders by. The source snapshots a run names are read
  at its start, its facts later (`recompute.py:103`). Recomputes that overlap and rate
  nobody in common may both leave rows in a season (`Raced`): two that start from an
  unrated season, and a third beside two that rewrite a rated one (below).
* `rank_in_peer_group` is written for every rating the session sees and only where it
  changes (`recompute.py:399`), so when such recomputes overlap a rank one of them leaves
  alone may be wrong once another has committed, and two players of a role may bear one rank (below).
* `value_model.py:44` takes a form index of 0 for none; the label "unknown" of the market
  model is out of reach; `formula.py` stores 0.0 for an unknown score, and ranks it, although
  `confidence.py:13` says unknown is never coerced to zero.
* A publication between the count (`players_service.py:453`) and the page (463) can
  leave an empty page beside a total that is not zero. A stored view whose sort is the
  default is reported as dropped. With two appearances of equal minutes, or two prices,
  the card and the dossier may show different ones; `find_similar` takes an unknown
  price for 0.

## Proofs

Checked by TLAPS for every value of the constants, under the assumptions declared
in the modules, which say no more than that the constants are what they are named for:

* `FavoritesStore`: requests are finite, known players are players, guest lists are
  sequences of players, a merge has at least one attempt, "no account" is not a request;
* `ScoutingState`: the lists at the start are sequences of players, bounds are natural
  numbers, and what stands for null is none of the values it is told from;
* `SavedWorkStore`: items are records of id, fingerprint and label, starting collections
  are finite, have distinct keys and are within the limit, limits are natural numbers,
  "no row" is not a row;
* `SavedWorkWeb`: a client id, in the envelope or in an account, never names two contents,
  and those made later are new (`StartAssumption`; they are UUIDs, `durable-collection.ts:242`); an
  account holds a content once; null is none of the values it is told from;
* `DeviceScouting`: days and windows are natural numbers; a stored queue is any list in
  which no player stands twice (`StoredAssumption`; no tab writes one that has);
* `IngestRuns`: a bundle has its lists and names the provider its adapter was found
  under (`InputsAssumption`; `ingest.py:420` takes it from the adapter), and null is no
  text (`NoneAssumption`);
* `RecomputeRuns`: the runs of a behaviour are finitely many, and other than the one that
  analysed the database before (`ScenariosAssumption`); in every database players, minutes
  and metrics are numbers, or missing, and rows are finitely many (`Measured`,
  `DatabasesAssumption`); the configuration is numbers (`NumbersAssumption`): no weight and
  no penalty of a role is negative, no band of the context reaches below zero, a default
  tier and at least one sample exist, which is what the files under `configs/` say and
  `role_weights.py:82` and `context_adjustments.py:84` make of them; and a badge is known by its key (`BadgeAssumption`);
* `DiscoveryLedger`: what the columns hold (`DatabasesAssumption`): a player has one birth date
  or none, one position or none and a rank by name, a rating is of a configured role, ids identify, minutes
  are numbers, at most one season is flagged as the current one (who flags one takes the flag from
  every other, `_common.py:86-89`), rows are
  finitely many, and nobody is born after a season or 999 years before it, which is what the
  sort takes unknown ages for (`discovery_sort.py:41-45`); the numbers of an address, of a
  saved view and of a change of the rail are numbers, in or out of any range, and their texts lists of
  words (`AddressesAssumption`); and what the rail offers the API knows (`RailAssumption`): the
  positions, roles and sorts of `canonical.ts:134-135` and `constants/index.ts:81` are among those of
  `constants.py:33`, the configuration and `players_service.py:43`, and have the shape of a key
  (`schemas/saved_work.py:108`), as does a playstyle (`canonical.ts:145`) that is not too long;
* `DiscoveryView`: the composed form of a word is composed, and is no white space
  (`ComposedAssumption`): NFC is idempotent.

A filtered list is `Lists!Sublist`, an ordinary recursive function, and not `SelectSeq`,
which the provers cannot unfold. Induction over the data is done by
`ListFacts!Inductive`: a set that has 0 and is closed under the successor has every
natural number. Each recursive function is first shown to exist (`UpToExists`,
`GrowthExists`), which is what lets its equation be used.

### FavoritesStore

* `TypeCorrect`: one step per action.
* `InvCorrect`: `Inv`. The safety properties are not inductive alone: that keys are
  exclusive needs to know that uncommitted rows exist only at the insert, and are
  wanted and missing; that reads write nothing needs to know what brought a request to
  each position. `Bookkeeping` says that. `OneAccountRow` and `ReadsWriteNothing`
  follow; `KeysExclusive` is the database's unique key, and only a step of the proofs.
* `ContractCorrect`: `Spec => ContractHolds`. Each action is a `Take`, `Answer`,
  `Refuse` or `Open` of the contract or is invisible (`Taken`, `Answered`, `Refused`,
  `Invisible`), under `Inv`: a commit adds what the request wanted because its rows are
  among the wanted ones; a conflict means the goal holds.
* `ChangeLedgerCorrect`: by `LedgerInv`, which adds that a request has committed nothing
  before it reads its list back. A commit puts on or takes off exactly the rows it finds
  off or on, so the number of committers of one kind grows by one just when the row
  appears or goes (`Committers`, with the library's cardinality facts: hence the finite
  requests).
* `ReportsExplainedCorrect`: by `ReportInv`. From the read of `before` on, what the list
  has more or less than `before` was committed since by some request, and what the merge
  inserts was off the list (`Explained`); a commit is recorded once and stays
  (`CommitsStay`), so nothing that explains a difference is lost before the answer.
* `GuestOrderKeptCorrect`: by `InOfferOrder`: what precedes a row the session holds, and
  is missing, is held already and has the lower stamp. Only `InsertRow` adds to a block;
  every other step leaves it or empties it (`Blocks`).

### ScoutingState

`TypeCorrect`; `TokensAreFreshCorrect` from `TokensIssued`, which orders tokens by
(epoch, attempt): every token on the network is live or older, and the live one is the
one on screen or older. The other properties are conjuncts of `Inv`, or follow from it:

* `GenerationAtWork`: the account state and the books are the live token's, every answer
  is to one of its requests. It is what makes a late answer harmless.
* `OneInFlight` and `Books`: a player has one request of the generation in flight, a
  request is on the books and says what the intent of its revision says, and what is
  pending has a request or a hop that will send one. `PendingIsWorkedOn` and
  `FailuresStayReported` are among the parts of `Books`.
* `SeenBefore`: whatever is on screen, on the books or on the network has been on that
  account or was asked for under it. `NoBleed` follows, whoever signed in before.
* `DeviceCarried`: the merge in flight carries all of the device list but what another
  tab has saved; with it `DeviceKept` survives the answer that retires the list.
* `AskedIsKept`: what was last asked of a player is on the books, or, when it is not, on
  the server; an answer in flight is still true of the server. `LastIntentWins` is its
  case without requests in flight.
* `ScreenFollows`: unless answers overtook one another, the newest one is the server's
  list, and so is the screen once it was read. `AccountModeIsCanonical` is its settled case.

### SavedWorkWeb

* `InvInductive`, `TypeCorrect`, `ScreenIsConfirmedCorrect`: the screen of an account is not
  inductive alone, because a rollback restores what an intent carries. `IntentsSound` says that
  every intent carries what the account was last seen to hold of its item, and that there is
  one an item; `WritesAreBooked` and `OneInFlight` that an answer finds an intent, and is the
  only one of its item; `GenerationAtWork` and `TokensFresh` that it belongs to what is on
  screen. That two items never share an id, on any server, in any request or on the book, is
  `IdsSound` and `ListsSound`: an answer is a whole collection, and must have one item to take
  a baseline from. `ReplayFacts` (by induction over the intents) is what a replay leaves alone,
  `RollbackFacts` what a rollback does, `HandledFacts` what the server may make of a request.
  Before any answer there is nothing to take a baseline from, and that half has an invariant of
  its own, `ScreenInv`, on top of `WritesInv` (below): an item with nothing outstanding was left
  by the refusal of its last write, and that was no create, because a create's baseline is null (`LeftSound`);
  the caller of what is outstanding still waits (`CallersWait`), so no other write of the item is told
  to have failed in its place. `ModeIsInStep` is what the screen says then.
* `DeviceKeptCorrect`: `Spec /\ []Fits => []DeviceKept`. `Fits` says that the device list is
  within its limit, without which the property is false (`client_limit`); nothing is assumed
  of the accounts, which may be full and refuse. `DeviceSound`: the envelope reads back as
  what is on screen. `MergesSound`: a merge on its way has all of the device list, which no
  click changes while it is, and a confirmed one has put it into an account; so it may go.
* `SuccessIsHeldCorrect`: by three invariants, each on top of the one before. `NamesInv`: a
  client id names one content in everything anybody has seen or asked, the screen, the answers
  and the history included, so a write of an item is about the content its earlier writes were
  about (`AccountWriteHistory`). `WritesInv`: no write is made while the collection loads
  (`LoadsFirst`), the book has every item's last write and no other (`BookedLast`), a request
  with that write's number says what it says (`RequestsSound`), and an item whose write has
  succeeded has nothing outstanding (`Settled`). `HeldInv`: what the server has taken is held
  (`Done` is so from the moment it handles the request, before the caller hears of it). A write
  of another content leaves it alone (`WriteHandled`), a second write of the item is not on
  its way, and what an earlier generation's request has changed does not count (`StrayHeld`).

### SavedWorkStore

* `InvCorrect`: the `IInv` of that module, one step per action; `TypeCorrect`,
  `BookkeepingCorrect` and `KeysExclusiveCorrect` follow. Exclusive keys are not
  inductive alone: an insert takes a primary key above all others, committed or not, and
  a rewrite keeps the valid fingerprint it was asked for, which `InPlace` and `Aimed` say
  of every position. Steps that move no row, load one, overwrite one, insert, commit or
  end share a lemma each (`QuietInv`, `LoadInv`, `PutInv`, `InsertInv`, `CommitInv`,
  `FinishInv`).
* `LimitUnlessOutgrownCorrect`: by a second invariant, `LInv`, on top of `IInv`.
  `Room` says of a request about to insert that what it counted and what it adds
  fit; its rows map one to one to the items it found missing (`HeldAtMostMissing`,
  which needs exclusive keys), so a commit on a count that still holds stays within
  the limit.
* `ContractCorrect`: as for favourites. `Moved` turns a step that keeps a request open
  into a `Moment`, `Closed` one that ends it into an `Answer` or a `Refuse`, `Invisible` is
  the rest. That an update falls on the entry the contract's request chose is `Aimed`:
  the row found again by its primary key has the id of the row that was loaded.

### DeviceScouting

The proofs are at the end of `ScoutingState_proofs`.

* `OfferIsEarnedCorrect`: `DeviceInv` adds what an event finds: the presence has seen
  the last change, the effect has seen every addition, a session without an offer has
  counted none, the screen's list is the device's, and every refusal since the last merge
  is `Covered` by the stored dismissal. Then every render is one of three: it opens
  nothing (`RenderedQuietly`), it leaves the offer where it was (`SameOffer`), or it is
  the heart of a guest (`ToggleStep`).
* `DeviceListsSurviveCorrect`: by `ListsHeld` (the queue is a list without repetitions,
  within the limit, that is what storage holds and has the newest addition; cutting a
  list to its last elements keeps all that, `SublistOfDistinct`) and `TrayHeld` (a tray on
  screen, or at the last render, has held players).

### IngestRuns and the canonical tables

* `AuditedKept`: `Audited` is the bookkeeping of the job and what follows from that alone,
  `RejectionsAreRecorded` among it. `Books` says which runs are unfinished and whose they are (`RunsOK`, `JobsOK`:
  two jobs never work on one run; past the adapter the input has a bundle) and that the
  quarantine is a list of issues (`IssuesOK`); `Written`, that what a job is about to
  commit is `Publish` of what it read, and that the issues it read are still there. Each kind
  of step (goes on, aborts, skips, blocks, publishes) has a lemma that says what it does to
  runs and issues (`Continues`, `Aborts`, `Skips`, `Blocks`, `Publishes`); `Kept` puts them
  together as `RunsKept` (a finished run never changes) and `IssuesKept` (an issue is only
  ever resolved, by a commit).
* `PublishFacts` is what a publication makes of any tables: no player is lost, a new one
  bears the number of the run, links lead to players, a changed observation names the
  snapshot. The identities are by induction over the records (`ResolvePlayersFacts`:
  every step of `ResolveOne` keeps `Resolving`); each table of observations has a lemma, and
  they compose because to bring rows of one snapshot twice is to bring them
  (`BroughtTwice`).
* `RuledKept` adds `Owned` (everything stored is a completed run's; what a job has read
  is a state the tables had, and they have only grown since) and `Checked` (a job past the
  quality report has no blocking finding). `FailedRunsPublishNothingCorrect` is a part of it.
* `ResolvedIsAnsweredCorrect`: by `PublishAnswers`, what a publication stores for the identities and lines it
  resolved, and `CommitLeaves`, that all of it is in the tables after the commit whatever others
  have committed since (`Merged`); `ResolutionAnswers` puts them together.
* `SkipLeavesNobodyOutCorrect`: by `Accounted`, the last part of `RuledKept`: each player of a completed run
  is linked or among its rejections. Equal fingerprints tell of equal player keys
  (`HashTells`, the inventory), and no more is used of them.
* `AmbiguousStaysUnlinkedCorrect`: a bundle without blocking findings names no record
  twice (`CheckedKeys`), so no other record of the batch can give it a link; the stored
  namesakes are among those it matches, and the match count is above one
  (`MatchesManyPeople`), so `ResolveOne` leaves it out, and no later record changes that
  (`AmbiguousLeftOut`, by induction). The rejection is among the candidates
  (`AmbiguousRejected`), and `Publishes` puts each of those on record. The table the job
  writes to may have changed since it read; links only grow, by other records' keys.

### RecomputeRuns

`AnalysisHolds`: `Spec => []AnalysisIsOfOneRun`, for any number of recomputes and
ingestions, any databases and any rating rules. What the rules compute does not matter: of
`AnalysisRows` only `AnalysisFacts` is used, that every row is of its season and run and that
an audit goes with each rating. The property is about finished runs only; `Inv` says what an
open one has done (`InvHolds`, one lemma per action, `NextInv`):

* `CoverInv`: once the ratings of a season are deleted, either the run has deleted, or is yet
  to delete, every committed row of it (`Clean`), or another run has committed the season
  since they were read (`Behind`). In the first case what it holds of a season it has done is
  the ranked analysis, and the commit leaves just that. In the second it will insert ratings
  beside those of the other run: if the two rate somebody in the same role the unique
  key makes it wait, and fail (`Clashes`); if not, they have `Raced` (`BehindRaced`).
* `AimInv` and `LockInv`: two runs that both found audits to delete cannot both have deleted
  them, unless a third has analysed the season between; so one of them waits at the
  first DELETE of `_clear_season`, before it reads which ratings to delete (`Locked`).
* `KeysApart`: two open runs never both hold ratings of one key.
* `RunsInv`: what a run holds is its own or a new rank of a committed rating, what it deletes was
  committed, an audit is deleted with its rating, each key it rates is among its rows.

The proof corrected `AnalysisIsOfOneRun`. As it had been checked, with two recomputes, it excused
only races from a season with nothing rated. With three overlapping it was false: P, Q and R find
the audits of one older run; P deletes them and commits; Q and R, whom the audits held until
then, both find P's ratings to delete, and that DELETE waits with the rows it saw when it
started. So when Q has committed, R goes on without having seen Q's ratings, and if the
positions were corrected before R reads the players, so that it rates nobody Q has rated
(in one role), both leave theirs.
The exception is now stated for what it is: an overlap in which neither a unique key nor
the audits made one wait for the other.

`ToldHolds`: `Spec => []ToldInv`, where every row there is comes from. A row
somebody has inserted, holds pending or has committed is, but for its rank, a row of
`AnalysisRows` of what its run has read of the season (`From`); and once a run has read the
metrics, what it has read is whole and numbers (`Told`), whatever an ingestion changed
between two of its reads. One lemma per action; only a flush adds rows and only
`AssignRanks` changes one. `AnalysisSays` then tells what such a row says of its player.

* `EvidenceHolds`: `EvidenceDecidesTrust`, from `ConfidenceGrows`: coverage, minutes and the
  penalty of the context each move the confidence one way through the products, the rounding
  and the caps, and a level grows with its score. A strength needs its metrics by `PositiveBadges`
  (`StrengthIsThere`; keys tell a strength from a concern). The proof corrected the property: a role that
  requires nothing is fully covered, so its trust is not unknown.
* `BetterHolds`: `BetterNeverRanksBelow`. Who is at least as good in every metric has the
  better percentile in each, counted in the direction of the metric and with ties
  (`PercentilesGrow`, by counting those below); weighted means, groups and the raw score
  grow with the percentiles (`SumsGrow`, `MeanGrows`, `RawScoreGrows`), penalties shrink with them
  (`PointsShrink`, `PenaltiesShrink`), and the context multiplies by the same amount that is not
  negative (`ContextIs`, `ScoreGrows`). The folds are unfolded along a function that gives each
  part of a finite set its value (`FoldExists`, `Parts`). The ranks of the
  run that ranked a season alone are its own by `AnalysisIsOfOneRun`, and agree with `Before`
  (`RanksGrow`, `RanksAgree`).

This proof corrected the property too. It had claimed the rank of every rating in the store,
which two recomputes satisfy; with three it is false. P, Q and R rate different players of
one role and overlap, each in the way described above. `AssignRanks` numbers every rating the session sees
and flushes only the ranks that differ from what it loaded. So after P has committed, Q and R each
number P's players among their own, and write what changes by their own count: when both have
committed, one of P's players bears the rank Q gave it and another the one R gave it, which may be
the same, and neither run has seen what the other wrote. The score
is claimed for every rating; the rank where the last run of the season has not `Raced`.

### DiscoveryLedger

`CardsMeetTheRequestCorrect`: `Spec => []CardsMeetTheRequest`, for any number of
publications between the statements of any number of requests. The invariant is about
the requests: one in flight is of a scope, for ages on the stops of the rail (`Proper`, which
`ViewIs` and `FiltersAre` show of every address whose numbers are numbers, and `AddressIs` of
every address written); past the first statement it has the filters of its own request, those of
the season of some database; past the third its rows are a page of one database (`PageOf`),
though perhaps of another than was counted; its answer, and every cached one, `Meets` the request.

* `WindowIs`: the window of birth dates is the displayed age within the bounds. The scans
  for its edges end (`FloorFound`, `CeilingFound`) because a rounded age moves by at most
  a tenth with a day (`AgesGrow`, `FloorIs`, `CeilingIs`).
* `QualifiedMeets`: a row that the predicates let through gives a card inside the
  bounds; `ResultRole` that the rating it shows is of the role asked for.
* `OrdersAre`: the rows come in the one order of their keys. The keys are lists of numbers, which
  lists order totally (`OrderIsTotal`, `OrderIsStrict`, `OrderIsTransitive`), ending in the
  id; so each place is taken by one row (`FewerBefore`, `OnePlaceEach`, by cardinality).
* `OrderTells`: of two rows in that order the cards say so by the keys of the
  explanation. `KeyTells` is the case of one key, in which what stands for an unknown (0, -1 or
  999) must sort where the card shows nothing (`PlacementTells`, `AgeTells`); an absent confidence
  sorts as the `unknown` the card shows (`ConfidenceTells`).
* One lemma per action. Only `FetchRows` and `FetchBadges` make anything of the rows;
  the browser moves whole answers, and no criterion names the page (`MeetsAnyPage`).

`WalkIsCompleteCorrect`: `Spec => []WalkIsComplete`. A second invariant, `WInv`, says what an
answer tells of the database it was made of: one whose statements were all made after
the last publication (`asOf`) is `TrueOf` what is published, in its total, the page it was served as and
its players. A publication makes this true of nothing (`PublishNow`); a statement made before
one leaves its number in `asOf` for good (`JoinedIs`); a page served in place of one that is not there is
true of the request for itself (`ServedInstead`), which is why the address may follow it.

* `OneOrder`: the candidates have exactly one order, each of them once in it, so pages
  fetched by different requests are cut from one list (`PartsAre`).
* `PlacesAre`: offsets and sizes share that list out: every place of it is on one page, at one
  position, and there are as many pages as the API says (`WalkIs` counts them).
* `WhoMeets`: the candidates are the players whose cards meet the request, so the query and the
  cards agree in both directions. `MeetingQualifies` is the converse of `QualifiedMeets`: nobody the bounds would
  admit by what the card shows is left out by what the query compares.

`AddressFollowsTheAnswerCorrect`: `Spec => AddressFollowsTheAnswer`. What the address is rewritten to
is written by one function and read by another (`SetFilters`, `Filters`), so the proof is that
reading undoes writing.

* `RoundTrip`: parameters that say what the view of some address does (`Says`) are read as
  that view, whatever the address was: numbers are in their range and whole
  (`BoundedBack`, `OthersBack`), texts are trimmed and composed already (`TextsAreNormal`, `NormalFix`),
  ages are one bound on a stop (`AgesBack`), and two bounds are coherent (`CoherentBack`).
* `AddressBack`: so the address written for another page of a request means that page of that
  request, its scope and its defaults included, as long as an address can name the page. The invariant `AInv` is
  that it can: pages asked for come from addresses, and the page served is at most the one asked for.

`ViewIsCanonicalCorrect`: `Spec => []ViewIsCanonical`, for whatever the address says. `FieldsHold` is
what there is to know of the view it means, field by field (`CanonicalFields`); the rest is
about any such fields.

* Written to an address, the view comes back (`CanonicalBack`, `AddressMeans`), and so does the whole request.
* Written to storage, it comes back without what cannot be stored, which is what it reports
  as dropped (`RecoveredIs`): long texts, large amounts, long keys (`TooLarge`). What is left (`Kept`)
  is again the fields of a view, so to lose one criterion spoils no other (`KeptIs`).
* The server takes what is left as it is, or refuses it for a control character, and nothing else
  (`ValidIs`): its limits admit every number the browser stores (`LimitsHold`, `FieldValueCases`). So it comes back
  from there under the fingerprint it was sent with (`KeepsStorable`).
* The API accepts the request (`RequestAccepted`): whatever numbers and keys a visitor types,
  none is out of its limits, unknown to it or above its maximum (`Accepted`).
* A criterion has a name, and no two have one (`CriteriaAre`), so there are as many as the rail
  counts, though it counts the two bounds of age as one (`CriteriaCounted`); and removing one
  leaves the fields of the others, which are a view's (`FewerFields`, `RemovalIs`).

The proof corrected the model. A playstyle key is one word of any length in an address, but of at
most 64 characters in storage (`canonical.ts:400`); the model had read it alike in both places, so
that it said a saved view loses only texts and amounts. `Unstorable` now names the key too.

### Only model-checked

All liveness (`EveryRequestAnswered` and the like) and `ENABLED` are out of the prover's reach. Of
`DiscoveryLedger`, `DossierAgrees` is model-checked: it compares what two programs compute of one
database, the ledger and the dossier, over what the run enumerates.

## What could follow

A proof of `DossierAgrees`, for which `ResultRole` and `OrdersAre` are the ledger's half. Compositions of
`ScoutingState` with `FavoritesContract`, and of `SavedWorkWeb` with `SavedWorkContract`, in
place of their one-step servers.

## Not modelled

Rendering, copy and styling; generated API types; migrations, seeds and
configuration; adapters other than the CSV one; operations reports and the rating
evaluation, which read and change nothing; floating point; signature checking, which
is a library's, and the key cache around it, which one lock guards.
