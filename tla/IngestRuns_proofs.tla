-------------------------- MODULE IngestRuns_proofs --------------------------
(***************************************************************************)
(* First what a publication makes of the tables, whatever it publishes;    *)
(* then what jobs that overlap, fail and die make of runs and issues.      *)
(***************************************************************************)
EXTENDS IngestRuns, ListFacts, FiniteSetTheorems, TLAPS

(* The canonical tables. *)
LEMMA PlacedColumn ==
  ASSUME NEW s, IsList(s), NEW at, NEW t, NEW f, t = [k \in DOMAIN Places(s, at) |-> f[k]]
  PROVE  IsList(t)
<1> DEFINE p == Places(s, at)
<1>1. p \in Seq(Nat) BY PlacesFacts
<1>2. t = [k \in DOMAIN p |-> f[k]] OBVIOUS
<1> HIDE DEF p
<1>3. Len(p) \in Nat /\ DOMAIN p = 1..Len(p) BY <1>1
<1>4. t = [k \in 1..Len(p) |-> t[k]] BY <1>2, <1>3
<1>5. QED BY <1>3, <1>4, ListOf

LEMMA PublishableIsList ==
  ASSUME NEW b, IsList(b.players)
  PROVE  IsList(Publishable(b))
<1> DEFINE rows == Publishable(b)
<1>1. \A S : b.players \in Seq(S) => rows \in Seq(S) BY SublistFacts DEF Publishable
<1>2. rows \in Seq({b.players[i] : i \in DOMAIN b.players}) BY <1>1 DEF IsList
<1> HIDE DEF rows
<1>3. Len(rows) \in Nat /\ rows = [i \in 1..Len(rows) |-> rows[i]] BY <1>2
<1>4. IsList(rows) BY <1>3, ListOf
<1>5. QED BY <1>4 DEF rows

Observed == {"identifiers", "appearances", "registrations", "matches", "lineups", "events",
             "coverages", "evidence", "metrics"}

Brought(before, after, snap) ==
  /\ DOMAIN after = Tables
  /\ after["players"] = before["players"] /\ after["links"] = before["links"]
  /\ \A t \in Observed : \A k \in DOMAIN after[t] :
       after[t][k].snap = snap \/ (k \in DOMAIN before[t] /\ after[t][k] = before[t][k])

LEMMA BroughtTwice ==
  ASSUME NEW a, NEW b, NEW c, NEW snap, Brought(a, b, snap), Brought(b, c, snap)
  PROVE  Brought(a, c, snap)
BY DEF Brought

LEMMA TableElse ==
  ASSUME NEW store, DOMAIN store = Tables, NEW snap,
         NEW t \in Tables \ (Observed \cup {"players", "links"}), NEW x
  PROVE  Brought(store, [store EXCEPT ![t] = x], snap)
BY DEF Brought, Tables, Observed

LEMMA TablePut ==
  ASSUME NEW store, DOMAIN store = Tables, NEW snap, NEW t \in Observed,
         NEW new, \A k \in DOMAIN new : new[k].snap = snap
  PROVE  Brought(store, [store EXCEPT ![t] = Over(new, @)], snap)
<1> DEFINE merged == Over(new, store[t])
           after == [store EXCEPT ![t] = merged]
<1>1. \A k \in DOMAIN merged : merged[k].snap = snap \/ (k \in DOMAIN store[t] /\ merged[k] = store[t][k])
  BY DEF Over
<1> HIDE DEF merged
<1>2. Brought(store, after, snap) BY <1>1 DEF Brought, Tables, Observed
<1>3. QED BY <1>2 DEF merged

LEMMA ProvidersBrought ==
  ASSUME NEW store, DOMAIN store = Tables, NEW snap, NEW rows
  PROVE  Brought(store, ProvidersFor(store, rows), snap)
BY TableElse DEF ProvidersFor, Tables, Observed

(* Of a table, the rows of after are rows of before or came with snap; no other table changed. *)
OneTable(before, after, t, snap) ==
  /\ DOMAIN after = DOMAIN before
  /\ \A u \in DOMAIN before \ {t} : after[u] = before[u]
  /\ \A k \in DOMAIN after[t] :
       after[t][k].snap = snap \/ (k \in DOMAIN before[t] /\ after[t][k] = before[t][k])

LEMMA OneTableBrought ==
  ASSUME NEW before, NEW after, NEW snap, NEW t \in Observed, NEW first,
         Brought(before, first, snap), OneTable(first, after, t, snap)
  PROVE  Brought(before, after, snap)
<1>1. Brought(first, after, snap) BY DEF Brought, OneTable, Observed, Tables
<1>2. QED BY <1>1, BroughtTwice

LEMMA IdentifiersBrought ==
  ASSUME NEW store, DOMAIN store = Tables, NEW refs, NEW b, NEW snap, refs.snap = snap
  PROVE  Brought(store, UpsertIdentifiers(store, refs, b), snap)
<1> DEFINE first == ProvidersFor(store, EntityIdentifiers(refs, b))
           after == UpsertIdentifiers(store, refs, b)
<1>1. Brought(store, first, snap) BY ProvidersBrought
<1> HIDE DEF first
<1>2. "identifiers" \in DOMAIN first BY <1>1 DEF Brought, Tables
<1>3. OneTable(first, after, "identifiers", snap)
  BY <1>2 DEF OneTable, UpsertIdentifiers, PutAll, Over, first
<1> HIDE DEF after
<1>4. QED BY <1>1, <1>3, OneTableBrought DEF Observed, after

LEMMA AppearancesBrought ==
  ASSUME NEW store, DOMAIN store = Tables, NEW refs, NEW b, NEW snap, refs.snap = snap
  PROVE  Brought(store, UpsertAppearances(store, refs, b), snap)
<1> DEFINE after == UpsertAppearances(store, refs, b)
<1>1. OneTable(store, after, "appearances", snap)
  BY DEF OneTable, UpsertAppearances, PutAll, Over, Tables
<1> HIDE DEF after
<1>2. Brought(store, store, snap) BY DEF Brought
<1>3. QED BY <1>1, <1>2, OneTableBrought DEF Observed, after

LEMMA RegistrationsBrought ==
  ASSUME NEW store, DOMAIN store = Tables, NEW refs, NEW b, NEW snap, refs.snap = snap
  PROVE  Brought(store, UpsertRegistrations(store, refs, b), snap)
<1> DEFINE first == ProvidersFor(store, b.registrations)
           after == UpsertRegistrations(store, refs, b)
<1>1. Brought(store, first, snap) BY ProvidersBrought
<1> HIDE DEF first
<1>2. "registrations" \in DOMAIN first BY <1>1 DEF Brought, Tables
<1>3. OneTable(first, after, "registrations", snap)
  BY <1>2 DEF OneTable, UpsertRegistrations, PutAll, Over, first
<1> HIDE DEF after
<1>4. QED BY <1>1, <1>3, OneTableBrought DEF Observed, after

LEMMA MatchesBrought ==
  ASSUME NEW store, DOMAIN store = Tables, NEW refs, NEW b, NEW snap, refs.snap = snap
  PROVE  Brought(store, UpsertMatches(store, refs, b), snap)
<1> DEFINE first == ProvidersFor(store, b.matches)
           after == UpsertMatches(store, refs, b)
<1>1. Brought(store, first, snap) BY ProvidersBrought
<1> HIDE DEF first
<1>2. "matches" \in DOMAIN first BY <1>1 DEF Brought, Tables
<1>3. OneTable(first, after, "matches", snap)
  BY <1>2 DEF OneTable, UpsertMatches, PutAll, Over, first
<1> HIDE DEF after
<1>4. QED BY <1>1, <1>3, OneTableBrought DEF Observed, after

LEMMA MatchIdentifiersBrought ==
  ASSUME NEW store, DOMAIN store = Tables, NEW refs, NEW b, NEW snap, refs.snap = snap
  PROVE  Brought(store, UpsertMatchIdentifiers(store, refs, b), snap)
<1> DEFINE first == ProvidersFor(store, MatchIdentifiers(refs, b))
           after == UpsertMatchIdentifiers(store, refs, b)
<1>1. Brought(store, first, snap) BY ProvidersBrought
<1> HIDE DEF first
<1>2. "identifiers" \in DOMAIN first BY <1>1 DEF Brought, Tables
<1>3. OneTable(first, after, "identifiers", snap)
  BY <1>2 DEF OneTable, UpsertMatchIdentifiers, PutAll, Over, first
<1> HIDE DEF after
<1>4. QED BY <1>1, <1>3, OneTableBrought DEF Observed, after

LEMMA LineupsBrought ==
  ASSUME NEW store, DOMAIN store = Tables, NEW refs, NEW b, NEW snap, refs.snap = snap
  PROVE  Brought(store, UpsertLineups(store, refs, b), snap)
<1> DEFINE first == ProvidersFor(store, b.lineups)
           after == UpsertLineups(store, refs, b)
<1>1. Brought(store, first, snap) BY ProvidersBrought
<1> HIDE DEF first
<1>2. "lineups" \in DOMAIN first BY <1>1 DEF Brought, Tables
<1>3. OneTable(first, after, "lineups", snap)
  BY <1>2 DEF OneTable, UpsertLineups, PutAll, Over, first
<1> HIDE DEF after
<1>4. QED BY <1>1, <1>3, OneTableBrought DEF Observed, after

LEMMA EventsBrought ==
  ASSUME NEW store, DOMAIN store = Tables, NEW refs, NEW b, NEW snap, refs.snap = snap
  PROVE  Brought(store, UpsertEvents(store, refs, b), snap)
<1> DEFINE first == ProvidersFor(store, b.events)
           after == UpsertEvents(store, refs, b)
<1>1. Brought(store, first, snap) BY ProvidersBrought
<1> HIDE DEF first
<1>2. "events" \in DOMAIN first BY <1>1 DEF Brought, Tables
<1>3. OneTable(first, after, "events", snap)
  BY <1>2 DEF OneTable, UpsertEvents, PutAll, Over, first
<1> HIDE DEF after
<1>4. QED BY <1>1, <1>3, OneTableBrought DEF Observed, after

LEMMA CoveragesBrought ==
  ASSUME NEW store, DOMAIN store = Tables, NEW refs, NEW b, NEW snap, refs.snap = snap
  PROVE  Brought(store, UpsertCoverages(store, refs, b), snap)
<1> DEFINE first == ProvidersFor(store, b.coverages)
           after == UpsertCoverages(store, refs, b)
<1>1. Brought(store, first, snap) BY ProvidersBrought
<1> HIDE DEF first
<1>2. "coverages" \in DOMAIN first BY <1>1 DEF Brought, Tables
<1>3. OneTable(first, after, "coverages", snap)
  BY <1>2 DEF OneTable, UpsertCoverages, PutAll, Over, first
<1> HIDE DEF after
<1>4. QED BY <1>1, <1>3, OneTableBrought DEF Observed, after

LEMMA EvidenceBrought ==
  ASSUME NEW store, DOMAIN store = Tables, NEW refs, NEW b, NEW snap, refs.snap = snap
  PROVE  Brought(store, UpsertEvidence(store, refs, b), snap)
<1> DEFINE first == ProvidersFor(store, b.evidence)
           after == UpsertEvidence(store, refs, b)
<1>1. Brought(store, first, snap) BY ProvidersBrought
<1> HIDE DEF first
<1>2. "evidence" \in DOMAIN first BY <1>1 DEF Brought, Tables
<1>3. OneTable(first, after, "evidence", snap)
  BY <1>2 DEF OneTable, UpsertEvidence, PutAll, Over, first
<1> HIDE DEF after
<1>4. QED BY <1>1, <1>3, OneTableBrought DEF Observed, after

LEMMA MetricsBrought ==
  ASSUME NEW store, DOMAIN store = Tables, NEW refs, NEW b, NEW sifted, NEW snap, refs.snap = snap
  PROVE  Brought(store, WriteMetrics(store, refs, b, sifted), snap)
<1> DEFINE seasons == [store EXCEPT !["seasons"] = Over(@, [l \in sifted.seasons |-> [current |-> FALSE]])]
           after == WriteMetrics(store, refs, b, sifted)
<1>1. Brought(store, seasons, snap) BY TableElse DEF Tables, Observed
<1> HIDE DEF seasons
<1>2. "metrics" \in DOMAIN seasons BY <1>1 DEF Brought, Tables
<1>3. OneTable(seasons, after, "metrics", snap)
  BY <1>2 DEF OneTable, WriteMetrics, Over, seasons
<1> HIDE DEF after
<1>4. QED BY <1>1, <1>3, OneTableBrought DEF Observed, after

(* The observations that were sifted are in the table, with the snapshot and their line. *)
LEMMA MetricsWritten ==
  ASSUME NEW store, DOMAIN store = Tables, NEW refs, NEW b, NEW sifted, NEW k \in DOMAIN sifted.rows
  PROVE  LET after == WriteMetrics(store, refs, b, sifted)["metrics"]
         IN  k \in DOMAIN after /\ after[k].snap = refs.snap /\ after[k].row = sifted.rows[k].row
<1> DEFINE row(m) == [value |-> m.value, row |-> m.row, snap |-> refs.snap,
                      by |-> IF m.by = None THEN b.source ELSE m.by]
           new == [i \in DOMAIN sifted.rows |-> row(sifted.rows[i])]
           kept == [i \in {i \in DOMAIN store["metrics"] : ~ReplacesMetric(refs, b, sifted, i)} |->
                      store["metrics"][i]]
           after == WriteMetrics(store, refs, b, sifted)["metrics"]
<1>1. "metrics" \in DOMAIN store BY DEF Tables
<1>2. after = Over(new, kept) BY <1>1 DEF WriteMetrics
<1>3. k \in DOMAIN new /\ new[k] = row(sifted.rows[k]) OBVIOUS
<1> HIDE DEF after, new, kept
<1>4. k \in DOMAIN after /\ after[k] = new[k] BY <1>2, <1>3 DEF Over
<1>5. QED BY <1>3, <1>4 DEF after

LEMMA ReferencesBrought ==
  ASSUME NEW store, DOMAIN store = Tables, NEW b, NEW snap
  PROVE  Brought(store, UpsertTeams(UpsertCompetitions(UpsertSeasons(UpsertProviders(store, b), b), b), b), snap)
<1>1. \A s : DOMAIN s = Tables => Brought(s, UpsertProviders(s, b), snap)
  BY TableElse DEF UpsertProviders, PutAll, Tables, Observed
<1>2. \A s : DOMAIN s = Tables => Brought(s, UpsertSeasons(s, b), snap)
  BY TableElse DEF UpsertSeasons, Tables, Observed
<1>3. \A s : DOMAIN s = Tables => Brought(s, UpsertCompetitions(s, b), snap)
  BY TableElse DEF UpsertCompetitions, PutAll, Tables, Observed
<1>4. \A s : DOMAIN s = Tables => Brought(s, UpsertTeams(s, b), snap)
  BY TableElse DEF UpsertTeams, Tables, Observed
<1>5. QED BY <1>1, <1>2, <1>3, <1>4, BroughtTwice DEF Brought

-----------------------------------------------------------------------------
(* Identity resolution: the recursive function exists, and what it keeps.   *)

Growth(f, players, links, rows, tag) ==
  f = [n \in 0..Len(rows) |->
         IF n = 0 THEN Unresolved(players, links, tag) ELSE ResolveOne(f[n - 1], rows[n], n)]

LEMMA GrowthExists ==
  ASSUME NEW players, NEW links, NEW rows, NEW tag, Len(rows) \in Nat
  PROVE  \E f : Growth(f, players, links, rows, tag)
<1> DEFINE start == Unresolved(players, links, tag)
           grown(f, i) == ResolveOne(f[i - 1], rows[i], i)
           is(f, n) == f = [i \in 0..n |-> IF i = 0 THEN start ELSE grown(f, i)]
           T == {n \in Nat : \E f : is(f, n)}
<1> HIDE DEF start
<1>1. 0 \in T
  <2>1. is([i \in 0..0 |-> start], 0) OBVIOUS
  <2>2. QED BY <2>1
<1>2. ASSUME NEW n \in Nat, n \in T PROVE n + 1 \in T
  <2>1. PICK f : is(f, n) BY <1>2
  <2> DEFINE h == [i \in 0..(n + 1) |-> IF i <= n THEN f[i] ELSE grown(f, n + 1)]
  <2>2. \A i \in 0..(n + 1) : h[i] = IF i = 0 THEN start ELSE grown(h, i)
    <3> TAKE i \in 0..(n + 1)
    <3>1. CASE i <= n
      <4>1. i \in 0..n /\ (i # 0 => i - 1 \in 0..n /\ i - 1 \in 0..(n + 1)) BY <3>1
      <4>2. f[i] = IF i = 0 THEN start ELSE grown(f, i) BY <2>1, <4>1
      <4>3. h[i] = f[i] /\ (i # 0 => h[i - 1] = f[i - 1]) BY <3>1, <4>1
      <4> HIDE DEF h
      <4>4. QED BY <4>2, <4>3
    <3>2. CASE i = n + 1
      <4>1. h[i] = grown(f, n + 1) /\ h[i - 1] = f[i - 1] BY <3>2
      <4> HIDE DEF h
      <4>2. QED BY <3>2, <4>1
    <3>3. QED BY <3>1, <3>2
  <2>3. is(h, n + 1)
    <3>1. h = [i \in 0..(n + 1) |-> h[i]] OBVIOUS
    <3> HIDE DEF h
    <3>2. QED BY <2>2, <3>1
  <2>4. \E g : is(g, n + 1) BY <2>3
  <2> HIDE DEF is
  <2>5. QED BY <2>4
<1> HIDE DEF T
<1>3. Len(rows) \in T BY <1>1, <1>2, Inductive
<1>4. PICK f : is(f, Len(rows)) BY <1>3 DEF T
<1>5. QED BY <1>4 DEF Growth, start

LEMMA ResolutionUnfolds ==
  ASSUME NEW players, NEW links, NEW rows, NEW tag, Len(rows) \in Nat
  PROVE  \E f : /\ Growth(f, players, links, rows, tag)
               /\ ResolvePlayers(players, links, rows, tag) = f[Len(rows)]
<1> DEFINE g == CHOOSE f : Growth(f, players, links, rows, tag)
<1>1. Growth(g, players, links, rows, tag) BY GrowthExists
<1>2. ResolvePlayers(players, links, rows, tag) = g[Len(rows)] BY Zenon DEF ResolvePlayers, Growth
<1> HIDE DEF g
<1>3. QED BY <1>1, <1>2

ResolutionFields == {"stored", "known", "tag", "players", "links", "made", "resolved", "ambiguous"}

Linked(players, links) == \A key \in DOMAIN links : links[key] \in DOMAIN players

(* acc started from the tables players and links: nobody is lost, whoever is new bears the
   tag, and every link is somebody's. *)
Resolving(acc, players, links, tag) ==
  /\ DOMAIN acc = ResolutionFields
  /\ acc.stored = players /\ acc.known = links /\ acc.tag = tag
  /\ DOMAIN acc.players = DOMAIN players \cup DOMAIN acc.made /\ IsFiniteSet(DOMAIN acc.made)
  /\ \A id \in DOMAIN acc.players : id \in DOMAIN players \/ id[1] = tag
  /\ Linked(acc.players, acc.links) /\ DOMAIN links \subseteq DOMAIN acc.links

LEMMA ResolveOneFacts ==
  ASSUME NEW players, NEW links, NEW tag, Linked(players, links),
         NEW acc, Resolving(acc, players, links, tag), NEW p, NEW i
  PROVE  Resolving(ResolveOne(acc, p, i), players, links, tag)
<1> DEFINE key == SourceKey(p)
           found == Matching(acc.stored, acc.made, p)
           new == <<acc.tag, Cardinality(DOMAIN acc.made) + 1>>
           row == ApplyFields(Blank, p)
<1>0. DOMAIN acc = ResolutionFields BY DEF Resolving
<1>1. CASE key \in DOMAIN acc.known
  <2> DEFINE id == acc.known[key]
  <2>1. id \in DOMAIN players BY <1>1 DEF Resolving, Linked
  <2>2. \E x, y : ResolveOne(acc, p, i) = [acc EXCEPT !.players = With(@, id, x), !.resolved = y]
    BY <1>1 DEF ResolveOne
  <2>3. PICK x, y : ResolveOne(acc, p, i) = [acc EXCEPT !.players = With(@, id, x), !.resolved = y] BY <2>2
  <2> HIDE DEF id, key
  <2>4. QED BY <1>0, <2>1, <2>3 DEF Resolving, Linked, With, ResolutionFields
<1>2. CASE key \notin DOMAIN acc.known /\ Cardinality(found) > 1
  <2> DEFINE x == With(acc.ambiguous, i, Cardinality(found))
  <2>1. ResolveOne(acc, p, i) = [acc EXCEPT !.ambiguous = x] BY <1>2 DEF ResolveOne
  <2> HIDE DEF x
  <2>2. QED BY <1>0, <2>1 DEF Resolving, Linked, ResolutionFields
<1>3. CASE key \notin DOMAIN acc.known /\ Cardinality(found) = 1
  <2> DEFINE id == CHOOSE id \in found : TRUE
  <2>1. found # {} BY <1>3, FS_EmptySet
  <2>2. found \subseteq DOMAIN acc.players BY DEF Matching, Resolving
  <2> HIDE DEF found
  <2>3. id \in DOMAIN acc.players BY <2>1, <2>2
  <2> DEFINE y == With(acc.resolved, key, id)
  <2>4. ResolveOne(acc, p, i) = [acc EXCEPT !.links = With(@, key, id), !.resolved = y]
    <3>1. ~(Cardinality(found) > 1) BY <1>3
    <3>2. QED BY <1>3, <3>1 DEF ResolveOne, found
  <2> HIDE DEF id, key, y
  <2>5. QED BY <1>0, <2>3, <2>4 DEF Resolving, Linked, With, ResolutionFields
<1>4. CASE key \notin DOMAIN acc.known /\ ~(Cardinality(found) > 1) /\ Cardinality(found) # 1
  <2>1. PICK y : ResolveOne(acc, p, i) = [acc EXCEPT !.players = With(@, new, row), !.made = With(@, new, row),
                                                     !.links = With(@, key, new), !.resolved = y]
    BY <1>4 DEF ResolveOne
  <2>2. new[1] = tag BY DEF Resolving
  <2> HIDE DEF new, key, row
  <2>3. IsFiniteSet(DOMAIN acc.made \cup {new}) BY FS_AddElement DEF Resolving
  <2>4. QED BY <1>0, <2>1, <2>2, <2>3 DEF Resolving, Linked, With, ResolutionFields
<1>5. QED BY <1>1, <1>2, <1>3, <1>4

LEMMA ResolvePlayersFacts ==
  ASSUME NEW players, NEW links, NEW tag, Linked(players, links), NEW rows, Len(rows) \in Nat
  PROVE  Resolving(ResolvePlayers(players, links, rows, tag), players, links, tag)
<1>1. PICK f : /\ Growth(f, players, links, rows, tag)
               /\ ResolvePlayers(players, links, rows, tag) = f[Len(rows)]
  BY ResolutionUnfolds
<1> DEFINE T == {n \in Nat : n <= Len(rows) => Resolving(f[n], players, links, tag)}
<1>2. 0 \in T
  <2>1. f[0] = Unresolved(players, links, tag) BY <1>1 DEF Growth
  <2>2. Resolving(Unresolved(players, links, tag), players, links, tag)
    BY FS_EmptySet DEF Resolving, Unresolved, ResolutionFields
  <2>3. QED BY <2>1, <2>2
<1>3. ASSUME NEW n \in Nat, n \in T PROVE n + 1 \in T
  <2> SUFFICES ASSUME n + 1 <= Len(rows) PROVE Resolving(f[n + 1], players, links, tag) OBVIOUS
  <2>1. Resolving(f[n], players, links, tag) BY <1>3
  <2>2. f[n + 1] = ResolveOne(f[n], rows[n + 1], n + 1)
    <3>1. n + 1 \in 0..Len(rows) /\ n + 1 # 0 /\ (n + 1) - 1 = n BY <1>3
    <3>2. QED BY <1>1, <3>1 DEF Growth
  <2>3. QED BY <2>1, <2>2, ResolveOneFacts
<1> HIDE DEF T
<1>4. Len(rows) \in T BY <1>2, <1>3, Inductive
<1>5. QED BY <1>1, <1>4 DEF T

(* The stored players a record without a link could be. *)
Namesakes(players, p) ==
  {id \in DOMAIN players : players[id].name = p.name /\ players[id].birth = ParseDate(p.birth)}
TwoNamesakes(players, p) == ParseDate(p.birth) # None /\ Cardinality(Namesakes(players, p)) > 1

LEMMA MatchesManyPeople ==
  ASSUME NEW players, NEW links, NEW tag, NEW acc, Resolving(acc, players, links, tag),
         IsFiniteSet(DOMAIN players), NEW p, TwoNamesakes(players, p)
  PROVE  Cardinality(Matching(acc.stored, acc.made, p)) > 1
<1> DEFINE found == Matching(acc.stored, acc.made, p)
           same == Namesakes(players, p)
<1>1. same \subseteq found BY DEF Matching, Resolving, TwoNamesakes, Namesakes
<1>2. found \subseteq DOMAIN players \cup DOMAIN acc.made BY DEF Matching, Resolving
<1>3. IsFiniteSet(DOMAIN players \cup DOMAIN acc.made) BY FS_Union DEF Resolving
<1> HIDE DEF found, same
<1>4. IsFiniteSet(found) BY <1>2, <1>3, FS_Subset
<1>5. IsFiniteSet(same) /\ Cardinality(same) <= Cardinality(found) BY <1>1, <1>4, FS_Subset
<1>6. Cardinality(same) \in Nat /\ Cardinality(found) \in Nat BY <1>4, <1>5, FS_CardinalityType
<1>7. Cardinality(same) > 1 BY DEF TwoNamesakes, same
<1>8. Cardinality(found) > 1 BY <1>5, <1>6, <1>7
<1>9. QED BY <1>8 DEF found

(* A record links its own key and no other, and one that several people match links none. *)
LEMMA ResolveOneLinks ==
  ASSUME NEW players, NEW links, NEW tag, NEW acc, Resolving(acc, players, links, tag), NEW p, NEW i
  PROVE  LET after == ResolveOne(acc, p, i)
         IN  /\ DOMAIN after.links \subseteq DOMAIN acc.links \cup {SourceKey(p)}
             /\ DOMAIN acc.ambiguous \subseteq DOMAIN after.ambiguous
             /\ SourceKey(p) \notin DOMAIN links /\ Cardinality(Matching(acc.stored, acc.made, p)) > 1 =>
                  after.links = acc.links /\ i \in DOMAIN after.ambiguous
<1> DEFINE key == SourceKey(p)
           found == Matching(acc.stored, acc.made, p)
           new == <<acc.tag, Cardinality(DOMAIN acc.made) + 1>>
           row == ApplyFields(Blank, p)
           after == ResolveOne(acc, p, i)
<1>0. DOMAIN acc = ResolutionFields /\ acc.known = links BY DEF Resolving
<1>1. CASE key \in DOMAIN acc.known
  <2>1. \E x, y : after = [acc EXCEPT !.players = x, !.resolved = y] BY <1>1 DEF ResolveOne
  <2> HIDE DEF after
  <2>2. after.links = acc.links /\ after.ambiguous = acc.ambiguous BY <1>0, <2>1 DEF ResolutionFields
  <2> HIDE DEF key
  <2>3. QED BY <1>0, <1>1, <2>2 DEF after, key
<1>2. CASE key \notin DOMAIN acc.known /\ Cardinality(found) > 1
  <2> DEFINE n == Cardinality(found)
             x == With(acc.ambiguous, i, n)
  <2>1. after = [acc EXCEPT !.ambiguous = x] BY <1>2 DEF ResolveOne
  <2> HIDE DEF after, n
  <2>2. after.links = acc.links /\ DOMAIN after.ambiguous = DOMAIN acc.ambiguous \cup {i}
    BY <1>0, <2>1 DEF ResolutionFields, With
  <2>3. QED BY <2>2 DEF after
<1>3. CASE key \notin DOMAIN acc.known /\ Cardinality(found) = 1
  <2>1. \E id, y : after = [acc EXCEPT !.links = With(@, key, id), !.resolved = y]
    <3>1. ~(Cardinality(found) > 1) BY <1>3
    <3>2. QED BY <1>3, <3>1 DEF ResolveOne
  <2> HIDE DEF after, key
  <2>2. DOMAIN after.links = DOMAIN acc.links \cup {key} /\ after.ambiguous = acc.ambiguous
    BY <1>0, <2>1 DEF ResolutionFields, With
  <2>3. ~(Cardinality(found) > 1) BY <1>3
  <2>4. QED BY <2>2, <2>3 DEF after, key
<1>4. CASE key \notin DOMAIN acc.known /\ ~(Cardinality(found) > 1) /\ Cardinality(found) # 1
  <2>1. \E x, y, z, w : after = [acc EXCEPT !.players = x, !.made = y, !.links = With(@, key, z), !.resolved = w]
    BY <1>4 DEF ResolveOne
  <2> HIDE DEF after, key
  <2>2. DOMAIN after.links = DOMAIN acc.links \cup {key} /\ after.ambiguous = acc.ambiguous
    BY <1>0, <2>1 DEF ResolutionFields, With
  <2>3. QED BY <1>4, <2>2 DEF after, key
<1>5. QED BY <1>1, <1>2, <1>3, <1>4

LEMMA AmbiguousLeftOut ==
  ASSUME NEW players, NEW links, NEW tag, Linked(players, links), IsFiniteSet(DOMAIN players),
         NEW rows, Len(rows) \in Nat, NEW i \in 1..Len(rows),
         SourceKey(rows[i]) \notin DOMAIN links, TwoNamesakes(players, rows[i]),
         \A k \in 1..Len(rows) : SourceKey(rows[k]) = SourceKey(rows[i]) => k = i
  PROVE  LET ids == ResolvePlayers(players, links, rows, tag)
         IN  SourceKey(rows[i]) \notin DOMAIN ids.links /\ i \in DOMAIN ids.ambiguous
<1> DEFINE key == SourceKey(rows[i])
<1>1. PICK f : /\ Growth(f, players, links, rows, tag)
               /\ ResolvePlayers(players, links, rows, tag) = f[Len(rows)]
  BY ResolutionUnfolds
<1> DEFINE leftOut(acc, n) == key \notin DOMAIN acc.links /\ (n >= i => i \in DOMAIN acc.ambiguous)
           T == {n \in Nat : n <= Len(rows) => Resolving(f[n], players, links, tag) /\ leftOut(f[n], n)}
<1>2. 0 \in T
  <2>1. f[0] = Unresolved(players, links, tag) BY <1>1 DEF Growth
  <2>2. Resolving(Unresolved(players, links, tag), players, links, tag)
    BY FS_EmptySet DEF Resolving, Unresolved, ResolutionFields
  <2>3. f[0].links = links BY <2>1 DEF Unresolved
  <2>4. QED BY <2>1, <2>2, <2>3
<1>3. ASSUME NEW n \in Nat, n \in T PROVE n + 1 \in T
  <2> HIDE DEF leftOut
  <2> SUFFICES ASSUME n + 1 <= Len(rows)
               PROVE  Resolving(f[n + 1], players, links, tag) /\ leftOut(f[n + 1], n + 1)
    OBVIOUS
  <2>0. Resolving(f[n], players, links, tag) /\ leftOut(f[n], n) BY <1>3
  <2> USE DEF leftOut
  <2>1. /\ Resolving(f[n], players, links, tag) /\ key \notin DOMAIN f[n].links
        /\ n >= i => i \in DOMAIN f[n].ambiguous
    BY <2>0
  <2>2. f[n + 1] = ResolveOne(f[n], rows[n + 1], n + 1)
    <3>1. n + 1 \in 0..Len(rows) /\ n + 1 # 0 /\ (n + 1) - 1 = n BY <1>3
    <3>2. QED BY <1>1, <3>1 DEF Growth
  <2>3. Resolving(f[n + 1], players, links, tag) BY <2>1, <2>2, ResolveOneFacts
  <2>4. /\ DOMAIN f[n + 1].links \subseteq DOMAIN f[n].links \cup {SourceKey(rows[n + 1])}
        /\ DOMAIN f[n].ambiguous \subseteq DOMAIN f[n + 1].ambiguous
        /\ /\ SourceKey(rows[n + 1]) \notin DOMAIN links
           /\ Cardinality(Matching(f[n].stored, f[n].made, rows[n + 1])) > 1
           => f[n + 1].links = f[n].links /\ n + 1 \in DOMAIN f[n + 1].ambiguous
    BY <2>1, <2>2, ResolveOneLinks
  <2>5. CASE n + 1 = i
    <3>1. Cardinality(Matching(f[n].stored, f[n].made, rows[n + 1])) > 1 BY <2>1, <2>5, MatchesManyPeople
    <3>2. QED BY <2>1, <2>3, <2>4, <2>5, <3>1
  <2>6. CASE n + 1 # i
    <3>1. SourceKey(rows[n + 1]) # key BY <2>6
    <3>2. n + 1 >= i => n >= i BY <2>6
    <3> HIDE DEF key
    <3>3. QED BY <2>1, <2>3, <2>4, <3>1, <3>2
  <2>7. QED BY <2>5, <2>6
<1> HIDE DEF T
<1>4. Len(rows) \in T BY <1>2, <1>3, Inductive
<1>5. Len(rows) <= Len(rows) /\ Len(rows) >= i OBVIOUS
<1> HIDE DEF leftOut
<1>6. leftOut(f[Len(rows)], Len(rows)) BY <1>4, <1>5 DEF T
<1>7. QED BY <1>1, <1>5, <1>6 DEF leftOut

(* acc started from the tables with links: those have kept their meaning, and who is resolved is
   who the link names. *)
Agreeing(acc, links) ==
  /\ \A key \in DOMAIN links : key \in DOMAIN acc.links /\ acc.links[key] = links[key]
  /\ \A key \in DOMAIN acc.resolved : key \in DOMAIN acc.links /\ acc.links[key] = acc.resolved[key]

LEMMA ResolveOneAgrees ==
  ASSUME NEW players, NEW links, NEW tag, NEW acc, Resolving(acc, players, links, tag), Agreeing(acc, links),
         NEW p, NEW i
  PROVE  LET after == ResolveOne(acc, p, i)
         IN  /\ Agreeing(after, links)
             /\ DOMAIN acc.links \subseteq DOMAIN after.links
             /\ DOMAIN acc.ambiguous \subseteq DOMAIN after.ambiguous
             /\ SourceKey(p) \in DOMAIN after.links \/ i \in DOMAIN after.ambiguous
<1> DEFINE key == SourceKey(p)
           found == Matching(acc.stored, acc.made, p)
           after == ResolveOne(acc, p, i)
<1>0. DOMAIN acc = ResolutionFields /\ acc.known = links BY DEF Resolving
<1>1. CASE key \in DOMAIN acc.known
  <2> DEFINE id == acc.known[key]
  <2>1. \E x : after = [acc EXCEPT !.players = x, !.resolved = With(@, key, id)] BY <1>1 DEF ResolveOne
  <2>2. key \in DOMAIN acc.links /\ acc.links[key] = id BY <1>0, <1>1 DEF Agreeing
  <2> HIDE DEF after, id, key
  <2>3. /\ after.links = acc.links /\ after.ambiguous = acc.ambiguous
        /\ after.resolved = With(acc.resolved, key, id)
    BY <1>0, <2>1 DEF ResolutionFields
  <2>4. Agreeing(after, links) BY <2>2, <2>3 DEF Agreeing, With
  <2>5. QED BY <2>2, <2>3, <2>4 DEF after, key
<1>2. CASE key \notin DOMAIN acc.known /\ Cardinality(found) > 1
  <2> DEFINE n == Cardinality(found)
             x == With(acc.ambiguous, i, n)
  <2>1. after = [acc EXCEPT !.ambiguous = x] BY <1>2 DEF ResolveOne
  <2> HIDE DEF after, n
  <2>2. /\ after.links = acc.links /\ DOMAIN after.ambiguous = DOMAIN acc.ambiguous \cup {i}
        /\ after.resolved = acc.resolved
    BY <1>0, <2>1 DEF ResolutionFields, With
  <2>3. Agreeing(after, links) BY <2>2 DEF Agreeing
  <2>4. QED BY <2>2, <2>3 DEF after
<1>3. CASE key \notin DOMAIN acc.known /\ ~(Cardinality(found) > 1)
  <2>1. \E x, y, id : after = [acc EXCEPT !.players = x, !.made = y, !.links = With(@, key, id),
                                         !.resolved = With(@, key, id)]
    <3>1. CASE Cardinality(found) = 1
      <4> DEFINE id == CHOOSE id \in found : TRUE
                 z == With(acc.links, key, id)
                 w == With(acc.resolved, key, id)
      <4>1. after = [acc EXCEPT !.links = z, !.resolved = w] BY <1>3, <3>1 DEF ResolveOne
      <4> HIDE DEF after, z, w
      <4>2. after = [acc EXCEPT !.players = acc.players, !.made = acc.made, !.links = z, !.resolved = w]
        BY <1>0, <4>1 DEF ResolutionFields
      <4>3. QED BY <4>2 DEF z, w
    <3>2. CASE Cardinality(found) # 1
      <4> DEFINE new == <<acc.tag, Cardinality(DOMAIN acc.made) + 1>>
                 row == ApplyFields(Blank, p)
      <4>1. after = [acc EXCEPT !.players = With(@, new, row), !.made = With(@, new, row),
                                !.links = With(@, key, new), !.resolved = With(@, key, new)]
        BY <1>3, <3>2 DEF ResolveOne
      <4> HIDE DEF after, new, row
      <4>2. QED BY <4>1
    <3>3. QED BY <3>1, <3>2
  <2>2. PICK x, y, id : after = [acc EXCEPT !.players = x, !.made = y, !.links = With(@, key, id),
                                           !.resolved = With(@, key, id)]
    BY <2>1
  <2>3. key \notin DOMAIN links BY <1>0, <1>3
  <2> HIDE DEF after, key
  <2>4. /\ after.links = With(acc.links, key, id) /\ after.ambiguous = acc.ambiguous
        /\ after.resolved = With(acc.resolved, key, id)
    BY <1>0, <2>2 DEF ResolutionFields
  <2>5. Agreeing(after, links) BY <2>3, <2>4 DEF Agreeing, With
  <2>6. key \in DOMAIN after.links /\ DOMAIN acc.links \subseteq DOMAIN after.links BY <2>4 DEF With
  <2>7. QED BY <2>4, <2>5, <2>6 DEF after, key
<1>4. QED BY <1>1, <1>2, <1>3

(* Links keep their meaning, and each record is linked or ambiguous when the batch is done. *)
LEMMA ResolvePlayersAgrees ==
  ASSUME NEW players, NEW links, NEW tag, Linked(players, links), NEW rows, Len(rows) \in Nat
  PROVE  LET ids == ResolvePlayers(players, links, rows, tag)
         IN  /\ Agreeing(ids, links)
             /\ \A i \in 1..Len(rows) : SourceKey(rows[i]) \in DOMAIN ids.links \/ i \in DOMAIN ids.ambiguous
<1>1. PICK f : /\ Growth(f, players, links, rows, tag)
               /\ ResolvePlayers(players, links, rows, tag) = f[Len(rows)]
  BY ResolutionUnfolds
<1> DEFINE met(acc, n) == \A i \in 1..n : SourceKey(rows[i]) \in DOMAIN acc.links \/ i \in DOMAIN acc.ambiguous
           fine(n) == Resolving(f[n], players, links, tag) /\ Agreeing(f[n], links) /\ met(f[n], n)
           T == {n \in Nat : n <= Len(rows) => fine(n)}
<1>2. 0 \in T
  <2>1. f[0] = Unresolved(players, links, tag) BY <1>1 DEF Growth
  <2>2. Resolving(Unresolved(players, links, tag), players, links, tag)
    BY FS_EmptySet DEF Resolving, Unresolved, ResolutionFields
  <2>3. Agreeing(Unresolved(players, links, tag), links) BY DEF Agreeing, Unresolved
  <2>4. QED BY <2>1, <2>2, <2>3
<1>3. ASSUME NEW n \in Nat, n \in T PROVE n + 1 \in T
  <2> SUFFICES ASSUME n + 1 <= Len(rows) PROVE fine(n + 1) OBVIOUS
  <2>1. fine(n) BY <1>3
  <2>2. f[n + 1] = ResolveOne(f[n], rows[n + 1], n + 1)
    <3>1. n + 1 \in 0..Len(rows) /\ n + 1 # 0 /\ (n + 1) - 1 = n BY <1>3
    <3>2. QED BY <1>1, <3>1 DEF Growth
  <2>3. Resolving(f[n + 1], players, links, tag) BY <2>1, <2>2, ResolveOneFacts
  <2>4. /\ Agreeing(f[n + 1], links)
        /\ DOMAIN f[n].links \subseteq DOMAIN f[n + 1].links
        /\ DOMAIN f[n].ambiguous \subseteq DOMAIN f[n + 1].ambiguous
        /\ SourceKey(rows[n + 1]) \in DOMAIN f[n + 1].links \/ n + 1 \in DOMAIN f[n + 1].ambiguous
    BY <2>1, <2>2, ResolveOneAgrees
  <2>5. ASSUME NEW i \in 1..(n + 1)
        PROVE  SourceKey(rows[i]) \in DOMAIN f[n + 1].links \/ i \in DOMAIN f[n + 1].ambiguous
    <3>1. CASE i = n + 1 BY <2>4, <3>1
    <3>2. CASE i # n + 1
      <4>1. i \in 1..n BY <1>3, <3>2
      <4>2. QED BY <2>1, <2>4, <4>1
    <3>3. QED BY <3>1, <3>2
  <2>6. QED BY <2>3, <2>4, <2>5
<1> HIDE DEF T, fine
<1>4. Len(rows) \in T BY <1>2, <1>3, Inductive
<1>5. Len(rows) <= Len(rows) OBVIOUS
<1>6. fine(Len(rows)) BY <1>4, <1>5 DEF T
<1>7. QED BY <1>1, <1>6 DEF fine

(* Records of distinct source keys still have them when the unsupported ones are left out. *)
LEMMA PublishableKeys ==
  ASSUME NEW b, IsList(b.players),
         \A i, k \in DOMAIN b.players : SourceKey(b.players[i]) = SourceKey(b.players[k]) => i = k
  PROVE  \A i, k \in 1..Len(Publishable(b)) :
           SourceKey(Publishable(b)[i]) = SourceKey(Publishable(b)[k]) => i = k
<1> DEFINE s == b.players
           S == {s[i] : i \in DOMAIN s}
           rows == Publishable(b)
<1>1. PICK keep : rows = Sublist(s, keep) BY DEF Publishable
<1>2. s \in Seq(S) /\ DOMAIN s = 1..Len(s) BY ListIs DEF IsList
<1> HIDE DEF S, s, rows
<1>3. Leaves(rows, s, Len(s), keep) /\ rows \in Seq(S) BY <1>1, <1>2, SublistFacts
<1>4. PICK at \in [1..Len(rows) -> 1..Len(s)] :
        /\ \A i, j \in 1..Len(rows) : i < j => at[i] < at[j]
        /\ \A i \in 1..Len(rows) : rows[i] = s[at[i]]
  BY <1>3 DEF Leaves
<1>5. \A i, k \in 1..Len(s) : SourceKey(s[i]) = SourceKey(s[k]) => i = k BY <1>2 DEF s
<1>6. ASSUME NEW i \in 1..Len(rows), NEW k \in 1..Len(rows), SourceKey(rows[i]) = SourceKey(rows[k])
      PROVE  i = k
  <2>1. at[i] = at[k] BY <1>4, <1>5, <1>6
  <2>2. Len(rows) \in Nat /\ at[i] \in 1..Len(s) /\ at[k] \in 1..Len(s) BY <1>3, <1>4
  <2>3. ~(i < k) /\ ~(k < i) BY <1>3, <1>4, <2>1, <2>2
  <2>4. QED BY <2>2, <2>3
<1>7. QED BY <1>6 DEF rows

(* What publishing a bundle makes of the tables: nobody is lost, whoever is new bears the tag of
   the run, links stay and are somebody's, and the observations that changed came with the snapshot. *)
Published(before, after, snap, tag) ==
  /\ DOMAIN after = Tables
  /\ DOMAIN before["players"] \subseteq DOMAIN after["players"]
  /\ \A id \in DOMAIN after["players"] : id \in DOMAIN before["players"] \/ id[1] = tag
  /\ IsFiniteSet(DOMAIN before["players"]) => IsFiniteSet(DOMAIN after["players"])
  /\ Linked(after["players"], after["links"]) /\ DOMAIN before["links"] \subseteq DOMAIN after["links"]
  /\ \A t \in Observed : \A k \in DOMAIN after[t] :
       after[t][k].snap = snap \/ (k \in DOMAIN before[t] /\ after[t][k] = before[t][k])

(* How a publication is put together, from what resolution made of the records (ids) and from the
   tables when the observations are sifted (seen). *)
Composed(pub, store, b, snap, tag, ids, seen, refs) ==
  /\ Published(store, pub.db, snap, tag) /\ pub.db["links"] = ids.links
  /\ DOMAIN seen = Tables /\ seen["links"] = ids.links
  /\ refs = Refs(b, ids.resolved, snap) /\ pub.players = ids.resolved
  /\ pub.sifted = SiftMetrics(seen, refs, b)
  /\ pub.db = WriteMetrics(seen, refs, b, pub.sifted)
  /\ pub.candidates = b.candidates \o Ambiguities(Publishable(b), ids) \o pub.sifted.rejected

LEMMA PublishUnfolds ==
  ASSUME NEW store, DOMAIN store = Tables, Linked(store["players"], store["links"]),
         NEW b, IsList(b.players), NEW snap, NEW tag
  PROVE  \E seen, refs :
           Composed(Publish(store, b, snap, tag), store, b, snap, tag,
                    ResolvePlayers(store["players"], store["links"], Publishable(b), tag), seen, refs)
<1> DEFINE rows == Publishable(b)
           named == UpsertTeams(UpsertCompetitions(UpsertSeasons(UpsertProviders(store, b), b), b), b)
           ids == ResolvePlayers(named["players"], named["links"], rows, tag)
           refs == Refs(b, ids.resolved, snap)
           known == [named EXCEPT !["players"] = ids.players, !["links"] = ids.links]
           s1 == UpsertIdentifiers(known, refs, b)
           s2 == UpsertAppearances(s1, refs, b)
           s3 == UpsertRegistrations(s2, refs, b)
           s4 == UpsertMatches(s3, refs, b)
           s5 == UpsertMatchIdentifiers(s4, refs, b)
           s6 == UpsertLineups(s5, refs, b)
           s7 == UpsertEvents(s6, refs, b)
           s8 == UpsertCoverages(s7, refs, b)
           s9 == UpsertEvidence(s8, refs, b)
           sifted == SiftMetrics(s9, refs, b)
           after == WriteMetrics(s9, refs, b, sifted)
           pub == Publish(store, b, snap, tag)
<1>0. /\ pub.db = after /\ pub.players = ids.resolved /\ pub.sifted = sifted
      /\ pub.candidates = b.candidates \o Ambiguities(rows, ids) \o sifted.rejected
  BY DEF Publish
<1>1. Len(rows) \in Nat BY PublishableIsList, ListIs
<1>2. Brought(store, named, snap) BY ReferencesBrought
<1>3. refs.snap = snap /\ refs = Refs(b, ids.resolved, snap) BY DEF Refs
<1> HIDE DEF rows, named, refs, sifted, pub
<1>4. named["players"] = store["players"] /\ named["links"] = store["links"] BY <1>2 DEF Brought
<1>5. /\ Resolving(ids, store["players"], store["links"], tag)
      /\ ids = ResolvePlayers(store["players"], store["links"], rows, tag)
  BY <1>1, <1>4, ResolvePlayersFacts
<1> HIDE DEF ids
<1>6. /\ DOMAIN known = Tables /\ known["players"] = ids.players /\ known["links"] = ids.links
      /\ \A t \in Observed : known[t] = named[t]
  BY <1>2 DEF Brought, Tables, Observed
<1> HIDE DEF known
<1>7. Brought(known, s1, snap) BY <1>3, <1>6, IdentifiersBrought
<1> HIDE DEF s1
<1>8. Brought(known, s2, snap) BY <1>3, <1>7, AppearancesBrought, BroughtTwice DEF Brought
<1> HIDE DEF s2
<1>9. Brought(known, s3, snap) BY <1>3, <1>8, RegistrationsBrought, BroughtTwice DEF Brought
<1> HIDE DEF s3
<1>10. Brought(known, s4, snap) BY <1>3, <1>9, MatchesBrought, BroughtTwice DEF Brought
<1> HIDE DEF s4
<1>11. Brought(known, s5, snap) BY <1>3, <1>10, MatchIdentifiersBrought, BroughtTwice DEF Brought
<1> HIDE DEF s5
<1>12. Brought(known, s6, snap) BY <1>3, <1>11, LineupsBrought, BroughtTwice DEF Brought
<1> HIDE DEF s6
<1>13. Brought(known, s7, snap) BY <1>3, <1>12, EventsBrought, BroughtTwice DEF Brought
<1> HIDE DEF s7
<1>14. Brought(known, s8, snap) BY <1>3, <1>13, CoveragesBrought, BroughtTwice DEF Brought
<1> HIDE DEF s8
<1>15. Brought(known, s9, snap) BY <1>3, <1>14, EvidenceBrought, BroughtTwice DEF Brought
<1>19. sifted = SiftMetrics(s9, refs, b) /\ after = WriteMetrics(s9, refs, b, sifted) BY DEF sifted
<1> HIDE DEF s9
<1>16. Brought(known, after, snap) BY <1>3, <1>15, MetricsBrought, BroughtTwice DEF Brought
<1> HIDE DEF after
<1>17. Published(store, after, snap, tag) /\ after["links"] = ids.links
  <2>1. /\ DOMAIN after = Tables /\ after["players"] = ids.players /\ after["links"] = ids.links
    BY <1>6, <1>16 DEF Brought
  <2>2. ASSUME NEW t \in Observed, NEW k \in DOMAIN after[t]
        PROVE  after[t][k].snap = snap \/ (k \in DOMAIN store[t] /\ after[t][k] = store[t][k])
    <3>1. after[t][k].snap = snap \/ (k \in DOMAIN named[t] /\ after[t][k] = named[t][k])
      BY <1>6, <1>16 DEF Brought
    <3>2. QED BY <1>2, <3>1 DEF Brought
  <2>3. IsFiniteSet(DOMAIN store["players"]) => IsFiniteSet(DOMAIN after["players"])
    <3>1. /\ DOMAIN ids.players = DOMAIN store["players"] \cup DOMAIN ids.made
          /\ IsFiniteSet(DOMAIN ids.made)
      BY <1>5 DEF Resolving
    <3> DEFINE S == DOMAIN store["players"]
               T == DOMAIN ids.made
    <3>2. DOMAIN after["players"] = S \cup T BY <2>1, <3>1
    <3>3. IsFiniteSet(T) BY <3>1
    <3> HIDE DEF S, T
    <3>4. IsFiniteSet(S) => IsFiniteSet(S \cup T) BY <3>3, FS_Union
    <3>5. QED BY <3>2, <3>4 DEF S
  <2>4. QED BY <1>5, <2>1, <2>2, <2>3 DEF Published, Resolving
<1>20. DOMAIN s9 = Tables /\ s9["links"] = ids.links BY <1>6, <1>15 DEF Brought
<1>21. Composed(pub, store, b, snap, tag, ids, s9, refs)
  BY <1>0, <1>3, <1>17, <1>19, <1>20 DEF Composed, rows
<1>18. QED BY <1>5, <1>21 DEF rows, pub

(* ingest_bundle, whatever the tables and the bundle: nobody is lost, new players are this run's,
   and every observation that changed names the snapshot it came with. *)
THEOREM PublishFacts ==
  ASSUME NEW store, DOMAIN store = Tables, Linked(store["players"], store["links"]),
         NEW b, IsList(b.players), NEW snap, NEW tag
  PROVE  /\ Published(store, Publish(store, b, snap, tag).db, snap, tag)
         /\ Publish(store, b, snap, tag).db["links"] =
              ResolvePlayers(store["players"], store["links"], Publishable(b), tag).links
<1> DEFINE pub == Publish(store, b, snap, tag)
           ids == ResolvePlayers(store["players"], store["links"], Publishable(b), tag)
<1>1. PICK seen, refs : Composed(pub, store, b, snap, tag, ids, seen, refs) BY PublishUnfolds
<1> HIDE DEF pub, ids
<1>2. QED BY <1>1 DEF Composed, pub, ids

LEMMA RejectedIsList ==
  ASSUME NEW seen, NEW refs, NEW b, IsList(b.metrics)
  PROVE  IsList(SiftMetrics(seen, refs, b).rejected)
<1> DEFINE reason(i) == MetricReason(seen, refs, b, i)
           written == {i \in DOMAIN b.metrics : reason(i) = None}
           p == Places(b.metrics, DOMAIN b.metrics \ written)
           t == SiftMetrics(seen, refs, b).rejected
<1>1. t = [k \in DOMAIN p |-> MetricRejection(b, b.metrics[p[k]], reason(p[k]))]
  BY DEF SiftMetrics, Column
<1>2. t = [k \in DOMAIN p |-> t[k]] BY <1>1
<1> HIDE DEF t, written
<1>3. IsList(t) BY <1>2, PlacedColumn
<1>4. QED BY <1>3 DEF t

LEMMA PlaceReached ==
  ASSUME NEW s, IsList(s), NEW at, NEW i \in at \cap DOMAIN s
  PROVE  \E k \in DOMAIN Places(s, at) : Places(s, at)[k] = i
BY PlacesFacts

LEMMA JoinedMembers ==
  ASSUME NEW s, IsList(s), NEW t, IsList(t)
  PROVE  IsList(s \o t) /\ ToSet(s \o t) = ToSet(s) \cup ToSet(t)
<1> DEFINE S == {s[i] : i \in DOMAIN s} \cup {t[i] : i \in DOMAIN t}
<1>1. /\ Len(s) \in Nat /\ DOMAIN s = 1..Len(s) /\ s = [i \in 1..Len(s) |-> s[i]]
      /\ Len(t) \in Nat /\ DOMAIN t = 1..Len(t) /\ t = [i \in 1..Len(t) |-> t[i]]
  BY ListIs
<1>2. s \in Seq(S) /\ t \in Seq(S) BY <1>1
<1> HIDE DEF S
<1>3. ToSet(s \o t) = ToSet(s) \cup ToSet(t) BY <1>2, MembersJoined
<1>4. IsList(s \o t) BY JoinedLists
<1>5. QED BY <1>3, <1>4

(* A record resolution found ambiguous is among the rejections. *)
LEMMA AmbiguityListed ==
  ASSUME NEW rows, IsList(rows), NEW ids, NEW c, IsList(c), NEW rejected, IsList(rejected),
         NEW i \in DOMAIN rows, i \in DOMAIN ids.ambiguous
  PROVE  \E x \in ToSet(c \o Ambiguities(rows, ids) \o rejected) :
           /\ x.type = "player" /\ x.ext = rows[i].ext
           /\ x.reason = "unresolved_or_ambiguous_player_identity"
<1> DEFINE at == DOMAIN ids.ambiguous
           t == Ambiguities(rows, ids)
<1>1. PICK k \in DOMAIN Places(rows, at) : Places(rows, at)[k] = i
  <2> HIDE DEF at, t
  <2>1. i \in at \cap DOMAIN rows BY DEF at
  <2>2. QED BY <2>1, PlaceReached
<1>2. /\ t = [m \in DOMAIN Places(rows, at) |->
                 AmbiguityCandidate(rows[Places(rows, at)[m]], ids.ambiguous[Places(rows, at)[m]])]
  BY DEF Ambiguities, Column
<1>3. k \in DOMAIN t /\ t[k] = AmbiguityCandidate(rows[i], ids.ambiguous[i]) BY <1>1, <1>2
<1>4. /\ t[k].type = "player" /\ t[k].ext = rows[i].ext
      /\ t[k].reason = "unresolved_or_ambiguous_player_identity"
  BY <1>3 DEF AmbiguityCandidate, Candidate
<1>5. IsList(t)
  <2>1. t = [m \in DOMAIN Places(rows, at) |-> t[m]] BY <1>2
  <2> HIDE DEF t, at
  <2>2. QED BY <2>1, PlacedColumn
<1> HIDE DEF t
<1>6. t[k] \in ToSet((c \o t) \o rejected)
  <2>1. t[k] \in ToSet(t) BY <1>3 DEF ToSet
  <2>2. IsList(c \o t) /\ t[k] \in ToSet(c \o t) BY <1>5, <2>1, JoinedMembers
  <2>3. QED BY <2>2, JoinedMembers
<1>7. QED BY <1>4, <1>6 DEF t

(* The rejections a bundle came with are among those of its publication. *)
LEMMA CandidateListed ==
  ASSUME NEW c, IsList(c), NEW rows, IsList(rows), NEW ids, NEW rejected, IsList(rejected), NEW x \in ToSet(c)
  PROVE  x \in ToSet(c \o Ambiguities(rows, ids) \o rejected)
<1> DEFINE at == DOMAIN ids.ambiguous
           t == Ambiguities(rows, ids)
<1>1. t = [m \in DOMAIN Places(rows, at) |-> t[m]] BY DEF Ambiguities, Column
<1> HIDE DEF t, at
<1>2. IsList(t) BY <1>1, PlacedColumn
<1>3. IsList(c \o t) /\ x \in ToSet(c \o t) BY <1>2, JoinedMembers
<1>4. x \in ToSet((c \o t) \o rejected) BY <1>3, JoinedMembers
<1>5. QED BY <1>4 DEF t

(* ingest_bundle leaves a record several stored players match without a link, and rejects it. *)
LEMMA AmbiguousRejected ==
  ASSUME NEW store, DOMAIN store = Tables, Linked(store["players"], store["links"]),
         IsFiniteSet(DOMAIN store["players"]),
         NEW b, IsList(b.players), IsList(b.candidates), IsList(b.metrics), NEW snap, NEW tag,
         \A i, k \in DOMAIN b.players : SourceKey(b.players[i]) = SourceKey(b.players[k]) => i = k,
         NEW p \in ToSet(Publishable(b)),
         SourceKey(p) \notin DOMAIN store["links"], TwoNamesakes(store["players"], p)
  PROVE  /\ SourceKey(p) \notin DOMAIN Publish(store, b, snap, tag).db["links"]
         /\ \E c \in ToSet(Publish(store, b, snap, tag).candidates) : c.type = "player" /\ c.ext = p.ext
<1> DEFINE rows == Publishable(b)
           ids == ResolvePlayers(store["players"], store["links"], rows, tag)
           pub == Publish(store, b, snap, tag)
<1>1. IsList(rows) BY PublishableIsList
<1>2. Len(rows) \in Nat /\ DOMAIN rows = 1..Len(rows) BY <1>1, ListIs
<1>3. \A i, k \in 1..Len(rows) : SourceKey(rows[i]) = SourceKey(rows[k]) => i = k BY PublishableKeys
<1>4. p \in ToSet(rows) OBVIOUS
<1>0. PICK seen, refs : Composed(pub, store, b, snap, tag, ids, seen, refs) BY PublishUnfolds
<1> HIDE DEF pub, ids
<1>5. /\ pub.db["links"] = ids.links
      /\ pub.candidates = b.candidates \o Ambiguities(rows, ids) \o SiftMetrics(seen, refs, b).rejected
  BY <1>0 DEF Composed
<1> USE DEF ids
<1> HIDE DEF rows
<1>6. PICK i \in 1..Len(rows) : p = rows[i] BY <1>2, <1>4 DEF ToSet
<1>7. SourceKey(p) \notin DOMAIN ids.links /\ i \in DOMAIN ids.ambiguous
  BY <1>2, <1>3, <1>6, AmbiguousLeftOut
<1> DEFINE c == b.candidates
           rejected == SiftMetrics(seen, refs, b).rejected
<1>8. IsList(rejected) BY RejectedIsList
<1> HIDE DEF ids, c, rejected
<1>9. \E x \in ToSet(c \o Ambiguities(rows, ids) \o rejected) :
        /\ x.type = "player" /\ x.ext = rows[i].ext
        /\ x.reason = "unresolved_or_ambiguous_player_identity"
  <2>1. IsList(c) BY DEF c
  <2>2. QED BY <1>1, <1>2, <1>7, <1>8, <2>1, AmbiguityListed
<1>10. QED BY <1>5, <1>6, <1>7, <1>9 DEF c, rejected, pub

(* An observation that is stored is one of the bundle, of the player its identity is linked to. *)
LEMMA SiftedOwner ==
  ASSUME NEW seen, NEW refs, NEW b, NEW links, seen["links"] = links,
         \A key \in DOMAIN refs.player : key \in DOMAIN links /\ links[key] = refs.player[key],
         NEW k \in DOMAIN SiftMetrics(seen, refs, b).rows
  PROVE  \E l \in DOMAIN links : l[2] = SiftMetrics(seen, refs, b).rows[k].ext /\ links[l] = k[1]
<1> DEFINE written == {i \in DOMAIN b.metrics : MetricReason(seen, refs, b, i) = None}
           key(i) == MetricKey(seen, refs, b, b.metrics[i])
           i == CHOOSE i \in written : key(i) = k
           m == b.metrics[i]
           l == <<IdSource(b, m), m.ext>>
<1>1. SiftMetrics(seen, refs, b).rows = [x \in {key(y) : y \in written} |-> b.metrics[CHOOSE y \in written : key(y) = x]]
  BY DEF SiftMetrics
<1>2. \E y \in written : key(y) = k BY <1>1
<1>3. i \in written /\ key(i) = k BY <1>2
<1>4. SiftMetrics(seen, refs, b).rows[k] = m BY <1>1, <1>2
<1> HIDE DEF i, key
<1>5. MetricPlayer(seen, refs, b, m) # None
  <2>1. MetricReason(seen, refs, b, i) = None BY <1>3
  <2>2. QED BY <2>1, NoneAssumption DEF MetricReason
<1>6. k[1] = MetricPlayer(seen, refs, b, m) BY <1>3 DEF key, MetricKey
<1>7. l \in DOMAIN refs.player \/ l \in DOMAIN seen["links"] BY <1>5 DEF MetricPlayer, Has
<1>8. l \in DOMAIN links /\ links[l] = k[1] BY <1>6, <1>7 DEF MetricPlayer, Has
<1>9. l[2] = m.ext OBVIOUS
<1>10. QED BY <1>4, <1>8, <1>9

(* What a publication answers for: links keep their meaning, who it resolved is linked, its
   observations are stored with its snapshot under the player their identity is linked to, and
   each player of the bundle is linked or among the rejections. *)
THEOREM PublishAnswers ==
  ASSUME NEW store, DOMAIN store = Tables, Linked(store["players"], store["links"]),
         NEW b, IsList(b.players), IsList(b.candidates), IsList(b.metrics), NEW snap, NEW tag
  PROVE  LET pub == Publish(store, b, snap, tag)
             links == pub.db["links"]
         IN  /\ \A key \in DOMAIN store["links"] : key \in DOMAIN links /\ links[key] = store["links"][key]
             /\ \A key \in DOMAIN pub.players : key \in DOMAIN links
             /\ \A k \in DOMAIN pub.sifted.rows :
                  /\ k \in DOMAIN pub.db["metrics"] /\ pub.db["metrics"][k].snap = snap
                  /\ pub.db["metrics"][k].row = pub.sifted.rows[k].row
                  /\ \E l \in DOMAIN links : l[2] = pub.sifted.rows[k].ext /\ links[l] = k[1]
             /\ \A p \in ToSet(b.players) :
                  \/ SourceKey(p) \in DOMAIN links
                  \/ \E c \in ToSet(pub.candidates) : c.ext = p.ext /\ c.reason \in LeftOutReasons
<1> DEFINE rows == Publishable(b)
           ids == ResolvePlayers(store["players"], store["links"], rows, tag)
           pub == Publish(store, b, snap, tag)
           links == pub.db["links"]
<1>1. IsList(rows) BY PublishableIsList
<1>2. Len(rows) \in Nat /\ DOMAIN rows = 1..Len(rows) BY <1>1, ListIs
<1>0. PICK seen, refs : Composed(pub, store, b, snap, tag, ids, seen, refs) BY PublishUnfolds
<1> HIDE DEF pub, ids
<1>3. /\ links = ids.links /\ DOMAIN seen = Tables /\ seen["links"] = ids.links
      /\ refs = Refs(b, ids.resolved, snap) /\ pub.players = ids.resolved
      /\ pub.sifted = SiftMetrics(seen, refs, b)
      /\ pub.db = WriteMetrics(seen, refs, b, pub.sifted)
      /\ pub.candidates = b.candidates \o Ambiguities(rows, ids) \o pub.sifted.rejected
  BY <1>0 DEF Composed
<1> USE DEF ids
<1>4. refs.snap = snap /\ refs.player = ids.resolved BY <1>3 DEF Refs
<1>5. /\ Agreeing(ids, store["links"])
      /\ \A i \in 1..Len(rows) : SourceKey(rows[i]) \in DOMAIN ids.links \/ i \in DOMAIN ids.ambiguous
  <2> HIDE DEF rows
  <2>1. QED BY <1>2, ResolvePlayersAgrees
<1> HIDE DEF ids
<1>6. /\ \A key \in DOMAIN store["links"] : key \in DOMAIN links /\ links[key] = store["links"][key]
      /\ \A key \in DOMAIN pub.players : key \in DOMAIN links
      /\ \A key \in DOMAIN refs.player : key \in DOMAIN links /\ links[key] = refs.player[key]
  BY <1>3, <1>4, <1>5 DEF Agreeing
<1>7. ASSUME NEW k \in DOMAIN pub.sifted.rows
      PROVE  /\ k \in DOMAIN pub.db["metrics"] /\ pub.db["metrics"][k].snap = snap
             /\ pub.db["metrics"][k].row = pub.sifted.rows[k].row
             /\ \E l \in DOMAIN links : l[2] = pub.sifted.rows[k].ext /\ links[l] = k[1]
  <2> DEFINE sifted == pub.sifted
             g == links
  <2>0. /\ pub.db = WriteMetrics(seen, refs, b, sifted) /\ sifted = SiftMetrics(seen, refs, b)
        /\ k \in DOMAIN sifted.rows /\ seen["links"] = g
        /\ \A key \in DOMAIN refs.player : key \in DOMAIN g /\ g[key] = refs.player[key]
    BY <1>3, <1>6, <1>7
  <2> HIDE DEF sifted, g
  <2>1. /\ k \in DOMAIN WriteMetrics(seen, refs, b, sifted)["metrics"]
        /\ WriteMetrics(seen, refs, b, sifted)["metrics"][k].snap = refs.snap
        /\ WriteMetrics(seen, refs, b, sifted)["metrics"][k].row = sifted.rows[k].row
    BY <1>3, <2>0, MetricsWritten
  <2>2. \E l \in DOMAIN g : l[2] = SiftMetrics(seen, refs, b).rows[k].ext /\ g[l] = k[1]
    BY <2>0, SiftedOwner
  <2>3. QED BY <1>4, <2>0, <2>1, <2>2 DEF sifted, g
<1>8. ASSUME NEW p \in ToSet(b.players)
      PROVE  \/ SourceKey(p) \in DOMAIN links
             \/ \E c \in ToSet(pub.candidates) : c.ext = p.ext /\ c.reason \in LeftOutReasons
  <2> DEFINE given == b.candidates
             rejected == pub.sifted.rejected
             unsupported == {c.ext : c \in {c \in ToSet(given) : c.reason = "unsupported_position_mapping"}}
  <2>1. IsList(rejected) BY <1>3, RejectedIsList
  <2>2. IsList(given) OBVIOUS
  <2>3. pub.candidates = given \o Ambiguities(rows, ids) \o rejected BY <1>3
  <2>4. CASE p.ext \in unsupported
    <3>1. PICK c \in ToSet(given) : c.reason = "unsupported_position_mapping" /\ c.ext = p.ext BY <2>4
    <3> HIDE DEF given, rejected, rows
    <3>2. c \in ToSet(given \o Ambiguities(rows, ids) \o rejected)
      BY <1>1, <2>1, <2>2, CandidateListed
    <3>3. QED BY <2>3, <3>1, <3>2 DEF LeftOutReasons
  <2>5. CASE p.ext \notin unsupported
    <3> DEFINE s == b.players
               keep == {x \in ToSet(s) : x.ext \notin unsupported}
               S == {s[i] : i \in DOMAIN s}
    <3>1. rows = Sublist(s, keep) BY DEF Publishable
    <3>2. s \in Seq(S) BY DEF IsList
    <3>3. p \in keep BY <2>5
    <3> HIDE DEF s, keep, S, rows, given, unsupported
    <3>4. ToSet(Sublist(s, keep)) = ToSet(s) \cap keep BY <3>2, SublistFacts
    <3>5. p \in ToSet(rows) BY <3>1, <3>3, <3>4 DEF s
    <3>6. PICK i \in DOMAIN rows : p = rows[i] BY <3>5 DEF ToSet
    <3>7. CASE SourceKey(p) \in DOMAIN ids.links BY <1>3, <3>7
    <3>8. CASE i \in DOMAIN ids.ambiguous
      <4> HIDE DEF rejected
      <4>1. \E x \in ToSet(given \o Ambiguities(rows, ids) \o rejected) :
              /\ x.type = "player" /\ x.ext = rows[i].ext
              /\ x.reason = "unresolved_or_ambiguous_player_identity"
        BY <1>1, <2>1, <2>2, <3>6, <3>8, AmbiguityListed
      <4>2. QED BY <2>3, <3>6, <4>1 DEF LeftOutReasons
    <3>9. QED BY <1>2, <1>5, <3>6, <3>7, <3>8
  <2>6. QED BY <2>4, <2>5
<1>9. QED BY <1>6, <1>7, <1>8 DEF pub

-----------------------------------------------------------------------------
(* Jobs, runs and the quarantine. *)

(* What a run adds to the quarantine: a list of its candidates, and each candidate
   is in it or on record. *)
LEMMA NewIssuesFacts ==
  ASSUME NEW stored, NEW provider, NEW fp, NEW cs, IsList(cs)
  PROVE  /\ IsList(NewIssues(stored, provider, fp, cs))
         /\ \A i \in DOMAIN cs :
              \/ \E k \in DOMAIN stored :
                   stored[k].provider = provider /\ stored[k].fp = fp /\ SameIssue(stored[k], cs[i])
              \/ \E k \in DOMAIN NewIssues(stored, provider, fp, cs) :
                   SameIssue(NewIssues(stored, provider, fp, cs)[k], cs[i])
<1> DEFINE recorded(c) ==
             \E k \in DOMAIN stored :
               stored[k].provider = provider /\ stored[k].fp = fp /\ SameIssue(stored[k], c)
           fresh == {i \in DOMAIN cs :
                       /\ ~recorded(cs[i])
                       /\ \A k \in 1..(i - 1) : ~SameIssue(cs[k], cs[i])}
           at == Places(cs, fresh)
           new == NewIssues(stored, provider, fp, cs)
<1>1. /\ at \in Seq(Nat)
      /\ \A k \in DOMAIN at : at[k] \in fresh
      /\ \A i \in fresh : \E k \in DOMAIN at : at[k] = i
  <2>1. fresh \subseteq DOMAIN cs OBVIOUS
  <2> HIDE DEF fresh
  <2>2. QED BY <2>1, PlacesFacts
<1>2. new = [k \in DOMAIN at |-> cs[at[k]]] BY DEF NewIssues, Column
<1> HIDE DEF at, new
<1>3. IsList(new)
  <2>1. Len(at) \in Nat /\ DOMAIN at = 1..Len(at) BY <1>1
  <2>2. new = [k \in 1..Len(at) |-> new[k]] BY <1>2, <2>1
  <2>3. QED BY <2>1, <2>2, ListOf
<1>4. DOMAIN cs = 1..Len(cs) /\ Len(cs) \in Nat BY ListIs
<1>5. ASSUME NEW i \in DOMAIN cs, ~recorded(cs[i])
      PROVE  \E k \in DOMAIN new : SameIssue(new[k], cs[i])
  <2> DEFINE T == {m \in 1..i : SameIssue(cs[m], cs[i])}
  <2>1. i \in T /\ T \subseteq Nat BY <1>4 DEF SameIssue
  <2> HIDE DEF T
  <2>2. PICK m \in T : \A q \in T : m <= q BY <2>1, LeastNumber
  <2> USE DEF T
  <2>3. m \in 1..i /\ SameIssue(cs[m], cs[i]) /\ m \in DOMAIN cs BY <1>4
  <2>4. ASSUME NEW q \in 1..(m - 1), SameIssue(cs[q], cs[m]) PROVE FALSE
    <3>1. q \in 1..i /\ SameIssue(cs[q], cs[i]) BY <1>4, <2>3, <2>4 DEF SameIssue
    <3>2. q \in T BY <3>1
    <3>3. QED BY <1>4, <2>2, <2>3, <2>4, <3>2
  <2>5. ~recorded(cs[m]) BY <1>5, <2>3 DEF SameIssue
  <2>6. m \in fresh BY <2>3, <2>4, <2>5
  <2>7. PICK k \in DOMAIN at : at[k] = m BY <1>1, <2>6
  <2>8. k \in DOMAIN new /\ new[k] = cs[m] BY <1>2, <2>7
  <2>9. QED BY <2>3, <2>8
<1>6. QED BY <1>3, <1>5 DEF new

LEMMA RowsFacts ==
  ASSUME NEW r, NEW provider, NEW fp, NEW cs, IsList(cs)
  PROVE  /\ IsList(Rows(r, provider, fp, cs))
         /\ DOMAIN Rows(r, provider, fp, cs) = DOMAIN cs
         /\ \A k \in DOMAIN cs : Rows(r, provider, fp, cs)[k] = QuarantineRow(r, provider, fp, cs[k])
<1> DEFINE new == Rows(r, provider, fp, cs)
<1>1. new = [k \in DOMAIN cs |-> QuarantineRow(r, provider, fp, cs[k])] BY DEF Rows, Column
<1>2. Len(cs) \in Nat /\ DOMAIN cs = 1..Len(cs) BY ListIs
<1>3. new = [k \in 1..Len(cs) |-> new[k]] BY <1>1, <1>2
<1> HIDE DEF new
<1>4. IsList(new) BY <1>2, <1>3, ListOf
<1>5. QED BY <1>1, <1>4 DEF new

LEMMA BundleFacts ==
  ASSUME NEW n \in Good
  PROVE  /\ Bundle(n).provider = Inputs[n].provider
         /\ IsList(Bundle(n).candidates) /\ IsList(Bundle(n).players)
         /\ IsList(Bundle(n).metrics) /\ IsList(Bundle(n).warnings)
<1> DEFINE b == Inputs[n].bundle
<1>1. /\ b.provider = Inputs[n].provider
      /\ {"provider", "candidates", "players", "metrics", "warnings"} \subseteq DOMAIN b
      /\ IsList(b.candidates) /\ IsList(b.players) /\ IsList(b.metrics) /\ IsList(b.warnings)
  BY InputsAssumption
<1>2. PICK cs : IsList(cs) /\ Bundle(n) = [b EXCEPT !.candidates = b.candidates \o cs]
  <2> DEFINE reason == "unsupported_position_mapping"
             unsupported == {i \in DOMAIN b.players : UnsupportedPosition(b.players[i])}
             listed(ext) == \E c \in ToSet(b.candidates) : c.reason = reason /\ c.ext = ext
             rejected == {i \in unsupported :
                            /\ ~listed(b.players[i].ext)
                            /\ \A k \in unsupported : k < i => b.players[k].ext # b.players[i].ext}
             candidate(i) == Candidate("player", b.players[i].ext, reason, [position |-> b.players[i].pos])
             cs == [k \in DOMAIN Places(b.players, rejected) |->
                      candidate(Places(b.players, rejected)[k])]
  <2>1. Bundle(n) = [b EXCEPT !.candidates = b.candidates \o cs]
    BY DEF Bundle, WithPositionCandidates, Column
  <2>2. cs = [k \in DOMAIN Places(b.players, rejected) |-> cs[k]] OBVIOUS
  <2> HIDE DEF rejected, cs
  <2>3. IsList(cs) BY <1>1, <2>2, PlacedColumn
  <2>4. QED BY <2>1, <2>3
<1> HIDE DEF b
<1>3. IsList(b.candidates \o cs) BY <1>1, <1>2, JoinedLists
<1>4. QED BY <1>1, <1>2, <1>3 DEF b

LEMMA BlockingIsList ==
  ASSUME NEW n \in Good
  PROVE  IsList(BlockingCandidates(Bundle(n)))
<1> DEFINE b == Bundle(n)
           findings == QualityReport(b).findings
           blocking == {i \in DOMAIN findings : findings[i].severity = "error" /\ findings[i].count > 0}
           candidate(i) ==
             Candidate(IF findings[i].check = "source_schema_drift" THEN "source_schema" ELSE "source_row",
                       None, BlockingReason(findings[i].check), [details |-> findings[i].count])
           cs == [k \in DOMAIN Places(findings, blocking) |-> candidate(Places(findings, blocking)[k])]
<1>1. IsList(findings)
  <2>1. IsList(BundleChecks(b))
    <3>1. PICK c1, c2, c3, c4, c5, c6, c7, c8, c9 :
            BundleChecks(b) = <<c1, c2, c3, c4, c5, c6, c7, c8, c9>>
      BY DEF BundleChecks
    <3>2. ASSUME NEW t, t = <<c1, c2, c3, c4, c5, c6, c7, c8, c9>> PROVE IsList(t)
      <4>1. t = [i \in 1..9 |-> t[i]] BY <3>2
      <4>2. QED BY <4>1, ListOf
    <3>3. QED BY <3>1, <3>2
  <2>2. findings = BundleChecks(b) \o b.warnings BY DEF QualityReport
  <2>3. QED BY <2>1, <2>2, BundleFacts, JoinedLists
<1>2. BlockingCandidates(b) = b.candidates \o cs BY DEF BlockingCandidates, Column
<1>3. cs = [k \in DOMAIN Places(findings, blocking) |-> cs[k]] OBVIOUS
<1> HIDE DEF findings, blocking, cs
<1>4. IsList(cs) BY <1>1, <1>3, PlacedColumn
<1>5. QED BY <1>2, <1>4, BundleFacts, JoinedLists

LEMMA PublishedIsList ==
  ASSUME NEW n \in Good, NEW store, NEW snap, NEW tag
  PROVE  IsList(Publish(store, Bundle(n), snap, tag).candidates)
<1> DEFINE b == Bundle(n)
           rows == Publishable(b)
<1>1. IsList(rows) BY BundleFacts, PublishableIsList
<1>2. \A ids : IsList(Ambiguities(rows, ids))
  <2> TAKE ids
  <2> DEFINE at == DOMAIN ids.ambiguous
             t == Ambiguities(rows, ids)
  <2>1. t = [k \in DOMAIN Places(rows, at) |->
               AmbiguityCandidate(rows[Places(rows, at)[k]], ids.ambiguous[Places(rows, at)[k]])]
    BY DEF Ambiguities, Column
  <2>2. t = [k \in DOMAIN Places(rows, at) |-> t[k]] BY <2>1
  <2> HIDE DEF t, at, rows
  <2>3. IsList(t) BY <1>1, <2>2, PlacedColumn
  <2>4. QED BY <2>3 DEF t
<1>3. \A seen, refs : IsList(SiftMetrics(seen, refs, b).rejected)
  BY BundleFacts, RejectedIsList
<1> HIDE DEF rows, b
<1>4. PICK ids, seen, refs :
        Publish(store, b, snap, tag).candidates =
          b.candidates \o Ambiguities(rows, ids) \o SiftMetrics(seen, refs, b).rejected
  BY DEF Publish, rows
<1>5. IsList(b.candidates) BY BundleFacts DEF b
<1>6. QED BY <1>2, <1>3, <1>4, <1>5, JoinedLists DEF b

-----------------------------------------------------------------------------
(* Bookkeeping: who works on which run, and what a row of a run says.       *)

RunFields == {"status", "trail", "input", "fp", "replayOf", "rejected", "of"}
JobFields == {"pc", "run", "input", "key", "fresh", "view", "pub"}
IssueFields == {"run", "provider", "fp", "type", "ext", "reason", "context", "status", "by"}
Publishing == {"finding", "naming", "inserting", "reading", "writing"}
Unfinished == {"planned", "validating"}

RunsOK ==
  /\ IsList(runs)
  /\ \A r \in DOMAIN runs :
       /\ DOMAIN runs[r] = RunFields
       /\ runs[r].status \in CompletedStatuses =>
            runs[r].input \in Good /\ runs[r].fp = Hash[runs[r].input]
       /\ runs[r].status \in Unfinished => runs[r].rejected = <<>>

Working(j) == job[j].pc # "idle"

\* A job works on an unfinished run of its own; past the adapter, its input has a bundle.
JobsOK ==
  /\ DOMAIN job = Jobs
  /\ \A j \in Jobs :
       /\ DOMAIN job[j] = JobFields
       /\ job[j].pc \in {"idle"} \cup Unfinished \cup Publishing
       /\ Working(j) => /\ job[j].run \in DOMAIN runs
                        /\ runs[job[j].run].status \in Unfinished
                        /\ runs[job[j].run].input = job[j].input
                        /\ job[j].input \in DOMAIN Inputs
       /\ job[j].pc \in Publishing => job[j].input \in Good
  /\ \A i, j \in Jobs : i # j /\ Working(i) /\ Working(j) => job[i].run # job[j].run

IssuesOK == IsList(quar) /\ \A i \in DOMAIN quar : DOMAIN quar[i] = IssueFields

Books == RunsOK /\ JobsOK /\ IssuesOK

(* Run r, and no other, has changed, to the given status. *)
OnlyRun(r, status) ==
  /\ IsList(runs') /\ DOMAIN runs' = DOMAIN runs
  /\ \A q \in DOMAIN runs : q # r => runs'[q] = runs[q]
  /\ DOMAIN runs'[r] = RunFields
  /\ runs'[r].status = status /\ runs'[r].input = runs[r].input /\ runs'[r].replayOf = runs[r].replayOf

LEMMA MarkedRun ==
  ASSUME RunsOK, NEW r \in DOMAIN runs, NEW status, NEW fp, NEW rejected, NEW of,
         \/ runs' = Mark(r, status)
         \/ runs' = [Mark(r, status) EXCEPT ![r].fp = fp]
         \/ runs' = [Mark(r, status) EXCEPT ![r].fp = fp, ![r].of = of]
         \/ runs' = [Mark(r, status) EXCEPT ![r].fp = fp, ![r].rejected = rejected]
  PROVE  OnlyRun(r, status)
<1>1. DOMAIN runs[r] = RunFields /\ Len(runs) \in Nat /\ DOMAIN runs = 1..Len(runs)
  BY ListIs DEF RunsOK
<1>2. /\ DOMAIN runs' = DOMAIN runs
      /\ runs' = [i \in DOMAIN runs |-> runs'[i]]
      /\ \A q \in DOMAIN runs : q # r => runs'[q] = runs[q]
      /\ DOMAIN runs'[r] = RunFields
      /\ runs'[r].status = status /\ runs'[r].input = runs[r].input
      /\ runs'[r].replayOf = runs[r].replayOf
  <2>1. CASE runs' = Mark(r, status) BY <1>1, <2>1 DEF Mark, RunFields
  <2>2. CASE runs' = [Mark(r, status) EXCEPT ![r].fp = fp] BY <1>1, <2>2 DEF Mark, RunFields
  <2>3. CASE runs' = [Mark(r, status) EXCEPT ![r].fp = fp, ![r].of = of]
    BY <1>1, <2>3 DEF Mark, RunFields
  <2>4. CASE runs' = [Mark(r, status) EXCEPT ![r].fp = fp, ![r].rejected = rejected]
    BY <1>1, <2>4 DEF Mark, RunFields
  <2>5. QED BY <2>1, <2>2, <2>3, <2>4
<1>3. IsList(runs') BY <1>1, <1>2, ListOf
<1>4. QED BY <1>2, <1>3 DEF OnlyRun

(* What of the rows a published run is given. *)
LEMMA MarkedFields ==
  ASSUME RunsOK, NEW r \in DOMAIN runs, NEW status
  PROVE  /\ runs' = Mark(r, status) => runs'[r].rejected = runs[r].rejected
         /\ \A fp : runs' = [Mark(r, status) EXCEPT ![r].fp = fp] =>
              runs'[r].fp = fp /\ runs'[r].rejected = runs[r].rejected
<1>1. DOMAIN runs[r] = RunFields BY DEF RunsOK
<1>2. ASSUME runs' = Mark(r, status) PROVE runs'[r].rejected = runs[r].rejected
  BY <1>1, <1>2 DEF Mark, RunFields
<1>3. ASSUME NEW fp, runs' = [Mark(r, status) EXCEPT ![r].fp = fp]
      PROVE  runs'[r].fp = fp /\ runs'[r].rejected = runs[r].rejected
  BY <1>1, <1>3 DEF Mark, RunFields
<1>4. QED BY <1>2, <1>3

(* A run that leaves its job finished, or a run its job goes on with. *)
Ends(j, status) ==
  /\ status \notin Unfinished
  /\ OnlyRun(job[j].run, status) /\ job' = [job EXCEPT ![j] = Idle]
GoesOn(j, pc) ==
  /\ \E status \in Unfinished : OnlyRun(job[j].run, status)
  /\ runs'[job[j].run].rejected = runs[job[j].run].rejected
  /\ job' = [job EXCEPT ![j] = job'[j]]
  /\ DOMAIN job'[j] = JobFields
  /\ job'[j].pc = pc /\ job'[j].run = job[j].run /\ job'[j].input = job[j].input

LEMMA BooksEnd ==
  ASSUME Books, NEW j \in Jobs, Working(j), NEW status, Ends(j, status), IssuesOK',
         status \in CompletedStatuses =>
           job[j].input \in Good /\ runs'[job[j].run].fp = Hash[job[j].input]
  PROVE  Books'
<1>1. RunsOK' BY DEF Books, RunsOK, JobsOK, Ends, OnlyRun
<1>2. /\ DOMAIN job' = Jobs /\ job'[j] = Idle
      /\ \A i \in Jobs : i # j => job'[i] = job[i]
  BY DEF Books, JobsOK, Ends
<1>3. DOMAIN Idle = JobFields /\ Idle.pc = "idle" BY DEF Idle, JobFields
<1>4. \A i \in Jobs : i # j /\ Working(i) => runs'[job[i].run] = runs[job[i].run]
  BY DEF Books, JobsOK, Ends, OnlyRun
<1>5. JobsOK' BY <1>2, <1>3, <1>4 DEF Books, JobsOK, Working, Ends, OnlyRun, Publishing
<1>6. QED BY <1>1, <1>5 DEF Books

LEMMA BooksGoOn ==
  ASSUME Books, NEW j \in Jobs, Working(j), NEW pc \in Unfinished \cup Publishing, GoesOn(j, pc),
         UNCHANGED quar, pc \in Publishing => job[j].input \in Good
  PROVE  Books'
<1>0. PICK status \in Unfinished : OnlyRun(job[j].run, status) BY DEF GoesOn
<1>1. RunsOK'
  <2>1. status \notin CompletedStatuses BY <1>0 DEF Unfinished, CompletedStatuses
  <2>2. QED BY <1>0, <2>1 DEF Books, RunsOK, JobsOK, OnlyRun, GoesOn
<1>2. /\ DOMAIN job' = Jobs
      /\ \A i \in Jobs : i # j => job'[i] = job[i]
  BY DEF Books, JobsOK, GoesOn
<1>3. \A i \in Jobs : i # j /\ Working(i) => runs'[job[i].run] = runs[job[i].run]
  BY <1>0 DEF Books, JobsOK, OnlyRun
<1>4. pc # "idle" BY DEF Unfinished, Publishing
<1>5. JobsOK' BY <1>0, <1>2, <1>3, <1>4 DEF Books, JobsOK, Working, GoesOn, OnlyRun
<1>6. QED BY <1>1, <1>5 DEF Books, IssuesOK

LEMMA IssueRows ==
  ASSUME NEW r, NEW provider, NEW fp, NEW cs, IsList(cs)
  PROVE  /\ IsList(Rows(r, provider, fp, cs))
         /\ \A k \in DOMAIN Rows(r, provider, fp, cs) :
              DOMAIN Rows(r, provider, fp, cs)[k] = IssueFields
<1>1. \A c : DOMAIN QuarantineRow(r, provider, fp, c) = IssueFields
  BY DEF QuarantineRow, IssueFields
<1>2. QED BY <1>1, RowsFacts

(* Two rows of the quarantine about the same rejection of the same snapshot. *)
SameRow(p, q) == p.run = q.run /\ p.provider = q.provider /\ p.fp = q.fp /\ SameIssue(p, q)

(* The quarantine is s and some open rows more. *)
OpenAdded(s) ==
  /\ \A i \in DOMAIN s : i \in DOMAIN quar' /\ quar'[i] = s[i]
  /\ \A i \in DOMAIN quar' : i \in DOMAIN s \/ quar'[i].status = "open"

(* A step adds to s the new issues among cs: then each of cs is on record. *)
LEMMA AddedIssues ==
  ASSUME NEW s, IsList(s), \A i \in DOMAIN s : DOMAIN s[i] = IssueFields,
         NEW stored, NEW r, NEW provider, NEW fp, NEW cs, IsList(cs),
         quar' = s \o Rows(r, provider, fp, NewIssues(stored, provider, fp, cs))
  PROVE  /\ IssuesOK' /\ OpenAdded(s)
         /\ \A c \in DOMAIN cs :
              \/ \E k \in DOMAIN stored : stored[k].fp = fp /\ SameIssue(stored[k], cs[c])
              \/ \E k \in DOMAIN quar' : quar'[k].fp = fp /\ SameIssue(quar'[k], cs[c])
<1> DEFINE new == NewIssues(stored, provider, fp, cs)
           t == Rows(r, provider, fp, new)
           u == s \o t
<1>1. /\ IsList(new)
      /\ \A c \in DOMAIN cs :
           \/ \E k \in DOMAIN stored : stored[k].fp = fp /\ SameIssue(stored[k], cs[c])
           \/ \E k \in DOMAIN new : SameIssue(new[k], cs[c])
  BY NewIssuesFacts
<1>0. quar' = u OBVIOUS
<1> HIDE DEF new
<1>2. /\ IsList(t) /\ DOMAIN t = DOMAIN new
      /\ \A k \in DOMAIN t : t[k] = QuarantineRow(r, provider, fp, new[k])
  BY <1>1, RowsFacts
<1>3. \A k \in DOMAIN t : /\ DOMAIN t[k] = IssueFields /\ t[k].status = "open"
                         /\ t[k].fp = fp /\ SameIssue(t[k], new[k])
  BY <1>2 DEF QuarantineRow, IssueFields, SameIssue
<1> HIDE DEF t
<1>4. /\ IsList(u)
      /\ \A i \in DOMAIN s : i \in DOMAIN u /\ u[i] = s[i]
      /\ \A k \in DOMAIN t : \E i \in DOMAIN u : u[i] = t[k]
      /\ \A i \in DOMAIN u : i \in DOMAIN s \/ \E k \in DOMAIN t : u[i] = t[k]
  BY <1>2, JoinedLists
<1> HIDE DEF u
<1>5. ASSUME NEW i \in DOMAIN u
      PROVE  DOMAIN u[i] = IssueFields /\ (i \in DOMAIN s \/ u[i].status = "open")
  <2>1. CASE i \in DOMAIN s BY <2>1, <1>4
  <2>2. CASE \E k \in DOMAIN t : u[i] = t[k] BY <2>2, <1>3
  <2>3. QED BY <2>1, <2>2, <1>4
<1>6. ASSUME NEW c \in DOMAIN cs, NEW k \in DOMAIN new, SameIssue(new[k], cs[c])
      PROVE  \E i \in DOMAIN u : u[i].fp = fp /\ SameIssue(u[i], cs[c])
  <2>1. k \in DOMAIN t BY <1>2
  <2>2. PICK i \in DOMAIN u : u[i] = t[k] BY <2>1, <1>4
  <2>3. u[i].fp = fp /\ SameIssue(u[i], cs[c]) BY <2>1, <2>2, <1>3, <1>6 DEF SameIssue
  <2>4. QED BY <2>3
<1>7. IssuesOK' /\ OpenAdded(s) BY <1>0, <1>4, <1>5 DEF IssuesOK, OpenAdded
<1>8. QED BY <1>0, <1>1, <1>6, <1>7

(* What Settled makes of the rows: some are resolved, none is changed otherwise. *)
LEMMA SettledFacts ==
  ASSUME IssuesOK, NEW j \in Jobs
  PROVE  /\ IsList(Settled(j)) /\ DOMAIN Settled(j) = DOMAIN quar
         /\ \A i \in DOMAIN quar :
              /\ DOMAIN Settled(j)[i] = IssueFields /\ SameRow(Settled(j)[i], quar[i])
              /\ \/ Settled(j)[i] = quar[i]
                 \/ Resolves(j, quar[i]) /\ Settled(j)[i].by = job[j].run
<1> DEFINE s == Settled(j)
<1>1. s = [i \in DOMAIN quar |-> IF Resolves(j, quar[i])
             THEN [quar[i] EXCEPT !.status = "resolved", !.by = job[j].run] ELSE quar[i]]
  BY DEF Settled
<1>2. Len(quar) \in Nat /\ DOMAIN quar = 1..Len(quar) BY ListIs DEF IssuesOK
<1>3. s = [i \in 1..Len(quar) |-> s[i]] BY <1>1, <1>2
<1> HIDE DEF s
<1>4. IsList(s) BY <1>2, <1>3, ListOf
<1>5. ASSUME NEW i \in DOMAIN quar
      PROVE  /\ DOMAIN s[i] = IssueFields /\ SameRow(s[i], quar[i])
             /\ s[i] = quar[i] \/ (Resolves(j, quar[i]) /\ s[i].by = job[j].run)
  <2>1. DOMAIN quar[i] = IssueFields BY DEF IssuesOK
  <2>2. CASE Resolves(j, quar[i])
    <3>1. s[i] = [quar[i] EXCEPT !.status = "resolved", !.by = job[j].run] BY <1>1, <2>2
    <3>2. QED BY <2>1, <2>2, <3>1 DEF IssueFields, SameRow, SameIssue
  <2>3. CASE ~Resolves(j, quar[i])
    <3>1. s[i] = quar[i] BY <1>1, <2>3
    <3>2. SameRow(s[i], quar[i]) BY <3>1 DEF SameRow, SameIssue
    <3>3. DOMAIN s[i] = IssueFields BY <2>1, <3>1
    <3>4. QED BY <3>1, <3>2, <3>3
  <2>4. QED BY <2>2, <2>3
<1>6. DOMAIN s = DOMAIN quar BY <1>1
<1>7. QED BY <1>4, <1>5, <1>6 DEF s

-----------------------------------------------------------------------------
(* The kinds of steps of a job: it goes on, or its run ends in one of four  *)
(* ways.                                                                     *)

LEMMA StartBooks ==
  ASSUME Books, NEW j \in Jobs, NEW n \in DOMAIN Inputs, NEW replay, Start(j, n, replay)
  PROVE  Books'
<1> DEFINE r == Len(runs) + 1
           row == RunRow(n, replay)
<1>1. /\ IsList(runs') /\ r \notin DOMAIN runs /\ DOMAIN runs' = DOMAIN runs \cup {r}
      /\ \A q \in DOMAIN runs : runs'[q] = runs[q]
      /\ runs'[r] = row
  BY Appended DEF Start, Books, RunsOK
<1>2. /\ DOMAIN row = RunFields /\ row.status = "planned" /\ row.input = n /\ row.rejected = <<>>
      /\ "planned" \notin CompletedStatuses /\ "planned" \in Unfinished
  BY DEF RunRow, RunFields, CompletedStatuses, Unfinished
<1>3. /\ DOMAIN job' = Jobs /\ \A i \in Jobs : i # j => job'[i] = job[i]
      /\ DOMAIN job'[j] = JobFields /\ job'[j].pc = "planned"
      /\ job'[j].run = r /\ job'[j].input = n
  BY DEF Start, Books, JobsOK, Idle, JobFields
<1> HIDE DEF row, r
<1>4. RunsOK' BY <1>1, <1>2 DEF Books, RunsOK
<1>5. JobsOK' BY <1>1, <1>2, <1>3 DEF Books, JobsOK, Working, Publishing, Unfinished
<1>6. QED BY <1>4, <1>5 DEF Books, IssuesOK, Start

LEMMA FetchedIsGood ==
  ASSUME NEW n \in DOMAIN Inputs, FetchReason(n) = None
  PROVE  n \in Good
<1>1. CASE ContractErrors(Inputs[n].adapter) # {}
  BY <1>1, NoneAssumption DEF FetchReason
<1>2. CASE ContractErrors(Inputs[n].adapter) = {} /\ Inputs[n].fetch # "ok"
  BY <1>2, NoneAssumption DEF FetchReason
<1>3. QED BY <1>1, <1>2 DEF Good

GoingOn(j) == Validate(j) \/ Proceed(j) \/ FindSnapshot(j) \/ NameSnapshot(j) \/ InsertSnapshot(j) \/ Read(j)

LEMMA Continues ==
  ASSUME Books, NEW j \in Jobs, GoingOn(j)
  PROVE  /\ Working(j) /\ UNCHANGED <<snaps, db, quar>> /\ Books'
         /\ \E pc \in Unfinished \cup Publishing : GoesOn(j, pc)
         /\ \A i \in Jobs : i # j => job'[i] = job[i]
<1> DEFINE r == job[j].run
<1>0. DOMAIN job = Jobs /\ DOMAIN job[j] = JobFields /\ job[j].pc \in {"idle"} \cup Unfinished \cup Publishing
  BY DEF Books, JobsOK
<1>1. Working(j) /\ UNCHANGED <<snaps, db, quar>>
  BY DEF GoingOn, Validate, Delivered, Proceed, FindSnapshot, NameSnapshot, InsertSnapshot, Read, Working
<1>2. r \in DOMAIN runs /\ runs[r].status \in Unfinished /\ job[j].input \in DOMAIN Inputs
  BY <1>1 DEF Books, JobsOK
<1>3. runs' = runs => \E status \in Unfinished : OnlyRun(r, status)
  BY <1>2 DEF Books, RunsOK, OnlyRun
<1>4. CASE Validate(j)
  <2>1. runs' = Mark(r, "validating") BY <1>4 DEF Validate
  <2>2. OnlyRun(r, "validating") BY <2>1, <1>2, MarkedRun DEF Books
  <2>3. runs'[r].rejected = runs[r].rejected BY <2>1, <1>2, MarkedFields DEF Books
  <2>4. /\ job' = [job EXCEPT ![j] = job'[j]] /\ DOMAIN job'[j] = JobFields
        /\ job'[j].pc = "validating" /\ job'[j].run = r /\ job'[j].input = job[j].input
    BY <1>0, <1>4 DEF Validate, Go, JobFields
  <2>5. GoesOn(j, "validating") BY <2>2, <2>3, <2>4 DEF GoesOn, Unfinished
  <2>6. "validating" \in Unfinished /\ "validating" \notin Publishing BY DEF Unfinished, Publishing
  <2>7. Books' BY <1>1, <2>5, <2>6, BooksGoOn
  <2>8. QED BY <1>0, <1>1, <2>4, <2>5, <2>6, <2>7
<1>5. CASE ~Validate(j)
  <2>1. runs' = runs BY <1>5 DEF GoingOn, Proceed, FindSnapshot, NameSnapshot, InsertSnapshot, Read
  <2>2. job[j].input \in Good
    <3>1. CASE Proceed(j) BY <1>2, <3>1, FetchedIsGood DEF Proceed, Delivered
    <3>2. CASE ~Proceed(j)
      BY <1>0, <1>5, <3>2 DEF GoingOn, FindSnapshot, NameSnapshot, InsertSnapshot, Read, Publishing, Books, JobsOK
    <3>3. QED BY <3>1, <3>2
  <2>3. \E pc \in Publishing :
          /\ job' = [job EXCEPT ![j] = job'[j]] /\ DOMAIN job'[j] = JobFields
          /\ job'[j].pc = pc /\ job'[j].run = r /\ job'[j].input = job[j].input
    <3>1. CASE Proceed(j) BY <1>0, <3>1 DEF Proceed, Go, JobFields, Publishing
    <3>2. CASE FindSnapshot(j) BY <1>0, <3>2 DEF FindSnapshot, Go, JobFields, Publishing
    <3>3. CASE NameSnapshot(j) BY <1>0, <3>3 DEF NameSnapshot, JobFields, Publishing
    <3>4. CASE InsertSnapshot(j) BY <1>0, <3>4 DEF InsertSnapshot, JobFields, Publishing
    <3>5. CASE Read(j) BY <1>0, <3>5 DEF Read, JobFields, Publishing
    <3>6. QED BY <1>5, <3>1, <3>2, <3>3, <3>4, <3>5 DEF GoingOn
  <2>4. PICK pc \in Publishing : GoesOn(j, pc) BY <1>3, <2>1, <2>3 DEF GoesOn
  <2>5. Books' BY <1>1, <2>2, <2>4, BooksGoOn
  <2>6. QED BY <1>0, <1>1, <2>3, <2>4, <2>5
<1>6. QED BY <1>4, <1>5

Aborting(j) == FetchFails(j) \/ InsertConflict(j) \/ CommitFails(j)

LEMMA Aborts ==
  ASSUME Books, NEW j \in Jobs, Aborting(j)
  PROVE  /\ Working(j) /\ UNCHANGED <<snaps, db>> /\ Ends(j, "failed") /\ OpenAdded(quar) /\ Books'
         /\ runs'[job[j].run].rejected = <<>>
<1>1. Working(j) BY DEF Aborting, FetchFails, InsertConflict, CommitFails, Working
<1>2. PICK reason : Abort(j, reason) BY DEF Aborting, FetchFails, InsertConflict, CommitFails
<1> DEFINE r == job[j].run
           issue == <<Candidate("source_schema", None, reason, [reason |-> reason])>>
           provider == Inputs[job[j].input].provider
           fp == FailureHash(reason)
<1>3. r \in DOMAIN runs /\ runs[r].rejected = <<>> BY <1>1 DEF Books, JobsOK, RunsOK
<1>4. /\ runs' = [Mark(r, "failed") EXCEPT ![r].fp = fp]
      /\ quar' = quar \o Rows(r, provider, fp, NewIssues(quar, provider, fp, issue))
      /\ job' = [job EXCEPT ![j] = Idle] /\ UNCHANGED <<snaps, db>>
  BY <1>2 DEF Abort, Leave
<1>5. IsList(issue) BY DEF IsList
<1> HIDE DEF issue, fp, provider
<1>6. "failed" \notin Unfinished /\ "failed" \notin CompletedStatuses BY DEF Unfinished, CompletedStatuses
<1>7. Ends(j, "failed") BY <1>3, <1>4, <1>6, MarkedRun DEF Books, Ends
<1>8. runs'[r].rejected = <<>> BY <1>3, <1>4, MarkedFields DEF Books
<1>9. IssuesOK' /\ OpenAdded(quar) BY <1>4, <1>5, AddedIssues DEF Books, IssuesOK
<1>10. Books' BY <1>1, <1>6, <1>7, <1>9, BooksEnd
<1>11. QED BY <1>1, <1>4, <1>7, <1>8, <1>9, <1>10

LEMMA Skips ==
  ASSUME Books, NEW j \in Jobs, SkipIdempotent(j)
  PROVE  /\ Working(j) /\ UNCHANGED <<snaps, db, quar>> /\ Ends(j, "skipped_idempotent") /\ Books'
         /\ job[j].input \in Good
         /\ runs'[job[j].run].rejected = <<>> /\ runs'[job[j].run].of \in Prior(j)
         /\ runs'[job[j].run].fp = Hash[job[j].input]
<1> DEFINE r == job[j].run
           status == "skipped_idempotent"
<1>1. Working(j) /\ UNCHANGED <<snaps, db, quar>> BY DEF SkipIdempotent, Delivered, Working
<1>2. r \in DOMAIN runs /\ runs[r].rejected = <<>> /\ job[j].input \in DOMAIN Inputs
  BY <1>1 DEF Books, JobsOK, RunsOK
<1>3. job[j].input \in Good BY <1>2, FetchedIsGood DEF SkipIdempotent, Delivered
<1>4. /\ runs' = [Mark(r, status) EXCEPT ![r].fp = Hash[job[j].input], ![r].of = Min(Prior(j))]
      /\ job' = [job EXCEPT ![j] = Idle]
  BY DEF SkipIdempotent, Leave
<1>5. Min(Prior(j)) \in Prior(j)
  <2>1. Prior(j) \subseteq Nat /\ Prior(j) # {} BY ListIs DEF SkipIdempotent, Prior, Books, RunsOK
  <2> HIDE DEF Prior
  <2>2. \E x \in Prior(j) : \A y \in Prior(j) : x <= y BY <2>1, LeastNumber
  <2>3. QED BY <2>2 DEF Min
<1>6. status \notin Unfinished /\ status \notin CompletedStatuses BY DEF Unfinished, CompletedStatuses
<1>7. OnlyRun(r, status) BY <1>2, <1>4, MarkedRun DEF Books
<1>8. runs'[r].rejected = <<>> /\ runs'[r].of = Min(Prior(j)) /\ runs'[r].fp = Hash[job[j].input]
  BY <1>2, <1>4 DEF Mark, Books, RunsOK, RunFields
<1> HIDE DEF status
<1>9. Ends(j, status) BY <1>4, <1>6, <1>7 DEF Ends
<1>10. IssuesOK' BY <1>1 DEF Books, IssuesOK
<1>11. Books' BY <1>1, <1>6, <1>9, <1>10, BooksEnd
<1>12. QED BY <1>1, <1>3, <1>5, <1>8, <1>9, <1>11 DEF status

LEMMA Blocks ==
  ASSUME Books, NEW j \in Jobs, Block(j)
  PROVE  /\ Working(j) /\ UNCHANGED <<snaps, db>> /\ Ends(j, "failed") /\ OpenAdded(quar) /\ Books'
         /\ \A c \in ToSet(runs'[job[j].run].rejected) :
              \E k \in DOMAIN quar' : quar'[k].fp = runs'[job[j].run].fp /\ SameIssue(quar'[k], c)
<1> DEFINE r == job[j].run
           b == Bundle(job[j].input)
           cs == BlockingCandidates(b)
           fp == Hash[job[j].input]
<1>1. Working(j) /\ UNCHANGED <<snaps, db>> BY DEF Block, Delivered, Working
<1>2. r \in DOMAIN runs /\ job[j].input \in DOMAIN Inputs BY <1>1 DEF Books, JobsOK
<1>3. job[j].input \in Good BY <1>2, FetchedIsGood DEF Block, Delivered
<1>4. /\ runs' = [Mark(r, "failed") EXCEPT ![r].fp = fp, ![r].rejected = cs]
      /\ quar' = quar \o Rows(r, b.provider, fp, NewIssues(quar, b.provider, fp, cs))
      /\ job' = [job EXCEPT ![j] = Idle]
  BY DEF Block, Leave
<1>5. IsList(cs) BY <1>3, BlockingIsList
<1> HIDE DEF b, cs, fp
<1>6. "failed" \notin Unfinished /\ "failed" \notin CompletedStatuses BY DEF Unfinished, CompletedStatuses
<1>7. Ends(j, "failed") BY <1>2, <1>4, <1>6, MarkedRun DEF Books, Ends
<1>8. runs'[r].rejected = cs /\ runs'[r].fp = fp
  BY <1>2, <1>4 DEF Mark, Books, RunsOK, RunFields
<1>9. /\ IssuesOK' /\ OpenAdded(quar)
      /\ \A c \in DOMAIN cs :
           \/ \E k \in DOMAIN quar : quar[k].fp = fp /\ SameIssue(quar[k], cs[c])
           \/ \E k \in DOMAIN quar' : quar'[k].fp = fp /\ SameIssue(quar'[k], cs[c])
  <2> DEFINE provider == b.provider
  <2>1. quar' = quar \o Rows(r, provider, fp, NewIssues(quar, provider, fp, cs)) BY <1>4
  <2>2. IsList(quar) /\ \A i \in DOMAIN quar : DOMAIN quar[i] = IssueFields BY DEF Books, IssuesOK
  <2> HIDE DEF provider
  <2>3. QED BY <1>5, <2>1, <2>2, AddedIssues
<1>10. \A c \in DOMAIN cs : \E k \in DOMAIN quar' : quar'[k].fp = fp /\ SameIssue(quar'[k], cs[c])
  BY <1>9 DEF OpenAdded
<1>11. Books' BY <1>1, <1>6, <1>7, <1>9, BooksEnd
<1>12. QED BY <1>1, <1>7, <1>8, <1>9, <1>10, <1>11 DEF ToSet

(* A job that writes has made its publication from the tables it read, and the issues
   it read are still there. *)
Written ==
  \A j \in Jobs : job[j].pc = "writing" =>
    /\ job[j].pub = Publish(job[j].view.db, Bundle(job[j].input), job[j].key, job[j].run)
    /\ \A i \in DOMAIN job[j].view.quar : i \in DOMAIN quar /\ SameRow(quar[i], job[j].view.quar[i])

LEMMA Publishes ==
  ASSUME Books, Written, NEW j \in Jobs, Commit(j)
  PROVE  /\ Working(j) /\ job[j].pc = "writing" /\ job[j].input \in Good
         /\ \E status \in CompletedStatuses : Ends(j, status)
         /\ OpenAdded(Settled(j)) /\ Books'
         /\ runs'[job[j].run].rejected = job[j].pub.candidates
         /\ \A c \in ToSet(runs'[job[j].run].rejected) :
              \E k \in DOMAIN quar' : quar'[k].fp = runs'[job[j].run].fp /\ SameIssue(quar'[k], c)
<1> DEFINE r == job[j].run
           n == job[j].input
           b == Bundle(n)
           cs == job[j].pub.candidates
           fp == Hash[n]
           view == job[j].view
           status == IF WarningsPresent(j) THEN "completed_with_warnings" ELSE "completed"
<1>1. Working(j) /\ job[j].pc = "writing" BY DEF Commit, Working
<1>2. r \in DOMAIN runs BY <1>1 DEF Books, JobsOK
<1>3. n \in Good
  <2>1. "writing" \in Publishing BY DEF Publishing
  <2>2. QED BY <1>1, <2>1 DEF Books, JobsOK
<1>4. /\ runs' = [Mark(r, status) EXCEPT ![r].fp = fp, ![r].rejected = cs]
      /\ quar' = Settled(j) \o Rows(r, b.provider, fp, NewIssues(view.quar, b.provider, fp, cs))
      /\ job' = [job EXCEPT ![j] = Idle]
  BY DEF Commit, Leave, Publication, Issues
<1>5. IsList(cs)
  <2>1. job[j].pub = Publish(view.db, Bundle(n), job[j].key, r) BY <1>1 DEF Written
  <2> HIDE DEF n, r, view
  <2>2. QED BY <2>1, <1>3, PublishedIsList
<1>6. status \in CompletedStatuses /\ status \notin Unfinished BY DEF CompletedStatuses, Unfinished
<1> HIDE DEF status, cs, b, fp
<1>7. OnlyRun(r, status) BY <1>2, <1>4, MarkedRun DEF Books
<1>8. runs'[r].rejected = cs /\ runs'[r].fp = fp
  BY <1>2, <1>4 DEF Mark, Books, RunsOK, RunFields
<1>9. Ends(j, status) BY <1>4, <1>6, <1>7 DEF Ends
<1>10. /\ IsList(Settled(j)) /\ DOMAIN Settled(j) = DOMAIN quar
       /\ \A i \in DOMAIN quar : DOMAIN Settled(j)[i] = IssueFields /\ SameRow(Settled(j)[i], quar[i])
  BY SettledFacts DEF Books
<1>11. /\ IssuesOK' /\ OpenAdded(Settled(j))
       /\ \A c \in DOMAIN cs :
            \/ \E k \in DOMAIN view.quar : view.quar[k].fp = fp /\ SameIssue(view.quar[k], cs[c])
            \/ \E k \in DOMAIN quar' : quar'[k].fp = fp /\ SameIssue(quar'[k], cs[c])
  <2> DEFINE provider == b.provider
             stored == view.quar
             s == Settled(j)
  <2>1. quar' = s \o Rows(r, provider, fp, NewIssues(stored, provider, fp, cs)) BY <1>4
  <2>2. IsList(s) /\ \A i \in DOMAIN s : DOMAIN s[i] = IssueFields BY <1>10
  <2> HIDE DEF provider, stored, s
  <2>3. /\ IssuesOK' /\ OpenAdded(s)
        /\ \A c \in DOMAIN cs :
             \/ \E k \in DOMAIN stored : stored[k].fp = fp /\ SameIssue(stored[k], cs[c])
             \/ \E k \in DOMAIN quar' : quar'[k].fp = fp /\ SameIssue(quar'[k], cs[c])
    BY <1>5, <2>1, <2>2, AddedIssues
  <2>4. QED BY <2>3 DEF stored, s
<1>12. ASSUME NEW k \in DOMAIN view.quar
       PROVE  k \in DOMAIN quar' /\ quar'[k].fp = view.quar[k].fp
              /\ \A c : SameIssue(view.quar[k], c) => SameIssue(quar'[k], c)
  <2>1. k \in DOMAIN quar /\ SameRow(quar[k], view.quar[k]) BY <1>1 DEF Written
  <2>2. k \in DOMAIN quar' /\ quar'[k] = Settled(j)[k] BY <1>10, <1>11, <2>1 DEF OpenAdded
  <2>3. SameRow(quar'[k], quar[k]) BY <1>10, <2>1, <2>2
  <2>4. QED BY <2>1, <2>2, <2>3 DEF SameRow, SameIssue
<1>13. \A c \in DOMAIN cs : \E k \in DOMAIN quar' : quar'[k].fp = fp /\ SameIssue(quar'[k], cs[c])
  BY <1>11, <1>12
<1>14. fp = Hash[job[j].input] BY DEF fp
<1>15. Books' BY <1>1, <1>3, <1>6, <1>8, <1>9, <1>11, <1>14, BooksEnd
<1>16. QED BY <1>1, <1>3, <1>6, <1>8, <1>9, <1>11, <1>13, <1>15 DEF ToSet, cs

LEMMA Crashes ==
  ASSUME Books, NEW j \in Jobs, Crash(j)
  PROVE  Books' /\ UNCHANGED <<runs, snaps, db, quar>> /\ job' = [job EXCEPT ![j] = Idle]
<1>1. UNCHANGED <<runs, snaps, db, quar>> /\ job' = [job EXCEPT ![j] = Idle] BY DEF Crash, Leave
<1>2. DOMAIN job' = Jobs /\ job'[j] = Idle /\ \A i \in Jobs : i # j => job'[i] = job[i]
  BY <1>1 DEF Books, JobsOK
<1>3. DOMAIN Idle = JobFields /\ Idle.pc = "idle" BY DEF Idle, JobFields
<1>4. JobsOK' BY <1>1, <1>2, <1>3 DEF Books, JobsOK, Working, Publishing, Unfinished
<1>5. QED BY <1>1, <1>4 DEF Books, RunsOK, IssuesOK

-----------------------------------------------------------------------------
(* What no step does: change a finished run, or an issue beyond resolving it. *)

Finishes(j) == Aborting(j) \/ SkipIdempotent(j) \/ Block(j) \/ Commit(j)

RunsKept ==
  /\ \A r \in DOMAIN runs : /\ r \in DOMAIN runs' /\ runs'[r].input = runs[r].input
                            /\ runs'[r].replayOf = runs[r].replayOf
                            /\ runs[r].status \notin Unfinished => runs'[r] = runs[r]
  /\ \A r \in DOMAIN runs' :
       \/ runs'[r].status \in Unfinished
       \/ r \in DOMAIN runs /\ runs'[r] = runs[r]
       \/ \E j \in Jobs : r = job[j].run /\ Finishes(j)

IssuesKept ==
  /\ \A i \in DOMAIN quar : i \in DOMAIN quar' /\ SameRow(quar'[i], quar[i])
  /\ \A i \in DOMAIN quar' :
       \/ quar'[i].status = "open"
       \/ i \in DOMAIN quar /\ quar'[i] = quar[i]
       \/ \E j \in Jobs : /\ Commit(j) /\ i \in DOMAIN quar /\ Resolves(j, quar[i])
                         /\ quar'[i].by = job[j].run

LEMMA RunsKeptByEnds ==
  ASSUME Books, NEW j \in Jobs, Working(j), NEW status, Ends(j, status), Finishes(j)
  PROVE  RunsKept
<1>1. job[j].run \in DOMAIN runs /\ runs[job[j].run].status \in Unfinished
  BY DEF Books, JobsOK
<1>2. /\ DOMAIN runs' = DOMAIN runs
      /\ \A q \in DOMAIN runs : q # job[j].run => runs'[q] = runs[q]
      /\ runs'[job[j].run].input = runs[job[j].run].input
      /\ runs'[job[j].run].replayOf = runs[job[j].run].replayOf
  BY DEF Ends, OnlyRun
<1>3. QED BY <1>1, <1>2 DEF RunsKept

LEMMA IssuesKeptByAdding ==
  ASSUME OpenAdded(quar)
  PROVE  IssuesKept
BY DEF OpenAdded, IssuesKept, SameRow, SameIssue

LEMMA UnchangedIssuesKept == UNCHANGED quar => IssuesKept
BY DEF IssuesKept, SameRow, SameIssue

LEMMA UnchangedRunsKept == UNCHANGED runs => RunsKept
BY DEF RunsKept

LEMMA WrittenKept ==
  ASSUME Written, IssuesKept, \A i \in Jobs : job'[i].pc = "writing" => job'[i] = job[i] \/ Read(i), Books
  PROVE  Written'
<1> SUFFICES ASSUME NEW j \in Jobs, job'[j].pc = "writing"
             PROVE  /\ job'[j].pub = Publish(job'[j].view.db, Bundle(job'[j].input), job'[j].key, job'[j].run)
                    /\ \A i \in DOMAIN job'[j].view.quar :
                         i \in DOMAIN quar' /\ SameRow(quar'[i], job'[j].view.quar[i])
  BY DEF Written
<1>1. CASE job'[j] = job[j]
  <2>1. job[j].pub = Publish(job[j].view.db, Bundle(job[j].input), job[j].key, job[j].run) BY <1>1 DEF Written
  <2>2. ASSUME NEW i \in DOMAIN job[j].view.quar
        PROVE  i \in DOMAIN quar' /\ SameRow(quar'[i], job[j].view.quar[i])
    <3>1. i \in DOMAIN quar /\ SameRow(quar[i], job[j].view.quar[i]) BY <1>1 DEF Written
    <3>2. i \in DOMAIN quar' /\ SameRow(quar'[i], quar[i]) BY <3>1 DEF IssuesKept
    <3>3. QED BY <3>1, <3>2 DEF SameRow, SameIssue
  <2>3. QED BY <1>1, <2>1, <2>2
<1>2. CASE Read(j)
  <2>1. DOMAIN job = Jobs /\ DOMAIN job[j] = JobFields BY DEF Books, JobsOK
  <2>2. /\ job' = [job EXCEPT ![j].pc = "writing", ![j].view = [db |-> db, quar |-> quar],
                     ![j].pub = Publish(db, Bundle(job[j].input), job[j].key, job[j].run)]
        /\ quar' = quar
    BY <1>2 DEF Read
  <2>3. /\ job'[j].pub = Publish(db, Bundle(job[j].input), job[j].key, job[j].run)
        /\ job'[j].view = [db |-> db, quar |-> quar] /\ job'[j].input = job[j].input
        /\ job'[j].key = job[j].key /\ job'[j].run = job[j].run
    BY <2>1, <2>2 DEF JobFields
  <2>4. job'[j].view.db = db /\ job'[j].view.quar = quar BY <2>3
  <2>5. \A i \in DOMAIN quar : SameRow(quar[i], quar[i]) BY DEF SameRow, SameIssue
  <2>6. QED BY <2>2, <2>3, <2>4, <2>5
<1>3. QED BY <1>1, <1>2

LEMMA Kept ==
  ASSUME Books, Written, [Next]_vars
  PROVE  Books' /\ Written' /\ RunsKept /\ IssuesKept
<1>1. ASSUME NEW j \in Jobs, NEW n \in DOMAIN Inputs, NEW replay, Start(j, n, replay)
      PROVE  Books' /\ Written' /\ RunsKept /\ IssuesKept
  <2>1. Books' BY <1>1, StartBooks
  <2>2. UNCHANGED quar /\ runs' = Append(runs, RunRow(n, replay)) BY <1>1 DEF Start
  <2>3. IssuesKept BY <2>2, UnchangedIssuesKept
  <2>4. RunsKept
    <3>1. RunRow(n, replay).status \in Unfinished BY DEF RunRow, Unfinished
    <3>2. QED BY <2>2, <3>1, Appended DEF RunsKept, Books, RunsOK
  <2>5. Written'
    <3>1. \A i \in Jobs : i # j => job'[i] = job[i] BY <1>1 DEF Start, Books, JobsOK
    <3>2. job'[j].pc # "writing" BY <1>1 DEF Start, Idle, Books, JobsOK
    <3>3. QED BY <2>3, <3>1, <3>2, WrittenKept
  <2>6. QED BY <2>1, <2>3, <2>4, <2>5
<1>2. ASSUME NEW j \in Jobs, GoingOn(j) PROVE Books' /\ Written' /\ RunsKept /\ IssuesKept
  <2>1. /\ Working(j) /\ UNCHANGED quar /\ Books' /\ \A i \in Jobs : i # j => job'[i] = job[i]
    BY <1>2, Continues
  <2>2. PICK pc : GoesOn(j, pc) BY <1>2, Continues
  <2>3. IssuesKept BY <2>1, UnchangedIssuesKept
  <2>4. RunsKept
    <3>1. job[j].run \in DOMAIN runs /\ runs[job[j].run].status \in Unfinished
      BY <2>1 DEF Books, JobsOK
    <3>2. PICK status \in Unfinished : OnlyRun(job[j].run, status) BY <2>2 DEF GoesOn
    <3>3. QED BY <3>1, <3>2 DEF OnlyRun, RunsKept
  <2>5. job'[j].pc = "writing" => job'[j] = job[j] \/ Read(j)
    BY <1>2 DEF GoingOn, Validate, Proceed, FindSnapshot, NameSnapshot, InsertSnapshot, Go, Books, JobsOK, JobFields
  <2>6. Written' BY <2>1, <2>3, <2>5, WrittenKept
  <2>7. QED BY <2>1, <2>3, <2>4, <2>6
<1>3. ASSUME NEW j \in Jobs, NEW status, Ends(j, status) \/ job' = [job EXCEPT ![j] = Idle], IssuesKept
      PROVE  Written'
  <2>1. job'[j] = Idle /\ \A i \in Jobs : i # j => job'[i] = job[i] BY <1>3 DEF Ends, Books, JobsOK
  <2>2. Idle.pc # "writing" BY DEF Idle
  <2>3. QED BY <1>3, <2>1, <2>2, WrittenKept
<1>4. ASSUME NEW j \in Jobs, Aborting(j) PROVE Books' /\ Written' /\ RunsKept /\ IssuesKept
  <2>1. Working(j) /\ Ends(j, "failed") /\ OpenAdded(quar) /\ Books' BY <1>4, Aborts
  <2>2. RunsKept /\ IssuesKept BY <1>4, <2>1, RunsKeptByEnds, IssuesKeptByAdding DEF Finishes
  <2>3. QED BY <1>3, <2>1, <2>2
<1>5. ASSUME NEW j \in Jobs, SkipIdempotent(j) PROVE Books' /\ Written' /\ RunsKept /\ IssuesKept
  <2>1. Working(j) /\ Ends(j, "skipped_idempotent") /\ UNCHANGED quar /\ Books' BY <1>5, Skips
  <2>2. RunsKept /\ IssuesKept BY <1>5, <2>1, RunsKeptByEnds, UnchangedIssuesKept DEF Finishes
  <2>3. QED BY <1>3, <2>1, <2>2
<1>6. ASSUME NEW j \in Jobs, Block(j) PROVE Books' /\ Written' /\ RunsKept /\ IssuesKept
  <2>1. Working(j) /\ Ends(j, "failed") /\ OpenAdded(quar) /\ Books' BY <1>6, Blocks
  <2>2. RunsKept /\ IssuesKept BY <1>6, <2>1, RunsKeptByEnds, IssuesKeptByAdding DEF Finishes
  <2>3. QED BY <1>3, <2>1, <2>2
<1>7. ASSUME NEW j \in Jobs, Commit(j) PROVE Books' /\ Written' /\ RunsKept /\ IssuesKept
  <2>1. Working(j) /\ OpenAdded(Settled(j)) /\ Books' BY <1>7, Publishes
  <2>2. PICK status : Ends(j, status) BY <1>7, Publishes
  <2>3. RunsKept BY <1>7, <2>1, <2>2, RunsKeptByEnds DEF Finishes
  <2>4. /\ DOMAIN Settled(j) = DOMAIN quar
        /\ \A i \in DOMAIN quar :
             /\ SameRow(Settled(j)[i], quar[i])
             /\ \/ Settled(j)[i] = quar[i]
                \/ Resolves(j, quar[i]) /\ Settled(j)[i].by = job[j].run
    BY SettledFacts DEF Books
  <2>5. IssuesKept BY <1>7, <2>1, <2>4 DEF OpenAdded, IssuesKept
  <2>6. QED BY <1>3, <2>1, <2>2, <2>3, <2>5
<1>8. ASSUME NEW j \in Jobs, Crash(j) PROVE Books' /\ Written' /\ RunsKept /\ IssuesKept
  <2>1. Books' /\ UNCHANGED <<runs, quar>> /\ job' = [job EXCEPT ![j] = Idle] BY <1>8, Crashes
  <2>2. RunsKept /\ IssuesKept BY <2>1, UnchangedRunsKept, UnchangedIssuesKept
  <2>3. QED BY <1>3, <2>1, <2>2
<1>9. CASE UNCHANGED vars
  <2>1. runs' = runs /\ quar' = quar /\ job' = job BY <1>9 DEF vars
  <2>2. Books' BY <2>1 DEF Books, RunsOK, JobsOK, IssuesOK, Working
  <2>3. RunsKept /\ IssuesKept BY <2>1, UnchangedRunsKept, UnchangedIssuesKept
  <2>4. Written' BY <2>1, <2>3, WrittenKept
  <2>5. QED BY <2>2, <2>3, <2>4
<1>10. ASSUME Next
       PROVE  \/ UNCHANGED vars
              \/ \E j \in Jobs :
                   \/ \E n \in DOMAIN Inputs : \E replay : Start(j, n, replay)
                   \/ GoingOn(j) \/ Aborting(j) \/ SkipIdempotent(j) \/ Block(j) \/ Commit(j) \/ Crash(j)
  BY <1>10 DEF Next, Starts, Step, GoingOn, Aborting
<1>11. QED BY <1>1, <1>2, <1>4, <1>5, <1>6, <1>7, <1>8, <1>9, <1>10

-----------------------------------------------------------------------------
(* The properties, each over one step.                                      *)

SkipsHeld ==
  \A r \in DOMAIN runs : runs[r].status = "skipped_idempotent" =>
    /\ runs[r].input \in Good /\ runs[r].fp = Hash[runs[r].input]
    /\ Completed(runs[r].of) /\ runs[runs[r].of].fp = Hash[runs[r].input]

LEMMA HashTells ==
  ASSUME NEW m \in Good, NEW n \in Good, Hash[m] = Hash[n]
  PROVE  Fingerprint(Bundle(m)) = Fingerprint(Bundle(n))
<1> DEFINE same(k) == {i \in Good : Fingerprint(Bundle(i)) = Fingerprint(Bundle(k))}
           pick(k) == CHOOSE i \in Good : Fingerprint(Bundle(i)) = Fingerprint(Bundle(k))
<1>1. \A k \in Good : Fingerprint(Bundle(pick(k))) = Fingerprint(Bundle(k)) OBVIOUS
<1>2. \A k \in Good : Hash[k] = [content |-> pick(k)] BY DEF Hash
<1> HIDE DEF pick
<1>3. pick(m) = pick(n)
  <2>1. [content |-> pick(m)].content = [content |-> pick(n)].content BY <1>2
  <2>2. QED BY <2>1
<1>4. QED BY <1>1, <1>3

LEMMA StartsUp ==
  ASSUME Init
  PROVE  Books /\ Written /\ SkipsHeld /\ RejectionsAreRecorded
<1>1. /\ runs = <<>> /\ quar = <<>> /\ DOMAIN runs = {} /\ DOMAIN quar = {}
      /\ job = [j \in Jobs |-> Idle]
  BY DEF Init
<1>2. IsList(runs) /\ IsList(quar) BY <1>1 DEF IsList
<1>3. DOMAIN Idle = JobFields /\ Idle.pc = "idle" BY DEF Idle, JobFields
<1>4. JobsOK BY <1>1, <1>3 DEF JobsOK, Working, Publishing
<1>5. Books BY <1>1, <1>2, <1>4 DEF Books, RunsOK, IssuesOK
<1>6. Written BY <1>1, <1>3 DEF Written
<1>7. QED BY <1>1, <1>5, <1>6 DEF SkipsHeld, RejectionsAreRecorded

LEMMA SkipsStep ==
  ASSUME Books, Written, SkipsHeld, RunsKept
  PROVE  SkipsHeld'
<1> SUFFICES ASSUME NEW r \in DOMAIN runs', runs'[r].status = "skipped_idempotent"
             PROVE  /\ runs'[r].input \in Good /\ runs'[r].fp = Hash[runs'[r].input]
                    /\ runs'[r].of \in DOMAIN runs'
                    /\ runs'[runs'[r].of].status \in CompletedStatuses
                    /\ runs'[runs'[r].of].fp = Hash[runs'[r].input]
  BY DEF SkipsHeld, Completed
<1>1. "skipped_idempotent" \notin Unfinished /\ CompletedStatuses \cap Unfinished = {}
  BY DEF Unfinished, CompletedStatuses
<1>2. \A q \in DOMAIN runs : runs[q].status \in CompletedStatuses => q \in DOMAIN runs' /\ runs'[q] = runs[q]
  BY <1>1 DEF RunsKept
<1>3. CASE r \in DOMAIN runs /\ runs'[r] = runs[r] BY <1>2, <1>3 DEF SkipsHeld, Completed
<1>4. ASSUME NEW j \in Jobs, r = job[j].run, Finishes(j)
      PROVE  /\ runs'[r].input \in Good /\ runs'[r].fp = Hash[runs'[r].input]
             /\ runs'[r].of \in DOMAIN runs'
             /\ runs'[runs'[r].of].status \in CompletedStatuses
             /\ runs'[runs'[r].of].fp = Hash[runs'[r].input]
  <2>1. SkipIdempotent(j)
    <3>1. CASE Aborting(j) BY <1>4, <3>1, Aborts DEF Ends, OnlyRun
    <3>2. CASE Block(j) BY <1>4, <3>2, Blocks DEF Ends, OnlyRun
    <3>3. CASE Commit(j)
      <4>1. PICK status \in CompletedStatuses : Ends(j, status) BY <3>3, Publishes
      <4>2. QED BY <1>4, <4>1 DEF Ends, OnlyRun, CompletedStatuses
    <3>4. QED BY <1>4, <3>1, <3>2, <3>3 DEF Finishes
  <2>2. /\ job[j].input \in Good /\ runs'[r].of \in Prior(j) /\ Working(j)
        /\ runs'[r].fp = Hash[job[j].input]
    BY <1>4, <2>1, Skips
  <2>3. runs'[r].input = job[j].input BY <1>4, <2>2 DEF RunsKept, Books, JobsOK
  <2>4. /\ runs'[r].of \in DOMAIN runs /\ runs[runs'[r].of].status \in CompletedStatuses
        /\ runs[runs'[r].of].fp = Hash[job[j].input]
    BY <2>2 DEF Prior
  <2>5. QED BY <1>2, <2>2, <2>3, <2>4 DEF Completed
<1>5. QED BY <1>1, <1>3, <1>4 DEF RunsKept

LEMMA RejectionsStep ==
  ASSUME Books, Written, RejectionsAreRecorded, Books', RunsKept, IssuesKept
  PROVE  RejectionsAreRecorded'
<1> SUFFICES ASSUME NEW r \in DOMAIN runs', NEW c \in ToSet(runs'[r].rejected)
             PROVE  \E i \in DOMAIN quar' : quar'[i].fp = runs'[r].fp /\ SameIssue(quar'[i], c)
  BY DEF RejectionsAreRecorded
<1>0. ToSet(<<>>) = {} BY DEF ToSet
<1>1. runs'[r].rejected # <<>> BY <1>0
<1>2. CASE runs'[r].status \in Unfinished BY <1>1, <1>2 DEF Books, RunsOK
<1>3. CASE r \in DOMAIN runs /\ runs'[r] = runs[r]
  <2>1. PICK i \in DOMAIN quar : quar[i].fp = runs[r].fp /\ SameIssue(quar[i], c)
    BY <1>3 DEF RejectionsAreRecorded
  <2>2. i \in DOMAIN quar' /\ SameRow(quar'[i], quar[i]) BY DEF IssuesKept
  <2>3. quar'[i].fp = runs'[r].fp /\ SameIssue(quar'[i], c) BY <1>3, <2>1, <2>2 DEF SameRow, SameIssue
  <2>4. QED BY <2>2, <2>3
<1>4. ASSUME NEW j \in Jobs, r = job[j].run, Finishes(j)
      PROVE  \E i \in DOMAIN quar' : quar'[i].fp = runs'[r].fp /\ SameIssue(quar'[i], c)
  <2>1. CASE Aborting(j) BY <1>1, <1>4, <2>1, Aborts
  <2>2. CASE SkipIdempotent(j) BY <1>1, <1>4, <2>2, Skips
  <2>3. CASE Block(j) BY <1>4, <2>3, Blocks
  <2>4. CASE Commit(j) BY <1>4, <2>4, Publishes
  <2>5. QED BY <1>4, <2>1, <2>2, <2>3, <2>4 DEF Finishes
<1>5. QED BY <1>2, <1>3, <1>4 DEF RunsKept

Audited == Books /\ Written /\ SkipsHeld /\ RejectionsAreRecorded

(* execute_ingestion: the run, snapshot and issue rows stay in step with the job that writes them,
   through overlaps, conflicts, crashes and replays; the properties below follow. *)
THEOREM AuditedKept == Spec => []Audited
<1>1. Init => Audited BY StartsUp DEF Audited
<1>2. Audited /\ [Next]_vars => Audited'
  <2> SUFFICES ASSUME Audited, [Next]_vars PROVE Audited' OBVIOUS
  <2>1. Books' /\ Written' /\ RunsKept /\ IssuesKept BY Kept DEF Audited
  <2>2. SkipsHeld' BY <2>1, SkipsStep DEF Audited
  <2>3. RejectionsAreRecorded' BY <2>1, RejectionsStep DEF Audited
  <2>4. QED BY <2>1, <2>2, <2>3 DEF Audited
<1>3. QED BY <1>1, <1>2, PTL DEF Spec

(* _persist_quarantine: each rejection of a blocked or completed run has a row under the run's
   fingerprint, be it the run's own or one that was there when the run read the table. *)
THEOREM RejectionsAreRecordedCorrect == Spec => []RejectionsAreRecorded
<1>1. Audited => RejectionsAreRecorded BY DEF Audited
<1>2. QED BY <1>1, AuditedKept, PTL

-----------------------------------------------------------------------------
(* What is published belongs to a completed run.                            *)

(* What a job has read of the tables: a state they had, and they have only grown since. *)
ReadBefore(before, now) ==
  /\ DOMAIN before = Tables /\ Linked(before["players"], before["links"])
  /\ IsFiniteSet(DOMAIN before["players"])
  /\ DOMAIN before["players"] \subseteq DOMAIN now["players"]
  /\ \A key \in DOMAIN before["links"] : key \in DOMAIN now["links"] /\ now["links"][key] = before["links"][key]

Owned ==
  /\ DOMAIN db = Tables /\ IsFiniteSet(DOMAIN db["players"]) /\ FailedRunsPublishNothing
  /\ \A j \in Jobs : job[j].pc = "writing" => ReadBefore(job[j].view.db, db)

(* A commit leaves the tables with what its run brought and what was there. *)
LEMMA CommitOwned ==
  ASSUME Books, Written, Owned, Books', RunsKept, NEW j \in Jobs, Commit(j)
  PROVE  /\ DOMAIN db' = Tables /\ IsFiniteSet(DOMAIN db'["players"]) /\ FailedRunsPublishNothing'
         /\ DOMAIN db["players"] \subseteq DOMAIN db'["players"]
         /\ \A l \in DOMAIN db["links"] : l \in DOMAIN db'["links"] /\ db'["links"][l] = db["links"][l]
<1> DEFINE r == job[j].run
           n == job[j].input
           key == job[j].key
           before == job[j].view.db
           pub == job[j].pub
           after == pub.db
           done(q) == q \in DOMAIN runs' /\ runs'[q].status \in CompletedStatuses
<1>1. n \in Good /\ job[j].pc = "writing" /\ r \in DOMAIN runs
  BY Publishes DEF Books, JobsOK
<1>2. done(r)
  <2>1. PICK status \in CompletedStatuses : Ends(j, status) BY Publishes
  <2>2. QED BY <1>1, <2>1 DEF Ends, OnlyRun
<1>3. \A q : Completed(q) => done(q)
  BY DEF Completed, RunsKept, CompletedStatuses, Unfinished
<1>4. /\ DOMAIN before = Tables /\ Linked(before["players"], before["links"])
      /\ DOMAIN before["players"] \subseteq DOMAIN db["players"]
  BY <1>1 DEF Owned, ReadBefore
<1>5. /\ Published(before, after, key, r)
      /\ \A l \in DOMAIN before["links"] : l \in DOMAIN after["links"] /\ after["links"][l] = before["links"][l]
      /\ \A k \in DOMAIN pub.sifted.rows : k \in DOMAIN after["metrics"] /\ after["metrics"][k].snap = key
  <2>1. pub = Publish(before, Bundle(n), key, r) BY <1>1 DEF Written
  <2>2. IsList(Bundle(n).players) /\ IsList(Bundle(n).candidates) /\ IsList(Bundle(n).metrics)
    BY <1>1, BundleFacts
  <2> HIDE DEF before, n, key, r, pub
  <2>3. QED BY <1>4, <2>1, <2>2, PublishFacts, PublishAnswers
<1>6. /\ db' = Merged(before, pub)
      /\ snaps' = With(snaps, key, [fp |-> Hash[n], run |-> r])
  BY DEF Commit, Publication
<1>19. \A l \in DOMAIN after["links"] : l \notin DOMAIN before["links"] => l \notin DOMAIN db["links"]
  <2>1. "links" \in Tables BY DEF Tables
  <2>2. (DOMAIN after["links"] \ DOMAIN before["links"]) \cap DOMAIN db["links"] = {}
    BY <2>1 DEF Commit, Conflict, Publication
  <2>3. QED BY <2>2
<1> HIDE DEF before, after, pub, key, r, n, done
<1>7. /\ DOMAIN db' = Tables
      /\ \A t \in Tables : \A k \in DOMAIN db'[t] :
           \/ k \in Rewritten(t, before, pub) /\ db'[t][k] = after[t][k]
           \/ k \in DOMAIN db[t] /\ db'[t][k] = db[t][k]
      /\ \A t \in Tables :
           /\ Rewritten(t, before, pub) \subseteq DOMAIN db'[t]
           /\ DOMAIN before[t] \subseteq DOMAIN after[t] => DOMAIN db[t] \subseteq DOMAIN db'[t]
  <2>1. ASSUME NEW t \in Tables
        PROVE  /\ DOMAIN db' = Tables
               /\ \A k \in DOMAIN db'[t] :
                    \/ k \in Rewritten(t, before, pub) /\ db'[t][k] = after[t][k]
                    \/ k \in DOMAIN db[t] /\ db'[t][k] = db[t][k]
               /\ Rewritten(t, before, pub) \subseteq DOMAIN db'[t]
               /\ DOMAIN before[t] \subseteq DOMAIN after[t] => DOMAIN db[t] \subseteq DOMAIN db'[t]
    BY <1>6, <2>1 DEF Merged, Over, after
  <2>2. "players" \in Tables BY DEF Tables
  <2>3. QED BY <2>1, <2>2
<1>20. /\ \A t \in Tables \ {"metrics"} : Rewritten(t, before, pub) = Touched(before[t], after[t])
       /\ Rewritten("metrics", before, pub) = Touched(before["metrics"], after["metrics"]) \cup DOMAIN pub.sifted.rows
  BY DEF Rewritten, after
<1>8. key \in DOMAIN snaps' /\ DOMAIN snaps \subseteq DOMAIN snaps' BY <1>6 DEF With
<1>9. ASSUME NEW k \in DOMAIN snaps' PROVE done(snaps'[k].run)
  <2>1. CASE k = key BY <1>2, <1>6, <2>1 DEF With
  <2>2. CASE k # key
    <3>1. k \in DOMAIN snaps /\ snaps'[k] = snaps[k] BY <1>6, <2>2 DEF With
    <3>2. Completed(snaps[k].run) BY <3>1 DEF Owned, FailedRunsPublishNothing
    <3>3. QED BY <1>3, <3>1, <3>2
  <2>3. QED BY <2>1, <2>2
<1>10. DOMAIN db["players"] \subseteq DOMAIN db'["players"] BY <1>5, <1>7 DEF Published, Tables
<1>11. ASSUME NEW id \in DOMAIN db'["players"] PROVE done(id[1])
  <2>1. id \in DOMAIN db["players"] \/ id \in DOMAIN after["players"] BY <1>7, <1>20 DEF Touched, Tables
  <2>2. id \in DOMAIN db["players"] \/ id[1] = r BY <1>4, <1>5, <2>1 DEF Published
  <2>3. CASE id \in DOMAIN db["players"] BY <1>3, <2>3 DEF Owned, FailedRunsPublishNothing
  <2>4. CASE id[1] = r BY <1>2, <2>4
  <2>5. QED BY <2>2, <2>3, <2>4
<1>12. DOMAIN after["players"] \subseteq DOMAIN db'["players"]
  BY <1>4, <1>7, <1>10, <1>20 DEF Touched, Tables
<1>13. ASSUME NEW k \in DOMAIN db'["links"] PROVE db'["links"][k] \in DOMAIN db'["players"]
  <2>1. CASE k \in Touched(before["links"], after["links"]) /\ db'["links"][k] = after["links"][k]
    BY <1>5, <1>12, <2>1 DEF Touched, Published, Linked
  <2>2. CASE k \in DOMAIN db["links"] /\ db'["links"][k] = db["links"][k]
    BY <1>10, <2>2 DEF Owned, FailedRunsPublishNothing
  <2>3. QED BY <1>7, <1>20, <2>1, <2>2 DEF Tables
<1>14. ASSUME NEW t \in Observed, NEW k \in DOMAIN db'[t] PROVE db'[t][k].snap \in DOMAIN snaps'
  <2>1. t \in Tables BY DEF Observed, Tables
  <2>2. CASE k \in Rewritten(t, before, pub) /\ db'[t][k] = after[t][k]
    <3>1. after[t][k].snap = key BY <1>5, <1>20, <2>1, <2>2 DEF Published, Touched
    <3>2. QED BY <1>8, <2>2, <3>1
  <2>3. CASE k \in DOMAIN db[t] /\ db'[t][k] = db[t][k]
    BY <1>8, <2>3 DEF Owned, FailedRunsPublishNothing, Observed
  <2>4. QED BY <1>7, <2>1, <2>2, <2>3
<1>17. IsFiniteSet(DOMAIN db'["players"])
  <2>1. IsFiniteSet(DOMAIN after["players"]) BY <1>1, <1>5 DEF Owned, ReadBefore, Published, before
  <2>2. DOMAIN db'["players"] \subseteq DOMAIN after["players"] \cup DOMAIN db["players"]
    BY <1>7, <1>20 DEF Touched, Tables
  <2>3. QED BY <2>1, <2>2, FS_Union, FS_Subset DEF Owned
<1>18. ASSUME NEW l \in DOMAIN db["links"] PROVE l \in DOMAIN db'["links"] /\ db'["links"][l] = db["links"][l]
  <2>1. "links" \in Tables \ {"metrics"} BY DEF Tables
  <2>2. l \in DOMAIN db'["links"] BY <1>5, <1>7, <2>1
  <2>3. l \notin Touched(before["links"], after["links"]) BY <1>5, <1>19 DEF Touched
  <2>4. QED BY <1>7, <1>20, <2>1, <2>2, <2>3
<1>15. FailedRunsPublishNothing'
  BY <1>9, <1>11, <1>13, <1>14 DEF FailedRunsPublishNothing, Completed, Observed, done
<1>16. QED BY <1>7, <1>10, <1>15, <1>17, <1>18

(* Every other step leaves the tables as they are. *)
LEMMA TablesUntouched ==
  ASSUME Books, [Next]_vars, \A j \in Jobs : ~Commit(j)
  PROVE  UNCHANGED <<db, snaps>>
<1>1. ASSUME NEW j \in Jobs, Step(j) PROVE UNCHANGED <<db, snaps>>
  BY <1>1, Continues, Aborts, Skips, Blocks DEF Step, GoingOn, Aborting
<1>2. QED BY <1>1 DEF Next, Starts, Start, Crash, vars

LEMMA ViewsKept ==
  ASSUME Books, [Next]_vars, NEW j \in Jobs, job'[j].pc = "writing"
  PROVE  job'[j] = job[j] \/ job'[j].view = [db |-> db, quar |-> quar]
<1>0. DOMAIN job = Jobs /\ DOMAIN job[j] = JobFields BY DEF Books, JobsOK
<1>1. ASSUME NEW i \in Jobs, i # j, Starts(i) \/ Step(i) \/ Crash(i) PROVE job'[j] = job[j]
  <2>1. ASSUME GoingOn(i) PROVE job'[j] = job[j] BY <1>1, <2>1, Continues
  <2>2. ASSUME NEW status, Ends(i, status) PROVE job'[j] = job[j] BY <1>0, <1>1, <2>2 DEF Ends
  <2>3. ASSUME Starts(i) PROVE job'[j] = job[j] BY <1>0, <1>1, <2>3 DEF Starts, Start
  <2>4. ASSUME Crash(i) PROVE job'[j] = job[j] BY <1>0, <1>1, <2>4 DEF Crash, Leave
  <2>5. ASSUME Commit(i) PROVE job'[j] = job[j] BY <1>0, <1>1, <2>5 DEF Commit, Leave
  <2>6. QED BY <1>1, <2>1, <2>2, <2>3, <2>4, <2>5, Aborts, Skips, Blocks DEF Step, GoingOn, Aborting
<1>2. ASSUME Starts(j) \/ Step(j) \/ Crash(j) PROVE job'[j].view = [db |-> db, quar |-> quar]
  <2>1. Idle.pc # "writing" BY DEF Idle
  <2>2. ASSUME NEW status, Ends(j, status) PROVE FALSE BY <1>0, <2>1, <2>2 DEF Ends
  <2>3. ASSUME Starts(j) PROVE FALSE BY <1>0, <2>3 DEF Starts, Start, Idle
  <2>4. ASSUME Crash(j) PROVE FALSE BY <1>0, <2>1, <2>4 DEF Crash, Leave
  <2>5. ASSUME Commit(j) PROVE FALSE BY <1>0, <2>1, <2>5 DEF Commit, Leave
  <2>6. CASE Read(j) BY <1>0, <2>6 DEF Read, JobFields
  <2>7. ASSUME GoingOn(j), ~Read(j) PROVE FALSE
    BY <1>0, <2>7 DEF GoingOn, Validate, Proceed, FindSnapshot, NameSnapshot, InsertSnapshot, Go, JobFields
  <2>8. QED BY <1>2, <2>2, <2>3, <2>4, <2>5, <2>6, <2>7, Aborts, Skips, Blocks DEF Step, GoingOn, Aborting
<1>3. QED BY <1>1, <1>2 DEF Next, vars

LEMMA OwnedStep ==
  ASSUME Books, Written, Owned, [Next]_vars, Books', RunsKept
  PROVE  Owned' /\ DOMAIN db["links"] \subseteq DOMAIN db'["links"]
<1>1. /\ DOMAIN db' = Tables /\ IsFiniteSet(DOMAIN db'["players"]) /\ FailedRunsPublishNothing'
      /\ DOMAIN db["players"] \subseteq DOMAIN db'["players"]
      /\ \A l \in DOMAIN db["links"] : l \in DOMAIN db'["links"] /\ db'["links"][l] = db["links"][l]
  <2>1. CASE \E j \in Jobs : Commit(j) BY <2>1, CommitOwned
  <2>2. CASE \A j \in Jobs : ~Commit(j)
    <3>1. db' = db /\ snaps' = snaps BY <2>2, TablesUntouched
    <3> DEFINE done(q) == q \in DOMAIN runs' /\ runs'[q].status \in CompletedStatuses
    <3>2. \A q : Completed(q) => done(q) BY DEF Completed, RunsKept, CompletedStatuses, Unfinished
    <3> HIDE DEF done
    <3>3. \A k \in DOMAIN snaps : done(snaps[k].run) BY <3>2 DEF Owned, FailedRunsPublishNothing
    <3>4. \A id \in DOMAIN db["players"] : done(id[1]) BY <3>2 DEF Owned, FailedRunsPublishNothing
    <3>5. QED BY <3>1, <3>3, <3>4 DEF Owned, FailedRunsPublishNothing, Completed, done
  <2>3. QED BY <2>1, <2>2
<1>2. ASSUME NEW j \in Jobs, job'[j].pc = "writing"
      PROVE  ReadBefore(job'[j].view.db, db')
  <2>1. CASE job'[j] = job[j] BY <1>1, <1>2, <2>1 DEF Owned, ReadBefore
  <2>2. CASE job'[j].view = [db |-> db, quar |-> quar]
    <3>1. job'[j].view.db = db BY <2>2
    <3>2. Linked(db["players"], db["links"]) BY DEF Owned, FailedRunsPublishNothing, Linked
    <3>3. QED BY <1>1, <3>1, <3>2 DEF Owned, ReadBefore
  <2>3. QED BY <1>2, <2>1, <2>2, ViewsKept
<1>3. QED BY <1>1, <1>2 DEF Owned

(* A bundle without blocking findings names no source record twice. *)
LEMMA CheckedKeys ==
  ASSUME NEW n \in Good, ~QualityReport(Bundle(n)).hasErrors
  PROVE  \A i, k \in DOMAIN Bundle(n).players :
           SourceKey(Bundle(n).players[i]) = SourceKey(Bundle(n).players[k]) => i = k
<1> DEFINE b == Bundle(n)
           keys == Column(b.players, LAMBDA p : <<p.source, p.ext>>)
           hits == Repeated(keys)
           findings == QualityReport(b).findings
<1>1. Len(b.players) \in Nat /\ DOMAIN b.players = 1..Len(b.players) BY BundleFacts, ListIs
<1>2. keys = [i \in DOMAIN b.players |-> SourceKey(b.players[i])] BY DEF Column, SourceKey
<1>3. PICK c2, c3, c4, c5, c6, c7, c8, c9 :
        BundleChecks(b) = <<Flag("duplicate_player_source_ids", "error", hits), c2, c3, c4, c5, c6, c7, c8, c9>>
  BY DEF BundleChecks
<1>4. findings = BundleChecks(b) \o b.warnings BY DEF QualityReport
<1>5. Raised(findings, "error") = {} BY DEF QualityReport
<1>6. IsList(b.warnings) BY BundleFacts
<1> HIDE DEF findings, b
<1>7. Flag("duplicate_player_source_ids", "error", hits) \in ToSet(findings)
  <2> HIDE DEF hits
  <2> DEFINE f == Flag("duplicate_player_source_ids", "error", hits)
  <2> HIDE DEF f
  <2>1. BundleChecks(b) = <<f, c2, c3, c4, c5, c6, c7, c8, c9>> BY <1>3 DEF f
  <2> DEFINE t == BundleChecks(b)
  <2>2. t[1] = f /\ t = [i \in 1..9 |-> t[i]] BY <2>1
  <2> HIDE DEF t
  <2>3. IsList(t) /\ DOMAIN t = 1..9 BY <2>2, ListOf
  <2>6. f \in ToSet(t) BY <2>2, <2>3 DEF ToSet
  <2>4. ToSet(t \o b.warnings) = ToSet(t) \cup ToSet(b.warnings) BY <1>6, <2>3, JoinedMembers
  <2>5. QED BY <1>4, <2>4, <2>6 DEF t, f
<1>8. hits = {}
  <2>1. IsFiniteSet(hits)
    <3> DEFINE at == {i \in DOMAIN keys : \E j \in 1..(i - 1) : keys[j] = keys[i]}
    <3>1. at \subseteq 1..Len(b.players) BY <1>1, <1>2
    <3>2. IsFiniteSet(at)
      <4> HIDE DEF at
      <4>1. IsFiniteSet(1..Len(b.players)) BY <1>1, FS_Interval
      <4>2. QED BY <3>1, <4>1, FS_Subset
    <3>3. hits = {keys[i] : i \in at} BY DEF Repeated
    <3> HIDE DEF at, hits, keys
    <3> DEFINE F == [i \in at |-> keys[i]]
    <3>4. F \in Surjection(at, hits) BY <3>3 DEF Surjection
    <3>5. QED BY <3>2, <3>4, FS_Surjection
  <2> HIDE DEF hits
  <2>2. SUFFICES ASSUME hits # {} PROVE FALSE OBVIOUS
  <2>3. Cardinality(hits) \in Nat /\ Cardinality(hits) # 0 BY <2>1, <2>2, FS_EmptySet, FS_CardinalityType
  <2>4. Flag("duplicate_player_source_ids", "error", hits) \in Raised(findings, "error")
    BY <1>7, <2>2, <2>3 DEF Raised, Flag, Finding
  <2>5. QED BY <1>5, <2>4
<1>9. ASSUME NEW i \in DOMAIN b.players, NEW k \in DOMAIN b.players, i < k,
             SourceKey(b.players[i]) = SourceKey(b.players[k])
      PROVE  FALSE
  <2> HIDE DEF keys
  <2>1. i \in 1..(k - 1) /\ keys[i] = keys[k] /\ k \in DOMAIN keys BY <1>1, <1>2, <1>9
  <2>2. keys[k] \in hits BY <2>1 DEF Repeated, hits
  <2>3. QED BY <1>8, <2>2
<1>10. QED BY <1>1, <1>9 DEF b

(* A job past the quality report has no blocking finding. *)
Checked == \A j \in Jobs : job[j].pc \in Publishing => ~QualityReport(Bundle(job[j].input)).hasErrors

LEMMA CheckedStep ==
  ASSUME Books, Checked, [Next]_vars
  PROVE  Checked'
<1>0. DOMAIN job = Jobs BY DEF Books, JobsOK
<1> SUFFICES ASSUME NEW j \in Jobs, job'[j].pc \in Publishing
             PROVE  ~QualityReport(Bundle(job'[j].input)).hasErrors
  BY DEF Checked
<1>1. CASE job'[j] = job[j] BY <1>1 DEF Checked
<1>2. ASSUME NEW i \in Jobs, i # j, Starts(i) \/ Step(i) \/ Crash(i) PROVE job'[j] = job[j]
  <2>1. ASSUME GoingOn(i) PROVE job'[j] = job[j] BY <1>2, <2>1, Continues
  <2>2. ASSUME NEW status, Ends(i, status) PROVE job'[j] = job[j] BY <1>0, <1>2, <2>2 DEF Ends
  <2>3. ASSUME Starts(i) PROVE job'[j] = job[j] BY <1>0, <1>2, <2>3 DEF Starts, Start
  <2>4. ASSUME Crash(i) PROVE job'[j] = job[j] BY <1>0, <1>2, <2>4 DEF Crash, Leave
  <2>5. ASSUME Commit(i) PROVE job'[j] = job[j] BY <1>0, <1>2, <2>5 DEF Commit, Leave
  <2>6. QED BY <1>2, <2>1, <2>2, <2>3, <2>4, <2>5, Aborts, Skips, Blocks DEF Step, GoingOn, Aborting
<1>3. ASSUME Starts(j) \/ Step(j) \/ Crash(j) PROVE GoingOn(j)
  <2>1. Idle.pc \notin Publishing /\ "planned" \notin Publishing BY DEF Idle, Publishing
  <2>2. ASSUME NEW status, Ends(j, status) PROVE FALSE BY <1>0, <2>1, <2>2 DEF Ends
  <2>3. ASSUME Starts(j) PROVE FALSE BY <1>0, <2>1, <2>3 DEF Starts, Start, Idle
  <2>4. ASSUME Crash(j) PROVE FALSE BY <1>0, <2>1, <2>4 DEF Crash, Leave
  <2>5. ASSUME Commit(j) PROVE FALSE BY <1>0, <2>1, <2>5 DEF Commit, Leave
  <2>6. QED BY <1>3, <2>2, <2>3, <2>4, <2>5, Aborts, Skips, Blocks DEF Step, GoingOn, Aborting
<1>4. CASE GoingOn(j)
  <2>1. job'[j].input = job[j].input BY <1>4, Continues DEF GoesOn
  <2>2. CASE job[j].pc \in Publishing BY <2>1, <2>2 DEF Checked
  <2>3. CASE Proceed(j) BY <2>1, <2>3 DEF Proceed
  <2>4. CASE Validate(j)
    <3>1. job'[j].pc = "validating" BY <1>0, <2>4 DEF Validate, Go, Books, JobsOK, JobFields
    <3>2. QED BY <3>1 DEF Publishing
  <2>5. QED BY <1>4, <2>2, <2>3, <2>4
          DEF GoingOn, FindSnapshot, NameSnapshot, InsertSnapshot, Read, Publishing
<1>5. QED BY <1>1, <1>2, <1>3, <1>4 DEF Next, vars

(* The commit of a run neither links a record several players match nor forgets it. *)
LEMMA CommitAmbiguous ==
  ASSUME Books, Written, Owned, Checked, NEW j \in Jobs, Commit(j),
         NEW p \in ToSet(Publishable(Bundle(job[j].input))),
         SourceKey(p) \notin DOMAIN db["links"], TwoPeople(job[j].view.db["players"], p)
  PROVE  /\ SourceKey(p) \notin DOMAIN db'["links"]
         /\ \E i \in DOMAIN quar' : quar'[i].type = "player" /\ quar'[i].ext = p.ext
<1> DEFINE n == job[j].input
           b == Bundle(n)
           key == job[j].key
           r == job[j].run
           before == job[j].view.db
           pub == job[j].pub
<1>1. n \in Good /\ job[j].pc = "writing" BY Publishes
<1>2. pub = Publish(before, b, key, r) BY <1>1 DEF Written
<1>3. IsList(b.players) /\ IsList(b.candidates) /\ IsList(b.metrics) BY <1>1, BundleFacts
<1>4. \A i, k \in DOMAIN b.players : SourceKey(b.players[i]) = SourceKey(b.players[k]) => i = k
  <2>1. ~QualityReport(b).hasErrors BY <1>1 DEF Checked, Publishing
  <2> HIDE DEF n
  <2>2. QED BY <1>1, <2>1, CheckedKeys
<1>5. ReadBefore(before, db) BY <1>1 DEF Owned
<1>6. p \in ToSet(Publishable(b)) /\ TwoNamesakes(before["players"], p)
  BY DEF TwoPeople, TwoNamesakes, Namesakes
<1>7. db' = Merged(before, pub) BY DEF Commit, Publication
<1>8. \A c \in ToSet(pub.candidates) : \E k \in DOMAIN quar' : SameIssue(quar'[k], c) BY Publishes
<1> HIDE DEF n, b, key, r, before, pub
<1>9. SourceKey(p) \notin DOMAIN before["links"] BY <1>5 DEF ReadBefore
<1>10. /\ SourceKey(p) \notin DOMAIN pub.db["links"]
       /\ \E c \in ToSet(pub.candidates) : c.type = "player" /\ c.ext = p.ext
  BY <1>2, <1>3, <1>4, <1>5, <1>6, <1>9, AmbiguousRejected DEF ReadBefore
<1>11. "links" \in Tables BY DEF Tables
<1>12. SourceKey(p) \notin DOMAIN db'["links"] BY <1>7, <1>10, <1>11 DEF Merged, Over, Rewritten, Touched
<1>13. QED BY <1>8, <1>10, <1>12 DEF SameIssue

(* What the commit of a run leaves in the tables: links and observations, under its snapshot. *)
LEMMA CommitLeaves ==
  ASSUME Books, Written, Owned, NEW j \in Jobs, Commit(j)
  PROVE  LET pub == job[j].pub
             key == job[j].key
         IN  /\ key \in DOMAIN snaps' /\ snaps'[key].run = job[j].run
             /\ \A l \in DOMAIN pub.players : l \in DOMAIN db'["links"]
             /\ \A k \in DOMAIN pub.sifted.rows :
                  /\ k \in DOMAIN db'["metrics"] /\ db'["metrics"][k].snap = key
                  /\ db'["metrics"][k].row = pub.sifted.rows[k].row
                  /\ \E l \in DOMAIN db'["links"] : l[2] = pub.sifted.rows[k].ext /\ db'["links"][l] = k[1]
             /\ \A p \in ToSet(Bundle(job[j].input).players) :
                  \/ SourceKey(p) \in DOMAIN db'["links"]
                  \/ \E c \in ToSet(pub.candidates) : c.ext = p.ext /\ c.reason \in LeftOutReasons
<1> DEFINE n == job[j].input
           b == Bundle(n)
           key == job[j].key
           r == job[j].run
           before == job[j].view.db
           pub == job[j].pub
           links == pub.db["links"]
<1>1. n \in Good /\ job[j].pc = "writing" BY Publishes
<1>2. pub = Publish(before, b, key, r) BY <1>1 DEF Written
<1>3. IsList(b.players) /\ IsList(b.candidates) /\ IsList(b.metrics) BY <1>1, BundleFacts
<1>4. ReadBefore(before, db) BY <1>1 DEF Owned
<1>5. db' = Merged(before, pub) /\ snaps' = With(snaps, key, [fp |-> Hash[n], run |-> r])
  BY DEF Commit, Publication
<1> HIDE DEF n, b, key, r, before, pub
<1>6. /\ \A l \in DOMAIN before["links"] : l \in DOMAIN links /\ links[l] = before["links"][l]
      /\ \A l \in DOMAIN pub.players : l \in DOMAIN links
      /\ \A k \in DOMAIN pub.sifted.rows :
           /\ k \in DOMAIN pub.db["metrics"] /\ pub.db["metrics"][k].snap = key
           /\ pub.db["metrics"][k].row = pub.sifted.rows[k].row
           /\ \E l \in DOMAIN links : l[2] = pub.sifted.rows[k].ext /\ links[l] = k[1]
      /\ \A p \in ToSet(b.players) :
           \/ SourceKey(p) \in DOMAIN links
           \/ \E c \in ToSet(pub.candidates) : c.ext = p.ext /\ c.reason \in LeftOutReasons
  BY <1>2, <1>3, <1>4, PublishAnswers DEF ReadBefore
<1>7. "links" \in Tables /\ "metrics" \in Tables BY DEF Tables
<1>8. ASSUME NEW l \in DOMAIN links PROVE l \in DOMAIN db'["links"] /\ db'["links"][l] = links[l]
  <2>1. CASE l \in Touched(before["links"], links)
    BY <1>5, <1>7, <2>1 DEF Merged, Over, Rewritten
  <2>2. CASE l \notin Touched(before["links"], links)
    <3>1. l \in DOMAIN before["links"] /\ links[l] = before["links"][l] BY <2>2 DEF Touched
    <3>2. l \in DOMAIN db["links"] /\ db["links"][l] = links[l] BY <1>4, <3>1 DEF ReadBefore
    <3>3. l \notin Rewritten("links", before, pub) BY <2>2 DEF Rewritten
    <3>4. QED BY <1>5, <1>7, <3>2, <3>3 DEF Merged, Over
  <2>3. QED BY <2>1, <2>2
<1>9. ASSUME NEW k \in DOMAIN pub.sifted.rows
      PROVE  k \in DOMAIN db'["metrics"] /\ db'["metrics"][k] = pub.db["metrics"][k]
  <2>1. k \in Rewritten("metrics", before, pub) BY DEF Rewritten
  <2>2. QED BY <1>5, <1>7, <2>1 DEF Merged, Over
<1>10. key \in DOMAIN snaps' /\ snaps'[key].run = r BY <1>5 DEF With
<1>11. ASSUME NEW k \in DOMAIN pub.sifted.rows
       PROVE  \E l \in DOMAIN db'["links"] : l[2] = pub.sifted.rows[k].ext /\ db'["links"][l] = k[1]
  <2>1. PICK l \in DOMAIN links : l[2] = pub.sifted.rows[k].ext /\ links[l] = k[1] BY <1>6
  <2>2. l \in DOMAIN db'["links"] /\ db'["links"][l] = links[l] BY <1>8
  <2>3. QED BY <2>1, <2>2
<1>12. \A l \in DOMAIN pub.players : l \in DOMAIN db'["links"] BY <1>6, <1>8
<1>13. \A p \in ToSet(b.players) :
         \/ SourceKey(p) \in DOMAIN db'["links"]
         \/ \E c \in ToSet(pub.candidates) : c.ext = p.ext /\ c.reason \in LeftOutReasons
  BY <1>6, <1>8
<1>14. QED BY <1>6, <1>9, <1>10, <1>11, <1>12, <1>13 DEF pub, key, r, b, n

(* Each player a completed run was given is linked, or the run has rejected it. *)
Accounted ==
  \A r \in DOMAIN runs : Completed(r) =>
    \A p \in ToSet(Bundle(runs[r].input).players) :
      \/ SourceKey(p) \in DOMAIN db["links"]
      \/ \E c \in ToSet(runs[r].rejected) : c.ext = p.ext /\ c.reason \in LeftOutReasons

LEMMA AccountedStep ==
  ASSUME Books, Written, Owned, Accounted, RunsKept, DOMAIN db["links"] \subseteq DOMAIN db'["links"]
  PROVE  Accounted'
<1> SUFFICES ASSUME NEW r \in DOMAIN runs', runs'[r].status \in CompletedStatuses,
                    NEW p \in ToSet(Bundle(runs'[r].input).players)
             PROVE  \/ SourceKey(p) \in DOMAIN db'["links"]
                    \/ \E c \in ToSet(runs'[r].rejected) : c.ext = p.ext /\ c.reason \in LeftOutReasons
  BY DEF Accounted, Completed
<1>1. runs'[r].status \notin Unfinished BY DEF Unfinished, CompletedStatuses
<1>2. CASE r \in DOMAIN runs /\ runs'[r] = runs[r] BY <1>2 DEF Accounted, Completed
<1>3. ASSUME NEW j \in Jobs, r = job[j].run, Finishes(j)
      PROVE  \/ SourceKey(p) \in DOMAIN db'["links"]
             \/ \E c \in ToSet(runs'[r].rejected) : c.ext = p.ext /\ c.reason \in LeftOutReasons
  <2>1. "failed" \notin CompletedStatuses /\ "skipped_idempotent" \notin CompletedStatuses
    BY DEF CompletedStatuses
  <2>2. Commit(j)
    <3>1. CASE Aborting(j) BY <1>3, <2>1, <3>1, Aborts DEF Ends, OnlyRun
    <3>2. CASE SkipIdempotent(j) BY <1>3, <2>1, <3>2, Skips DEF Ends, OnlyRun
    <3>3. CASE Block(j) BY <1>3, <2>1, <3>3, Blocks DEF Ends, OnlyRun
    <3>4. QED BY <1>3, <3>1, <3>2, <3>3 DEF Finishes
  <2>3. Working(j) /\ runs'[r].rejected = job[j].pub.candidates BY <1>3, <2>2, Publishes
  <2>4. runs'[r].input = job[j].input BY <1>3, <2>3 DEF RunsKept, Books, JobsOK
  <2>5. QED BY <2>2, <2>3, <2>4, CommitLeaves
<1>4. QED BY <1>1, <1>2, <1>3 DEF RunsKept

(* The commit of a replay that resolves an issue answers it. *)
LEMMA ResolutionAnswers ==
  ASSUME Books, Written, Owned, RunsKept, NEW j \in Jobs, Commit(j),
         NEW i \in DOMAIN quar, Resolves(j, quar[i]),
         i \in DOMAIN quar', SameRow(quar'[i], quar[i]), quar'[i].by = job[j].run
  PROVE  ~Completed(quar'[i].by) /\ Answered(i)'
<1> DEFINE r == job[j].run
           n == job[j].input
           pub == job[j].pub
           cs == pub.candidates
           key == job[j].key
           q == quar'[i]
           provider == Inputs[n].provider
           again == {c \in ToSet(cs) : q.provider = provider /\ SameKind(q, c)}
           wrote == {k \in DOMAIN db'["metrics"] : snaps'[db'["metrics"][k].snap].run = r}
           row == RowOf(q.context)
<1>1. Working(j) /\ n \in Good /\ runs'[r].rejected = cs BY Publishes
<1>2. PICK status \in CompletedStatuses : Ends(j, status) BY Publishes
<1>3. /\ r \in DOMAIN runs' /\ runs'[r].status \in CompletedStatuses
      /\ runs'[r].input = n /\ runs'[r].replayOf = runs[r].replayOf
  BY <1>1, <1>2 DEF RunsKept, Books, JobsOK, Ends, OnlyRun
<1>4. ~Completed(r)
  <2>1. runs[r].status \in Unfinished BY <1>1 DEF Books, JobsOK
  <2>2. QED BY <2>1 DEF Completed, CompletedStatuses, Unfinished
<1>5. Bundle(n).provider = provider BY <1>1, BundleFacts
<1>6. /\ q.run = quar[i].run /\ q.provider = quar[i].provider /\ q.context = quar[i].context
      /\ q.ext = quar[i].ext /\ q.type = quar[i].type /\ q.reason = quar[i].reason
  BY DEF SameRow, SameIssue
<1>7. /\ quar[i].run = runs[r].replayOf /\ ~StillRejected(quar[i], provider, cs)
      /\ Addressed(quar[i], provider, pub)
  BY <1>5 DEF Resolves, Publication
<1>8. /\ key \in DOMAIN snaps' /\ snaps'[key].run = r
      /\ \A l \in DOMAIN pub.players : l \in DOMAIN db'["links"]
      /\ \A k \in DOMAIN pub.sifted.rows :
           /\ k \in DOMAIN db'["metrics"] /\ db'["metrics"][k].snap = key
           /\ db'["metrics"][k].row = pub.sifted.rows[k].row
           /\ \E l \in DOMAIN db'["links"] : l[2] = pub.sifted.rows[k].ext /\ db'["links"][l] = k[1]
  BY CommitLeaves
<1>9. q.by = r OBVIOUS
<1> HIDE DEF r, n, pub, key, q, provider, cs
<1>10. q.run = runs'[r].replayOf /\ ~StillRejected(q, provider, cs)
  BY <1>3, <1>6, <1>7 DEF StillRejected, SameIssue
<1>11. \A k \in DOMAIN pub.sifted.rows : k \in wrote BY <1>8
<1>12. ASSUME row # None
       PROVE  (\A c \in again : RowOf(c.context) # row) /\ \E k \in wrote : db'["metrics"][k].row = row
  <2>1. /\ \A c \in ToSet(cs) : quar[i].provider = provider /\ SameKind(quar[i], c) => RowOf(c.context) # row
        /\ row \in {m.row : m \in {pub.sifted.rows[k] : k \in DOMAIN pub.sifted.rows}}
    BY <1>6, <1>7, <1>12 DEF Addressed, cs
  <2>2. \A c \in again : RowOf(c.context) # row BY <1>6, <2>1 DEF SameKind
  <2>3. PICK k \in DOMAIN pub.sifted.rows : pub.sifted.rows[k].row = row BY <2>1
  <2>4. k \in wrote /\ db'["metrics"][k].row = row BY <1>8, <1>11, <2>3
  <2>5. QED BY <2>2, <2>4
<1>13. ASSUME row = None
       PROVE  /\ \A c \in again : c.ext # q.ext
              /\ q.type = "player" => \E l \in DOMAIN db'["links"] : l[2] = q.ext
              /\ q.type \in {"metric", "player_metric"} =>
                   \E l \in DOMAIN db'["links"] : l[2] = q.ext /\ \E k \in wrote : k[1] = db'["links"][l]
              /\ q.type \notin {"player", "metric", "player_metric"} => q.ext = None
  <2>1. /\ \A c \in ToSet(cs) : quar[i].provider = provider /\ SameKind(quar[i], c) => c.ext # q.ext
        /\ q.type = "player" => \E k \in DOMAIN pub.players : k[2] = q.ext
        /\ q.type \in {"metric", "player_metric"} =>
             \E k \in DOMAIN pub.sifted.rows : pub.sifted.rows[k].ext = q.ext
        /\ q.type \notin {"player", "metric", "player_metric"} => q.ext = None
    BY <1>6, <1>7, <1>13 DEF Addressed, cs
  <2>2. \A c \in again : c.ext # q.ext BY <1>6, <2>1 DEF SameKind
  <2>3. q.type = "player" => \E l \in DOMAIN db'["links"] : l[2] = q.ext BY <1>8, <2>1
  <2>4. ASSUME q.type \in {"metric", "player_metric"}
        PROVE  \E l \in DOMAIN db'["links"] : l[2] = q.ext /\ \E k \in wrote : k[1] = db'["links"][l]
    <3>1. PICK k \in DOMAIN pub.sifted.rows : pub.sifted.rows[k].ext = q.ext BY <2>1, <2>4
    <3>2. PICK l \in DOMAIN db'["links"] : l[2] = pub.sifted.rows[k].ext /\ db'["links"][l] = k[1] BY <1>8
    <3>3. k \in wrote BY <1>11
    <3> HIDE DEF wrote
    <3>4. QED BY <3>1, <3>2, <3>3
  <2>5. QED BY <2>1, <2>2, <2>3, <2>4
<1> HIDE DEF again, wrote, row
<1>14. /\ row # None => (\A c \in again : RowOf(c.context) # row) /\ \E k \in wrote : db'["metrics"][k].row = row
       /\ row = None =>
            /\ \A c \in again : c.ext # q.ext
            /\ q.type = "player" => \E l \in DOMAIN db'["links"] : l[2] = q.ext
            /\ q.type \in {"metric", "player_metric"} =>
                 \E l \in DOMAIN db'["links"] : l[2] = q.ext /\ \E k \in wrote : k[1] = db'["links"][l]
            /\ q.type \notin {"player", "metric", "player_metric"} => q.ext = None
  BY <1>12, <1>13
<1>15. /\ again = {c \in ToSet(runs'[q.by].rejected) : q.provider = Inputs[runs'[q.by].input].provider /\ SameKind(q, c)}
       /\ wrote = {k \in DOMAIN db'["metrics"] : snaps'[db'["metrics"][k].snap].run = q.by}
       /\ row = RowOf(q.context) /\ provider = Inputs[runs'[q.by].input].provider
       /\ runs'[q.by].rejected = cs /\ q = quar'[i]
  BY <1>1, <1>3, <1>9 DEF again, wrote, row, provider, q
<1>16. Answered(i)' BY <1>3, <1>9, <1>10, <1>14, <1>15 DEF Answered, Completed
<1>17. QED BY <1>4, <1>9, <1>16 DEF q

Ruled == Audited /\ Owned /\ Checked /\ Accounted

(* resolve_players within ingest_bundle: what a run reads of the tables stays there, and its
   records have passed the checks, and each player of a published file is accounted for, through
   overlaps, conflicts and crashes of other runs. *)
THEOREM RuledKept == Spec => []Ruled
<1>1. Init => Owned
  <2> SUFFICES ASSUME Init PROVE Owned OBVIOUS
  <2>1. DOMAIN snaps = {} /\ DOMAIN db = Tables /\ \A t \in Tables : DOMAIN db[t] = {}
    BY DEF Init, EmptyStore
  <2>2. \A j \in Jobs : job[j].pc # "writing" BY DEF Init, Idle
  <2>4. IsFiniteSet(DOMAIN db["players"]) BY <2>1, FS_EmptySet DEF Tables
  <2>3. QED BY <2>1, <2>2, <2>4 DEF Owned, FailedRunsPublishNothing, Tables
<1>2. Init => Checked BY DEF Init, Idle, Checked, Publishing
<1>7. Init => Accounted BY DEF Init, Accounted
<1>3. Ruled /\ [Next]_vars => Owned' /\ Checked' /\ Accounted'
  <2> SUFFICES ASSUME Ruled, [Next]_vars PROVE Owned' /\ Checked' /\ Accounted' OBVIOUS
  <2>1. Books' /\ RunsKept BY Kept DEF Ruled, Audited
  <2>2. Owned' /\ DOMAIN db["links"] \subseteq DOMAIN db'["links"] BY <2>1, OwnedStep DEF Ruled, Audited
  <2>3. Accounted' BY <2>1, <2>2, AccountedStep DEF Ruled, Audited
  <2>4. QED BY <2>2, <2>3, CheckedStep DEF Ruled, Audited
<1>4. Init => Ruled BY <1>1, <1>2, <1>7, StartsUp DEF Ruled, Audited
<1>5. Ruled /\ Audited' /\ [Next]_vars => Ruled' BY <1>3 DEF Ruled
<1>6. QED BY <1>4, <1>5, AuditedKept, PTL DEF Spec

(* execute_ingestion: snapshots, players, links and observations are those of completed runs,
   whatever fails, conflicts or dies beside them. *)
THEOREM FailedRunsPublishNothingCorrect == Spec => []FailedRunsPublishNothing
<1>1. Ruled => FailedRunsPublishNothing BY DEF Ruled, Owned
<1>2. QED BY <1>1, RuledKept, PTL

(* resolve_players and _persist_quarantine: a commit links nobody to a record that two players of
   the tables it read could be, even if they are no longer two, and leaves an issue about it. *)
THEOREM AmbiguousStaysUnlinkedCorrect == Spec => AmbiguousStaysUnlinked
<1> DEFINE Unlinks == \A j \in Jobs : Commit(j) =>
             \A p \in ToSet(Publishable(Bundle(job[j].input))) :
               SourceKey(p) \notin DOMAIN db["links"] /\ TwoPeople(job[j].view.db["players"], p) =>
                 /\ SourceKey(p) \notin DOMAIN db'["links"]
                 /\ \E i \in DOMAIN quar' : quar'[i].type = "player" /\ quar'[i].ext = p.ext
<1>1. Ruled /\ [Next]_vars => Unlinks
  <2> SUFFICES ASSUME Ruled, NEW j \in Jobs, Commit(j), NEW p \in ToSet(Publishable(Bundle(job[j].input))),
                      SourceKey(p) \notin DOMAIN db["links"], TwoPeople(job[j].view.db["players"], p)
               PROVE  /\ SourceKey(p) \notin DOMAIN db'["links"]
                      /\ \E i \in DOMAIN quar' : quar'[i].type = "player" /\ quar'[i].ext = p.ext
    OBVIOUS
  <2>1. QED BY CommitAmbiguous DEF Ruled, Audited
<1>2. (Spec => []Ruled) => (Spec => [][Unlinks]_vars)
  <2>1. Ruled /\ [Next]_vars => [Unlinks]_vars BY <1>1
  <2> HIDE DEF Unlinks
  <2>2. QED BY <2>1, PTL DEF Spec
<1>3. AmbiguousStaysUnlinked <=> [][Unlinks]_vars BY DEF AmbiguousStaysUnlinked
<1>4. QED BY <1>2, <1>3, RuledKept, PTL

(* ingest_bundle skips a file for a published one, and each player the skipped file names is
   linked, or an issue of the same snapshot says why not: of the players the fingerprint tells all,
   and publications account for them. *)
THEOREM SkipLeavesNobodyOutCorrect == Spec => []SkipLeavesNobodyOut
<1>1. Ruled => SkipLeavesNobodyOut
  <2> SUFFICES ASSUME Ruled, NEW r \in DOMAIN runs, runs[r].status = "skipped_idempotent",
                      NEW p \in ToSet(Bundle(runs[r].input).players)
               PROVE  \/ SourceKey(p) \in DOMAIN db["links"]
                      \/ \E i \in DOMAIN quar : /\ quar[i].fp = runs[r].fp /\ quar[i].ext = p.ext
                                                /\ quar[i].reason \in LeftOutReasons
    BY DEF SkipLeavesNobodyOut
  <2> DEFINE of == runs[r].of
             m == runs[of].input
             n == runs[r].input
  <2>1. /\ n \in Good /\ runs[r].fp = Hash[n] /\ Completed(of) /\ runs[of].fp = Hash[n]
    BY DEF Ruled, Audited, SkipsHeld
  <2>2. of \in DOMAIN runs /\ m \in Good /\ runs[of].fp = Hash[m]
    BY <2>1 DEF Completed, Ruled, Audited, Books, RunsOK
  <2> HIDE DEF of, m, n
  <2>3. Fingerprint(Bundle(m)) = Fingerprint(Bundle(n)) BY <2>1, <2>2, HashTells
  <2>4. PICK o \in ToSet(Bundle(m).players) : SourceKey(o) = SourceKey(p)
    <3> DEFINE keys(b) == {<<x.source, x.ext>> : x \in ToSet(b.players)}
    <3>1. \A b : DOMAIN Fingerprint(b).inventory.players = keys(b) BY DEF Fingerprint, Inventory, Keyed
    <3>2. keys(Bundle(m)) = keys(Bundle(n))
      <4> HIDE DEF keys
      <4>1. QED BY <2>3, <3>1
    <3>3. <<p.source, p.ext>> \in keys(Bundle(n)) BY DEF n
    <3>4. QED BY <3>2, <3>3 DEF SourceKey
  <2>5. o.ext = p.ext BY <2>4 DEF SourceKey
  <2>6. \/ SourceKey(o) \in DOMAIN db["links"]
        \/ \E c \in ToSet(runs[of].rejected) : c.ext = o.ext /\ c.reason \in LeftOutReasons
    BY <2>1, <2>2, <2>4 DEF Ruled, Accounted, m
  <2>7. ASSUME NEW c \in ToSet(runs[of].rejected), c.ext = o.ext, c.reason \in LeftOutReasons
        PROVE  \E i \in DOMAIN quar : /\ quar[i].fp = runs[r].fp /\ quar[i].ext = p.ext
                                      /\ quar[i].reason \in LeftOutReasons
    <3>1. PICK i \in DOMAIN quar : quar[i].fp = runs[of].fp /\ SameIssue(quar[i], c)
      BY <2>2 DEF Ruled, Audited, RejectionsAreRecorded
    <3>2. QED BY <2>1, <2>5, <2>7, <3>1 DEF SameIssue
  <2>8. QED BY <2>4, <2>6, <2>7
<1>2. QED BY <1>1, RuledKept, PTL

(* _resolve_replayed_quarantine: an issue is resolved only in the commit of a replay of its run,
   which rejects neither the record nor its line or identity again, and has stored the line, or
   linked the player or stored an observation of it. *)
THEOREM ResolvedIsAnsweredCorrect == Spec => ResolvedIsAnswered
<1> DEFINE Answers == \A i \in DOMAIN quar : quar[i].status = "open" /\ quar'[i].status = "resolved" =>
                        ~Completed(quar'[i].by) /\ Answered(i)'
<1>1. Ruled /\ [Next]_vars => Answers
  <2> SUFFICES ASSUME Ruled, [Next]_vars, NEW i \in DOMAIN quar,
                      quar[i].status = "open", quar'[i].status = "resolved"
               PROVE  ~Completed(quar'[i].by) /\ Answered(i)'
    OBVIOUS
  <2>1. RunsKept /\ IssuesKept BY Kept DEF Ruled, Audited
  <2>2. i \in DOMAIN quar' /\ SameRow(quar'[i], quar[i]) BY <2>1 DEF IssuesKept
  <2>3. "open" # "resolved" /\ quar'[i] # quar[i] OBVIOUS
  <2>4. PICK j \in Jobs : Commit(j) /\ Resolves(j, quar[i]) /\ quar'[i].by = job[j].run
    BY <2>1, <2>2, <2>3 DEF IssuesKept
  <2>5. QED BY <2>1, <2>2, <2>4, ResolutionAnswers DEF Ruled, Audited
<1>2. (Spec => []Ruled) => (Spec => [][Answers]_vars)
  <2>1. Ruled /\ [Next]_vars => [Answers]_vars BY <1>1
  <2> HIDE DEF Answers
  <2>2. QED BY <2>1, PTL DEF Spec
<1>3. ResolvedIsAnswered <=> [][Answers]_vars BY DEF ResolvedIsAnswered
<1>4. QED BY <1>2, <1>3, RuledKept, PTL

=============================================================================
