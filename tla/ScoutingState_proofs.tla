------------------------- MODULE ScoutingState_proofs -------------------------
(* Proofs about ScoutingState, for every set of accounts and players, every
   starting list and every bound: its types, its generation tokens, and one
   inductive invariant, Inv, from which its safety properties follow. *)
EXTENDS ScoutingState, DeviceScouting, ListFacts, TLAPS

-----------------------------------------------------------------------------
(* The operators on lists. *)

(* A list without a player. *)
LEMMA WithoutIdFacts ==
  ASSUME NEW ids \in Lists, NEW p \in Player
  PROVE  WithoutId(ids, p) \in Lists /\ ToSet(WithoutId(ids, p)) = ToSet(ids) \ {p}
         /\ (p \notin ToSet(ids) => WithoutId(ids, p) = ids)
<1> DEFINE keep == ToSet(ids) \ {p}
<1> HIDE DEF keep
<1>1. Sublist(ids, keep) \in Seq(Player) /\ ToSet(Sublist(ids, keep)) = ToSet(ids) \cap keep
      /\ (ToSet(ids) \subseteq keep => Sublist(ids, keep) = ids)
  BY SublistFacts DEF Lists
<1>2. QED BY <1>1 DEF WithoutId, Lists, keep

(* A list with a player. *)
LEMMA WithIdFacts ==
  ASSUME NEW ids \in Lists, NEW p \in Player
  PROVE  WithId(ids, p) \in Lists /\ ToSet(WithId(ids, p)) = ToSet(ids) \cup {p}
         /\ (p \in ToSet(ids) => WithId(ids, p) = ids)
BY MembersAppended DEF WithId, Lists

(* A toggle changes the one player it names. *)
LEMMA ToggledFacts ==
  ASSUME NEW ids \in Lists, NEW p \in Player
  PROVE  Toggled(ids, p) \in Lists
         /\ ToSet(Toggled(ids, p)) = IF p \in ToSet(ids) THEN ToSet(ids) \ {p} ELSE ToSet(ids) \cup {p}
BY WithoutIdFacts, WithIdFacts DEF Toggled

(* A player's place in a list. *)
LEMMA AtFacts ==
  ASSUME NEW ids \in Lists, NEW p \in ToSet(ids)
  PROVE  At(ids, p) \in 1..Len(ids) /\ ids[At(ids, p)] = p
BY Members DEF At, Lists

(* The anchors of a player are players, or nobody. *)
LEMMA AnchorsType ==
  ASSUME NEW ids \in Lists, NEW p \in Player
  PROVE  AnchorsOf(ids, p) \in Anchors /\ NoAnchors \in Anchors
<1>1. NoAnchors \in Anchors BY DEF NoAnchors, Anchors, Neighbour
<1>2. ASSUME p \in ToSet(ids) PROVE AnchorsOf(ids, p) \in Anchors
  <2> DEFINE at == At(ids, p)
  <2>1. at \in 1..Len(ids) BY <1>2, AtFacts
  <2> HIDE DEF at
  <2>2. at > 1 => ids[at - 1] \in Player BY <2>1 DEF Lists
  <2>3. at < Len(ids) => ids[at + 1] \in Player BY <2>1 DEF Lists
  <2>4. QED BY <1>2, <2>2, <2>3 DEF AnchorsOf, Anchors, Neighbour, at
<1>3. QED BY <1>1, <1>2 DEF AnchorsOf

(* A rollback puts the player back and nobody else. *)
LEMMA RestoreFacts ==
  ASSUME NEW ids \in Lists, NEW p \in Player, NEW anchors \in Anchors
  PROVE  RestoreWithAnchors(ids, p, anchors) \in Lists
         /\ ToSet(RestoreWithAnchors(ids, p, anchors)) = ToSet(ids) \cup {p}
<1> DEFINE at(q) == At(ids, q)
<1>1. ASSUME NEW q \in ToSet(ids)
      PROVE  at(q) \in 1..(Len(ids) + 1) /\ at(q) + 1 \in 1..(Len(ids) + 1)
  BY AtFacts DEF Lists
<1>2. ASSUME NEW q \in ToSet(ids)
      PROVE  /\ InsertAt(ids, at(q), p) \in Lists /\ InsertAt(ids, at(q) + 1, p) \in Lists
             /\ ToSet(InsertAt(ids, at(q), p)) = ToSet(ids) \cup {p}
             /\ ToSet(InsertAt(ids, at(q) + 1, p)) = ToSet(ids) \cup {p}
  <2>1. ids \in Seq(Player) /\ at(q) \in 1..(Len(ids) + 1) /\ at(q) + 1 \in 1..(Len(ids) + 1)
    BY <1>1 DEF Lists
  <2> HIDE DEF at
  <2>2. QED BY <2>1, InsertAtFacts DEF Lists
<1>3. Append(ids, p) \in Lists /\ ToSet(Append(ids, p)) = ToSet(ids) \cup {p}
  BY MembersAppended DEF Lists
<1>4. CASE p \in ToSet(ids) BY <1>4 DEF RestoreWithAnchors
<1>5. CASE p \notin ToSet(ids) /\ anchors.next \in ToSet(ids)
  BY <1>5, <1>2 DEF RestoreWithAnchors
<1>6. CASE p \notin ToSet(ids) /\ anchors.next \notin ToSet(ids) /\ anchors.previous \in ToSet(ids)
  BY <1>6, <1>2 DEF RestoreWithAnchors
<1>7. CASE p \notin ToSet(ids) /\ anchors.next \notin ToSet(ids) /\ anchors.previous \notin ToSet(ids)
  BY <1>7, <1>3 DEF RestoreWithAnchors
<1>8. QED BY <1>4, <1>5, <1>6, <1>7

(* The intents on the books, as the set of them. *)
OneEach(intents) == \A i, j \in ToSet(intents) : i.player = j.player => i = j

(* Recording an intent leaves one intent a player, the new one for its own. *)
LEMMA SetIntentFacts ==
  ASSUME NEW intents \in Seq(Intent), OneEach(intents), NEW i \in Intent
  PROVE  /\ SetIntent(intents, i) \in Seq(Intent)
         /\ ToSet(SetIntent(intents, i)) = {j \in ToSet(intents) : j.player # i.player} \cup {i}
         /\ OneEach(SetIntent(intents, i))
<1> DEFINE t == SetIntent(intents, i)
<1>1. CASE IntentFor(intents, i.player) = {}
  <2>1. t = Append(intents, i) BY <1>1 DEF SetIntent
  <2>2. t \in Seq(Intent) /\ ToSet(t) = ToSet(intents) \cup {i} BY <2>1, MembersAppended
  <2>3. \A j \in ToSet(intents) : j.player # i.player BY <1>1 DEF IntentFor
  <2> HIDE DEF t
  <2>4. OneEach(t) BY <2>2, <2>3 DEF OneEach
  <2>5. QED BY <2>2, <2>3, <2>4 DEF t
<1>2. CASE IntentFor(intents, i.player) # {}
  <2>1. t = [k \in 1..Len(intents) |-> IF intents[k].player = i.player THEN i ELSE intents[k]]
    BY <1>2 DEF SetIntent
  <2> HIDE DEF t
  <2>2. t \in Seq(Intent) /\ Len(t) = Len(intents) BY <2>1
  <2>3. ToSet(intents) = {intents[k] : k \in 1..Len(intents)} /\ ToSet(t) = {t[k] : k \in 1..Len(intents)}
    BY <2>2, Members
  <2>4. \A j \in ToSet(t) : j \in {m \in ToSet(intents) : m.player # i.player} \cup {i}
    BY <2>1, <2>3
  <2>5. \A j \in ToSet(intents) : j.player # i.player => j \in ToSet(t) BY <2>1, <2>3
  <2>6. i \in ToSet(t)
    <3>1. PICK k \in 1..Len(intents) : intents[k].player = i.player BY <1>2, <2>3 DEF IntentFor
    <3>2. t[k] = i BY <3>1, <2>1
    <3>3. QED BY <3>2, <2>3
  <2>7. ToSet(t) = {j \in ToSet(intents) : j.player # i.player} \cup {i} BY <2>4, <2>5, <2>6
  <2>8. OneEach(t) BY <2>7 DEF OneEach
  <2>9. QED BY <2>2, <2>7, <2>8 DEF t
<1>3. QED BY <1>1, <1>2

(* Settling a request retires no intent but its own revision. *)
LEMMA SettledFacts ==
  ASSUME NEW r \in Request, book.intents \in Seq(Intent), OneEach(book.intents)
  PROVE  /\ Settled(r) \in Seq(Intent)
         /\ ToSet(Settled(r)) = {i \in ToSet(book.intents) : i.player # r.player \/ i.revision # r.revision}
         /\ OneEach(Settled(r))
<1> DEFINE keep == {i \in ToSet(book.intents) : i.player # r.player \/ i.revision # r.revision}
<1>1. keep \subseteq ToSet(book.intents) OBVIOUS
<1> HIDE DEF keep
<1>2. Sublist(book.intents, keep) \in Seq(Intent) /\ ToSet(Sublist(book.intents, keep)) = keep
  <2>1. Sublist(book.intents, keep) \in Seq(Intent)
        /\ ToSet(Sublist(book.intents, keep)) = ToSet(book.intents) \cap keep
    BY SublistFacts
  <2>2. QED BY <2>1, <1>1
<1>3. Settled(r) = Sublist(book.intents, keep) BY DEF Settled, keep
<1>4. ToSet(Settled(r)) \subseteq ToSet(book.intents) BY <1>1, <1>2, <1>3
<1>5. OneEach(Settled(r)) BY <1>4 DEF OneEach
<1>6. QED BY <1>2, <1>3, <1>5 DEF keep

(* The list on screen after an answer: the answer's players, and those being added. *)
LEMMA ApplyIntentsFacts ==
  ASSUME NEW base \in Lists, NEW intents \in Seq(Intent)
  PROVE  /\ ApplyIntents(base, intents) \in Lists
         /\ ToSet(ApplyIntents(base, intents))
              \subseteq ToSet(base) \cup {i.player : i \in {j \in ToSet(intents) : j.want}}
         /\ (intents = <<>> => ApplyIntents(base, intents) = base)
<1> DEFINE keptSet == {p \in ToSet(base) : \A i \in IntentFor(intents, p) : i.want}
           addSet == {i \in ToSet(intents) : i.want /\ i.player \notin ToSet(base)}
           remaining == Sublist(base, keptSet)
           adds == Sublist(intents, addSet)
           added == [k \in 1..Len(adds) |-> adds[k].player]
<1>1. ApplyIntents(base, intents) = remaining \o added BY DEF ApplyIntents
<1>2. keptSet \subseteq ToSet(base) /\ addSet \subseteq ToSet(intents) /\ \A i \in addSet : i.want
  OBVIOUS
<1>3. intents = <<>> => ToSet(base) \subseteq keptSet /\ addSet = {} BY Members DEF IntentFor
<1> HIDE DEF keptSet, addSet
<1>4. remaining \in Seq(Player) /\ ToSet(remaining) = ToSet(base) \cap keptSet
      /\ (ToSet(base) \subseteq keptSet => remaining = base)
  BY SublistFacts DEF Lists
<1>5. adds \in Seq(Intent) /\ ToSet(adds) = ToSet(intents) \cap addSet BY SublistFacts
<1>6. ToSet(adds) = {} <=> adds = <<>> BY <1>5, Members
<1>7. ToSet(adds) = {adds[k] : k \in 1..Len(adds)} BY <1>5, Members
<1> HIDE DEF remaining, adds
<1>8. added \in Seq(Player) /\ Len(added) = Len(adds)
  <2>1. Len(adds) \in Nat /\ \A k \in 1..Len(adds) : adds[k] \in Intent BY <1>5
  <2>2. \A k \in 1..Len(adds) : adds[k].player \in Player BY <2>1 DEF Intent
  <2>3. added \in [1..Len(adds) -> Player] BY <2>2
  <2>4. QED BY <2>1, <2>3
<1>9. ToSet(added) \subseteq {i.player : i \in ToSet(adds)}
  <2>1. \A k \in 1..Len(adds) : added[k] = adds[k].player OBVIOUS
  <2> HIDE DEF added
  <2>2. ToSet(added) = {added[k] : k \in 1..Len(added)} BY <1>8, Members
  <2>3. QED BY <2>1, <2>2, <1>7, <1>8
<1> HIDE DEF added
<1>10. remaining \o added \in Seq(Player) /\ ToSet(remaining \o added) = ToSet(remaining) \cup ToSet(added)
  BY <1>4, <1>8, MembersJoined
<1>11. ToSet(adds) \subseteq {j \in ToSet(intents) : j.want} BY <1>2, <1>5
<1>12. intents = <<>> => remaining \o added = base
  <2>1. SUFFICES ASSUME intents = <<>> PROVE remaining \o added = base OBVIOUS
  <2>2. remaining = base /\ adds = <<>> BY <2>1, <1>3, <1>4, <1>5, <1>6
  <2>3. added = <<>>
    <3>1. Len(adds) = 0 BY <2>2
    <3>2. QED BY <3>1, <1>8
  <2>4. QED BY <2>2, <2>3 DEF Lists
<1>13. QED BY <1>1, <1>4, <1>9, <1>10, <1>11, <1>12 DEF Lists

(* What the server makes of a request; a list it leaves with the same players is the same list. *)
LEMMA HandledFacts ==
  ASSUME NEW r \in Request, server \in [Account -> Lists], r.kind \in {"add", "remove"} => r.player \in Player
  PROVE  /\ Handled(r) \in Lists
         /\ ToSet(Handled(r)) =
              CASE r.kind = "get"    -> ToSet(server[r.account])
                [] r.kind = "add"    -> ToSet(server[r.account]) \cup {r.player}
                [] r.kind = "remove" -> ToSet(server[r.account]) \ {r.player}
                [] r.kind = "merge"  -> ToSet(server[r.account]) \cup ToSet(r.list)
         /\ (ToSet(Handled(r)) = ToSet(server[r.account]) => Handled(r) = server[r.account])
<1> DEFINE list == server[r.account]
           missing == Sublist(r.list, ToSet(r.list) \ ToSet(list))
<1>1. list \in Lists /\ r.list \in Lists BY DEF Request
<1>2. r.kind \in {"get", "merge", "add", "remove"} BY DEF Request
<1> HIDE DEF list
<1>3. missing \in Lists /\ ToSet(missing) = ToSet(r.list) \ ToSet(list)
  <2>1. ToSet(missing) = ToSet(r.list) \cap (ToSet(r.list) \ ToSet(list)) /\ missing \in Lists
    BY <1>1, SublistFacts DEF Lists
  <2>2. QED BY <2>1
<1> HIDE DEF missing
<1>4. list \o missing \in Lists /\ ToSet(list \o missing) = ToSet(list) \cup ToSet(missing)
  BY <1>1, <1>3, MembersJoined DEF Lists
<1>5. ToSet(missing) \subseteq ToSet(list) => list \o missing = list
  <2>1. ASSUME ToSet(missing) \subseteq ToSet(list) PROVE missing = <<>>
    <3>1. ToSet(missing) = {} BY <2>1, <1>3
    <3>2. QED BY <3>1, <1>3, Members DEF Lists
  <2>2. list \o <<>> = list BY <1>1 DEF Lists
  <2>3. QED BY <2>1, <2>2
<1>6. CASE r.kind = "get" BY <1>6, <1>1 DEF Handled, list
<1>7. CASE r.kind = "add" BY <1>7, <1>1, WithIdFacts DEF Handled, list
<1>8. CASE r.kind = "remove" BY <1>8, <1>1, WithoutIdFacts DEF Handled, list
<1>9. CASE r.kind = "merge"
  <2>1. Handled(r) = list \o missing BY <1>9 DEF Handled, list, missing
  <2>2. QED BY <2>1, <1>9, <1>3, <1>4, <1>5 DEF list
<1>10. QED BY <1>2, <1>6, <1>7, <1>8, <1>9

-----------------------------------------------------------------------------
(* Type correctness. *)

(* The players of an intent's request are real ones, and there is an account state to apply it to. *)
WellFormed ==
  /\ TypeOK
  /\ OneEach(book.intents)
  /\ book.intents # <<>> => fav # NoFavorites
  /\ \A r \in sent \cup {a.request : a \in ToSet(answers)} : IsLoad(r) <=> r.player = Nobody

(* The types the proofs below use, at the places they use them. *)
LEMMA TypeFacts ==
  ASSUME WellFormed
  PROVE  /\ fav # NoFavorites => fav \in Favorites
         /\ book.intents \in Seq(Intent) /\ book.next \in Nat
         /\ OneEach(book.intents)
         /\ \A r \in sent : r \in Request
         /\ Len(answers) \in Nat
         /\ \A k \in 1..Len(answers) :
              /\ answers[k].request \in Request /\ answers[k].list \in Lists
              /\ answers[k] \in ToSet(answers)
              /\ IsLoad(answers[k].request) <=> answers[k].request.player = Nobody
<1>1. /\ fav # NoFavorites => fav \in Favorites
      /\ book.intents \in Seq(Intent) /\ book.next \in Nat
      /\ OneEach(book.intents)
      /\ \A r \in sent : r \in Request
  BY DEF WellFormed, TypeOK
<1>2. answers \in Seq(Answer) BY DEF WellFormed, TypeOK
<1>3. Len(answers) \in Nat BY <1>2
<1>4. ASSUME NEW k \in 1..Len(answers)
      PROVE  /\ answers[k].request \in Request /\ answers[k].list \in Lists
             /\ answers[k] \in ToSet(answers)
             /\ IsLoad(answers[k].request) <=> answers[k].request.player = Nobody
  <2>1. answers[k] \in Answer BY <1>2
  <2>2. answers[k] \in ToSet(answers) BY <1>2, Members
  <2>3. QED BY <2>1, <2>2 DEF WellFormed, Answer
<1>5. QED BY <1>1, <1>3, <1>4

(* The first render is well-formed. *)
LEMMA InitWellFormed == Init => WellFormed
<1> SUFFICES ASSUME Init PROVE WellFormed OBVIOUS
<1>1. ToSet(<<>>) = {} BY DEF ToSet
<1>2. TypeOK
  <2>1. \A a \in Account : ServerLists[a] \in Lists /\ ToSet(ServerLists[a]) \subseteq Player
    BY ListsAssumption, Members DEF Lists
  <2>2. DeviceList \in Lists /\ ToSet(DeviceList) \subseteq Player
    BY ListsAssumption, Members DEF Lists
  <2>3. book \in [intents : Seq(Intent), next : Nat]
    BY DEF Init, EmptyBook
  <2>4. server \in [Account -> Lists] /\ seen \in [Account -> SUBSET Player]
    BY <2>1, ListsAssumption DEF Init, Lists
  <2>5. answers \in Seq(Answer) BY DEF Init
  <2>6. QED BY <2>2, <2>3, <2>4, <2>5 DEF Init, TypeOK, Tokens
<1>3. QED BY <1>1, <1>2 DEF Init, WellFormed, OneEach, EmptyBook

(* What Settle writes is well-formed. *)
LEMMA SettleType ==
  ASSUME WellFormed, NEW r \in Request, ~IsLoad(r) <=> r.player # Nobody, ~IsLoad(r), Settle(r)
  PROVE  /\ r.player \in Player
         /\ queued' \in [Player -> Nat]
         /\ book' \in [intents : Seq(Intent), next : Nat]
         /\ book'.intents = Settled(r) /\ book'.next = book.next
         /\ OneEach(book'.intents)
         /\ (book'.intents # <<>> => fav # NoFavorites)
<1>1. r.player \in Player BY DEF Request, Neighbour
<1>2. book.intents \in Seq(Intent) /\ OneEach(book.intents) /\ book.next \in Nat BY TypeFacts
<1>3. Settled(r) \in Seq(Intent) /\ OneEach(Settled(r)) /\ ToSet(Settled(r)) \subseteq ToSet(book.intents)
  BY <1>2, SettledFacts
<1>4. book' = [book EXCEPT !.intents = Settled(r)] /\ book \in [intents : Seq(Intent), next : Nat]
  BY DEF Settle, WellFormed, TypeOK, Intent
<1>5. book' \in [intents : Seq(Intent), next : Nat] /\ book'.intents = Settled(r) /\ book'.next = book.next
  BY <1>3, <1>4
<1>6. queued' \in [Player -> Nat] BY <1>1 DEF Settle, WellFormed, TypeOK
<1>7. book'.intents # <<>> => fav # NoFavorites
  <2>1. Settled(r) # <<>> => book.intents # <<>> BY <1>2, <1>3, Members
  <2>2. QED BY <2>1, <1>5 DEF WellFormed
<1>8. QED BY <1>1, <1>3, <1>5, <1>6, <1>7

(* A failure handler keeps the types, whatever became of the request. *)
LEMMA FailedType ==
  ASSUME WellFormed, NEW r \in Request, IsLoad(r) <=> r.player = Nobody,
         LoadFailed(r) \/ SaveFailed(r)
  PROVE  /\ fav' = NoFavorites \/ fav' \in Favorites
         /\ fav \in Favorites => fav' \in Favorites
         /\ book' \in [intents : Seq(Intent), next : Nat] /\ OneEach(book'.intents)
         /\ (book'.intents # <<>> => fav # NoFavorites)
         /\ queued' \in [Player -> Nat]
         /\ UNCHANGED <<session, epoch, attempt, live, guest, device, server, writes, otherTab,
                        seen, saved, asked, disturbed>>
<1>1. CASE LoadFailed(r)
  <2>1. r.list \in Lists BY DEF Request
  <2>2. fav \in Favorites => fav' \in Favorites
    BY <1>1, <2>1 DEF LoadFailed, Favorites
  <2>3. fav' = NoFavorites \/ fav' \in Favorites
    BY <1>1, <2>2, TypeFacts DEF LoadFailed, Current
  <2>4. /\ UNCHANGED <<session, epoch, attempt, live, guest, device, server, writes, otherTab,
                       seen, saved, asked, disturbed, book, queued>>
    BY <1>1 DEF LoadFailed, ui, history
  <2>5. QED BY <2>2, <2>3, <2>4 DEF WellFormed, TypeOK
<1>2. CASE SaveFailed(r)
  <2>1. /\ r.player \in Player /\ queued' \in [Player -> Nat]
        /\ book' \in [intents : Seq(Intent), next : Nat] /\ OneEach(book'.intents)
        /\ (book'.intents # <<>> => fav # NoFavorites)
    BY <1>2, SettleType DEF SaveFailed
  <2>2. r.anchors \in Anchors BY DEF Request
  <2>3. fav # NoFavorites /\ fav.ids # Unknown =>
          WithoutId(fav.ids, r.player) \in Lists /\ RestoreWithAnchors(fav.ids, r.player, r.anchors) \in Lists
    BY <2>1, <2>2, TypeFacts, WithoutIdFacts, RestoreFacts DEF Favorites
  <2>4. fav' = fav \/ (fav \in Favorites /\ fav' \in Favorites)
    <3>1. CASE ~Current \/ Superseded(r) BY <1>2, <3>1, TypeFacts DEF SaveFailed
    <3>2. CASE Current /\ ~Superseded(r)
      <4>1. fav \in Favorites BY <3>2, TypeFacts DEF Current
      <4>2. PICK ids \in Lists \cup {Unknown} :
              fav' = [fav EXCEPT !.ids = ids, !.pending = @ \ {r.player},
                                 !.failed = @ \cup {r.player}, !.error = TRUE]
        <5>1. CASE fav.ids = Unknown BY <1>2, <3>2, <4>1, <5>1 DEF SaveFailed
        <5>2. CASE fav.ids # Unknown /\ r.kind = "add" BY <1>2, <3>2, <4>1, <5>2, <2>3 DEF SaveFailed, Current
        <5>3. CASE fav.ids # Unknown /\ r.kind # "add" BY <1>2, <3>2, <4>1, <5>3, <2>3 DEF SaveFailed, Current
        <5>4. QED BY <5>1, <5>2, <5>3
      <4>3. QED BY <4>1, <4>2, <2>1 DEF Favorites
    <3>3. QED BY <3>1, <3>2
  <2>5. /\ UNCHANGED <<session, epoch, attempt, live, guest, device, server, writes, otherTab,
                       seen, saved, asked, disturbed>>
    BY <1>2 DEF SaveFailed, ui, history
  <2>6. QED BY <2>1, <2>4, <2>5, TypeFacts
<1>3. QED BY <1>1, <1>2

(* The screen shows a list, or nothing yet. *)
LEMMA VisibleIdsType == WellFormed => VisibleIds \in Lists \cup {Unknown}
BY TypeFacts DEF WellFormed, TypeOK, VisibleIds, Visible, Favorites

(* A delivery adds no answer. *)
LEMMA MembersOfRemoved ==
  ASSUME NEW S, NEW s \in Seq(S), NEW k \in 1..Len(s)
  PROVE  ToSet(RemoveAt(s, k)) \subseteq ToSet(s)
<1> DEFINE t == RemoveAt(s, k)
<1>1. /\ t \in Seq(S) /\ Len(t) = Len(s) - 1 /\ Len(s) \in Nat
      /\ \A i \in 1..(Len(s) - 1) : t[i] = IF i < k THEN s[i] ELSE s[i + 1]
  BY RemoveAtFacts
<1> HIDE DEF t
<1>2. ToSet(s) = {s[i] : i \in 1..Len(s)} /\ ToSet(t) = {t[i] : i \in 1..Len(t)} BY <1>1, Members
<1>3. ASSUME NEW i \in 1..Len(t) PROVE t[i] \in ToSet(s)
  <2>1. t[i] = s[i] \/ t[i] = s[i + 1] BY <1>1
  <2>2. i \in 1..Len(s) /\ i + 1 \in 1..Len(s) BY <1>1
  <2>3. QED BY <1>2, <2>1, <2>2
<1>4. QED BY <1>2, <1>3 DEF t

(* What every delivery does to the answers. *)
LEMMA DeliveredType ==
  ASSUME WellFormed, NEW k \in 1..Len(answers), Delivered(k)
  PROVE  /\ answers' \in Seq(Answer) /\ overtaken' \in BOOLEAN
         /\ {a.request : a \in ToSet(answers')} \subseteq {a.request : a \in ToSet(answers)}
<1>1. answers \in Seq(Answer) /\ overtaken \in BOOLEAN BY DEF WellFormed, TypeOK
<1>2. answers' = RemoveAt(answers, k) BY DEF Delivered
<1>3. answers' \in Seq(Answer) BY <1>1, <1>2, RemoveAtFacts
<1>4. ToSet(answers') \subseteq ToSet(answers) BY <1>1, <1>2, MembersOfRemoved
<1>5. overtaken' \in BOOLEAN BY <1>1 DEF Delivered
<1>6. QED BY <1>3, <1>4, <1>5

(* A toggle keeps the state well-formed. *)
LEMMA ToggleAccountType ==
  ASSUME WellFormed, NEW p \in Player, ToggleAccount(p)
  PROVE  WellFormed'
<1> DEFINE current == IF fav.ids = Unknown THEN <<>> ELSE fav.ids
           shown == IF VisibleIds = Unknown THEN <<>> ELSE VisibleIds
           want == p \notin ToSet(shown)
           failed == fav.failed \ {p}
           intent == [player |-> p, want |-> want, revision |-> book.next,
                      anchors |-> IF want THEN NoAnchors ELSE AnchorsOf(current, p)]
           ids == IF want THEN WithId(current, p) ELSE WithoutId(current, p)
<1>1. fav \in Favorites /\ fav # NoFavorites /\ session \in Account
  BY TypeFacts DEF ToggleAccount, Visible, Authenticated
<1>2. current \in Lists BY <1>1 DEF Favorites, Lists
<1>3. want \in BOOLEAN /\ intent \in Intent
  <2>1. AnchorsOf(current, p) \in Anchors /\ NoAnchors \in Anchors BY <1>2, AnchorsType
  <2>2. book.next \in Nat BY TypeFacts
  <2> HIDE DEF current, want
  <2>3. want \in BOOLEAN BY DEF want
  <2>4. QED BY <2>1, <2>2, <2>3 DEF Intent
<1>4. ids \in Lists BY <1>2, WithIdFacts, WithoutIdFacts
<1>5. /\ book' = [intents |-> SetIntent(book.intents, intent), next |-> book.next + 1]
      /\ fav' = [fav EXCEPT !.ids = ids, !.pending = @ \cup {p}, !.failed = failed,
                            !.error = StillInError(failed)]
      /\ asked' = [asked EXCEPT ![p] = IF want THEN "in" ELSE "out"]
      /\ seen' = [seen EXCEPT ![session] = @ \cup {p}]
      /\ queued' = [queued EXCEPT ![p] = @ + 1]
      /\ writes' = writes + 1
      /\ UNCHANGED <<session, epoch, attempt, live, guest, device, sent, answers, overtaken,
                     server, otherTab, saved, disturbed>>
  BY DEF ToggleAccount, Event, ui, network
<1> HIDE DEF current, shown, want, failed, intent, ids
<1>6. SetIntent(book.intents, intent) \in Seq(Intent) /\ OneEach(SetIntent(book.intents, intent))
  BY <1>3, TypeFacts, SetIntentFacts
<1>7. book' \in [intents : Seq(Intent), next : Nat] /\ OneEach(book'.intents)
  BY <1>5, <1>6, TypeFacts
<1>8. fav' \in Favorites
  <2>1. failed \subseteq Player /\ StillInError(failed) \in BOOLEAN
    BY <1>1 DEF failed, Favorites, StillInError
  <2>2. QED BY <1>1, <1>4, <1>5, <2>1 DEF Favorites
<1>9. TypeOK'
  <2>1. asked' \in [Player -> {"none", "in", "out"}] /\ seen' \in [Account -> SUBSET Player]
        /\ queued' \in [Player -> Nat] /\ writes' \in Nat
    BY <1>1, <1>5 DEF WellFormed, TypeOK
  <2>2. QED BY <1>5, <1>7, <1>8, <2>1 DEF WellFormed, TypeOK
<1>10. QED BY <1>5, <1>7, <1>8, <1>9, NullsAssumption DEF WellFormed, IsLoad

(* The requests somewhere on the network: unhandled, or answered. *)
LEMMA RunEffectsType ==
  ASSUME WellFormed, RunEffects
  PROVE  WellFormed'
<1>1. /\ live' = Token /\ book' = EmptyBook /\ queued' = [p \in Player |-> 0] /\ answers' = <<>>
      /\ asked' = [p \in Player |-> "none"] /\ disturbed' = {} /\ overtaken' = FALSE
      /\ UNCHANGED <<session, epoch, attempt, guest, device, server, writes, otherTab, seen, saved>>
  BY DEF RunEffects, ui
<1>2. device \in Lists /\ epoch \in Nat /\ attempt \in Nat BY DEF WellFormed, TypeOK
<1>3. Token \in Tokens BY <1>2 DEF Token, Tokens, Generation, Authenticated
<1>4. fav' \in Favorites \cup {NoFavorites} /\ sent' \subseteq Request
      /\ \A r \in sent' : r \in sent \/ (IsLoad(r) /\ r.player = Nobody)
  <2>1. CASE Authenticated
    <3>1. fav' \in Favorites
      <4>1. PICK ids \in Lists \cup {Unknown}, origin \in {"server", "device", "unknown"} :
              fav' = [account |-> session, token |-> Token, ids |-> ids, origin |-> origin,
                      loading |-> TRUE, pending |-> {}, failed |-> {}, error |-> FALSE]
        <5>1. CASE device # <<>> BY <5>1, <1>2, <2>1 DEF RunEffects
        <5>2. CASE device = <<>> BY <5>2, <2>1 DEF RunEffects
        <5>3. QED BY <5>1, <5>2
      <4>2. session \in Account BY <2>1 DEF Authenticated
      <4>3. QED BY <1>3, <4>1, <4>2 DEF Favorites
    <3>2. NoAnchors \in Anchors BY DEF NoAnchors, Anchors, Neighbour
    <3>3. [kind |-> IF device # <<>> THEN "merge" ELSE "get", account |-> session,
           token |-> Token, player |-> Nobody, list |-> device, revision |-> 0,
           anchors |-> NoAnchors] \in Request
      BY <1>2, <1>3, <2>1, <3>2 DEF Request, Authenticated, Neighbour
    <3>4. QED BY <2>1, <3>1, <3>3 DEF RunEffects, WellFormed, TypeOK, IsLoad
  <2>2. CASE ~Authenticated
    BY <2>2 DEF RunEffects, WellFormed, TypeOK
  <2>3. QED BY <2>1, <2>2
<1>5. /\ book' \in [intents : Seq(Intent), next : Nat] /\ OneEach(book'.intents)
      /\ book'.intents = <<>>
  BY <1>1 DEF EmptyBook, OneEach, ToSet
<1>6. answers' \in Seq(Answer) /\ ToSet(answers') = {} BY <1>1 DEF ToSet
<1>7. TypeOK' BY <1>1, <1>3, <1>4, <1>5, <1>6 DEF WellFormed, TypeOK
<1>8. QED BY <1>4, <1>5, <1>6, <1>7 DEF WellFormed, IsLoad

(* A hop keeps the state well-formed. *)
LEMMA StartHopType ==
  ASSUME WellFormed, NEW p \in Player, StartHop(p)
  PROVE  WellFormed'
<1> DEFINE hop(i) == [kind |-> IF i.want THEN "add" ELSE "remove", account |-> fav.account,
                      token |-> live, player |-> p, list |-> <<>>, revision |-> i.revision,
                      anchors |-> i.anchors]
<1>1. /\ queued' = [queued EXCEPT ![p] = @ - 1] /\ queued[p] > 0
      /\ sent' = sent \cup {hop(i) : i \in IntentFor(book.intents, p)}
      /\ UNCHANGED <<session, epoch, attempt, live, guest, device, fav, book, answers, overtaken,
                     server, writes, otherTab, seen, saved, asked, disturbed>>
  BY DEF StartHop, ui, network, history
<1>2. ASSUME NEW i \in IntentFor(book.intents, p) PROVE hop(i) \in Request
  <2>1. i \in Intent /\ book.intents # <<>>
    BY <1>2, TypeFacts, Members DEF IntentFor
  <2>2. fav \in Favorites BY <2>1, TypeFacts DEF WellFormed
  <2>3. live \in Tokens /\ <<>> \in Lists BY DEF WellFormed, TypeOK, Lists
  <2>4. QED BY <2>1, <2>2, <2>3 DEF Intent, Favorites, Request, Neighbour
<1>3. \A i \in IntentFor(book.intents, p) : ~IsLoad(hop(i)) /\ hop(i).player # Nobody
  BY NullsAssumption DEF IsLoad
<1> HIDE DEF hop
<1>4. sent' \subseteq Request BY <1>1, <1>2 DEF WellFormed, TypeOK
<1>5. queued' \in [Player -> Nat] BY <1>1 DEF WellFormed, TypeOK
<1>6. TypeOK' BY <1>1, <1>4, <1>5 DEF WellFormed, TypeOK
<1>7. QED BY <1>1, <1>3, <1>6 DEF WellFormed, IsLoad

(* A served request keeps the state well-formed. *)
LEMMA ServeType ==
  ASSUME WellFormed, NEW r \in sent, Serve(r)
  PROVE  /\ WellFormed'
         /\ r \in Request /\ Handled(r) \in Lists /\ (r.kind \in {"add", "remove"} => r.player \in Player)
         /\ ToSet(answers') \subseteq ToSet(answers) \cup {[request |-> r, list |-> Handled(r)]}
<1>1. r \in Request BY DEF WellFormed, TypeOK
<1>2. r.kind \in {"add", "remove"} => r.player \in Player
  <2>1. r.kind \in {"add", "remove"} => ~IsLoad(r) BY DEF IsLoad
  <2>2. IsLoad(r) <=> r.player = Nobody BY DEF WellFormed
  <2>3. QED BY <1>1, <2>1, <2>2 DEF Request, Neighbour
<1>3. server \in [Account -> Lists] /\ r.account \in Account BY <1>1 DEF WellFormed, TypeOK, Request
<1>4. Handled(r) \in Lists BY <1>1, <1>2, <1>3, HandledFacts
<1> DEFINE after == Handled(r)
           answer == [request |-> r, list |-> after]
<1>5. answer \in Answer /\ ToSet(after) \subseteq Player
  BY <1>1, <1>4, Members DEF Answer, Lists
<1>6. /\ sent' = sent \ {r} /\ server' = [server EXCEPT ![r.account] = after]
      /\ answers' = (IF Live(r) THEN Append(answers, answer) ELSE answers)
      /\ seen' = [seen EXCEPT ![r.account] = @ \cup ToSet(after)]
      /\ (disturbed' = disturbed \/ disturbed' \subseteq disturbed \cup Player)
      /\ UNCHANGED <<session, epoch, attempt, live, guest, device, fav, book, queued, writes,
                     otherTab, saved, asked, overtaken>>
  BY DEF Serve, ui
<1> HIDE DEF after, answer
<1>7. answers' \in Seq(Answer) /\ ToSet(answers') \subseteq ToSet(answers) \cup {answer}
  <2>1. answers \in Seq(Answer) BY DEF WellFormed, TypeOK
  <2>2. QED BY <1>5, <1>6, <2>1, MembersAppended
<1>8. TypeOK' BY <1>3, <1>4, <1>5, <1>6, <1>7 DEF WellFormed, TypeOK, after
<1>9. \A q \in sent' \cup {a.request : a \in ToSet(answers')} : IsLoad(q) <=> q.player = Nobody
  <2>1. \A a \in ToSet(answers') : a.request = r \/ a \in ToSet(answers) BY <1>7 DEF answer
  <2>2. QED BY <1>6, <2>1 DEF WellFormed
<1>10. QED BY <1>1, <1>2, <1>4, <1>6, <1>7, <1>8, <1>9 DEF WellFormed, IsLoad, after, answer

(* A load keeps the state well-formed. *)
LEMMA LoadedType ==
  ASSUME WellFormed, NEW k \in 1..Len(answers), Loaded(k)
  PROVE  WellFormed'
<1> DEFINE r == answers[k].request
           ids == ApplyIntents(answers[k].list, book.intents)
<1>1. ids \in Lists BY TypeFacts, ApplyIntentsFacts
<1>2. /\ fav' = (IF Current THEN [fav EXCEPT !.ids = ids, !.origin = "server", !.loading = FALSE,
                                             !.failed = {}, !.error = FALSE]
                 ELSE fav)
      /\ (UNCHANGED <<guest, device>> \/ (guest' = <<>> /\ device' = <<>>))
      /\ UNCHANGED <<session, epoch, attempt, live, book, queued, sent, server, writes, otherTab,
                     seen, saved, asked, disturbed>>
  BY DEF Loaded, ui, history
<1> HIDE DEF r, ids
<1>3. fav' \in Favorites \cup {NoFavorites} /\ (fav \in Favorites => fav' \in Favorites)
  <2>1. fav \in Favorites => fav' \in Favorites BY <1>1, <1>2 DEF Favorites
  <2>2. QED BY <1>2, <2>1, TypeFacts DEF Current
<1>4. guest' \in Lists /\ device' \in Lists 
  <2>1. <<>> \in Lists /\ guest \in Lists /\ device \in Lists BY DEF WellFormed, TypeOK, Lists
  <2>2. QED BY <1>2, <2>1
<1>5. answers' \in Seq(Answer) /\ overtaken' \in BOOLEAN
      /\ {a.request : a \in ToSet(answers')} \subseteq {a.request : a \in ToSet(answers)}
  BY DeliveredType DEF Loaded
<1>6. TypeOK' BY <1>2, <1>3, <1>4, <1>5 DEF WellFormed, TypeOK
<1>7. QED BY <1>2, <1>3, <1>5, <1>6, TypeFacts, NullsAssumption DEF WellFormed, IsLoad

(* A saved write keeps the state well-formed. *)
LEMMA SavedType ==
  ASSUME WellFormed, NEW k \in 1..Len(answers), Saved(k)
  PROVE  WellFormed'
<1> DEFINE r == answers[k].request
           ids == ApplyIntents(answers[k].list, Settled(r))
           failed == fav.failed \ {r.player}
<1>1. r \in Request /\ ~IsLoad(r) /\ r.player # Nobody /\ Settle(r) /\ answers[k].list \in Lists
  BY TypeFacts DEF Saved
<1>2. /\ r.player \in Player /\ queued' \in [Player -> Nat]
      /\ book' \in [intents : Seq(Intent), next : Nat] /\ book'.intents = Settled(r)
      /\ OneEach(book'.intents) /\ (book'.intents # <<>> => fav # NoFavorites)
  BY <1>1, SettleType
<1>3. ids \in Lists
  <2>1. Settled(r) \in Seq(Intent) BY <1>2
  <2>2. QED BY <1>1, <2>1, ApplyIntentsFacts
<1>4. /\ fav' = (IF Current THEN [fav EXCEPT !.ids = ids, !.origin = "server",
                                     !.pending = IF Superseded(r) THEN @ ELSE @ \ {r.player},
                                     !.failed = failed, !.error = StillInError(failed)]
                 ELSE fav)
      /\ UNCHANGED <<session, epoch, attempt, live, guest, device, sent, server, writes, otherTab,
                     seen, saved, asked, disturbed>>
  BY DEF Saved, ui, history
<1> HIDE DEF r, ids
<1>5. fav \in Favorites => fav' \in Favorites
  <2>1. fav \in Favorites => failed \subseteq Player /\ StillInError(failed) \in BOOLEAN
    BY DEF Favorites, StillInError
  <2>2. QED BY <1>3, <1>4, <2>1 DEF Favorites
<1>6. fav' \in Favorites \cup {NoFavorites} BY <1>4, <1>5, TypeFacts DEF Current
<1>7. answers' \in Seq(Answer) /\ overtaken' \in BOOLEAN
      /\ {a.request : a \in ToSet(answers')} \subseteq {a.request : a \in ToSet(answers)}
  BY DeliveredType DEF Saved
<1>8. TypeOK' BY <1>2, <1>4, <1>6, <1>7 DEF WellFormed, TypeOK
<1>9. QED BY <1>2, <1>4, <1>5, <1>7, <1>8, TypeFacts, NullsAssumption DEF WellFormed, IsLoad

(* Every step keeps the state well-formed. *)
LEMMA StepWellFormed == ASSUME WellFormed, [Next]_vars PROVE WellFormed'
<1>1. CASE UNCHANGED vars
  BY <1>1 DEF vars, ui, network, history, WellFormed, TypeOK, IsLoad
<1>2. ASSUME NEW s \in Account \cup {"resolving", "anonymous"}, SessionChange(s) PROVE WellFormed'
  BY <1>2 DEF SessionChange, network, history, WellFormed, TypeOK, IsLoad
<1>3. ASSUME RetrySync PROVE WellFormed'
  BY <1>3 DEF RetrySync, network, history, WellFormed, TypeOK, IsLoad
<1>4. ASSUME NEW p \in Player, ToggleGuest(p) \/ ToggleUnconfirmed(p) PROVE WellFormed'
  <2>1. Toggled(guest, p) \in Lists BY ToggledFacts DEF WellFormed, TypeOK
  <2>2. guest' = Toggled(guest, p) /\ device' = guest' /\ saved' \in {saved \ {p}, saved \cup {p}}
        /\ writes' = writes + 1
        /\ (fav' = fav \/ (fav # NoFavorites /\ fav' = [fav EXCEPT !.ids = guest']))
        /\ UNCHANGED <<session, epoch, attempt, live, book, queued, sent, answers, overtaken,
                       server, otherTab, seen, asked, disturbed>>
    BY <1>4 DEF ToggleGuest, ToggleUnconfirmed, WriteDevice, Event, ui, network, Visible
  <2>3. fav' \in Favorites \cup {NoFavorites} /\ (fav \in Favorites => fav' \in Favorites)
    BY <2>1, <2>2, TypeFacts DEF Favorites
  <2>4. TypeOK' BY <2>1, <2>2, <2>3 DEF WellFormed, TypeOK
  <2>5. QED BY <2>2, <2>3, <2>4, TypeFacts, NullsAssumption DEF WellFormed, IsLoad
<1>5. ASSUME NEW p \in Player, ToggleAccount(p) PROVE WellFormed' BY <1>5, ToggleAccountType
<1>6. ASSUME NEW p \in Player, OtherTabSaves(p) PROVE WellFormed'
  <2>1. device' \in Lists
    BY <1>6, MembersAppended DEF OtherTabSaves, WellFormed, TypeOK, Lists
  <2>2. QED BY <1>6, <2>1 DEF OtherTabSaves, ui, network, WellFormed, TypeOK, IsLoad
<1>7. ASSUME NEW r \in sent, Lost(r) PROVE WellFormed'
  <2>1. r \in Request /\ (IsLoad(r) <=> r.player = Nobody) BY DEF WellFormed, TypeOK
  <2>2. sent' \subseteq sent /\ UNCHANGED <<answers, overtaken>> BY <1>7 DEF Lost, network
  <2>3. CASE LoadFailed(r) \/ SaveFailed(r)
    <3>1. /\ fav' = NoFavorites \/ fav' \in Favorites
          /\ fav \in Favorites => fav' \in Favorites
          /\ book' \in [intents : Seq(Intent), next : Nat] /\ OneEach(book'.intents)
          /\ (book'.intents # <<>> => fav # NoFavorites)
          /\ queued' \in [Player -> Nat]
          /\ UNCHANGED <<session, epoch, attempt, live, guest, device, server, writes, otherTab,
                         seen, saved, asked, disturbed>>
      BY <2>1, <2>3, FailedType
    <3>2. TypeOK' BY <2>2, <3>1 DEF WellFormed, TypeOK
    <3>3. QED BY <2>2, <3>1, <3>2, TypeFacts, NullsAssumption DEF WellFormed, IsLoad
  <2>4. CASE UNCHANGED <<ui, live, guest, device, fav, book, queued, server, writes, otherTab, history>>
    BY <2>2, <2>4 DEF ui, history, WellFormed, TypeOK, IsLoad
  <2>5. QED BY <1>7, <2>3, <2>4 DEF Lost
<1>8. ASSUME NEW k \in 1..Len(answers), ResponseLost(k) PROVE WellFormed'
  <2> DEFINE r == answers[k].request
  <2>1. r \in Request /\ (IsLoad(r) <=> r.player = Nobody) BY TypeFacts
  <2>2. /\ answers' \in Seq(Answer) /\ overtaken' \in BOOLEAN
        /\ {a.request : a \in ToSet(answers')} \subseteq {a.request : a \in ToSet(answers)}
        /\ sent' = sent
    BY <1>8, DeliveredType DEF ResponseLost
  <2>3. /\ fav' = NoFavorites \/ fav' \in Favorites
        /\ fav \in Favorites => fav' \in Favorites
        /\ book' \in [intents : Seq(Intent), next : Nat] /\ OneEach(book'.intents)
        /\ (book'.intents # <<>> => fav # NoFavorites)
        /\ queued' \in [Player -> Nat]
        /\ UNCHANGED <<session, epoch, attempt, live, guest, device, server, writes, otherTab,
                       seen, saved, asked, disturbed>>
    BY <1>8, <2>1, FailedType DEF ResponseLost
  <2>4. TypeOK' BY <2>2, <2>3 DEF WellFormed, TypeOK
  <2>5. QED BY <2>2, <2>3, <2>4, TypeFacts, NullsAssumption DEF WellFormed, IsLoad
<1>9. ASSUME RunEffects PROVE WellFormed' BY <1>9, RunEffectsType
<1>10. ASSUME NEW p \in Player, StartHop(p) PROVE WellFormed' BY <1>10, StartHopType
<1>11. ASSUME NEW r \in sent, Serve(r) PROVE WellFormed' BY <1>11, ServeType
<1>12. ASSUME NEW k \in 1..Len(answers), Loaded(k) PROVE WellFormed' BY <1>12, LoadedType
<1>13. ASSUME NEW k \in 1..Len(answers), Saved(k) PROVE WellFormed' BY <1>13, SavedType
<1>14. QED
  BY <1>1, <1>2, <1>3, <1>4, <1>5, <1>6, <1>7, <1>8, <1>9, <1>10, <1>11, <1>12, <1>13
  DEF Next, Scout, Failure, Progress

(* Every variable keeps its type; the state is well-formed at every step. *)
THEOREM TypeCorrect == Spec => []TypeOK
<1>1. WellFormed => TypeOK BY DEF WellFormed
<1>2. QED BY <1>1, InitWellFormed, StepWellFormed, PTL DEF Spec

-----------------------------------------------------------------------------
(* Generation tokens. *)

(* A step that touches no generation keeps the invariant if what it puts on
   the network carries the live token. *)
LEMMA SameGeneration ==
  ASSUME TokensIssued, UNCHANGED <<session, epoch, attempt, live>>,
         \A r \in sent' : r \in sent \/ r.token = live
  PROVE  TokensIssued'
BY DEF TokensIssued, Older, Tokens, Generation

(* No token has been issued at the start. *)
LEMMA InitTokens == Init => TokensIssued
BY DEF Init, TokensIssued, Tokens, Generation

(* Every step keeps the tokens issued older than the one on screen, or the live one. *)
LEMMA StepTokens ==
  ASSUME TokensIssued, [Next]_vars
  PROVE  TokensIssued'
<1>1. CASE UNCHANGED vars
  BY <1>1, SameGeneration DEF vars, ui
<1>2. ASSUME NEW s \in Account \cup {"resolving", "anonymous"}, SessionChange(s)
      PROVE  TokensIssued'
  <2>1. live = Token /\ epoch' = epoch + 1 /\ UNCHANGED <<attempt, live, sent>>
    BY <1>2 DEF SessionChange, EffectsPending
  <2>2. live' = NoToken \/ Older(live)'
    BY <2>1 DEF TokensIssued, Older, Token
  <2>3. \A r \in sent' : r.token \in {NoToken, live'} \/ r.token[2] < epoch'
                         \/ (r.token[2] = epoch' /\ r.token[3] < attempt')
    BY <2>1 DEF TokensIssued, Older, Tokens, Generation
  <2>4. QED BY <2>1, <2>2, <2>3 DEF TokensIssued, Older, Tokens, Generation
<1>3. ASSUME RetrySync PROVE TokensIssued'
  <2>1. live = Token /\ attempt' = attempt + 1 /\ UNCHANGED <<epoch, live, sent>>
    BY <1>3 DEF RetrySync, EffectsPending
  <2>2. live' = NoToken \/ Older(live)'
    BY <2>1 DEF TokensIssued, Older, Token
  <2>3. QED BY <2>1, <2>2 DEF TokensIssued, Older, Tokens, Generation
<1>4. ASSUME RunEffects PROVE TokensIssued'
  <2>1. live' = Token /\ live # Token /\ UNCHANGED <<session, epoch, attempt>>
    BY <1>4 DEF RunEffects, EffectsPending, ui
  <2>2. \A r \in sent' : r \in sent \/ r.token = Token
    BY <1>4 DEF RunEffects
  <2>3. Token \in Tokens /\ Token \in {NoToken, <<session, epoch, attempt>>}
    BY DEF Token, Tokens, Authenticated, TokensIssued, Generation
  <2>4. live = NoToken \/ Older(live)
    <3>1. ASSUME live # NoToken, live = <<session, epoch, attempt>> PROVE FALSE
      <4>1. session \in Account BY <3>1 DEF TokensIssued, Tokens, Generation
      <4>2. QED BY <2>1, <3>1, <4>1 DEF Token, Authenticated
    <3>2. QED BY <3>1 DEF TokensIssued
  <2>5. \A r \in sent : r.token = NoToken \/ Older(r.token) BY <2>4 DEF TokensIssued
  <2>6. QED BY <2>1, <2>2, <2>3, <2>5 DEF TokensIssued, Older
<1>5. ASSUME NEW p \in Player,
             ToggleGuest(p) \/ ToggleUnconfirmed(p) \/ ToggleAccount(p) \/ OtherTabSaves(p)
      PROVE  TokensIssued'
  BY <1>5, SameGeneration DEF ToggleGuest, ToggleUnconfirmed, ToggleAccount, OtherTabSaves, ui
<1>6. ASSUME NEW r \in sent, Lost(r) PROVE TokensIssued'
  BY <1>6, SameGeneration DEF Lost, LoadFailed, SaveFailed, ui
<1>7. ASSUME NEW k \in 1..Len(answers), ResponseLost(k) PROVE TokensIssued'
  BY <1>7, SameGeneration DEF ResponseLost, LoadFailed, SaveFailed, ui
<1>8. ASSUME NEW p \in Player, StartHop(p) PROVE TokensIssued'
  BY <1>8, SameGeneration DEF StartHop, ui
<1>9. ASSUME NEW r \in sent, Serve(r) PROVE TokensIssued'
  BY <1>9, SameGeneration DEF Serve, ui
<1>10. ASSUME NEW k \in 1..Len(answers), Loaded(k) \/ Saved(k) PROVE TokensIssued'
  BY <1>10, SameGeneration DEF Loaded, Saved, ui
<1>11. QED
  BY <1>1, <1>2, <1>3, <1>4, <1>5, <1>6, <1>7, <1>8, <1>9, <1>10 DEF Next, Scout, Failure, Progress

(* Every token on the network is the live one or an older one (liveToken, l. 529). *)
THEOREM TokensIssuedCorrect == Spec => []TokensIssued
BY InitTokens, StepTokens, PTL DEF Spec

(* No generation token is ever used twice, so an answer to an earlier
   generation's request never passes for this one's (liveToken, l. 529). *)
THEOREM TokensAreFreshCorrect == Spec => []TokensAreFresh
<1>1. TokensIssued => TokensAreFresh
  <2>1. ASSUME TokensIssued, EffectsPending, Token # NoToken, NEW r \in sent
        PROVE  r.token # Token
    <3>1. Token = <<session, epoch, attempt>> /\ live # Token
      BY <2>1 DEF Token, EffectsPending
    <3>2. ~Older(Token) BY <2>1, <3>1 DEF Older, TokensIssued
    <3>3. QED BY <2>1, <3>1, <3>2 DEF TokensIssued
  <2>2. QED BY <2>1 DEF TokensAreFresh
<1>2. QED BY <1>1, TokensIssuedCorrect, PTL

-----------------------------------------------------------------------------
(* The inductive invariant.  GenerationAtWork ties the account state, the
   books and the answers to the live token; OneInFlight and Books say what is on
   the network for each player; SeenBefore, DeviceCarried, AskedIsKept and
   ScreenFollows are what each property needs of the steps before it. *)

(* Every request the network holds. *)
OnNetwork == sent \cup {a.request : a \in ToSet(answers)}

(* The generation at work: the account state is its own, the books are its own,
   and every answer is to one of its requests. *)
GenerationAtWork ==
  /\ live # NoToken => fav # NoFavorites /\ fav.token = live /\ fav.account = live[1]
  /\ live = NoToken => book.intents = <<>>
  /\ \A r \in OnNetwork : r.token # NoToken /\ r.token[1] = r.account
  /\ \A k \in 1..Len(answers) : Live(answers[k].request)

(* A player has one request of the generation in flight, and so has the load. *)
OneInFlight ==
  /\ \A r, q \in sent : Live(r) /\ Live(q) /\ r.player = q.player => r = q
  /\ \A r \in sent, k \in 1..Len(answers) : Live(r) => r.player # answers[k].request.player
  /\ \A j, k \in 1..Len(answers) : answers[j].request.player = answers[k].request.player => j = k

(* A request in flight is on the books, and says what the intent it was sent for says. *)
OnTheBooks(r) ==
  IF IsLoad(r) THEN fav.loading
  ELSE /\ IntentFor(book.intents, r.player) # {}
       /\ r.revision < book.next
       /\ \A i \in IntentFor(book.intents, r.player) :
            i.revision = r.revision => (i.want <=> r.kind = "add")

Books ==
  /\ \A r \in OnNetwork : Live(r) => OnTheBooks(r)
  /\ \A i \in ToSet(book.intents) : i.revision < book.next
  /\ live # NoToken =>
       /\ \A p \in Player : /\ p \in fav.pending <=> IntentFor(book.intents, p) # {}
                            /\ p \in fav.pending => queued[p] > 0 \/ InFlight(p)
                            /\ p \in fav.failed => IntentFor(book.intents, p) = {}
       /\ fav.failed # {} => fav.error
       /\ fav.loading => book.intents = <<>> /\ \A p \in Player : asked[p] = "none"

(* What the account has held, or was asked to hold. *)
SeenBefore ==
  /\ ToSet(guest) \subseteq saved
  /\ fav # NoFavorites /\ fav.origin # "device" /\ fav.ids # Unknown =>
       ToSet(fav.ids) \subseteq seen[fav.account]
  /\ live # NoToken => \A i \in ToSet(book.intents) : i.player \in seen[live[1]]
  /\ \A r \in OnNetwork : ~IsLoad(r) => r.player \in seen[r.account]
  /\ \A k \in 1..Len(answers) :
       ToSet(answers[k].list) \cup ToSet(answers[k].request.list) \subseteq seen[answers[k].request.account]

(* The device list is the guest's, and the load in flight carries all of it. *)
DeviceCarried ==
  /\ ToSet(device) \subseteq ToSet(guest) \cup otherTab
  /\ \A r \in OnNetwork : Live(r) /\ IsLoad(r) => ToSet(device) \subseteq ToSet(r.list) \cup otherTab
  /\ \A r \in OnNetwork : r.list # <<>> => r.kind = "merge"

Held(a, p) == p \in ToSet(server[a])

(* What was asked of a player is on the books or on the server. *)
AskedIsKept ==
  /\ ~EffectsPending /\ live # NoToken =>
       \A p \in Player \ (fav.failed \cup disturbed) : asked[p] # "none" =>
         /\ \A i \in IntentFor(book.intents, p) : i.want <=> asked[p] = "in"
         /\ IntentFor(book.intents, p) = {} => (Held(live[1], p) <=> asked[p] = "in")
  /\ ~EffectsPending =>
       \A k \in 1..Len(answers) : LET r == answers[k].request IN
         ~IsLoad(r) /\ r.player \notin disturbed => (Held(r.account, r.player) <=> r.kind = "add")

(* The newest answer is the server's list, and so is the screen once it was read. *)
ScreenFollows ==
  ~EffectsPending /\ live # NoToken /\ disturbed = {} /\ ~overtaken =>
    /\ answers # <<>> => answers[Len(answers)].list = server[live[1]]
    /\ answers = <<>> /\ ~fav.loading /\ ~fav.error /\ book.intents = <<>> =>
         fav.ids = server[live[1]] /\ fav.origin # "device"

Inv == /\ GenerationAtWork /\ OneInFlight /\ Books /\ SeenBefore /\ DeviceCarried
       /\ AskedIsKept /\ ScreenFollows /\ DeviceKept

NetworkFacts ==
  /\ OnNetwork = sent \cup {answers[k].request : k \in 1..Len(answers)}
  /\ \A r \in OnNetwork : r \in Request /\ (IsLoad(r) <=> r.player = Nobody)
  /\ \A r \in OnNetwork : ~IsLoad(r) => r.player \in Player
  /\ \A p : InFlight(p) <=> \E r \in OnNetwork : Live(r) /\ r.player = p
  /\ Len(answers) \in Nat

(* What is on the network is well-typed, and a load is the request for no player. *)
LEMMA OnNetworkFacts == ASSUME WellFormed PROVE NetworkFacts
<1>1. ToSet(answers) = {answers[k] : k \in 1..Len(answers)} BY Members DEF WellFormed, TypeOK
<1>2. OnNetwork = sent \cup {answers[k].request : k \in 1..Len(answers)}
  BY <1>1 DEF OnNetwork
<1>3. \A r \in OnNetwork : IsLoad(r) <=> r.player = Nobody BY DEF OnNetwork, WellFormed
<1>4. \A r \in OnNetwork : r \in Request BY <1>2, TypeFacts
<1>5. \A r \in OnNetwork : ~IsLoad(r) => r.player \in Player BY <1>3, <1>4 DEF Request, Neighbour
<1>6. QED BY <1>2, <1>3, <1>4, <1>5, TypeFacts DEF OnNetwork, InFlight, NetworkFacts

(* The same of the next state. *)
LEMMA OnNetworkNext == WellFormed' => NetworkFacts'
<1>1. WellFormed => NetworkFacts BY OnNetworkFacts
<1>2. QED BY <1>1, PTL

(* A live request leaves the network: it was lost, or its answer arrived. *)
LeavesNetwork(r) ==
  \/ r \in sent /\ Live(r) /\ sent' = sent \ {r} /\ answers' = answers /\ overtaken' = overtaken
  \/ \E k \in 1..Len(answers) : r = answers[k].request /\ Delivered(k) /\ sent' = sent

(* What a departure leaves: every other request, one a player, in the same order. *)
LEMMA Departed ==
  ASSUME WellFormed, WellFormed', Inv, NEW r, LeavesNetwork(r), live' = live
  PROVE  /\ r \in OnNetwork /\ r \in Request /\ Live(r) /\ live # NoToken /\ r.account = live[1]
         /\ (IsLoad(r) <=> r.player = Nobody) /\ (~IsLoad(r) => r.player \in Player)
         /\ Current /\ fav.account = live[1] /\ fav \in Favorites
         /\ \A q \in OnNetwork' : q \in OnNetwork /\ (Live(q) => q.player # r.player)
         /\ \A p : InFlight(p) /\ p # r.player => InFlight(p)'
         /\ \A k \in 1..Len(answers') : \E j \in 1..Len(answers) : answers'[k] = answers[j]
         /\ OneInFlight'
         /\ answers' # <<>> /\ ~overtaken' =>
              answers # <<>> /\ ~overtaken /\ answers'[Len(answers')] = answers[Len(answers)]
<1>1. NetworkFacts /\ NetworkFacts' BY OnNetworkFacts, OnNetworkNext
<1>2. r \in OnNetwork /\ Live(r) BY <1>1 DEF LeavesNetwork, NetworkFacts, Inv, GenerationAtWork
<1>3. /\ r \in Request /\ live # NoToken /\ r.account = live[1]
      /\ (IsLoad(r) <=> r.player = Nobody) /\ (~IsLoad(r) => r.player \in Player)
      /\ Current /\ fav.account = live[1] /\ fav \in Favorites
  BY <1>1, <1>2, TypeFacts DEF NetworkFacts, Inv, GenerationAtWork, Live, Current
<1>4. CASE r \in sent /\ sent' = sent \ {r} /\ answers' = answers /\ overtaken' = overtaken
  <2>1. \A q \in OnNetwork' : q \in OnNetwork /\ (Live(q) => q.player # r.player)
    BY <1>1, <1>2, <1>4 DEF NetworkFacts, Inv, OneInFlight
  <2>2. \A p : InFlight(p) /\ p # r.player => InFlight(p)'
    BY <1>1, <1>4 DEF NetworkFacts, Live
  <2>3. OneInFlight' BY <1>4 DEF Inv, OneInFlight, Live
  <2>4. QED BY <1>2, <1>3, <1>4, <2>1, <2>2, <2>3
<1>5. ASSUME NEW k \in 1..Len(answers), r = answers[k].request, Delivered(k), sent' = sent
      PROVE  /\ \A q \in OnNetwork' : q \in OnNetwork /\ (Live(q) => q.player # r.player)
             /\ \A p : InFlight(p) /\ p # r.player => InFlight(p)'
             /\ \A i \in 1..Len(answers') : \E j \in 1..Len(answers) : answers'[i] = answers[j]
             /\ OneInFlight'
             /\ answers' # <<>> /\ ~overtaken' =>
                  answers # <<>> /\ ~overtaken /\ answers'[Len(answers')] = answers[Len(answers)]
  <2> DEFINE from(i) == IF i < k THEN i ELSE i + 1
  <2>1. answers \in Seq(Answer) /\ answers' = RemoveAt(answers, k) BY <1>5 DEF WellFormed, TypeOK, Delivered
  <2>2. /\ Len(answers') = Len(answers) - 1 /\ Len(answers) \in Nat
        /\ \A i \in 1..(Len(answers) - 1) : answers'[i] = answers[from(i)]
    <3>1. /\ Len(RemoveAt(answers, k)) = Len(answers) - 1 /\ Len(answers) \in Nat
          /\ \A i \in 1..(Len(answers) - 1) :
               RemoveAt(answers, k)[i] = IF i < k THEN answers[i] ELSE answers[i + 1]
      BY <2>1, RemoveAtFacts
    <3>2. QED BY <2>1, <3>1
  <2>3. /\ \A i \in 1..Len(answers') : from(i) \in 1..Len(answers) /\ from(i) # k
        /\ \A i, j \in 1..Len(answers') : from(i) = from(j) => i = j
    BY <2>2
  <2>4. \A j \in 1..Len(answers) : j # k => \E i \in 1..Len(answers') : j = from(i)
    <3>1. SUFFICES ASSUME NEW j \in 1..Len(answers), j # k
                   PROVE  \E i \in 1..Len(answers') : j = from(i)
      OBVIOUS
    <3>2. CASE j < k
      <4>1. j \in 1..Len(answers') /\ j = from(j) BY <2>2, <3>2
      <4>2. QED BY <4>1
    <3>3. CASE j > k
      <4>1. j - 1 \in 1..Len(answers') /\ j = from(j - 1) BY <2>2, <3>3
      <4>2. QED BY <4>1
    <3>4. QED BY <3>1, <3>2, <3>3
  <2>5. \A i \in 1..Len(answers') : answers'[i] = answers[from(i)] BY <2>2
  <2> HIDE DEF from
  <2>6. \A q \in OnNetwork' : q \in OnNetwork /\ (Live(q) => q.player # r.player)
    BY <1>1, <1>5, <2>3, <2>5 DEF NetworkFacts, Inv, OneInFlight
  <2>7. ASSUME NEW p, InFlight(p), p # r.player PROVE InFlight(p)'
    <3>1. PICK q \in OnNetwork : Live(q) /\ q.player = p BY <1>1, <2>7 DEF NetworkFacts
    <3>2. q \in OnNetwork' BY <1>1, <1>5, <2>4, <2>5, <2>7, <3>1 DEF NetworkFacts
    <3>3. QED BY <1>1, <3>1, <3>2 DEF NetworkFacts, Live
  <2>8. OneInFlight' BY <1>5, <2>3, <2>5 DEF Inv, OneInFlight, Live
  <2>9. ASSUME answers' # <<>>, ~overtaken'
        PROVE  answers # <<>> /\ ~overtaken /\ answers'[Len(answers')] = answers[Len(answers)]
    <3>1. k = 1 /\ ~overtaken BY <1>5, <2>9 DEF Delivered
    <3>2. answers' \in Seq(Answer) BY <2>1, RemoveAtFacts
    <3>3. Len(answers') \in 1..Len(answers') BY <2>9, <3>2
    <3>4. from(Len(answers')) = Len(answers) BY <2>2, <3>1, <3>3 DEF from
    <3>5. QED BY <2>1, <2>5, <3>1, <3>3, <3>4
  <2>10. QED BY <2>3, <2>5, <2>6, <2>7, <2>8, <2>9
<1>6. QED BY <1>2, <1>3, <1>4, <1>5 DEF LeavesNetwork

(* What holds at the start of every step of a load that has ended. *)
LEMMA LoadWasAlone ==
  ASSUME WellFormed, Inv, NEW r \in OnNetwork, Live(r), live # NoToken, IsLoad(r)
  PROVE  /\ fav.loading /\ book.intents = <<>> /\ ToSet(book.intents) = {}
         /\ \A p \in Player : asked[p] = "none" /\ p \notin fav.pending /\ IntentFor(book.intents, p) = {}
         /\ \A q \in OnNetwork : Live(q) => IsLoad(q)
<1>1. fav.loading /\ book.intents = <<>> BY DEF Inv, Books, OnTheBooks
<1>2. ToSet(book.intents) = {} BY <1>1 DEF ToSet
<1>3. \A p : IntentFor(book.intents, p) = {} BY <1>2 DEF IntentFor
<1>4. \A q \in OnNetwork : Live(q) => IsLoad(q)
  BY <1>3 DEF Inv, Books, OnTheBooks
<1>5. QED BY <1>1, <1>2, <1>3, <1>4 DEF Inv, Books

(* DeviceKept in terms of sets. *)
LEMMA DeviceKeptIs ==
  ASSUME WellFormed
  PROVE  DeviceKept <=> \A p \in saved \ otherTab : p \in ToSet(device) \/ \E a \in Account : p \in seen[a]
<1>1. device \in Lists BY DEF WellFormed, TypeOK
<1>2. ToSet(device) = {device[i] : i \in 1..Len(device)} BY <1>1, Members DEF Lists
<1>3. \A p : Contains(device, p) <=> p \in ToSet(device) BY <1>2 DEF Contains
<1>4. QED BY <1>3 DEF DeviceKept

DeviceKeptSet == \A p \in saved \ otherTab : p \in ToSet(device) \/ \E a \in Account : p \in seen[a]

(* The same of the next state. *)
LEMMA DeviceKeptNext == WellFormed' => (DeviceKept <=> DeviceKeptSet)'
<1>1. WellFormed => (DeviceKept <=> DeviceKeptSet) BY DeviceKeptIs DEF DeviceKeptSet
<1>2. QED BY <1>1, PTL

(* The load arrived: the account now holds what the device did. *)
LEMMA LoadedInv ==
  ASSUME WellFormed, WellFormed', Inv, NEW k \in 1..Len(answers), Loaded(k)
  PROVE  Inv'
<1> DEFINE r == answers[k].request
           list == answers[k].list
           ids == ApplyIntents(list, book.intents)
<1>1. LeavesNetwork(r) /\ live' = live /\ IsLoad(r) BY DEF Loaded, LeavesNetwork
<1>2. /\ answers[k] \in ToSet(answers) /\ list \in Lists /\ Len(answers) \in Nat
  BY TypeFacts
<1> HIDE DEF r
<1>3. /\ r \in OnNetwork /\ r \in Request /\ Live(r) /\ live # NoToken /\ r.account = live[1]
      /\ r.player = Nobody
      /\ Current /\ fav.account = live[1] /\ fav \in Favorites
      /\ \A q \in OnNetwork' : q \in OnNetwork /\ (Live(q) => q.player # r.player)
      /\ \A i \in 1..Len(answers') : \E j \in 1..Len(answers) : answers'[i] = answers[j]
      /\ OneInFlight'
      /\ answers' # <<>> /\ ~overtaken' =>
           answers # <<>> /\ ~overtaken /\ answers'[Len(answers')] = answers[Len(answers)]
  BY <1>1, Departed
<1>4. /\ fav.loading /\ book.intents = <<>> /\ ToSet(book.intents) = {}
      /\ \A p \in Player : asked[p] = "none" /\ p \notin fav.pending /\ IntentFor(book.intents, p) = {}
      /\ \A q \in OnNetwork : Live(q) => IsLoad(q)
  BY <1>1, <1>3, LoadWasAlone
<1>5. ids = list BY <1>2, <1>4, ApplyIntentsFacts, TypeFacts
<1>6. /\ fav' = [fav EXCEPT !.ids = list, !.origin = "server", !.loading = FALSE,
                            !.failed = {}, !.error = FALSE]
      /\ IF r.list # <<>> THEN guest' = <<>> /\ device' = <<>> ELSE UNCHANGED <<guest, device>>
      /\ UNCHANGED <<session, epoch, attempt, book, queued, sent, server, writes, otherTab,
                     seen, saved, asked, disturbed>>
  <2>1. fav' = [fav EXCEPT !.ids = ids, !.origin = "server", !.loading = FALSE,
                            !.failed = {}, !.error = FALSE]
    BY <1>3 DEF Loaded
  <2>2. IF r.list # <<>> THEN guest' = <<>> /\ device' = <<>> ELSE UNCHANGED <<guest, device>>
    BY Zenon DEF Loaded, r
  <2>3. UNCHANGED <<session, epoch, attempt, book, queued, sent, server, writes, otherTab,
                     seen, saved, asked, disturbed>>
    BY DEF Loaded, ui, history
  <2> HIDE DEF ids, list
  <2>4. QED BY <1>5, <2>1, <2>2, <2>3
<1>7. /\ fav'.ids = list /\ fav'.origin = "server" /\ fav'.loading = FALSE /\ fav'.failed = {}
      /\ fav'.error = FALSE /\ fav'.account = fav.account /\ fav'.token = fav.token
      /\ fav'.pending = fav.pending /\ fav' # NoFavorites
  <2> HIDE DEF ids, list
  <2>1. fav' \in Favorites BY <1>2, <1>3, <1>6 DEF Favorites
  <2>2. fav' # NoFavorites BY <2>1, NullsAssumption
  <2>3. QED BY <1>3, <1>6, <2>2 DEF Favorites
<1> HIDE DEF list, ids
<1>8. ToSet(list) \cup ToSet(r.list) \subseteq seen[live[1]]
  BY <1>3 DEF Inv, SeenBefore, r, list
<1>9. \A q \in OnNetwork' : q \in OnNetwork /\ q \in Request /\ ~Live(q)
  <2>1. \A q \in OnNetwork : q \in Request /\ (IsLoad(q) <=> q.player = Nobody)
    BY OnNetworkFacts DEF NetworkFacts
  <2>2. QED BY <1>3, <1>4, <2>1
<1>10. ToSet(<<>>) = {} BY DEF ToSet
<1>11. GenerationAtWork' BY <1>1, <1>3, <1>6, <1>7 DEF Inv, GenerationAtWork, Live
<1>12. Books'
  <2>1. \A q \in OnNetwork' : ~Live(q)' BY <1>1, <1>9 DEF Live
  <2>2. QED BY <1>1, <1>4, <1>6, <1>7, <2>1 DEF Inv, Books
<1>13. SeenBefore'
  BY <1>1, <1>3, <1>6, <1>7, <1>8, <1>10 DEF Inv, SeenBefore
<1>14. DeviceCarried'
  BY <1>1, <1>6, <1>9, <1>10 DEF Inv, DeviceCarried, Live
<1>15. AskedIsKept'
  BY <1>1, <1>3, <1>4, <1>6 DEF Inv, AskedIsKept, EffectsPending, Token, Authenticated, Held
<1>16. ScreenFollows'
  <2>1. SUFFICES ASSUME ~EffectsPending', live' # NoToken, disturbed' = {}, ~overtaken'
                 PROVE  /\ answers' # <<>> => answers'[Len(answers')].list = server'[live'[1]]
                        /\ answers' = <<>> => fav'.ids = server'[live'[1]]
    BY <1>7 DEF ScreenFollows
  <2>2. k = 1 /\ ~overtaken /\ ~EffectsPending /\ disturbed = {}
    BY <1>1, <1>6, <2>1 DEF Loaded, Delivered, EffectsPending, Token, Authenticated
  <2>3. answers # <<>> /\ answers[Len(answers)].list = server[live[1]]
    BY <1>2, <1>3, <2>2 DEF Inv, ScreenFollows
  <2>4. ASSUME answers' = <<>> PROVE Len(answers) = 1
    <3>1. answers' = RemoveAt(answers, k) /\ answers \in Seq(Answer) BY DEF Loaded, Delivered, WellFormed, TypeOK
    <3>2. Len(answers') = Len(answers) - 1 BY <3>1, RemoveAtFacts
    <3>3. QED BY <1>2, <2>4, <3>2
  <2>5. QED BY <1>1, <1>3, <1>6, <1>7, <2>1, <2>2, <2>3, <2>4 DEF list
<1>17. DeviceKept'
  <2>1. DeviceKeptSet BY DeviceKeptIs DEF Inv, DeviceKeptSet
  <2>2. r.list # <<>> => ToSet(device) \subseteq seen[live[1]] \cup otherTab
    BY <1>1, <1>3, <1>8 DEF Inv, DeviceCarried
  <2>3. live[1] \in Account BY <1>3 DEF Request
  <2>4. DeviceKeptSet' BY <1>6, <2>1, <2>2, <2>3 DEF DeviceKeptSet
  <2>5. QED BY <2>4, DeviceKeptNext
<1>18. QED BY <1>3, <1>11, <1>12, <1>13, <1>14, <1>15, <1>16, <1>17 DEF Inv

(* The load failed: the device keeps its list. *)
LEMMA LoadFailedInv ==
  ASSUME WellFormed, WellFormed', Inv, NEW r, LeavesNetwork(r), LoadFailed(r)
  PROVE  Inv'
<1>1. live' = live /\ IsLoad(r) BY DEF LoadFailed
<1>2. /\ r \in OnNetwork /\ r \in Request /\ Live(r) /\ live # NoToken /\ r.account = live[1]
      /\ r.player = Nobody
      /\ Current /\ fav.account = live[1] /\ fav \in Favorites
      /\ \A q \in OnNetwork' : q \in OnNetwork /\ (Live(q) => q.player # r.player)
      /\ \A i \in 1..Len(answers') : \E j \in 1..Len(answers) : answers'[i] = answers[j]
      /\ OneInFlight'
      /\ answers' # <<>> /\ ~overtaken' =>
           answers # <<>> /\ ~overtaken /\ answers'[Len(answers')] = answers[Len(answers)]
  BY <1>1, Departed
<1>3. /\ fav.loading /\ book.intents = <<>> /\ ToSet(book.intents) = {}
      /\ \A p \in Player : asked[p] = "none" /\ p \notin fav.pending /\ IntentFor(book.intents, p) = {}
      /\ \A q \in OnNetwork : Live(q) => IsLoad(q)
  BY <1>1, <1>2, LoadWasAlone
<1>4. /\ fav' = [fav EXCEPT !.ids = IF r.list # <<>> THEN r.list ELSE @,
                            !.origin = IF r.list # <<>> THEN "device" ELSE @,
                            !.loading = FALSE, !.error = TRUE]
      /\ UNCHANGED <<session, epoch, attempt, live, guest, device, book, queued, server, writes,
                     otherTab, seen, saved, asked, disturbed>>
  BY <1>2 DEF LoadFailed, ui, history
<1>5. r.list \in Lists BY <1>2 DEF Request
<1>6. /\ fav'.loading = FALSE /\ fav'.failed = fav.failed /\ fav'.error = TRUE
      /\ fav'.account = fav.account /\ fav'.token = fav.token
      /\ fav'.pending = fav.pending /\ fav' # NoFavorites
      /\ (fav'.origin = "device" \/ (fav'.origin = fav.origin /\ fav'.ids = fav.ids))
  <2>1. fav' \in Favorites BY <1>2, <1>4, <1>5 DEF Favorites
  <2>2. fav' # NoFavorites BY <2>1, NullsAssumption
  <2>3. QED BY <1>2, <1>4, <2>2 DEF Favorites
<1>7. \A q \in OnNetwork' : q \in OnNetwork /\ q \in Request /\ ~Live(q)
  <2>1. \A q \in OnNetwork : q \in Request /\ (IsLoad(q) <=> q.player = Nobody)
    BY OnNetworkFacts DEF NetworkFacts
  <2>2. QED BY <1>2, <1>3, <2>1
<1>8. GenerationAtWork' BY <1>1, <1>2, <1>4, <1>6 DEF Inv, GenerationAtWork, Live
<1>9. Books'
  <2>1. \A q \in OnNetwork' : ~Live(q)' BY <1>1, <1>7 DEF Live
  <2>2. QED BY <1>3, <1>4, <1>6, <2>1 DEF Inv, Books
<1>10. SeenBefore' BY <1>1, <1>2, <1>4, <1>6, NullsAssumption DEF Inv, SeenBefore, Current
<1>11. DeviceCarried' BY <1>4, <1>7 DEF Inv, DeviceCarried, Live
<1>12. AskedIsKept'
  BY <1>2, <1>3, <1>4 DEF Inv, AskedIsKept, EffectsPending, Token, Authenticated, Held
<1>13. ScreenFollows'
  BY <1>2, <1>4, <1>6 DEF Inv, ScreenFollows, EffectsPending, Token, Authenticated
<1>14. DeviceKept' BY <1>4 DEF Inv, DeviceKept
<1>15. QED BY <1>2, <1>8, <1>9, <1>10, <1>11, <1>12, <1>13, <1>14 DEF Inv

(* What settling a write does to the books: only its player's intent can go, and
   what stays was asked after the request was sent. *)
LEMMA SettledBooks ==
  ASSUME WellFormed, Inv, NEW r, r \in OnNetwork, r \in Request, Live(r), live # NoToken,
         ~IsLoad(r), r.player \in Player, Settle(r)
  PROVE  /\ book'.intents = Settled(r) /\ book'.next = book.next
         /\ ToSet(Settled(r)) \subseteq ToSet(book.intents)
         /\ \A p : p # r.player => IntentFor(Settled(r), p) = IntentFor(book.intents, p)
         /\ IntentFor(Settled(r), r.player) \subseteq IntentFor(book.intents, r.player)
         /\ Superseded(r) <=> IntentFor(Settled(r), r.player) # {}
         /\ Superseded(r) => Settled(r) # <<>>
         /\ \A p \in Player : p # r.player => queued'[p] = queued[p]
         /\ (Superseded(r) => queued'[r.player] > 0) /\ \A p \in Player : queued'[p] >= queued[p]
         /\ r.player \in fav.pending /\ r.player \notin fav.failed /\ ~fav.loading
         /\ IntentFor(book.intents, r.player) # {}
         /\ ~Superseded(r) =>
              \A i \in IntentFor(book.intents, r.player) : i.want <=> r.kind = "add"
<1>1. book.intents \in Seq(Intent) /\ OneEach(book.intents) BY TypeFacts
<1>2. /\ Settled(r) \in Seq(Intent)
      /\ ToSet(Settled(r)) = {i \in ToSet(book.intents) : i.player # r.player \/ i.revision # r.revision}
  BY <1>1, SettledFacts
<1>3. book'.intents = Settled(r) /\ book'.next = book.next
  <2>1. IsLoad(r) <=> r.player = Nobody BY OnNetworkFacts DEF NetworkFacts
  <2>2. QED BY <2>1, SettleType
<1>4. \A p : p # r.player => IntentFor(Settled(r), p) = IntentFor(book.intents, p)
  BY <1>2 DEF IntentFor
<1>5. /\ IntentFor(Settled(r), r.player) \subseteq IntentFor(book.intents, r.player)
      /\ \A i \in IntentFor(book.intents, r.player) :
           i \in IntentFor(Settled(r), r.player) \/ i.revision = r.revision
  BY <1>2 DEF IntentFor
<1>6. Superseded(r) <=> IntentFor(Settled(r), r.player) # {} BY DEF Superseded
<1>7. Superseded(r) => Settled(r) # <<>>
  <2>1. Settled(r) = <<>> => ToSet(Settled(r)) = {} BY <1>2, Members
  <2>2. QED BY <1>6, <2>1 DEF IntentFor
<1>8. /\ \A p \in Player : p # r.player => queued'[p] = queued[p]
      /\ (Superseded(r) => queued'[r.player] > 0) /\ \A p \in Player : queued'[p] >= queued[p]
  <2>1. queued \in [Player -> Nat] BY DEF WellFormed, TypeOK
  <2>2. queued' = [queued EXCEPT ![r.player] = IF Superseded(r) THEN @ + 1 ELSE @] BY DEF Settle
  <2>3. \A p \in Player : queued[p] \in Nat BY <2>1
  <2>4. QED BY <2>1, <2>2, <2>3
<1>9. OnTheBooks(r) BY DEF Inv, Books
<1>10. /\ IntentFor(book.intents, r.player) # {}
       /\ \A i \in IntentFor(book.intents, r.player) :
            i.revision = r.revision => (i.want <=> r.kind = "add")
  BY <1>9 DEF OnTheBooks
<1>11. r.player \in fav.pending /\ r.player \notin fav.failed BY <1>10 DEF Inv, Books
<1>12. ~fav.loading
  <2>1. ToSet(<<>>) = {} BY DEF ToSet
  <2>2. book.intents # <<>> BY <1>10, <2>1 DEF IntentFor
  <2>3. QED BY <2>2 DEF Inv, Books
<1>13. QED BY <1>2, <1>3, <1>4, <1>5, <1>6, <1>7, <1>8, <1>10, <1>11, <1>12

(* What a settled write keeps, saved or failed; what it does to the screen is apart. *)
LEMMA WriteSettled ==
  ASSUME WellFormed, WellFormed', Inv, NEW r, LeavesNetwork(r), ~IsLoad(r), Settle(r),
         UNCHANGED <<session, epoch, attempt, live, guest, device, server, writes, otherTab, seen,
                     saved, asked, disturbed>>,
         fav'.pending = IF Superseded(r) THEN fav.pending ELSE fav.pending \ {r.player},
         \/ fav'.failed = fav.failed \ {r.player}
         \/ ~Superseded(r) /\ fav'.failed = fav.failed \cup {r.player},
         fav'.failed # {} => fav'.error,
         fav'.loading = fav.loading, fav'.token = fav.token, fav'.account = fav.account,
         fav' # NoFavorites,
         ~Superseded(r) => \/ r.player \in fav'.failed
                           \/ \E k \in 1..Len(answers) : r = answers[k].request
  PROVE  GenerationAtWork' /\ OneInFlight' /\ Books' /\ DeviceCarried' /\ AskedIsKept' /\ DeviceKept'
<1> DEFINE p == r.player
<1>1. /\ r \in OnNetwork /\ r \in Request /\ Live(r) /\ live # NoToken /\ r.account = live[1]
      /\ p \in Player
      /\ Current /\ fav.account = live[1] /\ fav \in Favorites
      /\ \A q \in OnNetwork' : q \in OnNetwork /\ (Live(q) => q.player # p)
      /\ \A q : InFlight(q) /\ q # p => InFlight(q)'
      /\ \A i \in 1..Len(answers') : \E j \in 1..Len(answers) : answers'[i] = answers[j]
      /\ OneInFlight'
  BY Departed
<1>2. /\ book'.intents = Settled(r) /\ book'.next = book.next
      /\ ToSet(Settled(r)) \subseteq ToSet(book.intents)
      /\ \A q : q # p => IntentFor(Settled(r), q) = IntentFor(book.intents, q)
      /\ IntentFor(Settled(r), p) \subseteq IntentFor(book.intents, p)
      /\ Superseded(r) <=> IntentFor(Settled(r), p) # {}
      /\ \A q \in Player : q # p => queued'[q] = queued[q]
      /\ (Superseded(r) => queued'[p] > 0) /\ \A q \in Player : queued'[q] >= queued[q]
      /\ p \in fav.pending /\ p \notin fav.failed /\ ~fav.loading
      /\ IntentFor(book.intents, p) # {}
      /\ ~Superseded(r) => \A i \in IntentFor(book.intents, p) : i.want <=> r.kind = "add"
  BY <1>1, SettledBooks
<1> HIDE DEF p
<1>3. GenerationAtWork' BY <1>1 DEF Inv, GenerationAtWork, Live
<1>4. Books'
  <2>1. ASSUME NEW q \in OnNetwork', Live(q)' PROVE OnTheBooks(q)'
    <3>1. q \in OnNetwork /\ Live(q) /\ q.player # p BY <1>1, <2>1 DEF Live
    <3>2. OnTheBooks(q) BY <3>1 DEF Inv, Books
    <3>3. QED BY <1>2, <3>1, <3>2 DEF OnTheBooks
  <2>2. \A i \in ToSet(book.intents)' : i.revision < book'.next
    BY <1>2 DEF Inv, Books
  <2>3. ASSUME NEW q \in Player
        PROVE  /\ q \in fav'.pending <=> IntentFor(book'.intents, q) # {}
               /\ q \in fav'.pending => queued'[q] > 0 \/ InFlight(q)'
               /\ q \in fav'.failed => IntentFor(book'.intents, q) = {}
    <3>1. /\ q \in fav.pending <=> IntentFor(book.intents, q) # {}
          /\ q \in fav.pending => queued[q] > 0 \/ InFlight(q)
          /\ q \in fav.failed => IntentFor(book.intents, q) = {}
      BY <1>1 DEF Inv, Books
    <3>2. CASE q = p BY <1>2, <3>1, <3>2 DEF p
    <3>3. CASE q # p BY <1>1, <1>2, <3>1, <3>3 DEF p
    <3>4. QED BY <3>2, <3>3
  <2>4. QED BY <1>2, <2>1, <2>2, <2>3 DEF Books
<1>5. DeviceCarried' BY <1>1 DEF Inv, DeviceCarried, Live
<1>6. DeviceKept' BY DEF Inv, DeviceKept
<1>7. AskedIsKept'
  <2>1. SUFFICES ASSUME ~EffectsPending' PROVE AskedIsKept' BY DEF AskedIsKept
  <2>2. ~EffectsPending BY <2>1 DEF EffectsPending, Token, Authenticated
  <2>3. ASSUME NEW q \in Player \ (fav'.failed \cup disturbed'), asked'[q] # "none"
        PROVE  /\ \A i \in IntentFor(book'.intents, q) : i.want <=> asked'[q] = "in"
               /\ IntentFor(book'.intents, q) = {} => (q \in ToSet(server'[live'[1]]) <=> asked'[q] = "in")
    <3>1. /\ q \notin fav.failed /\ q \notin disturbed /\ asked[q] # "none" BY <2>3, <1>2 DEF p
    <3>2. /\ \A i \in IntentFor(book.intents, q) : i.want <=> asked[q] = "in"
          /\ IntentFor(book.intents, q) = {} => (Held(live[1], q) <=> asked[q] = "in")
      BY <1>1, <2>2, <3>1 DEF Inv, AskedIsKept
    <3>3. CASE q # p BY <1>2, <3>2, <3>3 DEF Held
    <3>4. CASE q = p
      <4>1. \A i \in IntentFor(book'.intents, q) : i.want <=> asked'[q] = "in"
        BY <1>2, <3>2, <3>4
      <4>2. ASSUME ~Superseded(r) PROVE Held(live[1], q) <=> asked[q] = "in"
        <5>1. PICK k \in 1..Len(answers) : r = answers[k].request BY <2>3, <3>4, <4>2 DEF p
        <5>2. Held(r.account, r.player) <=> r.kind = "add"
          BY <2>2, <3>1, <3>4, <5>1 DEF Inv, AskedIsKept, p
        <5>3. PICK i \in IntentFor(book.intents, p) : TRUE BY <1>2
        <5>4. QED BY <1>1, <1>2, <3>2, <3>4, <4>2, <5>2, <5>3 DEF p
      <4>3. QED BY <1>2, <3>4, <4>1, <4>2 DEF Held
    <3>5. QED BY <3>3, <3>4
  <2>4. \A k \in 1..Len(answers') : LET q == answers'[k].request IN
          ~IsLoad(q) /\ q.player \notin disturbed' => (q.player \in ToSet(server'[q.account]) <=> q.kind = "add")
    <3>1. SUFFICES ASSUME NEW k \in 1..Len(answers'), ~IsLoad(answers'[k].request),
                          answers'[k].request.player \notin disturbed'
                   PROVE  LET q == answers'[k].request IN
                            q.player \in ToSet(server'[q.account]) <=> q.kind = "add"
      OBVIOUS
    <3>2. PICK j \in 1..Len(answers) : answers'[k] = answers[j] BY <1>1
    <3>3. ~IsLoad(answers[j].request) /\ answers[j].request.player \notin disturbed BY <3>1, <3>2
    <3>4. Held(answers[j].request.account, answers[j].request.player) <=> answers[j].request.kind = "add"
      BY <2>2, <3>3 DEF Inv, AskedIsKept
    <3>5. QED BY <3>2, <3>4 DEF Held
  <2>5. QED BY <2>3, <2>4 DEF AskedIsKept, IsLoad, Held
<1>8. QED BY <1>1, <1>3, <1>4, <1>5, <1>6, <1>7

(* A write arrived. *)
LEMMA SavedInv ==
  ASSUME WellFormed, WellFormed', Inv, NEW k \in 1..Len(answers), Saved(k)
  PROVE  Inv'
<1> DEFINE r == answers[k].request
           list == answers[k].list
           ids == ApplyIntents(list, Settled(r))
           failed == fav.failed \ {r.player}
<1>1. /\ LeavesNetwork(r) /\ ~IsLoad(r) /\ Settle(r)
      /\ UNCHANGED <<session, epoch, attempt, live, guest, device, server, writes, otherTab, seen,
                     saved, asked, disturbed, sent>>
  BY DEF Saved, LeavesNetwork, ui, history
<1>2. /\ list \in Lists /\ Len(answers) \in Nat /\ answers[k] \in ToSet(answers)
      /\ \E j \in 1..Len(answers) : r = answers[j].request
  BY TypeFacts
<1>3. ToSet(list) \subseteq seen[r.account] BY DEF Inv, SeenBefore
<1>4. fav' = IF Current THEN [fav EXCEPT !.ids = ids, !.origin = "server",
                                !.pending = IF Superseded(r) THEN @ ELSE @ \ {r.player},
                                !.failed = failed, !.error = StillInError(failed)]
             ELSE fav
  BY DEF Saved
<1> HIDE DEF r, list
<1>5. /\ r \in OnNetwork /\ r \in Request /\ Live(r) /\ live # NoToken /\ r.account = live[1]
      /\ r.player \in Player
      /\ Current /\ fav.account = live[1] /\ fav \in Favorites /\ fav # NoFavorites
      /\ \A q \in OnNetwork' : q \in OnNetwork
      /\ \A i \in 1..Len(answers') : \E j \in 1..Len(answers) : answers'[i] = answers[j]
      /\ answers' # <<>> /\ ~overtaken' =>
           answers # <<>> /\ ~overtaken /\ answers'[Len(answers')] = answers[Len(answers)]
  BY <1>1, Departed DEF Current
<1>6. /\ book'.intents = Settled(r) /\ ToSet(Settled(r)) \subseteq ToSet(book.intents)
      /\ Superseded(r) => Settled(r) # <<>>
  BY <1>1, <1>5, SettledBooks
<1>7. Settled(r) \in Seq(Intent) BY <1>5, TypeFacts, SettledFacts
<1>8. /\ ids \in Lists
      /\ ToSet(ids) \subseteq ToSet(list) \cup {i.player : i \in {j \in ToSet(Settled(r)) : j.want}}
      /\ (Settled(r) = <<>> => ids = list)
  BY <1>2, <1>7, ApplyIntentsFacts
<1> HIDE DEF ids
<1>9. failed \subseteq Player /\ StillInError(failed) \in BOOLEAN
  BY <1>5 DEF Favorites, StillInError
<1>10. /\ fav'.ids = ids /\ fav'.origin = "server" /\ fav'.failed = failed
       /\ fav'.pending = (IF Superseded(r) THEN fav.pending ELSE fav.pending \ {r.player})
       /\ fav'.error = StillInError(failed) /\ fav'.loading = fav.loading
       /\ fav'.token = fav.token /\ fav'.account = fav.account
  BY <1>4, <1>5 DEF Favorites
<1>11. fav' # NoFavorites
  <2>1. fav' \in Favorites BY <1>4, <1>5, <1>8, <1>9 DEF Favorites
  <2>2. QED BY <2>1, NullsAssumption
<1>12. fav'.failed # {} => fav'.error
  <2>1. fav.failed # {} => fav.error BY <1>5 DEF Inv, Books
  <2>2. QED BY <1>10, <2>1 DEF StillInError
<1>13. GenerationAtWork' /\ OneInFlight' /\ Books' /\ DeviceCarried' /\ AskedIsKept' /\ DeviceKept'
  BY <1>1, <1>2, <1>10, <1>11, <1>12, WriteSettled
<1>14. SeenBefore'
  <2>1. ToSet(ids) \subseteq seen[live[1]]
    <3>1. \A i \in ToSet(Settled(r)) : i.player \in seen[live[1]]
      BY <1>5, <1>6 DEF Inv, SeenBefore
    <3>2. QED BY <1>3, <1>5, <1>8, <3>1
  <2>2. \A q \in OnNetwork' : ~IsLoad(q) => q.player \in seen[q.account]
    BY <1>5 DEF Inv, SeenBefore
  <2>3. \A i \in 1..Len(answers') : ToSet(answers'[i].list) \cup ToSet(answers'[i].request.list)
                                      \subseteq seen[answers'[i].request.account]
    BY <1>5 DEF Inv, SeenBefore
  <2>4. ToSet(guest) \subseteq saved /\ \A i \in ToSet(Settled(r)) : i.player \in seen[live[1]]
    BY <1>5, <1>6 DEF Inv, SeenBefore
  <2>5. QED BY <1>1, <1>5, <1>6, <1>10, <2>1, <2>2, <2>3, <2>4 DEF SeenBefore, IsLoad
<1>15. ScreenFollows'
  <2>1. SUFFICES ASSUME ~EffectsPending', live' # NoToken, disturbed' = {}, ~overtaken'
                 PROVE  /\ answers' # <<>> => answers'[Len(answers')].list = server'[live'[1]]
                        /\ answers' = <<>> /\ book'.intents = <<>> => fav'.ids = server'[live'[1]]
    BY <1>10 DEF ScreenFollows
  <2>2. k = 1 /\ ~overtaken /\ ~EffectsPending /\ disturbed = {}
    BY <1>1, <2>1 DEF Saved, Delivered, EffectsPending, Token, Authenticated
  <2>3. answers # <<>> /\ answers[Len(answers)].list = server[live[1]]
    BY <1>2, <1>5, <2>2 DEF Inv, ScreenFollows
  <2>4. ASSUME answers' = <<>> PROVE Len(answers) = 1
    <3>1. answers' = RemoveAt(answers, k) /\ answers \in Seq(Answer) BY DEF Saved, Delivered, WellFormed, TypeOK
    <3>2. Len(answers') = Len(answers) - 1 BY <3>1, RemoveAtFacts
    <3>3. QED BY <1>2, <2>4, <3>2
  <2>5. QED BY <1>1, <1>5, <1>6, <1>8, <1>10, <2>1, <2>2, <2>3, <2>4 DEF list
<1>16. QED BY <1>13, <1>14, <1>15 DEF Inv

(* A write failed, and is rolled back. *)
LEMMA SaveFailedInv ==
  ASSUME WellFormed, WellFormed', Inv, NEW r, LeavesNetwork(r), SaveFailed(r)
  PROVE  Inv'
<1>1. /\ ~IsLoad(r) /\ Settle(r)
      /\ UNCHANGED <<session, epoch, attempt, live, guest, device, server, writes, otherTab, seen,
                     saved, asked, disturbed>>
  BY DEF SaveFailed, ui, history
<1>2. /\ r \in OnNetwork /\ r \in Request /\ Live(r) /\ live # NoToken /\ r.account = live[1]
      /\ r.player \in Player
      /\ Current /\ fav.account = live[1] /\ fav \in Favorites /\ fav # NoFavorites
      /\ \A q \in OnNetwork' : q \in OnNetwork
      /\ \A i \in 1..Len(answers') : \E j \in 1..Len(answers) : answers'[i] = answers[j]
      /\ answers' # <<>> /\ ~overtaken' =>
           answers # <<>> /\ ~overtaken /\ answers'[Len(answers')] = answers[Len(answers)]
  BY <1>1, Departed DEF Current
<1>3. /\ book'.intents = Settled(r) /\ ToSet(Settled(r)) \subseteq ToSet(book.intents)
      /\ Superseded(r) => Settled(r) # <<>>
      /\ r.player \notin fav.failed
  BY <1>1, <1>2, SettledBooks
<1>4. /\ fav'.pending = (IF Superseded(r) THEN fav.pending ELSE fav.pending \ {r.player})
      /\ fav'.failed = (IF Superseded(r) THEN fav.failed ELSE fav.failed \cup {r.player})
      /\ fav'.error = (IF Superseded(r) THEN fav.error ELSE TRUE)
      /\ fav'.loading = fav.loading /\ fav'.token = fav.token /\ fav'.account = fav.account
      /\ fav'.origin = fav.origin /\ fav' # NoFavorites
      /\ fav'.ids # Unknown => fav.ids # Unknown /\ ToSet(fav'.ids) \subseteq ToSet(fav.ids) \cup {r.player}
  <2>1. CASE Superseded(r)
    <3>1. fav' = fav BY <2>1 DEF SaveFailed
    <3>2. QED BY <1>2, <2>1, <3>1
  <2>2. CASE ~Superseded(r)
    <3>1. r.anchors \in Anchors BY <1>2 DEF Request
    <3>2. fav.ids # Unknown =>
            /\ WithoutId(fav.ids, r.player) \in Lists
            /\ RestoreWithAnchors(fav.ids, r.player, r.anchors) \in Lists
            /\ ToSet(WithoutId(fav.ids, r.player)) \subseteq ToSet(fav.ids) \cup {r.player}
            /\ ToSet(RestoreWithAnchors(fav.ids, r.player, r.anchors)) = ToSet(fav.ids) \cup {r.player}
      BY <1>2, <3>1, WithoutIdFacts, RestoreFacts DEF Favorites
    <3>3. PICK ids \in Lists \cup {Unknown} :
            /\ fav' = [fav EXCEPT !.ids = ids, !.pending = @ \ {r.player},
                                  !.failed = @ \cup {r.player}, !.error = TRUE]
            /\ ids # Unknown => fav.ids # Unknown /\ ToSet(ids) \subseteq ToSet(fav.ids) \cup {r.player}
      <4>1. CASE fav.ids = Unknown BY <1>2, <2>2, <4>1 DEF SaveFailed
      <4>2. CASE fav.ids # Unknown /\ r.kind = "add" BY <1>2, <2>2, <3>2, <4>2 DEF SaveFailed
      <4>3. CASE fav.ids # Unknown /\ r.kind # "add" BY <1>2, <2>2, <3>2, <4>3 DEF SaveFailed
      <4>4. QED BY <4>1, <4>2, <4>3
    <3>4. fav' \in Favorites BY <1>2, <3>3 DEF Favorites
    <3>5. QED BY <1>2, <2>2, <3>3, <3>4, NullsAssumption DEF Favorites
  <2>3. QED BY <2>1, <2>2
<1>5. fav'.failed # {} => fav'.error BY <1>2, <1>4 DEF Inv, Books
<1>6. GenerationAtWork' /\ OneInFlight' /\ Books' /\ DeviceCarried' /\ AskedIsKept' /\ DeviceKept'
  <2>1. \/ fav'.failed = fav.failed \ {r.player}
        \/ ~Superseded(r) /\ fav'.failed = fav.failed \cup {r.player}
    BY <1>3, <1>4
  <2>2. ~Superseded(r) => r.player \in fav'.failed BY <1>4
  <2>3. QED BY <1>1, <1>4, <1>5, <2>1, <2>2, WriteSettled
<1>7. SeenBefore'
  <2>1. fav'.origin # "device" /\ fav'.ids # Unknown => ToSet(fav'.ids) \subseteq seen[live[1]]
    BY <1>1, <1>2, <1>4 DEF Inv, SeenBefore
  <2>2. \A q \in OnNetwork' : ~IsLoad(q) => q.player \in seen[q.account]
    BY <1>2 DEF Inv, SeenBefore
  <2>3. \A i \in 1..Len(answers') : ToSet(answers'[i].list) \cup ToSet(answers'[i].request.list)
                                      \subseteq seen[answers'[i].request.account]
    BY <1>2 DEF Inv, SeenBefore
  <2>4. ToSet(guest) \subseteq saved /\ \A i \in ToSet(Settled(r)) : i.player \in seen[live[1]]
    BY <1>2, <1>3 DEF Inv, SeenBefore
  <2>5. QED BY <1>1, <1>2, <1>3, <1>4, <2>1, <2>2, <2>3, <2>4 DEF SeenBefore, IsLoad
<1>8. ScreenFollows'
  BY <1>1, <1>2, <1>3, <1>4 DEF Inv, ScreenFollows, EffectsPending, Token, Authenticated
<1>9. QED BY <1>6, <1>7, <1>8 DEF Inv

(* A session change, a retry and nothing at all leave all of it as it was; the
   first two make the effects of a new generation due. *)
LEMMA UnchangedInv ==
  ASSUME WellFormed, Inv,
         UNCHANGED <<live, guest, device, fav, book, queued, sent, network, server, writes, otherTab, history>>,
         EffectsPending' \/ live = NoToken \/ UNCHANGED ui
  PROVE  Inv'
<1>1. UNCHANGED <<answers, overtaken, seen, saved, asked, disturbed>> BY DEF network, history
<1>2. ~EffectsPending' /\ live # NoToken => ~EffectsPending
  BY DEF ui, EffectsPending, Token, Authenticated
<1>3. OnNetwork' = OnNetwork BY <1>1 DEF OnNetwork
<1>4. GenerationAtWork' /\ OneInFlight' BY <1>1, <1>3 DEF Inv, GenerationAtWork, OneInFlight, Live
<1>5. Books'
  <2>1. \A q : Live(q)' = Live(q) /\ OnTheBooks(q)' = OnTheBooks(q) BY DEF Live, OnTheBooks
  <2>2. \A p : InFlight(p)' = InFlight(p) BY <1>1 DEF InFlight, Live
  <2>3. QED BY <1>1, <1>3, <2>1, <2>2 DEF Inv, Books
<1>6. SeenBefore' BY <1>1, <1>3 DEF Inv, SeenBefore
<1>7. DeviceCarried' /\ DeviceKept' BY <1>1, <1>3 DEF Inv, DeviceCarried, DeviceKept, Live
<1>8. AskedIsKept'
  <2>1. CASE live = NoToken
    <3>1. ASSUME NEW k \in 1..Len(answers) PROVE FALSE
      <4>1. answers[k].request \in OnNetwork BY OnNetworkFacts DEF NetworkFacts
      <4>2. QED BY <2>1, <4>1 DEF Inv, GenerationAtWork, Live
    <3>2. QED BY <1>1, <2>1, <3>1 DEF AskedIsKept
  <2>2. CASE live # NoToken BY <1>1, <1>2, <2>2 DEF Inv, AskedIsKept, Held
  <2>3. QED BY <2>1, <2>2
<1>9. ScreenFollows' BY <1>1, <1>2 DEF Inv, ScreenFollows
<1>10. QED BY <1>4, <1>5, <1>6, <1>7, <1>8, <1>9 DEF Inv

(* A session changes, or the scout tries again: the generation on screen is over. *)
LEMMA SessionInv ==
  ASSUME WellFormed, Inv,
         RetrySync \/ \E s \in Account \cup {"resolving", "anonymous"} : SessionChange(s)
  PROVE  Inv'
<1>1. UNCHANGED <<live, guest, device, fav, book, queued, sent, network, server, writes, otherTab, history>>
  BY DEF RetrySync, SessionChange
<1>2. EffectsPending' \/ live = NoToken
  <2>1. ~EffectsPending /\ epoch \in Nat /\ attempt \in Nat BY DEF RetrySync, SessionChange, WellFormed, TypeOK
  <2>2. CASE RetrySync
    <3>1. attempt' = attempt + 1 /\ session \in Account /\ UNCHANGED <<session, epoch, live>>
      BY <2>2 DEF RetrySync, Visible, Authenticated
    <3>2. QED BY <2>1, <3>1 DEF EffectsPending, Token, Authenticated
  <2>3. ASSUME NEW s \in Account \cup {"resolving", "anonymous"}, SessionChange(s)
        PROVE  EffectsPending' \/ live = NoToken
    <3>1. epoch' = epoch + 1 /\ session' = s /\ s # session /\ UNCHANGED <<attempt, live>>
      BY <2>3 DEF SessionChange
    <3>2. CASE session' \in Account
      BY <2>1, <3>1, <3>2, NullsAssumption DEF EffectsPending, Token, Authenticated, Generation
    <3>3. CASE session' \notin Account /\ session \in Account
      BY <2>1, <3>1, <3>3, NullsAssumption DEF EffectsPending, Token, Authenticated, Generation
    <3>4. CASE session' \notin Account /\ session \notin Account
      BY <2>1, <3>4 DEF EffectsPending, Token, Authenticated
    <3>5. QED BY <3>2, <3>3, <3>4
  <2>4. QED BY <2>2, <2>3
<1>3. QED BY <1>1, <1>2, UnchangedInv

(* The device list is written: by the guest, or with a merge owed. *)
LEMMA WriteDeviceInv ==
  ASSUME WellFormed, WellFormed', Inv, NEW p \in Player, ToggleGuest(p) \/ ToggleUnconfirmed(p)
  PROVE  Inv'
<1>1. /\ guest' = Toggled(guest, p) /\ device' = guest'
      /\ saved' = (IF p \in ToSet(guest) THEN saved \ {p} ELSE saved \cup {p})
      /\ ~EffectsPending
      /\ UNCHANGED <<session, epoch, attempt, live, book, queued, sent, answers, overtaken, server,
                     otherTab, seen, asked, disturbed>>
      /\ \/ ~Authenticated /\ fav' = fav
         \/ Visible /\ fav.origin = "device" /\ ~fav.loading /\ fav' = [fav EXCEPT !.ids = guest']
  BY DEF ToggleGuest, ToggleUnconfirmed, WriteDevice, Event, ui, network
<1>2. ToSet(guest') = IF p \in ToSet(guest) THEN ToSet(guest) \ {p} ELSE ToSet(guest) \cup {p}
  BY <1>1, ToggledFacts DEF WellFormed, TypeOK
<1>3. OnNetwork' = OnNetwork BY <1>1 DEF OnNetwork
<1>4. /\ fav'.account = fav.account /\ fav'.token = fav.token /\ fav'.loading = fav.loading
      /\ fav'.pending = fav.pending /\ fav'.failed = fav.failed /\ fav'.error = fav.error
      /\ fav'.origin = fav.origin /\ (fav # NoFavorites <=> fav' # NoFavorites)
      /\ (fav'.ids = fav.ids \/ fav.origin = "device")
  <2>1. CASE fav' = fav BY <2>1
  <2>2. CASE Visible /\ fav.origin = "device" /\ ~fav.loading /\ fav' = [fav EXCEPT !.ids = guest']
    <3>1. fav \in Favorites /\ fav # NoFavorites /\ guest' \in Lists
      BY <2>2, TypeFacts DEF Visible, WellFormed, TypeOK
    <3>2. fav' \in Favorites BY <2>2, <3>1 DEF Favorites
    <3>3. QED BY <2>2, <3>1, <3>2, NullsAssumption DEF Favorites
  <2>3. QED BY <1>1, <2>1, <2>2
<1>5. \A r \in OnNetwork : Live(r) => ~IsLoad(r)
  <2>1. live # NoToken /\ fav.loading => FALSE
    BY <1>1 DEF EffectsPending, Token
  <2>2. \A r \in OnNetwork : Live(r) /\ IsLoad(r) => fav.loading /\ live # NoToken
    BY DEF Inv, Books, OnTheBooks, GenerationAtWork, Live
  <2>3. QED BY <2>1, <2>2
<1>6. GenerationAtWork' /\ OneInFlight'
  BY <1>1, <1>3, <1>4 DEF Inv, GenerationAtWork, OneInFlight, Live
<1>7. Books'
  <2>1. \A q : Live(q)' = Live(q) /\ OnTheBooks(q)' = OnTheBooks(q) BY <1>1, <1>4 DEF Live, OnTheBooks
  <2>2. \A q : InFlight(q)' = InFlight(q) BY <1>1 DEF InFlight, Live
  <2>3. QED BY <1>1, <1>3, <1>4, <2>1, <2>2 DEF Inv, Books
<1>8. SeenBefore' BY <1>1, <1>2, <1>3, <1>4 DEF Inv, SeenBefore
<1>9. DeviceCarried'
  <2>1. \A r \in OnNetwork' : ~(Live(r)' /\ IsLoad(r)) BY <1>1, <1>3, <1>5 DEF Live
  <2>2. \A r \in OnNetwork' : r.list # <<>> => r.kind = "merge" BY <1>3 DEF Inv, DeviceCarried
  <2>3. QED BY <1>1, <2>1, <2>2 DEF DeviceCarried, IsLoad
<1>10. AskedIsKept'
  BY <1>1, <1>4 DEF Inv, AskedIsKept, Held, EffectsPending, Token, Authenticated
<1>11. ScreenFollows'
  BY <1>1, <1>4 DEF Inv, ScreenFollows, EffectsPending, Token, Authenticated
<1>12. DeviceKept'
  <2>1. DeviceKeptSet /\ ToSet(device) \subseteq ToSet(guest) \cup otherTab
    BY DeviceKeptIs DEF Inv, DeviceKeptSet, DeviceCarried
  <2>2. DeviceKeptSet' BY <1>1, <1>2, <2>1 DEF DeviceKeptSet
  <2>3. QED BY <2>2, DeviceKeptNext
<1>13. QED BY <1>6, <1>7, <1>8, <1>9, <1>10, <1>11, <1>12 DEF Inv

(* Another tab saves a player to the device. *)
LEMMA OtherTabInv ==
  ASSUME WellFormed, WellFormed', Inv, NEW p \in Player, OtherTabSaves(p)
  PROVE  Inv'
<1>1. /\ device' = Append(device, p) /\ otherTab' = otherTab \cup {p} /\ saved' = saved \cup {p}
      /\ UNCHANGED <<session, epoch, attempt, live, guest, fav, book, queued, sent, answers,
                     overtaken, server, seen, asked, disturbed>>
  BY DEF OtherTabSaves, ui, network
<1>2. ToSet(device') = ToSet(device) \cup {p}
  BY <1>1, MembersAppended DEF WellFormed, TypeOK, Lists
<1>3. OnNetwork' = OnNetwork BY <1>1 DEF OnNetwork
<1>4. GenerationAtWork' /\ OneInFlight'
  BY <1>1, <1>3 DEF Inv, GenerationAtWork, OneInFlight, Live
<1>5. Books'
  <2>1. \A q : Live(q)' = Live(q) /\ OnTheBooks(q)' = OnTheBooks(q) BY <1>1 DEF Live, OnTheBooks
  <2>2. \A q : InFlight(q)' = InFlight(q) BY <1>1 DEF InFlight, Live
  <2>3. QED BY <1>1, <1>3, <2>1, <2>2 DEF Inv, Books
<1>6. SeenBefore' BY <1>1, <1>3 DEF Inv, SeenBefore
<1>7. DeviceCarried' BY <1>1, <1>2, <1>3 DEF Inv, DeviceCarried, Live
<1>8. AskedIsKept' BY <1>1 DEF Inv, AskedIsKept, Held, EffectsPending, Token, Authenticated
<1>9. ScreenFollows' BY <1>1 DEF Inv, ScreenFollows, EffectsPending, Token, Authenticated
<1>10. DeviceKept'
  <2>1. DeviceKeptSet BY DeviceKeptIs DEF Inv, DeviceKeptSet
  <2>2. DeviceKeptSet' BY <1>1, <1>2, <2>1 DEF DeviceKeptSet
  <2>3. QED BY <2>2, DeviceKeptNext
<1>11. QED BY <1>4, <1>5, <1>6, <1>7, <1>8, <1>9, <1>10 DEF Inv

(* A hop sends the intent that is current now, and is the player's only request. *)
LEMMA StartHopInv ==
  ASSUME WellFormed, WellFormed', Inv, NEW p \in Player, StartHop(p)
  PROVE  Inv'
<1> DEFINE hop(i) == [kind |-> IF i.want THEN "add" ELSE "remove", account |-> fav.account,
                      token |-> live, player |-> p, list |-> <<>>, revision |-> i.revision,
                      anchors |-> i.anchors]
           hops == {hop(i) : i \in IntentFor(book.intents, p)}
<1>1. /\ queued' = [queued EXCEPT ![p] = @ - 1] /\ ~InFlight(p)
      /\ sent' = sent \cup hops
      /\ UNCHANGED <<session, epoch, attempt, live, guest, device, fav, book, answers, overtaken,
                     server, otherTab, seen, saved, asked, disturbed>>
  BY DEF StartHop, ui, network, history
<1>2. \A i, j \in IntentFor(book.intents, p) : i = j
  BY DEF WellFormed, OneEach, IntentFor
<1>3. ASSUME NEW i \in IntentFor(book.intents, p)
      PROVE  /\ hop(i).player = p /\ hop(i).token = live /\ hop(i).account = fav.account
             /\ hop(i).list = <<>> /\ ~IsLoad(hop(i)) /\ Live(hop(i))
             /\ hop(i).revision = i.revision /\ hop(i).kind = (IF i.want THEN "add" ELSE "remove")
  BY DEF IsLoad, Live
<1>4. ASSUME NEW i \in IntentFor(book.intents, p)
      PROVE  /\ live # NoToken /\ fav.account = live[1] /\ i.revision < book.next
             /\ p \in seen[live[1]]
  <2>1. i \in ToSet(book.intents) /\ i.player = p BY <1>4 DEF IntentFor
  <2>2. book.intents # <<>>
    <3>1. ToSet(<<>>) = {} BY DEF ToSet
    <3>2. QED BY <2>1, <3>1
  <2>3. live # NoToken /\ fav.account = live[1] BY <2>2 DEF Inv, GenerationAtWork
  <2>4. QED BY <2>1, <2>3 DEF Inv, Books, SeenBefore
<1>5. \A h \in hops : \E i \in IntentFor(book.intents, p) : h = hop(i) OBVIOUS
<1>6. \A h, g \in hops : h = g BY <1>2
<1>7. \A h \in hops : /\ h.player = p /\ h.token = live /\ h.account = live[1] /\ live # NoToken
                      /\ h.list = <<>> /\ ~IsLoad(h) /\ p \in seen[live[1]]
                      /\ OnTheBooks(h)
  <2>1. TAKE h \in hops
  <2>2. PICK i \in IntentFor(book.intents, p) : h = hop(i) BY <1>5
  <2> HIDE DEF hop, hops
  <2>3. \A j \in IntentFor(book.intents, p) : j = i BY <1>2
  <2>4. OnTheBooks(h) BY <1>3, <1>4, <2>2, <2>3 DEF OnTheBooks
  <2>5. QED BY <1>3, <1>4, <2>2, <2>4
<1> HIDE DEF hop, hops
<1>8. NetworkFacts /\ NetworkFacts' BY OnNetworkFacts, OnNetworkNext
<1>9. OnNetwork' = OnNetwork \cup hops
  <2>1. OnNetwork' = sent' \cup {answers'[k].request : k \in 1..Len(answers')} BY <1>8 DEF NetworkFacts
  <2>2. OnNetwork = sent \cup {answers[k].request : k \in 1..Len(answers)} BY <1>8 DEF NetworkFacts
  <2>3. QED BY <1>1, <2>1, <2>2
<1>10. \A r \in OnNetwork : Live(r) => r.player # p BY <1>1, <1>8 DEF NetworkFacts
<1>11. GenerationAtWork' BY <1>1, <1>7, <1>9 DEF Inv, GenerationAtWork, Live
<1>12. OneInFlight'
  <2>1. \A k \in 1..Len(answers) : answers[k].request \in OnNetwork /\ Live(answers[k].request)
    BY <1>8 DEF NetworkFacts, Inv, GenerationAtWork
  <2>2. sent \subseteq OnNetwork BY <1>8 DEF NetworkFacts
  <2>3. \A k \in 1..Len(answers) : answers[k].request.player # p BY <1>10, <2>1
  <2>4. \A r \in sent : Live(r) => r.player # p BY <1>10, <2>2
  <2>5. QED BY <1>1, <1>6, <1>7, <2>3, <2>4 DEF Inv, OneInFlight, Live
<1>13. Books'
  <2>1. \A q : Live(q)' = Live(q) /\ OnTheBooks(q)' = OnTheBooks(q) BY <1>1 DEF Live, OnTheBooks
  <2>2. \A r \in OnNetwork' : Live(r)' => OnTheBooks(r)' BY <1>7, <1>9, <2>1 DEF Inv, Books
  <2>3. ASSUME NEW q \in Player, live # NoToken, q \in fav.pending PROVE queued'[q] > 0 \/ InFlight(q)'
    <3>1. CASE q = p
      <4>1. PICK i \in IntentFor(book.intents, p) : TRUE BY <2>3, <3>1 DEF Inv, Books
      <4>2. hop(i) \in hops BY DEF hops
      <4>3. hop(i) \in OnNetwork' /\ hop(i).player = p /\ hop(i).token = live' BY <1>1, <1>7, <1>9, <4>2
      <4>4. QED BY <1>8, <3>1, <4>3 DEF NetworkFacts, Live
    <3>2. CASE q # p
      <4>1. queued[q] > 0 \/ InFlight(q) BY <2>3 DEF Inv, Books
      <4>2. queued'[q] = queued[q] BY <1>1, <3>2 DEF WellFormed, TypeOK
      <4>3. InFlight(q) => InFlight(q)' BY <1>1, <1>8, <1>9 DEF NetworkFacts, Live
      <4>4. QED BY <4>1, <4>2, <4>3
    <3>3. QED BY <3>1, <3>2
  <2>4. QED BY <1>1, <2>2, <2>3 DEF Inv, Books
<1>14. SeenBefore' BY <1>1, <1>7, <1>9 DEF Inv, SeenBefore
<1>15. DeviceCarried' BY <1>1, <1>7, <1>9 DEF Inv, DeviceCarried, Live
<1>16. AskedIsKept' BY <1>1 DEF Inv, AskedIsKept, Held, EffectsPending, Token, Authenticated
<1>17. ScreenFollows' BY <1>1 DEF Inv, ScreenFollows, EffectsPending, Token, Authenticated
<1>18. DeviceKept' BY <1>1 DEF Inv, DeviceKept
<1>19. QED BY <1>11, <1>12, <1>13, <1>14, <1>15, <1>16, <1>17, <1>18 DEF Inv

(* What the scout's toggle puts on the books and on the screen. *)
LEMMA ToggleAccountDoes ==
  ASSUME WellFormed, WellFormed', NEW p \in Player, ToggleAccount(p)
  PROVE  \E i \in Intent, ids \in Lists, failed \in SUBSET Player :
           /\ i.player = p /\ i.revision = book.next /\ failed = fav.failed \ {p}
           /\ ToSet(ids) \subseteq (IF fav.ids = Unknown THEN {} ELSE ToSet(fav.ids)) \cup {p}
           /\ ToSet(book'.intents) = {j \in ToSet(book.intents) : j.player # p} \cup {i}
           /\ book'.next = book.next + 1 /\ book'.intents # <<>>
           /\ fav'.ids = ids /\ fav'.pending = fav.pending \cup {p} /\ fav'.failed = failed
           /\ fav'.error = StillInError(failed) /\ fav'.loading = fav.loading
           /\ fav'.origin = fav.origin /\ fav'.account = fav.account /\ fav'.token = fav.token
           /\ asked' = [asked EXCEPT ![p] = IF i.want THEN "in" ELSE "out"]
<1> DEFINE current == IF fav.ids = Unknown THEN <<>> ELSE fav.ids
           shown == IF VisibleIds = Unknown THEN <<>> ELSE VisibleIds
           want == p \notin ToSet(shown)
           failed == fav.failed \ {p}
           intent == [player |-> p, want |-> want, revision |-> book.next,
                      anchors |-> IF want THEN NoAnchors ELSE AnchorsOf(current, p)]
           ids == IF want THEN WithId(current, p) ELSE WithoutId(current, p)
<1>1. fav \in Favorites /\ fav # NoFavorites
  BY TypeFacts DEF ToggleAccount, Visible
<1>2. current \in Lists BY <1>1 DEF Favorites, Lists
<1>3. want \in BOOLEAN /\ intent \in Intent
  <2>1. AnchorsOf(current, p) \in Anchors /\ NoAnchors \in Anchors BY <1>2, AnchorsType
  <2>2. book.next \in Nat BY TypeFacts
  <2> HIDE DEF current, want
  <2>3. want \in BOOLEAN BY DEF want
  <2>4. QED BY <2>1, <2>2, <2>3 DEF Intent
<1>4. ids \in Lists /\ ToSet(ids) \subseteq ToSet(current) \cup {p}
  <2>1. WithId(current, p) \in Lists /\ ToSet(WithId(current, p)) \subseteq ToSet(current) \cup {p}
    BY <1>2, WithIdFacts
  <2>2. WithoutId(current, p) \in Lists /\ ToSet(WithoutId(current, p)) \subseteq ToSet(current) \cup {p}
    BY <1>2, WithoutIdFacts
  <2> HIDE DEF current, want
  <2>3. QED BY <2>1, <2>2
<1>5. /\ book' = [intents |-> SetIntent(book.intents, intent), next |-> book.next + 1]
      /\ fav' = [fav EXCEPT !.ids = ids, !.pending = @ \cup {p}, !.failed = failed,
                            !.error = StillInError(failed)]
      /\ asked' = [asked EXCEPT ![p] = IF want THEN "in" ELSE "out"]
  BY DEF ToggleAccount
<1>6. ToSet(current) = IF fav.ids = Unknown THEN {} ELSE ToSet(fav.ids) BY DEF ToSet
<1>7. intent.player = p /\ intent.want = want /\ intent.revision = book.next OBVIOUS
<1> HIDE DEF current, shown, want, intent, ids
<1>8. /\ ToSet(SetIntent(book.intents, intent)) = {j \in ToSet(book.intents) : j.player # p} \cup {intent}
  BY <1>3, <1>7, TypeFacts, SetIntentFacts
<1>9. SetIntent(book.intents, intent) # <<>>
  <2>1. ToSet(<<>>) = {} BY DEF ToSet
  <2>2. QED BY <1>8, <2>1
<1>10. failed \in SUBSET Player BY <1>1 DEF Favorites
<1>11. QED
  <2>1. /\ fav'.ids = ids /\ fav'.pending = fav.pending \cup {p} /\ fav'.failed = failed
        /\ fav'.error = StillInError(failed) /\ fav'.loading = fav.loading
        /\ fav'.origin = fav.origin /\ fav'.account = fav.account /\ fav'.token = fav.token
    BY <1>1, <1>5 DEF Favorites
  <2>2. book'.intents = SetIntent(book.intents, intent) /\ book'.next = book.next + 1 BY <1>5
  <2> HIDE DEF failed
  <2> intent \in Intent BY <1>3
  <2> ids \in Lists BY <1>4
  <2> failed \in SUBSET Player BY <1>10
  <2>3. WITNESS intent \in Intent, ids \in Lists, failed \in SUBSET Player
  <2>4. QED BY <1>3, <1>4, <1>5, <1>6, <1>7, <1>8, <1>9, <2>1, <2>2 DEF failed

(* The scout asks for the opposite of what the screen shows. *)
LEMMA ToggleAccountInv ==
  ASSUME WellFormed, WellFormed', Inv, NEW p \in Player, ToggleAccount(p)
  PROVE  Inv'
<1>1. /\ ~EffectsPending /\ Visible /\ ~fav.loading /\ fav.origin # "device"
      /\ seen' = [seen EXCEPT ![session] = @ \cup {p}]
      /\ queued' = [queued EXCEPT ![p] = @ + 1]
      /\ UNCHANGED <<session, epoch, attempt, live, guest, device, sent, answers, overtaken,
                     server, otherTab, saved, disturbed>>
  BY DEF ToggleAccount, Event, ui, network
<1>2. /\ session \in Account /\ live = <<session, epoch, attempt>> /\ live # NoToken
      /\ fav # NoFavorites /\ fav.account = session /\ live[1] = session /\ fav.token = live
  <2>1. session \in Account /\ fav # NoFavorites /\ fav.account = session /\ live = <<session, epoch, attempt>>
    BY <1>1 DEF Visible, EffectsPending, Token, Authenticated
  <2>2. epoch \in Nat /\ attempt \in Nat BY DEF WellFormed, TypeOK
  <2>3. live # NoToken BY <2>1, <2>2, NullsAssumption DEF Generation
  <2>4. QED BY <2>1, <2>3 DEF Inv, GenerationAtWork
<1>3. PICK i \in Intent, ids \in Lists, failed \in SUBSET Player :
           /\ i.player = p /\ i.revision = book.next /\ failed = fav.failed \ {p}
           /\ ToSet(ids) \subseteq (IF fav.ids = Unknown THEN {} ELSE ToSet(fav.ids)) \cup {p}
           /\ ToSet(book'.intents) = {j \in ToSet(book.intents) : j.player # p} \cup {i}
           /\ book'.next = book.next + 1 /\ book'.intents # <<>>
           /\ fav'.ids = ids /\ fav'.pending = fav.pending \cup {p} /\ fav'.failed = failed
           /\ fav'.error = StillInError(failed) /\ fav'.loading = fav.loading
           /\ fav'.origin = fav.origin /\ fav'.account = fav.account /\ fav'.token = fav.token
           /\ asked' = [asked EXCEPT ![p] = IF i.want THEN "in" ELSE "out"]
  BY ToggleAccountDoes
<1>4. fav' # NoFavorites BY <1>2, <1>3 DEF WellFormed
<1>5. /\ IntentFor(book'.intents, p) = {i}
      /\ \A q : q # p => IntentFor(book'.intents, q) = IntentFor(book.intents, q)
  BY <1>3 DEF IntentFor
<1>6. NetworkFacts /\ OnNetwork' = OnNetwork /\ book.next \in Nat
  BY <1>1, OnNetworkFacts, TypeFacts DEF OnNetwork
<1>7. GenerationAtWork' BY <1>1, <1>2, <1>3, <1>4, <1>6 DEF Inv, GenerationAtWork, Live
<1>8. OneInFlight' BY <1>1 DEF Inv, OneInFlight, Live
<1>9. Books'
  <2>1. ASSUME NEW r \in OnNetwork', Live(r)' PROVE OnTheBooks(r)'
    <3>1. OnTheBooks(r) /\ r \in Request BY <1>1, <1>6, <2>1 DEF Inv, Books, Live, NetworkFacts
    <3>2. ~IsLoad(r) BY <1>1, <3>1 DEF OnTheBooks
    <3>3. r.revision \in Nat /\ r.revision < book.next BY <3>1, <3>2 DEF OnTheBooks, Request
    <3>4. CASE r.player = p
      <4>1. r.revision < book'.next BY <1>3, <1>6, <3>3
      <4>2. \A j \in IntentFor(book'.intents, r.player) : j.revision # r.revision
        BY <1>3, <1>5, <1>6, <3>3, <3>4
      <4>3. IntentFor(book'.intents, r.player) # {} BY <1>5, <3>4
      <4>4. QED BY <3>2, <4>1, <4>2, <4>3 DEF OnTheBooks, IsLoad
    <3>5. CASE r.player # p
      BY <1>3, <1>5, <1>6, <3>1, <3>2, <3>3, <3>5 DEF OnTheBooks, IsLoad
    <3>6. QED BY <3>4, <3>5
  <2>2. ASSUME NEW j \in ToSet(book'.intents) PROVE j.revision < book'.next
    <3>1. j = i \/ j \in ToSet(book.intents) BY <1>3
    <3>2. \A m \in ToSet(book.intents) : m \in Intent BY TypeFacts, Members
    <3>3. \A m \in ToSet(book.intents) : m.revision \in Nat /\ m.revision < book.next
      BY <3>2 DEF Inv, Books, Intent
    <3>4. QED BY <1>3, <1>6, <3>1, <3>3
  <2>3. ASSUME NEW q \in Player
        PROVE  /\ q \in fav'.pending <=> IntentFor(book'.intents, q) # {}
               /\ q \in fav'.pending => queued'[q] > 0 \/ InFlight(q)'
               /\ q \in fav'.failed => IntentFor(book'.intents, q) = {}
    <3>1. /\ q \in fav.pending <=> IntentFor(book.intents, q) # {}
          /\ q \in fav.pending => queued[q] > 0 \/ InFlight(q)
          /\ q \in fav.failed => IntentFor(book.intents, q) = {}
      BY <1>2 DEF Inv, Books
    <3>2. queued \in [Player -> Nat] BY DEF WellFormed, TypeOK
    <3>3. CASE q = p
      <4>1. queued'[q] > 0 BY <1>1, <3>2, <3>3
      <4>2. QED BY <1>3, <1>5, <3>3, <4>1
    <3>4. CASE q # p
      <4>1. queued'[q] = queued[q] /\ InFlight(q)' = InFlight(q)
        BY <1>1, <3>2, <3>4 DEF InFlight, Live
      <4>2. QED BY <1>3, <1>5, <3>1, <3>4, <4>1
    <3>5. QED BY <3>3, <3>4
  <2>4. fav'.failed # {} => fav'.error BY <1>2, <1>3 DEF StillInError, Inv, Books
  <2>5. QED BY <1>1, <1>3, <2>1, <2>2, <2>3, <2>4 DEF Books
<1>10. SeenBefore'
  <2>1. seen \in [Account -> SUBSET Player] BY DEF WellFormed, TypeOK
  <2>2. p \in seen'[session] /\ \A a \in Account : seen[a] \subseteq seen'[a] BY <1>1, <1>2, <2>1
  <2>3. ToSet(ids) \subseteq seen'[session]
    <3>1. fav.ids # Unknown => ToSet(fav.ids) \subseteq seen[session]
      BY <1>1, <1>2 DEF Inv, SeenBefore
    <3>2. QED BY <1>2, <1>3, <2>2, <3>1
  <2>4. \A j \in ToSet(book'.intents) : j.player \in seen'[session]
    BY <1>2, <1>3, <2>2 DEF Inv, SeenBefore
  <2>5. \A r \in OnNetwork' : ~IsLoad(r) => r.player \in seen'[r.account]
    <3>1. \A r \in OnNetwork : r.account \in Account BY <1>6 DEF NetworkFacts, Request
    <3>2. QED BY <1>6, <2>2, <3>1 DEF Inv, SeenBefore
  <2>6. \A k \in 1..Len(answers) : ToSet(answers[k].list) \cup ToSet(answers[k].request.list)
                                     \subseteq seen'[answers[k].request.account]
    <3>1. \A k \in 1..Len(answers) : answers[k].request.account \in Account
      BY TypeFacts DEF Request
    <3>2. QED BY <2>2, <3>1 DEF Inv, SeenBefore
  <2>7. ToSet(guest) \subseteq saved BY DEF Inv, SeenBefore
  <2>8. QED BY <1>1, <1>2, <1>3, <2>3, <2>4, <2>5, <2>6, <2>7 DEF SeenBefore, IsLoad
<1>11. DeviceCarried' BY <1>1, <1>6 DEF Inv, DeviceCarried, Live
<1>12. AskedIsKept'
  <2>1. ASSUME NEW q \in Player \ (fav'.failed \cup disturbed'), asked'[q] # "none"
        PROVE  /\ \A j \in IntentFor(book'.intents, q) : j.want <=> asked'[q] = "in"
               /\ IntentFor(book'.intents, q) = {} => (Held(live[1], q)' <=> asked'[q] = "in")
    <3>1. asked \in [Player -> {"none", "in", "out"}] BY DEF WellFormed, TypeOK
    <3>2. CASE q = p
      <4>1. asked'[q] = IF i.want THEN "in" ELSE "out" BY <1>3, <3>1, <3>2
      <4>2. QED BY <1>5, <3>2, <4>1
    <3>3. CASE q # p
      <4>1. asked'[q] = asked[q] /\ q \notin fav.failed /\ q \notin disturbed
        BY <1>1, <1>3, <2>1, <3>1, <3>3
      <4>2. QED BY <1>1, <1>2, <1>5, <2>1, <3>3, <4>1 DEF Inv, AskedIsKept, Held
    <3>4. QED BY <3>2, <3>3
  <2>2. \A k \in 1..Len(answers) : LET r == answers[k].request IN
          ~IsLoad(r) /\ r.player \notin disturbed => (r.player \in ToSet(server[r.account]) <=> r.kind = "add")
    BY <1>1 DEF Inv, AskedIsKept, Held
  <2>3. QED BY <1>1, <2>1, <2>2 DEF AskedIsKept, Held, IsLoad
<1>13. ScreenFollows'
  BY <1>1, <1>3 DEF Inv, ScreenFollows, EffectsPending, Token, Authenticated
<1>14. DeviceKept'
  <2>1. DeviceKeptSet BY DeviceKeptIs DEF Inv, DeviceKeptSet
  <2>2. seen \in [Account -> SUBSET Player] BY DEF WellFormed, TypeOK
  <2>3. \A a \in Account : seen[a] \subseteq seen'[a] BY <1>1, <2>2
  <2>4. DeviceKeptSet' BY <1>1, <2>1, <2>3 DEF DeviceKeptSet
  <2>5. QED BY <2>4, DeviceKeptNext
<1>15. QED BY <1>7, <1>8, <1>9, <1>10, <1>11, <1>12, <1>13, <1>14 DEF Inv

(* A request of an earlier generation that never reaches the server. *)
LEMMA DeadLostInv ==
  ASSUME WellFormed, WellFormed', Inv, NEW r \in sent, ~Live(r), sent' = sent \ {r}, UNCHANGED network,
         UNCHANGED <<ui, live, guest, device, fav, book, queued, server, writes, otherTab, history>>
  PROVE  Inv'
<1>1. UNCHANGED <<answers, overtaken, session, epoch, attempt, seen, saved, asked, disturbed>>
  BY DEF network, history, ui
<1>2. NetworkFacts /\ NetworkFacts' BY OnNetworkFacts, OnNetworkNext
<1>3. OnNetwork' \subseteq OnNetwork /\ \A q \in OnNetwork : Live(q) => q \in OnNetwork'
  BY <1>1, <1>2 DEF NetworkFacts
<1>4. GenerationAtWork' /\ OneInFlight' BY <1>1, <1>3 DEF Inv, GenerationAtWork, OneInFlight, Live
<1>5. Books'
  <2>1. \A q : Live(q)' = Live(q) /\ OnTheBooks(q)' = OnTheBooks(q) BY DEF Live, OnTheBooks
  <2>2. \A p : InFlight(p) => InFlight(p)' BY <1>2, <1>3 DEF NetworkFacts, Live
  <2>3. QED BY <1>1, <1>3, <2>1, <2>2 DEF Inv, Books
<1>6. SeenBefore' BY <1>1, <1>3 DEF Inv, SeenBefore
<1>7. DeviceCarried' /\ DeviceKept' BY <1>1, <1>3 DEF Inv, DeviceCarried, DeviceKept, Live
<1>8. AskedIsKept' BY <1>1 DEF Inv, AskedIsKept, Held, EffectsPending, Token, Authenticated
<1>9. ScreenFollows' BY <1>1 DEF Inv, ScreenFollows, EffectsPending, Token, Authenticated
<1>10. QED BY <1>4, <1>5, <1>6, <1>7, <1>8, <1>9 DEF Inv

(* The effects of a new generation: no request on the network carries its token. *)
LEMMA RunEffectsInv ==
  ASSUME WellFormed, WellFormed', TokensIssued, Inv, RunEffects
  PROVE  Inv'
<1>1. /\ live' = Token /\ book' = EmptyBook /\ queued' = [p \in Player |-> 0] /\ answers' = <<>>
      /\ asked' = [p \in Player |-> "none"] /\ disturbed' = {} /\ overtaken' = FALSE
      /\ UNCHANGED <<session, epoch, attempt, guest, device, server, writes, otherTab, seen, saved>>
      /\ EffectsPending
  BY DEF RunEffects, ui
<1>2. NetworkFacts /\ NetworkFacts' BY OnNetworkFacts, OnNetworkNext
<1>3. OnNetwork' = sent' /\ sent \subseteq OnNetwork
  BY <1>1, <1>2 DEF NetworkFacts
<1>4. \A r \in sent : r.token # Token
  <2>1. CASE Token = NoToken BY <2>1, <1>3 DEF Inv, GenerationAtWork
  <2>2. CASE Token # NoToken
    <3>1. Token = <<session, epoch, attempt>> /\ live # Token
      BY <1>1, <2>2 DEF Token, EffectsPending
    <3>2. ~Older(Token) BY <3>1 DEF Older, TokensIssued
    <3>3. QED BY <2>2, <3>1, <3>2 DEF TokensIssued
  <2>3. QED BY <2>1, <2>2
<1>5. ToSet(book'.intents) = {} /\ book'.intents = <<>> /\ ToSet(<<>>) = {}
  BY <1>1 DEF EmptyBook, ToSet
<1>6. \A p : IntentFor(book'.intents, p) = {} BY <1>5 DEF IntentFor
<1> DEFINE load == [kind |-> IF device # <<>> THEN "merge" ELSE "get", account |-> session,
                    token |-> Token, player |-> Nobody, list |-> device, revision |-> 0,
                    anchors |-> NoAnchors]
<1>7. CASE Authenticated
  <2>1. /\ fav' = [account |-> session, token |-> Token,
                   ids |-> IF device # <<>> THEN device ELSE Unknown,
                   origin |-> IF device # <<>> THEN "device" ELSE "unknown",
                   loading |-> TRUE, pending |-> {}, failed |-> {}, error |-> FALSE]
        /\ sent' = sent \cup {load}
    BY <1>7 DEF RunEffects
  <2>2. /\ load.token = Token /\ load.account = session /\ load.list = device /\ IsLoad(load)
        /\ load.player = Nobody /\ (load.list # <<>> => load.kind = "merge")
    BY DEF IsLoad
  <2> HIDE DEF load
  <2>3. /\ fav'.account = session /\ fav'.token = Token /\ fav'.loading = TRUE
        /\ fav'.pending = {} /\ fav'.failed = {} /\ fav'.error = FALSE
        /\ (fav'.origin = "device" \/ fav'.ids = Unknown)
    BY <2>1
  <2>4. Token = <<session, epoch, attempt>> /\ Token # NoToken /\ Token[1] = session
    <3>1. Token = <<session, epoch, attempt>> /\ session \in Account BY <1>7 DEF Token, Authenticated
    <3>2. epoch \in Nat /\ attempt \in Nat BY DEF WellFormed, TypeOK
    <3>3. QED BY <3>1, <3>2, NullsAssumption DEF Generation
  <2>5. fav' # NoFavorites
    <3>1. fav' \in Favorites
      <4>1. session \in Account /\ Token \in Tokens
        BY <1>7, <2>4 DEF Authenticated, Tokens, Generation, WellFormed, TypeOK
      <4>2. PICK ids \in Lists \cup {Unknown}, origin \in {"server", "device", "unknown"} :
              fav' = [account |-> session, token |-> Token, ids |-> ids, origin |-> origin,
                      loading |-> TRUE, pending |-> {}, failed |-> {}, error |-> FALSE]
        <5>1. CASE device # <<>> BY <5>1, <2>1 DEF WellFormed, TypeOK
        <5>2. CASE device = <<>> BY <5>2, <2>1
        <5>3. QED BY <5>1, <5>2
      <4>3. QED BY <4>1, <4>2 DEF Favorites
    <3>2. QED BY <3>1, NullsAssumption
  <2>6. \A r \in sent' : r = load \/ (r \in OnNetwork /\ r.token # live') BY <1>1, <1>3, <1>4, <2>1
  <2>7. GenerationAtWork'
    BY <1>1, <1>3, <2>2, <2>3, <2>4, <2>5, <2>6 DEF Inv, GenerationAtWork, Live
  <2>8. OneInFlight' BY <1>1, <2>6 DEF OneInFlight, Live
  <2>9. Books'
    <3>1. \A r \in OnNetwork' : Live(r)' => OnTheBooks(r)'
      BY <1>3, <2>2, <2>3, <2>6 DEF Live, OnTheBooks, IsLoad
    <3>2. QED BY <1>1, <1>5, <1>6, <2>3, <3>1 DEF Books
  <2>10. SeenBefore'
    BY <1>1, <1>3, <1>5, <2>2, <2>3, <2>6 DEF Inv, SeenBefore, IsLoad
  <2>11. DeviceCarried'
    <3>1. \A r \in OnNetwork' : Live(r)' /\ IsLoad(r) => ToSet(device) \subseteq ToSet(r.list) \cup otherTab
      BY <1>3, <2>2, <2>6 DEF Live
    <3>2. \A r \in OnNetwork' : r.list # <<>> => r.kind = "merge"
      BY <1>3, <2>2, <2>6 DEF Inv, DeviceCarried
    <3>3. QED BY <1>1, <3>1, <3>2 DEF Inv, DeviceCarried, IsLoad
  <2>12. AskedIsKept' BY <1>1 DEF AskedIsKept
  <2>13. ScreenFollows' BY <1>1, <2>3 DEF ScreenFollows
  <2>14. DeviceKept' BY <1>1 DEF Inv, DeviceKept
  <2>15. QED BY <2>7, <2>8, <2>9, <2>10, <2>11, <2>12, <2>13, <2>14 DEF Inv
<1>8. CASE ~Authenticated
  <2>1. fav' = fav /\ sent' = sent /\ live' = NoToken BY <1>1, <1>8 DEF RunEffects, Token
  <2>2. \A r \in sent' : r \in OnNetwork /\ r.token # live' BY <1>1, <1>3, <1>4, <2>1
  <2>3. GenerationAtWork' BY <1>1, <1>3, <1>5, <2>1, <2>2 DEF Inv, GenerationAtWork
  <2>4. OneInFlight' BY <1>1, <2>2 DEF OneInFlight, Live
  <2>5. Books'
    <3>1. \A r \in OnNetwork' : ~Live(r)' BY <1>3, <2>2 DEF Live
    <3>2. QED BY <1>5, <2>1, <3>1 DEF Books
  <2>6. SeenBefore' BY <1>1, <1>3, <2>1, <2>2 DEF Inv, SeenBefore
  <2>7. DeviceCarried' BY <1>1, <1>3, <2>2 DEF Inv, DeviceCarried, Live
  <2>8. AskedIsKept' /\ ScreenFollows' BY <1>1, <2>1 DEF AskedIsKept, ScreenFollows
  <2>9. DeviceKept' BY <1>1 DEF Inv, DeviceKept
  <2>10. QED BY <2>3, <2>4, <2>5, <2>6, <2>7, <2>8, <2>9 DEF Inv
<1>9. QED BY <1>7, <1>8

(* The server handles a request: a live one does what its intent says. *)
LEMMA ServeInv ==
  ASSUME WellFormed, WellFormed', Inv, NEW r \in sent, Serve(r)
  PROVE  Inv'
<1> DEFINE after == Handled(r)
           a == r.account
           answer == [request |-> r, list |-> after]
<1>1. /\ sent' = sent \ {r} /\ server' = [server EXCEPT ![a] = after]
      /\ answers' = (IF Live(r) THEN Append(answers, answer) ELSE answers)
      /\ seen' = [seen EXCEPT ![a] = @ \cup ToSet(after)]
      /\ disturbed' = (IF Live(r) \/ a # session THEN disturbed
                       ELSE disturbed \cup {p \in Player : Contains(after, p) # Contains(server[a], p)})
      /\ UNCHANGED <<session, epoch, attempt, live, guest, device, fav, book, queued, otherTab,
                     saved, asked, overtaken>>
  BY DEF Serve, ui
<1>2. /\ r \in Request /\ after \in Lists /\ (r.kind \in {"add", "remove"} => r.player \in Player)
      /\ a \in Account /\ server \in [Account -> Lists] /\ seen \in [Account -> SUBSET Player]
  BY ServeType DEF WellFormed, TypeOK, Request
<1>3. /\ ToSet(after) =
           CASE r.kind = "get"    -> ToSet(server[a])
             [] r.kind = "add"    -> ToSet(server[a]) \cup {r.player}
             [] r.kind = "remove" -> ToSet(server[a]) \ {r.player}
             [] r.kind = "merge"  -> ToSet(server[a]) \cup ToSet(r.list)
      /\ (ToSet(after) = ToSet(server[a]) => after = server[a])
  BY <1>2, HandledFacts
<1>4. NetworkFacts /\ NetworkFacts' BY OnNetworkFacts, OnNetworkNext
<1> HIDE DEF after, a
<1>5. /\ server'[a] = after /\ \A b \in Account : b # a => server'[b] = server[b]
      /\ seen'[a] = seen[a] \cup ToSet(after) /\ \A b \in Account : seen[b] \subseteq seen'[b]
  BY <1>1, <1>2
<1>6. IF Live(r) THEN /\ Len(answers') = Len(answers) + 1 /\ answers'[Len(answers')] = answer
                      /\ \A k \in 1..Len(answers) : answers'[k] = answers[k]
                 ELSE answers' = answers
  <2>1. answers \in Seq(Answer) BY DEF WellFormed, TypeOK
  <2> HIDE DEF answer
  <2>2. QED BY <1>1, <2>1
<1>7. Len(answers) \in Nat /\ answer.request = r /\ answer.list = after BY TypeFacts
<1>8. \A k \in 1..Len(answers') : \/ k \in 1..Len(answers) /\ answers'[k] = answers[k]
                                  \/ Live(r) /\ k = Len(answers) + 1 /\ answers'[k] = answer
  BY <1>6, <1>7
<1> HIDE DEF answer
<1>9. r \in OnNetwork /\ (IsLoad(r) <=> r.player = Nobody) BY <1>4 DEF NetworkFacts
<1>10. /\ OnNetwork' \subseteq OnNetwork
       /\ \A q \in OnNetwork : Live(q) => q \in OnNetwork'
  <2>1. ASSUME NEW q \in OnNetwork' PROVE q \in OnNetwork
    <3>1. q \in sent' \/ \E k \in 1..Len(answers') : q = answers'[k].request BY <1>4 DEF NetworkFacts
    <3>2. CASE q \in sent' BY <1>1, <1>4, <3>2 DEF NetworkFacts
    <3>3. ASSUME NEW k \in 1..Len(answers'), q = answers'[k].request PROVE q \in OnNetwork
      BY <1>4, <1>7, <1>8, <1>9, <3>3 DEF NetworkFacts
    <3>4. QED BY <3>1, <3>2, <3>3
  <2>2. ASSUME NEW q \in OnNetwork, Live(q) PROVE q \in OnNetwork'
    <3>1. CASE q = r
      <4>1. Len(answers') \in 1..Len(answers') /\ answers'[Len(answers')].request = r
        BY <1>6, <1>7, <2>2, <3>1
      <4>2. QED BY <1>4, <3>1, <4>1 DEF NetworkFacts
    <3>2. CASE q \in sent /\ q # r BY <1>1, <1>4, <3>2 DEF NetworkFacts
    <3>3. ASSUME NEW k \in 1..Len(answers), q = answers[k].request PROVE q \in OnNetwork'
      <4>1. k \in 1..Len(answers') /\ answers'[k] = answers[k] BY <1>6, <1>7
      <4>2. QED BY <1>4, <3>3, <4>1 DEF NetworkFacts
    <3>4. QED BY <1>4, <3>1, <3>2, <3>3 DEF NetworkFacts
  <2>3. QED BY <2>1, <2>2
<1>11. GenerationAtWork'
  BY <1>1, <1>7, <1>8, <1>10 DEF Inv, GenerationAtWork, Live
<1>12. OneInFlight'
  <2>1. \A q, s \in sent' : Live(q)' /\ Live(s)' /\ q.player = s.player => q = s
    BY <1>1 DEF Inv, OneInFlight, Live
  <2>2. \A q \in sent', k \in 1..Len(answers') : Live(q)' => q.player # answers'[k].request.player
    BY <1>1, <1>7, <1>8 DEF Inv, OneInFlight, Live
  <2>3. \A j, k \in 1..Len(answers') : answers'[j].request.player = answers'[k].request.player => j = k
    <3>1. \A k \in 1..Len(answers) : Live(r) => r.player # answers[k].request.player
      BY DEF Inv, OneInFlight
    <3>2. \A j, k \in 1..Len(answers) : answers[j].request.player = answers[k].request.player => j = k
      BY DEF Inv, OneInFlight
    <3>3. QED BY <1>7, <1>8, <3>1, <3>2
  <2>4. QED BY <2>1, <2>2, <2>3 DEF OneInFlight
<1>13. Books'
  <2>1. \A q : Live(q)' = Live(q) /\ OnTheBooks(q)' = OnTheBooks(q) BY <1>1 DEF Live, OnTheBooks
  <2>2. \A p : InFlight(p) => InFlight(p)' BY <1>1, <1>4, <1>10 DEF NetworkFacts, Live
  <2>3. QED BY <1>1, <1>10, <2>1, <2>2 DEF Inv, Books
<1>14. SeenBefore'
  <2>1. fav # NoFavorites /\ fav.origin # "device" /\ fav.ids # Unknown =>
          ToSet(fav.ids) \subseteq seen'[fav.account]
    <3>1. fav # NoFavorites => fav.account \in Account BY TypeFacts DEF Favorites
    <3>2. QED BY <1>5, <3>1 DEF Inv, SeenBefore
  <2>2. live # NoToken => \A i \in ToSet(book.intents) : i.player \in seen'[live[1]]
    <3>1. live # NoToken => live[1] \in Account BY DEF WellFormed, TypeOK, Tokens, Generation
    <3>2. QED BY <1>5, <3>1 DEF Inv, SeenBefore
  <2>3. \A q \in OnNetwork' : ~IsLoad(q) => q.player \in seen'[q.account]
    <3>1. \A q \in OnNetwork : q.account \in Account BY <1>4 DEF NetworkFacts, Request
    <3>2. QED BY <1>5, <1>10, <3>1 DEF Inv, SeenBefore
  <2>4. \A k \in 1..Len(answers') : ToSet(answers'[k].list) \cup ToSet(answers'[k].request.list)
                                      \subseteq seen'[answers'[k].request.account]
    <3>1. ASSUME NEW k \in 1..Len(answers)
          PROVE  ToSet(answers[k].list) \cup ToSet(answers[k].request.list) \subseteq seen'[answers[k].request.account]
      <4>1. answers[k].request.account \in Account BY TypeFacts DEF Request
      <4>2. QED BY <1>5, <4>1 DEF Inv, SeenBefore
    <3>2. ToSet(after) \cup ToSet(r.list) \subseteq seen'[a]
      <4>1. r.list = <<>> \/ r.kind = "merge" BY <1>9 DEF Inv, DeviceCarried
      <4>2. ToSet(<<>>) = {} BY DEF ToSet
      <4>3. ToSet(r.list) \subseteq ToSet(after) BY <1>3, <4>1, <4>2
      <4>4. QED BY <1>5, <4>3
    <3>3. QED BY <1>7, <1>8, <3>1, <3>2 DEF a
  <2>5. ToSet(guest) \subseteq saved BY DEF Inv, SeenBefore
  <2>6. QED BY <1>1, <2>1, <2>2, <2>3, <2>4, <2>5 DEF SeenBefore, IsLoad
<1>15. DeviceCarried' BY <1>1, <1>10 DEF Inv, DeviceCarried, Live
<1>16. DeviceKept'
  <2>1. DeviceKeptSet BY DeviceKeptIs DEF Inv, DeviceKeptSet
  <2>2. DeviceKeptSet' BY <1>1, <1>5, <2>1 DEF DeviceKeptSet
  <2>3. QED BY <2>2, DeviceKeptNext
<1>17. ~EffectsPending' => ~EffectsPending
  BY <1>1 DEF EffectsPending, Token, Authenticated
<1>18. live # NoToken /\ ~EffectsPending => session = live[1] /\ session \in Account
  BY DEF EffectsPending, Token, Authenticated
<1>19. ASSUME ~EffectsPending, live # NoToken
       PROVE  \/ Live(r) /\ a = session
              \/ ~Live(r) /\ (a = session => \A p \in Player \ disturbed' : p \in ToSet(after) <=> p \in ToSet(server[a]))
  <2>1. CASE Live(r)
    <3>1. a = live[1] BY <1>9, <2>1 DEF Inv, GenerationAtWork, Live, a
    <3>2. QED BY <1>18, <1>19, <2>1, <3>1
  <2>2. CASE ~Live(r)
    <3>1. server[a] \in Lists BY <1>2
    <3>2. \A p : (Contains(after, p) <=> p \in ToSet(after)) /\ (Contains(server[a], p) <=> p \in ToSet(server[a]))
      <4>1. ToSet(after) = {after[i] : i \in 1..Len(after)} BY <1>2, Members DEF Lists
      <4>2. ToSet(server[a]) = {server[a][i] : i \in 1..Len(server[a])} BY <3>1, Members DEF Lists
      <4>3. QED BY <4>1, <4>2 DEF Contains
    <3>3. QED BY <1>1, <2>2, <3>2
  <2>3. QED BY <2>1, <2>2
<1>20. AskedIsKept'
  <2>1. SUFFICES ASSUME ~EffectsPending' PROVE AskedIsKept' BY DEF AskedIsKept
  <2>2. ~EffectsPending BY <1>17, <2>1
  <2>3. ASSUME live # NoToken, NEW p \in Player, p \notin disturbed',
               \/ asked[p] # "none" /\ (Live(r) => r.player # p)
               \/ \E k \in 1..Len(answers) : answers[k].request.player = p /\ ~IsLoad(answers[k].request)
        PROVE  p \in ToSet(server'[live[1]]) <=> p \in ToSet(server[live[1]])
    <3>1. session = live[1] /\ session \in Account BY <1>18, <2>2, <2>3
    <3>2. CASE a # session BY <1>5, <3>1, <3>2
    <3>3. CASE a = session /\ ~Live(r) BY <1>5, <1>19, <2>2, <2>3, <3>1, <3>3
    <3>4. CASE a = session /\ Live(r)
      <4>1. r.player # p
        <5>1. \A k \in 1..Len(answers) : r.player # answers[k].request.player
          BY <3>4 DEF Inv, OneInFlight
        <5>2. QED BY <2>3, <3>4, <5>1
      <4>2. ~IsLoad(r)
        <5>1. ASSUME IsLoad(r) PROVE FALSE
          <6>1. /\ \A q \in Player : asked[q] = "none"
                /\ \A q \in OnNetwork : Live(q) => IsLoad(q)
            BY <1>9, <2>3, <3>4, <5>1, LoadWasAlone
          <6>2. \A k \in 1..Len(answers) : answers[k].request \in OnNetwork /\ Live(answers[k].request)
            BY <1>4 DEF NetworkFacts, Inv, GenerationAtWork
          <6>3. QED BY <2>3, <6>1, <6>2
        <5>2. QED BY <5>1
      <4>3. r.kind \in {"add", "remove"} BY <1>2, <4>2 DEF IsLoad, Request
      <4>4. QED BY <1>3, <1>5, <3>1, <3>4, <4>1, <4>3
    <3>5. QED BY <3>2, <3>3, <3>4
  <2>4. ASSUME live # NoToken, NEW p \in Player \ (fav.failed \cup disturbed'), asked[p] # "none"
        PROVE  /\ \A i \in IntentFor(book.intents, p) : i.want <=> asked[p] = "in"
               /\ IntentFor(book.intents, p) = {} => (p \in ToSet(server'[live[1]]) <=> asked[p] = "in")
    <3>1. p \notin disturbed BY <1>1, <2>4
    <3>2. /\ \A i \in IntentFor(book.intents, p) : i.want <=> asked[p] = "in"
          /\ IntentFor(book.intents, p) = {} => (p \in ToSet(server[live[1]]) <=> asked[p] = "in")
      BY <2>2, <2>4, <3>1 DEF Inv, AskedIsKept, Held
    <3>3. ASSUME IntentFor(book.intents, p) = {}, Live(r) PROVE r.player # p
      <4>1. OnTheBooks(r) BY <1>9, <3>3 DEF Inv, Books
      <4>2. IsLoad(r) => r.player # p BY <1>9, NullsAssumption
      <4>3. QED BY <3>3, <4>1, <4>2 DEF OnTheBooks
    <3>4. QED BY <2>3, <2>4, <3>2, <3>3
  <2>5. ASSUME NEW k \in 1..Len(answers'), ~IsLoad(answers'[k].request),
               answers'[k].request.player \notin disturbed'
        PROVE  answers'[k].request.player \in ToSet(server'[answers'[k].request.account])
                 <=> answers'[k].request.kind = "add"
    <3> DEFINE q == answers'[k].request
    <3>1. q \in OnNetwork /\ Live(q) /\ live # NoToken /\ q.account = live[1] /\ q.player \in Player
      <4>1. q \in OnNetwork' BY <1>4 DEF NetworkFacts
      <4>2. q \in OnNetwork BY <1>10, <4>1
      <4>3. Live(q) BY <1>1, <1>11 DEF GenerationAtWork, Live
      <4>4. QED BY <1>4, <2>5, <4>2, <4>3 DEF NetworkFacts, Inv, GenerationAtWork, Live
    <3>2. CASE k \in 1..Len(answers) /\ answers'[k] = answers[k]
      <4>1. q.player \notin disturbed BY <1>1, <2>5
      <4>2. q.player \in ToSet(server[live[1]]) <=> q.kind = "add"
        BY <2>2, <2>5, <3>1, <3>2, <4>1 DEF Inv, AskedIsKept, Held
      <4>3. q.player \in ToSet(server'[live[1]]) <=> q.player \in ToSet(server[live[1]])
        BY <2>3, <2>5, <3>1, <3>2
      <4>4. QED BY <3>1, <4>2, <4>3
    <3>3. CASE q = r
      <4>1. r.kind \in {"add", "remove"} BY <1>2, <2>5, <3>3 DEF IsLoad, Request
      <4>2. r.player \in ToSet(after) <=> r.kind = "add" BY <1>3, <4>1
      <4>3. QED BY <1>5, <3>3, <4>2 DEF a
    <3>4. QED BY <1>7, <1>8, <3>2, <3>3
  <2>6. QED BY <1>1, <2>4, <2>5 DEF AskedIsKept, Held, IsLoad
<1>21. ScreenFollows'
  <2>1. SUFFICES ASSUME ~EffectsPending', live' # NoToken, disturbed' = {}, ~overtaken'
                 PROVE  /\ answers' # <<>> => answers'[Len(answers')].list = server'[live'[1]]
                        /\ answers' = <<>> /\ ~fav'.loading /\ ~fav'.error /\ book'.intents = <<>> =>
                             fav'.ids = server'[live'[1]] /\ fav'.origin # "device"
    BY DEF ScreenFollows
  <2>2. ~EffectsPending /\ live # NoToken /\ ~overtaken /\ disturbed = {} BY <1>1, <1>17, <2>1
  <2>3. session = live[1] /\ session \in Account BY <1>18, <2>2
  <2>4. CASE Live(r)
    <3>1. a = session BY <1>19, <2>2, <2>4
    <3>2. answers' # <<>>
      <4>1. Len(answers') > 0 BY <1>6, <1>7, <2>4
      <4>2. QED BY <4>1
    <3>3. QED BY <1>1, <1>5, <1>6, <1>7, <2>3, <2>4, <3>1, <3>2
  <2>5. CASE ~Live(r)
    <3>1. server'[live[1]] = server[live[1]]
      <4>1. CASE a # session BY <1>5, <2>3, <4>1
      <4>2. CASE a = session
        <5>1. \A p \in Player : p \in ToSet(after) <=> p \in ToSet(server[a])
          BY <1>19, <2>1, <2>2, <2>5, <4>2
        <5>2. ToSet(after) \subseteq Player /\ ToSet(server[a]) \subseteq Player
          BY <1>2, Members DEF Lists
        <5>3. ToSet(after) = ToSet(server[a]) BY <5>1, <5>2
        <5>4. QED BY <1>3, <1>5, <2>3, <4>2, <5>3
      <4>3. QED BY <4>1, <4>2
    <3>2. answers' = answers BY <1>6, <2>5
    <3>3. QED BY <1>1, <2>2, <3>1, <3>2 DEF Inv, ScreenFollows
  <2>6. QED BY <2>4, <2>5
<1>22. QED BY <1>11, <1>12, <1>13, <1>14, <1>15, <1>16, <1>20, <1>21 DEF Inv

-----------------------------------------------------------------------------
(* The properties. *)

(* The invariant holds of the first render. *)
LEMMA InitInv == Init => Inv
<1> SUFFICES ASSUME Init PROVE Inv OBVIOUS
<1>1. WellFormed BY InitWellFormed
<1>2. /\ live = NoToken /\ fav = NoFavorites /\ book.intents = <<>> /\ sent = {} /\ answers = <<>>
      /\ guest = DeviceList /\ device = DeviceList /\ saved = ToSet(DeviceList) /\ otherTab = {}
      /\ seen = [a \in Account |-> ToSet(ServerLists[a])] /\ server = ServerLists
  BY DEF Init, EmptyBook
<1>3. OnNetwork = {} /\ ToSet(book.intents) = {} BY <1>2 DEF OnNetwork, ToSet
<1>4. Len(answers) = 0 BY <1>2
<1>5. GenerationAtWork BY <1>2, <1>3, <1>4 DEF GenerationAtWork
<1>6. OneInFlight BY <1>2, <1>4 DEF OneInFlight
<1>7. Books BY <1>2, <1>3 DEF Books
<1>8. SeenBefore BY <1>2, <1>3, <1>4 DEF SeenBefore
<1>9. DeviceCarried BY <1>2, <1>3 DEF DeviceCarried
<1>10. AskedIsKept BY <1>2, <1>4 DEF AskedIsKept
<1>11. ScreenFollows BY <1>2 DEF ScreenFollows
<1>12. DeviceKept BY <1>1, <1>2, DeviceKeptIs
<1>13. QED BY <1>5, <1>6, <1>7, <1>8, <1>9, <1>10, <1>11, <1>12 DEF Inv

(* Every step keeps the invariant. *)
LEMMA StepInv ==
  ASSUME WellFormed, WellFormed', TokensIssued, Inv, [Next]_vars
  PROVE  Inv'
<1>1. CASE UNCHANGED vars BY <1>1, UnchangedInv DEF vars
<1>2. ASSUME RetrySync \/ \E s \in Account \cup {"resolving", "anonymous"} : SessionChange(s)
      PROVE  Inv'
  BY <1>2, SessionInv
<1>3. ASSUME NEW p \in Player, ToggleGuest(p) \/ ToggleUnconfirmed(p) PROVE Inv'
  BY <1>3, WriteDeviceInv
<1>4. ASSUME NEW p \in Player, ToggleAccount(p) PROVE Inv' BY <1>4, ToggleAccountInv
<1>5. ASSUME NEW p \in Player, OtherTabSaves(p) PROVE Inv' BY <1>5, OtherTabInv
<1>6. ASSUME NEW r \in sent, Lost(r) PROVE Inv'
  <2>1. CASE Live(r)
    <3>1. LeavesNetwork(r) BY <1>6, <2>1 DEF LeavesNetwork, Lost, network
    <3>2. LoadFailed(r) \/ SaveFailed(r) BY <1>6, <2>1 DEF Lost
    <3>3. QED BY <3>1, <3>2, LoadFailedInv, SaveFailedInv
  <2>2. CASE ~Live(r) BY <1>6, <2>2, DeadLostInv DEF Lost
  <2>3. QED BY <2>1, <2>2
<1>7. ASSUME NEW k \in 1..Len(answers), ResponseLost(k) PROVE Inv'
  <2>1. LeavesNetwork(answers[k].request) BY <1>7 DEF LeavesNetwork, ResponseLost
  <2>2. QED BY <1>7, <2>1, LoadFailedInv, SaveFailedInv DEF ResponseLost
<1>8. ASSUME RunEffects PROVE Inv' BY <1>8, RunEffectsInv
<1>9. ASSUME NEW p \in Player, StartHop(p) PROVE Inv' BY <1>9, StartHopInv
<1>10. ASSUME NEW r \in sent, Serve(r) PROVE Inv' BY <1>10, ServeInv
<1>11. ASSUME NEW k \in 1..Len(answers), Loaded(k) PROVE Inv' BY <1>11, LoadedInv
<1>12. ASSUME NEW k \in 1..Len(answers), Saved(k) PROVE Inv' BY <1>12, SavedInv
<1>13. QED
  BY <1>1, <1>2, <1>3, <1>4, <1>5, <1>6, <1>7, <1>8, <1>9, <1>10, <1>11, <1>12
  DEF Next, Scout, Failure, Progress

(* The invariant holds of every reachable state. *)
LEMMA InvCorrect == Spec => [](WellFormed /\ Inv)
<1>1. WellFormed /\ TokensIssued /\ Inv /\ [Next]_vars => WellFormed' /\ Inv'
  <2>1. WellFormed /\ [Next]_vars => WellFormed' BY StepWellFormed
  <2>2. WellFormed /\ WellFormed' /\ TokensIssued /\ Inv /\ [Next]_vars => Inv' BY StepInv
  <2>3. QED BY <2>1, <2>2
<1>2. QED BY <1>1, InitInv, InitWellFormed, TokensIssuedCorrect, PTL DEF Spec

(* A player the guest of this tab saved stays on the device until an account
   has held it: the device copy goes only with the answer to a merge that
   carried all of it (load/merge, l. 656). *)
THEOREM DeviceKeptCorrect == Spec => []DeviceKept
<1>1. Inv => DeviceKept BY DEF Inv
<1>2. QED BY <1>1, InvCorrect, PTL

(* A generation at work is the one on screen. *)
LEMMA CurrentLive ==
  ASSUME WellFormed, Inv
  PROVE  Current <=> live # NoToken
BY DEF Inv, GenerationAtWork, Current

(* "Saving" is the players with an intent on the books, and each of them has a
   request on its way or a hop that will send one (settle/reconcile, l. 735). *)
THEOREM PendingIsWorkedOnCorrect == Spec => []PendingIsWorkedOn
<1>1. WellFormed /\ Inv => PendingIsWorkedOn BY CurrentLive DEF Inv, Books, PendingIsWorkedOn
<1>2. QED BY <1>1, InvCorrect, PTL

(* A failure stays reported until that player is settled (l. 768). *)
THEOREM FailuresStayReportedCorrect == Spec => []FailuresStayReported
<1>1. WellFormed /\ Inv => FailuresStayReported BY CurrentLive DEF Inv, Books, FailuresStayReported
<1>2. QED BY <1>1, InvCorrect, PTL

(* The last thing asked for is what the account ends up with, however toggles,
   answers and failures interleave, unless the scout is told otherwise or work
   of an earlier generation landed in between (revisions, l. 370). *)
THEOREM LastIntentWinsCorrect == Spec => []LastIntentWins
<1>1. ASSUME WellFormed, Inv, Current, Quiet, book.intents = <<>>,
             NEW p \in Player \ (fav.failed \cup disturbed), asked[p] # "none"
      PROVE  Contains(server[fav.account], p) <=> asked[p] = "in"
  <2>1. live # NoToken /\ fav.account = live[1] /\ ~EffectsPending
    BY <1>1 DEF Inv, GenerationAtWork, Current, Quiet
  <2>2. IntentFor(book.intents, p) = {} BY <1>1 DEF IntentFor, ToSet
  <2>3. Held(live[1], p) <=> asked[p] = "in" BY <1>1, <2>1, <2>2 DEF Inv, AskedIsKept
  <2>4. live[1] \in Account BY <2>1, <1>1 DEF WellFormed, TypeOK, Tokens, Generation
  <2>5. Contains(server[live[1]], p) <=> Held(live[1], p)
    <3>1. server[live[1]] \in Seq(Player) BY <2>4, <1>1 DEF WellFormed, TypeOK, Lists
    <3>2. ToSet(server[live[1]]) = {server[live[1]][i] : i \in 1..Len(server[live[1]])}
      BY <3>1, Members
    <3>3. QED BY <3>2 DEF Held, Contains
  <2>6. QED BY <2>1, <2>3, <2>5
<1>2. WellFormed /\ Inv => LastIntentWins BY <1>1 DEF LastIntentWins
<1>3. QED BY <1>2, InvCorrect, PTL

(* What a render shows under an account has been on that account, or asked for
   under it, or is this device's own list (the render filter, l. 543). *)
THEOREM NoBleedCorrect == Spec => []NoBleed
<1>1. ASSUME WellFormed, Inv, Authenticated, VisibleIds # Unknown
      PROVE  ToSet(VisibleIds) \subseteq seen[session] \cup ToSet(guest)
  <2>1. VisibleIds = guest \/ (Visible /\ fav.origin # "device" /\ fav.ids # Unknown /\ VisibleIds = fav.ids)
    BY <1>1 DEF VisibleIds
  <2>2. CASE Visible /\ fav.origin # "device" /\ fav.ids # Unknown /\ VisibleIds = fav.ids
    BY <2>2, <1>1 DEF Visible, Inv, SeenBefore
  <2>3. QED BY <2>1, <2>2
<1>2. WellFormed /\ Inv => NoBleed BY <1>1 DEF NoBleed, Inv, SeenBefore
<1>3. QED BY <1>2, InvCorrect, PTL

(* In mode "account", with nothing in flight, the list on screen is the server's,
   order included, unless responses overtook one another or a write of an
   earlier generation landed (applyIntents, l. 764). *)
THEOREM AccountModeIsCanonicalCorrect == Spec => []AccountModeIsCanonical
<1>1. ASSUME WellFormed, Inv, Mode = "account", Quiet, disturbed = {}, ~overtaken
      PROVE  VisibleIds = server[session]
  <2>1. session \in Account \cup {"resolving", "anonymous"} BY <1>1 DEF WellFormed, TypeOK
  <2>2. session # "resolving" /\ session # "anonymous" 
    <3>1. session \notin Account => ~Authenticated /\ ~Visible BY DEF Authenticated, Visible
    <3>2. "resolving" \notin Account /\ "anonymous" \notin Account BY NullsAssumption
    <3>3. session = "resolving" => Mode = "resolving" BY <3>1, <3>2 DEF Mode
    <3>4. session = "anonymous" => Mode = "guest" BY <3>1, <3>2 DEF Mode
    <3>5. QED BY <1>1, <3>3, <3>4
  <2>3. Authenticated BY <2>1, <2>2 DEF Authenticated
  <2>4. Visible /\ ~fav.loading BY <1>1, <2>2, <2>3 DEF Mode
  <2>5. ~fav.error
    <3>1. ASSUME fav.error PROVE Mode \in {"account-unconfirmed", "account-desynced"}
      BY <3>1, <2>2, <2>4 DEF Mode
    <3>2. QED BY <1>1, <3>1
  <2>6. fav.pending = {}
    <3>1. ASSUME fav.pending # {} PROVE Mode = "account-saving" BY <3>1, <2>2, <2>4, <2>5 DEF Mode
    <3>2. QED BY <1>1, <3>1
  <2>7. ~EffectsPending /\ live = <<session, epoch, attempt>> /\ answers = <<>>
    BY <1>1, <2>3 DEF Quiet, EffectsPending, Token
  <2>8. live # NoToken /\ live[1] = session
    <3>1. live \in Generation BY <2>3, <2>7, <1>1 DEF Generation, Authenticated, WellFormed, TypeOK
    <3>2. QED BY <3>1, <2>7, NullsAssumption
  <2>9. book.intents = <<>>
    <3>1. \A p \in Player : IntentFor(book.intents, p) = {} BY <1>1, <2>6, <2>8 DEF Inv, Books
    <3>2. \A i \in ToSet(book.intents) : i.player \in Player
      <4>1. book.intents \in Seq(Intent) BY <1>1 DEF WellFormed, TypeOK
      <4>2. ToSet(book.intents) \subseteq Intent BY <4>1, Members
      <4>3. QED BY <4>2 DEF Intent
    <3>3. ToSet(book.intents) = {} BY <3>1, <3>2 DEF IntentFor
    <3>4. QED BY <3>3, <1>1, Members DEF WellFormed, TypeOK
  <2>10. fav.ids = server[session] /\ fav.origin # "device"
    BY <1>1, <2>4, <2>5, <2>7, <2>8, <2>9 DEF Inv, ScreenFollows
  <2>11. server[session] \in Lists BY <1>1, <2>3 DEF WellFormed, TypeOK, Authenticated
  <2>12. fav.ids # Unknown BY <2>10, <2>11, NullsAssumption
  <2>13. QED BY <2>3, <2>4, <2>10, <2>12 DEF VisibleIds
<1>2. WellFormed /\ Inv => AccountModeIsCanonical BY <1>1 DEF AccountModeIsCanonical
<1>3. QED BY <1>2, InvCorrect, PTL

-----------------------------------------------------------------------------
(* The same provider without an account: DeviceScouting, for every set of
   players, every content the storage may start with, every window and every
   bound. *)

(* What OfferIsEarned rests on: the effect has seen every addition, the
   presence has seen the last change, a session without an offer has none
   counted, and what is stored as the dismissal is no older than any refusal. *)
Covered(day) == \E at \in dismissedAt : day =< at /\ at =< now /\ 0 < at

PresenceSeen ==
  /\ offer \in [previous : BOOLEAN, leaving : BOOLEAN]
  /\ offer.previous = OfferActive
  /\ offer.leaving => ~offer.previous

DeviceTyped ==
  /\ enabled \in BOOLEAN /\ open \in BOOLEAN /\ shownThisSession \in BOOLEAN
  /\ now \in Nat /\ now > 0 /\ guestSaveSignal \in Nat

RefusalsCovered ==
  /\ dismissedAt \subseteq Nat /\ refusals \subseteq Nat
  /\ \A day \in refusals : Covered(day)

DeviceInv ==
  /\ DeviceTyped
  /\ PresenceSeen
  /\ observed = guestSaveSignal
  /\ ~shownThisSession => offers = 0
  /\ guestIds = shortlist
  /\ RefusalsCovered

(* A render leaves the presence on what it last saw, and an exit begins only
   where the offer was active. *)
LEMMA PresenceFollows ==
  ASSUME NEW p \in [previous : BOOLEAN, leaving : BOOLEAN], NEW active \in BOOLEAN, NEW calm,
         p.leaving => ~p.previous
  PROVE  /\ UsePresence(p, active, calm) \in [previous : BOOLEAN, leaving : BOOLEAN]
         /\ UsePresence(p, active, calm).previous = active
         /\ UsePresence(p, active, calm).leaving => ~active
         /\ UsePresence(p, active, calm).leaving => p.leaving \/ p.previous
<1>1. CASE p.previous = active BY <1>1 DEF UsePresence
<1>2. CASE p.previous # active
  <2>1. UsePresence(p, active, calm) = [previous |-> active, leaving |-> ~active /\ ~calm]
    BY <1>2 DEF UsePresence
  <2>2. p.previous \in BOOLEAN OBVIOUS
  <2>3. QED BY <2>1, <2>2, <1>2
<1>3. QED BY <1>1, <1>2

(* A render after an event that puts nobody new on the device opens nothing. *)
LEMMA RenderedQuietly ==
  ASSUME DeviceInv, NEW stillOpen \in BOOLEAN, Rendered(stillOpen),
         enabled' \in BOOLEAN, guestSaveSignal' = guestSaveSignal
  PROVE  /\ observed' = guestSaveSignal' /\ open' = stillOpen
         /\ UNCHANGED <<shownThisSession, offers>>
         /\ PresenceSeen'
         /\ offer'.leaving => offer.leaving \/ offer.previous
<1> DEFINE first == UsePresence(offer, stillOpen /\ Eligible', reduced')
<1>1. ~Opens(guestSaveSignal' > observed, Eligible', dismissedAt', now')
  BY DEF Opens, DeviceInv, DeviceTyped
<1>2. /\ observed' = guestSaveSignal' /\ open' = stillOpen
      /\ UNCHANGED <<shownThisSession, offers>>
  BY <1>1 DEF Rendered, DeviceInv, DeviceTyped
<1>3. Eligible' \in BOOLEAN /\ OfferActive' = (stillOpen /\ Eligible')
  BY <1>2 DEF Eligible, OfferActive
<1>4. offer' = UsePresence(first, stillOpen /\ Eligible', reduced')
  BY <1>2 DEF Rendered
<1>5. /\ first \in [previous : BOOLEAN, leaving : BOOLEAN]
      /\ first.previous = (stillOpen /\ Eligible')
      /\ first.leaving => ~(stillOpen /\ Eligible')
      /\ first.leaving => offer.leaving \/ offer.previous
  BY <1>3, PresenceFollows DEF DeviceInv, PresenceSeen
<1>6. offer' = first BY <1>4, <1>5 DEF UsePresence
<1> HIDE DEF first
<1>7. PresenceSeen' BY <1>3, <1>5, <1>6 DEF PresenceSeen
<1>8. QED BY <1>2, <1>5, <1>6, <1>7

(* A guest's save: the offer opens, or the render changes nothing of it. *)
LEMMA RenderedAfterSave ==
  ASSUME DeviceInv, Rendered(open), enabled' \in BOOLEAN, guestSaveSignal' \in Nat
  PROVE  /\ observed' = guestSaveSignal' /\ open' \in BOOLEAN /\ shownThisSession' \in BOOLEAN
         /\ ~shownThisSession' => offers' = 0
         /\ PresenceSeen'
         /\ offer'.leaving => offer.leaving \/ offer.previous
         /\ Opening => /\ offers' = 1 /\ Eligible'
                       /\ ~IsSuppressed(dismissedAt', now')
                       /\ guestSaveSignal' > guestSaveSignal
<1> DEFINE opens == Opens(guestSaveSignal' > observed, Eligible', dismissedAt', now')
           first == UsePresence(offer, open /\ Eligible', reduced')
<1>1. /\ observed' = guestSaveSignal' /\ open' = (open \/ opens)
      /\ shownThisSession' = (shownThisSession \/ opens)
      /\ offers' = IF opens THEN offers + 1 ELSE offers
      /\ offer' = UsePresence(first, open' /\ Eligible', reduced')
  BY DEF Rendered
<1>2. opens => /\ Eligible' /\ ~shownThisSession /\ ~IsSuppressed(dismissedAt', now')
               /\ guestSaveSignal' > guestSaveSignal
  BY DEF Opens, DeviceInv
<1>3. Eligible' \in BOOLEAN /\ opens \in BOOLEAN /\ OfferActive' = (open' /\ Eligible')
  BY DEF Eligible, OfferActive, Opens
<1>4. open \in BOOLEAN /\ shownThisSession \in BOOLEAN BY DEF DeviceInv, DeviceTyped
<1>5. /\ first \in [previous : BOOLEAN, leaving : BOOLEAN]
      /\ first.leaving => ~first.previous
      /\ first.leaving => offer.leaving \/ offer.previous
      /\ first.previous = (open /\ Eligible')
  BY <1>3, <1>4, PresenceFollows DEF DeviceInv, PresenceSeen
<1> HIDE DEF opens, first
<1>6. open' \in BOOLEAN BY <1>1, <1>3, <1>4
<1>7. /\ offer' \in [previous : BOOLEAN, leaving : BOOLEAN]
      /\ offer'.previous = (open' /\ Eligible')
      /\ offer'.leaving => ~(open' /\ Eligible')
      /\ offer'.leaving => first.leaving \/ first.previous
  BY <1>1, <1>3, <1>5, <1>6, PresenceFollows
<1>8. offer'.leaving => offer.leaving \/ offer.previous
  <2>1. CASE opens BY <2>1, <1>1, <1>2, <1>7
  <2>2. CASE ~opens
    <3>1. open' = open BY <2>2, <1>1, <1>4
    <3>2. first.previous = (open' /\ Eligible') BY <3>1, <1>5, Zenon
    <3>3. UsePresence(first, open' /\ Eligible', reduced') = first BY <3>2, Zenon DEF UsePresence
    <3>4. offer' = first BY <1>1, <3>3, Zenon
    <3>5. QED BY <3>4, <1>5
  <2>3. QED BY <2>1, <2>2, <1>3
<1>9. PresenceSeen' BY <1>3, <1>7 DEF PresenceSeen
<1>10. shownThisSession' \in BOOLEAN /\ (~shownThisSession' => offers' = 0)
  BY <1>1, <1>3, <1>4 DEF DeviceInv
<1>11. Opening => opens /\ offers' = 1
  BY <1>1, <1>2, <1>3 DEF Opening, DeviceInv
<1>12. QED BY <1>1, <1>2, <1>6, <1>8, <1>9, <1>10, <1>11

(* What is on screen now and was not before has opened, or returned. *)
LEMMA AppearsOnlySo ==
  ASSUME DeviceInv, open' \in BOOLEAN, enabled' \in BOOLEAN,
         offer'.leaving => offer.leaving \/ offer.previous
  PROVE  Appears => Opening \/ Returns \/ Resumes
<1> SUFFICES ASSUME Appears PROVE Opening \/ Returns \/ Resumes OBVIOUS
<1>1. ~OfferActive /\ ~(offer.leaving /\ ~reduced) BY DEF Appears, OfferVisible, OnScreen
<1>2. OfferActive' \/ (offer'.leaving /\ ~reduced') BY DEF Appears, OfferVisible, OnScreen
<1>3. ~offer.previous BY <1>1 DEF DeviceInv, PresenceSeen
<1>4. CASE OfferActive' BY <1>1, <1>4 DEF OfferActive, Opening, Returns
<1>5. CASE offer'.leaving /\ ~reduced' BY <1>1, <1>3, <1>5 DEF Resumes
<1>6. QED BY <1>2, <1>4, <1>5

(* A step that opens nothing: it may close the offer, change the session, the
   route, the queue or the storage, or record a refusal. *)
LEMMA QuietStep ==
  ASSUME DeviceInv, NEW stillOpen \in BOOLEAN, Rendered(stillOpen), stillOpen => open,
         enabled' \in BOOLEAN, UNCHANGED <<now, guestSaveSignal>>,
         guestIds' = shortlist', RefusalsCovered'
  PROVE  DeviceInv' /\ EarnedStep
<1>1. /\ observed' = guestSaveSignal' /\ open' = stillOpen
      /\ UNCHANGED <<shownThisSession, offers>>
      /\ PresenceSeen'
      /\ offer'.leaving => offer.leaving \/ offer.previous
  BY RenderedQuietly
<1>2. DeviceTyped' BY <1>1 DEF DeviceTyped, DeviceInv
<1>3. DeviceInv' BY <1>1, <1>2 DEF DeviceInv
<1>4. ~Opening BY <1>1 DEF Opening
<1>5. Appears => Opening \/ Returns \/ Resumes BY <1>1, AppearsOnlySo
<1>6. QED BY <1>3, <1>4, <1>5 DEF EarnedStep

(* The render has no part in it: nothing opens, and the offer is where it was. *)
LEMMA SameOffer ==
  ASSUME DeviceInv, UNCHANGED <<auth, lists, stores, open, observed, shownThisSession, offers, offer>>,
         refusals' = refusals, now' \in Nat, now' >= now
  PROVE  DeviceInv' /\ EarnedStep
<1>1. OfferActive' = OfferActive BY DEF OfferActive, Eligible, Auth!Effective, Auth!EffectiveStatus, auth
<1>2. DeviceTyped' /\ PresenceSeen' BY <1>1 DEF DeviceInv, DeviceTyped, PresenceSeen, auth, lists
<1>3. RefusalsCovered'
  <2>1. ASSUME NEW day \in refusals PROVE Covered(day)'
    <3>1. PICK at \in dismissedAt : day =< at /\ at =< now /\ 0 < at
      BY DEF DeviceInv, RefusalsCovered, Covered
    <3>2. at \in Nat BY DEF DeviceInv, RefusalsCovered
    <3>3. at \in dismissedAt' /\ at =< now' BY <3>1, <3>2 DEF stores, DeviceInv, DeviceTyped
    <3>4. QED BY <3>1, <3>3 DEF Covered
  <2>2. QED BY <2>1 DEF RefusalsCovered, DeviceInv, stores
<1>4. DeviceInv' BY <1>2, <1>3 DEF DeviceInv, lists, stores
<1>5. ~Opening BY DEF Opening
<1>6. Appears => Opening \/ Returns \/ Resumes BY <1>2, AppearsOnlySo DEF DeviceTyped, DeviceInv
<1>7. QED BY <1>4, <1>5, <1>6 DEF EarnedStep

(* What the scout does to the offer, the queue and the surroundings leaves the
   refusals covered. *)
LEMMA RefusalsKept ==
  ASSUME RefusalsCovered, UNCHANGED <<dismissedAt, refusals, now>>
  PROVE  RefusalsCovered'
BY DEF RefusalsCovered, Covered

LEMMA DeviceInitInv == DeviceInit => DeviceInv
<1> SUFFICES ASSUME DeviceInit PROVE DeviceInv OBVIOUS
<1>1. PICK raw \in Stored :
        /\ guestIds = Mounted(raw).guestIds /\ shortlist = Written(TRUE, Mounted(raw).guestIds, raw.shortlist)
        /\ dismissedAt = raw.dismissedAt /\ refusals = ReadDismissedAt(raw.dismissedAt, 1)
  BY DEF DeviceInit
<1>2. raw.dismissedAt \subseteq Nat BY StoredAssumption
<1>3. now = 1 /\ open = FALSE /\ observed = 0 /\ guestSaveSignal = 0 /\ offer = Absent
      /\ shownThisSession = FALSE /\ offers = 0 /\ enabled \in BOOLEAN
  BY DEF DeviceInit
<1>4. RefusalsCovered
  BY <1>1, <1>2, <1>3 DEF RefusalsCovered, Covered, ReadDismissedAt
<1>5. PresenceSeen BY <1>3 DEF PresenceSeen, Absent, OfferActive
<1>6. guestIds = shortlist BY <1>1 DEF Written
<1>7. now \in Nat /\ now > 0 /\ guestSaveSignal \in Nat BY <1>3
<1>8. enabled \in BOOLEAN /\ open \in BOOLEAN /\ shownThisSession \in BOOLEAN BY <1>3, Zenon
<1>9. DeviceTyped BY <1>7, <1>8 DEF DeviceTyped
<1>10. observed = guestSaveSignal /\ (~shownThisSession => offers = 0) BY <1>3, Zenon
<1>11. QED BY <1>4, <1>5, <1>6, <1>9, <1>10 DEF DeviceInv

(* A page load: no offer, and a signal that starts again beside the one observed. *)
LEMMA LoadStep ==
  ASSUME DeviceInv, NEW newSession \in BOOLEAN, Load(newSession)
  PROVE  DeviceInv' /\ EarnedStep
<1>1. /\ open' = FALSE /\ offer' = Absent /\ observed' = 0 /\ guestSaveSignal' = 0
      /\ shownThisSession' = (shownThisSession /\ ~newSession)
      /\ offers' = IF newSession THEN 0 ELSE offers
      /\ guestIds' = shortlist'
      /\ UNCHANGED <<enabled, dismissedAt, refusals, now>>
  BY DEF Load, Written, surroundings, traces
<1>2. DeviceTyped' BY <1>1 DEF DeviceInv, DeviceTyped
<1>3. PresenceSeen' BY <1>1 DEF PresenceSeen, Absent, OfferActive
<1>4. ~shownThisSession' => offers' = 0 BY <1>1 DEF DeviceInv, DeviceTyped
<1>5. RefusalsCovered' BY <1>1, RefusalsKept DEF DeviceInv
<1>6. DeviceInv' BY <1>1, <1>2, <1>3, <1>4, <1>5 DEF DeviceInv
<1>7. ~Opening /\ ~Appears
  BY <1>1 DEF Opening, Appears, OfferVisible, OnScreen, OfferActive, Absent
<1>8. QED BY <1>6, <1>7 DEF EarnedStep

(* A guest's heart: the only step that may open the offer. *)
LEMMA ToggleStep ==
  ASSUME DeviceInv, NEW p \in Player, ToggleShortlist(p)
  PROVE  DeviceInv' /\ EarnedStep
<1>1. /\ guestIds' = (IF p \in guestIds THEN guestIds \ {p} ELSE guestIds \union {p})
      /\ shortlist' = guestIds'
      /\ guestSaveSignal' = (IF p \in guestIds THEN guestSaveSignal ELSE guestSaveSignal + 1)
      /\ UNCHANGED <<enabled, status, expired, dismissedAt, refusals, now>>
      /\ Rendered(open)
  BY DEF ToggleShortlist, Written, auth, surroundings
<1>2. guestSaveSignal' \in Nat /\ enabled' \in BOOLEAN BY <1>1 DEF DeviceInv, DeviceTyped
<1>3. /\ observed' = guestSaveSignal' /\ open' \in BOOLEAN /\ shownThisSession' \in BOOLEAN
      /\ ~shownThisSession' => offers' = 0
      /\ PresenceSeen'
      /\ offer'.leaving => offer.leaving \/ offer.previous
      /\ Opening => /\ offers' = 1 /\ Eligible'
                    /\ ~IsSuppressed(dismissedAt', now')
                    /\ guestSaveSignal' > guestSaveSignal
  BY <1>1, <1>2, RenderedAfterSave
<1>4. RefusalsCovered' BY <1>1, RefusalsKept DEF DeviceInv
<1>5. DeviceTyped' BY <1>1, <1>2, <1>3 DEF DeviceInv, DeviceTyped
<1>6. DeviceInv' BY <1>1, <1>3, <1>4, <1>5 DEF DeviceInv
<1>7. Appears => Opening \/ Returns \/ Resumes BY <1>2, <1>3, AppearsOnlySo
<1>8. ASSUME Opening
      PROVE  /\ \E q \in Player \ shortlist : shortlist' = shortlist \union {q}
             /\ enabled /\ status' = "anonymous" /\ offers' = 1
             /\ \A day \in refusals : now - day >= DISMISSAL_WINDOW
  <2>1. guestSaveSignal' # guestSaveSignal BY <1>3, <1>8 DEF DeviceInv, DeviceTyped
  <2>2. p \notin shortlist /\ shortlist' = shortlist \union {p}
    BY <1>1, <2>1 DEF DeviceInv
  <2>3. enabled /\ status' = "anonymous"
    BY <1>1, <1>3, <1>8 DEF Eligible, Auth!Effective, Auth!EffectiveStatus
  <2>4. ASSUME NEW day \in refusals PROVE now - day >= DISMISSAL_WINDOW
    <3>1. PICK at \in dismissedAt : day =< at /\ at =< now /\ 0 < at
      BY DEF DeviceInv, RefusalsCovered, Covered
    <3>2. at \in Nat /\ day \in Nat /\ now \in Nat BY DEF DeviceInv, RefusalsCovered, DeviceTyped
    <3>3. ~(now - at < DISMISSAL_WINDOW)
      BY <1>1, <1>3, <1>8, <3>1 DEF IsSuppressed, ReadDismissedAt
    <3>4. QED BY <3>1, <3>2, <3>3, DaysAssumption
  <2>5. QED BY <1>3, <1>8, <2>2, <2>3, <2>4
<1>9. QED BY <1>6, <1>7, <1>8 DEF EarnedStep

LEMMA NextStep ==
  ASSUME DeviceInv, [DeviceNext]_deviceVars
  PROVE  DeviceInv' /\ EarnedStep
<1> open \in BOOLEAN /\ enabled \in BOOLEAN BY DEF DeviceInv, DeviceTyped
<1>1. ASSUME NEW p \in Player, RemoveShortlist(p) PROVE DeviceInv' /\ EarnedStep
  <2>1. /\ guestIds' = shortlist' /\ Rendered(open)
        /\ UNCHANGED <<enabled, now, guestSaveSignal, dismissedAt, refusals>>
    BY <1>1 DEF RemoveShortlist, Written, auth, surroundings
  <2>2. RefusalsCovered' BY <2>1, RefusalsKept DEF DeviceInv
  <2>3. QED BY <2>1, <2>2, QuietStep
<1>2. ASSUME NEW queue, NEW last, SetCompareQueue(queue, last) PROVE DeviceInv' /\ EarnedStep
  <2>1. /\ guestIds' = shortlist' /\ Rendered(open)
        /\ UNCHANGED <<enabled, now, guestSaveSignal, dismissedAt, refusals>>
    BY <1>2 DEF SetCompareQueue, DeviceInv, auth, surroundings
  <2>2. RefusalsCovered' BY <2>1, RefusalsKept DEF DeviceInv
  <2>3. QED BY <2>1, <2>2, QuietStep
<1>3. ASSUME SessionChanges \/ Navigate \/ PreferReducedMotion PROVE DeviceInv' /\ EarnedStep
  <2>1. /\ guestIds' = shortlist' /\ Rendered(open)
        /\ UNCHANGED <<enabled, now, guestSaveSignal, dismissedAt, refusals>>
    BY <1>3 DEF SessionChanges, Navigate, PreferReducedMotion, DeviceInv, auth, lists, stores, surroundings, traces
  <2>2. RefusalsCovered' BY <2>1, RefusalsKept DEF DeviceInv
  <2>3. QED BY <2>1, <2>2, QuietStep
<1>4. ASSUME Merged PROVE DeviceInv' /\ EarnedStep
  <2>1. /\ guestIds' = shortlist' /\ Rendered(open)
        /\ UNCHANGED <<enabled, now, guestSaveSignal>> /\ refusals' = {} /\ dismissedAt' = {}
    BY <1>4 DEF Merged, Written, auth, surroundings
  <2>2. RefusalsCovered' BY <2>1 DEF RefusalsCovered
  <2>3. QED BY <2>1, <2>2, QuietStep
<1>5. ASSUME Dismiss PROVE DeviceInv' /\ EarnedStep
  <2>1. /\ guestIds' = shortlist' /\ Rendered(FALSE)
        /\ UNCHANGED <<enabled, now, guestSaveSignal>>
        /\ refusals' = refusals \union {now} /\ dismissedAt' = {now}
    BY <1>5 DEF Dismiss, DeviceInv, auth, lists, surroundings
  <2>2. \A day \in refusals : day =< now
    BY DEF DeviceInv, RefusalsCovered, Covered, DeviceTyped
  <2>3. \A day \in refusals' : day =< now' BY <2>1, <2>2 DEF DeviceInv, DeviceTyped
  <2>4. now' \in dismissedAt' /\ now' =< now' /\ 0 < now' BY <2>1 DEF DeviceInv, DeviceTyped
  <2>5. \A day \in refusals' : Covered(day)' BY <2>3, <2>4 DEF Covered
  <2>6. dismissedAt' \subseteq Nat /\ refusals' \subseteq Nat
    BY <2>1 DEF DeviceInv, RefusalsCovered, DeviceTyped
  <2>7. RefusalsCovered' BY <2>5, <2>6 DEF RefusalsCovered
  <2>8. QED BY <2>1, <2>7, QuietStep
<1>6. ASSUME Close PROVE DeviceInv' /\ EarnedStep
  <2>1. /\ guestIds' = shortlist' /\ Rendered(FALSE)
        /\ UNCHANGED <<enabled, now, guestSaveSignal, dismissedAt, refusals>>
    BY <1>6 DEF Close, DeviceInv, auth, lists, stores, surroundings, traces
  <2>2. RefusalsCovered' BY <2>1, RefusalsKept DEF DeviceInv
  <2>3. QED BY <2>1, <2>2, QuietStep
<1>7. ASSUME OfferGone PROVE DeviceInv' /\ EarnedStep
  <2>1. /\ offer' = [offer EXCEPT !.leaving = FALSE]
        /\ UNCHANGED <<auth, lists, stores, open, observed, shownThisSession, offers, refusals, now, reduced>>
    BY <1>7 DEF OfferGone, Ended, surroundings, traces
  <2>2. OfferActive' = OfferActive
    BY <2>1 DEF OfferActive, Eligible, Auth!Effective, Auth!EffectiveStatus, auth
  <2>3. /\ offer' \in [previous : BOOLEAN, leaving : BOOLEAN]
        /\ offer'.previous = offer.previous /\ offer'.leaving = FALSE
    BY <2>1 DEF DeviceInv, PresenceSeen
  <2>4. PresenceSeen' /\ DeviceTyped'
    BY <2>1, <2>2, <2>3 DEF DeviceInv, PresenceSeen, DeviceTyped, auth, lists
  <2>5. RefusalsCovered' BY <2>1, RefusalsKept DEF DeviceInv, stores
  <2>6. DeviceInv' BY <2>1, <2>4, <2>5 DEF DeviceInv, lists, stores
  <2>7. ~Opening /\ ~Appears
    BY <2>1, <2>2, <2>3 DEF Opening, Appears, OfferVisible, OnScreen
  <2>8. QED BY <2>6, <2>7 DEF EarnedStep
<1>8. ASSUME TrayGone \/ UNCHANGED deviceVars PROVE DeviceInv' /\ EarnedStep
  BY <1>8, SameOffer DEF TrayGone, deviceVars, rail, surroundings, traces, DeviceInv, DeviceTyped
<1>9. ASSUME DayPasses PROVE DeviceInv' /\ EarnedStep
  <2>1. now' \in Nat /\ now' >= now BY <1>9 DEF DayPasses, DeviceInv, DeviceTyped
  <2>2. QED BY <1>9, <2>1, SameOffer DEF DayPasses, rail, traces
<1>10. QED
  BY <1>1, <1>2, <1>3, <1>4, <1>5, <1>6, <1>7, <1>8, <1>9, LoadStep, ToggleStep
     DEF DeviceNext, UsesTheTab, ToggleCompare, RemoveCompare, ClearCompare

(* The invariant the offer rests on holds of every reachable state. *)
THEOREM DeviceInvCorrect == DeviceSpec => []DeviceInv
BY DeviceInitInv, NextStep, PTL DEF DeviceSpec

(* An offer of an account opens only when a guest saves a new player, once a
   session, outside the window of every refusal, and what comes on screen
   without opening was never closed: for any storage, window, players, and any
   number of loads, sign-ins, merges and days (AccountSuggestion.tsx:117-140). *)
THEOREM OfferIsEarnedCorrect == DeviceSpec => OfferIsEarned
<1>1. DeviceInv /\ [DeviceNext]_deviceVars => [EarnedStep]_deviceVars BY NextStep
<1>2. QED BY <1>1, DeviceInvCorrect, PTL DEF DeviceSpec, OfferIsEarned

-----------------------------------------------------------------------------
(* The lists and the tray.  A tray that is on screen, or was at the last render,
   has held players. *)
ListsHeld ==
  /\ guestIds = shortlist /\ shortlist = kept /\ shortlist \subseteq Player
  /\ compareQueue \in Seq(Player) /\ Len(compareQueue) =< MAX_COMPARE
  /\ queueStored = compareQueue
  /\ \A i, j \in 1..Len(compareQueue) : compareQueue[i] = compareQueue[j] => i = j
  /\ latest \subseteq Player /\ \A p \in latest : \E i \in 1..Len(compareQueue) : compareQueue[i] = p
  /\ compareQueue # <<>> => held # <<>>

TrayHeld ==
  /\ tray \in [previous : BOOLEAN, leaving : BOOLEAN]
  /\ tray.previous = TrayActive
  /\ tray.leaving => ~tray.previous
  /\ tray.previous \/ tray.leaving => held # <<>>

(* A sublist of a list without repetitions has none, and is no longer. *)
LEMMA SublistOfDistinct ==
  ASSUME NEW S, NEW s \in Seq(S), NEW keep,
         \A i, j \in 1..Len(s) : s[i] = s[j] /\ s[i] \in keep => i = j
  PROVE  /\ Sublist(s, keep) \in Seq(S) /\ Len(Sublist(s, keep)) \in Nat
         /\ \A i \in 1..Len(Sublist(s, keep)) : Sublist(s, keep)[i] \in keep
         /\ \A i, j \in 1..Len(Sublist(s, keep)) : Sublist(s, keep)[i] = Sublist(s, keep)[j] => i = j
         /\ Len(Sublist(s, keep)) =< Len(s)
         /\ \A x \in keep : (\E i \in 1..Len(s) : s[i] = x) =>
                              \E i \in 1..Len(Sublist(s, keep)) : Sublist(s, keep)[i] = x
<1> DEFINE t == Sublist(s, keep)
<1>1. t \in Seq(S) /\ Leaves(t, s, Len(s), keep) BY SublistFacts
<1> HIDE DEF t
<1>2. Len(t) \in Nat /\ Len(s) \in Nat BY <1>1
<1>3. PICK at \in [1..Len(t) -> 1..Len(s)] :
        /\ \A i, j \in 1..Len(t) : i < j => at[i] < at[j]
        /\ \A i \in 1..Len(t) : t[i] = s[at[i]]
  BY <1>1 DEF Leaves
<1>4. /\ \A i \in 1..Len(t) : t[i] \in keep
      /\ \A i \in 1..Len(s) : s[i] \in keep => \E j \in 1..Len(t) : t[j] = s[i]
  BY <1>1 DEF Leaves
<1>5. ASSUME NEW i \in 1..Len(t), NEW j \in 1..Len(t), t[i] = t[j] PROVE i = j
  <2>1. s[at[i]] = s[at[j]] /\ s[at[i]] \in keep /\ at[i] \in 1..Len(s) /\ at[j] \in 1..Len(s)
    BY <1>3, <1>4, <1>5
  <2>2. at[i] = at[j] BY <2>1
  <2>3. ~(i < j) /\ ~(j < i) BY <1>2, <1>3, <2>1, <2>2
  <2>4. QED BY <1>2, <2>3
<1>6. Len(t) =< Len(s)
  <2> DEFINE T == {n \in Nat : n \in 1..Len(t) => n =< at[n]}
  <2>1. 0 \in T OBVIOUS
  <2>2. ASSUME NEW n \in Nat, n \in T PROVE n + 1 \in T
    <3>1. CASE n = 0 \/ n + 1 \notin 1..Len(t) BY <3>1, <1>3
    <3>2. CASE n \in 1..Len(t) /\ n + 1 \in 1..Len(t)
      <4>1. n =< at[n] /\ at[n] < at[n + 1] /\ at[n] \in Nat /\ at[n + 1] \in Nat
        BY <1>3, <2>2, <3>2
      <4>2. QED BY <4>1
    <3>3. QED BY <3>1, <3>2, <1>2
  <2> HIDE DEF T
  <2>3. Nat \subseteq T BY <2>1, <2>2, Inductive
  <2>4. CASE Len(t) = 0 BY <2>4, <1>2
  <2>5. CASE Len(t) # 0
    <3>1. Len(t) \in 1..Len(t) /\ Len(t) \in T BY <2>3, <2>5, <1>2
    <3>2. Len(t) =< at[Len(t)] BY <3>1 DEF T
    <3>3. at[Len(t)] \in 1..Len(s) BY <1>3, <3>1
    <3>4. QED BY <3>2, <3>3, <1>2
  <2>6. QED BY <2>4, <2>5
<1>7. QED BY <1>1, <1>2, <1>4, <1>5, <1>6 DEF t

(* What a page load finds in storage a tab has written is what the tab had. *)
LEMMA ReadBack ==
  ASSUME NEW queue \in Seq(Player), Len(queue) =< MAX_COMPARE
  PROVE  ReadPlayerRefs(queue) = queue
<1>1. ToSet(queue) \subseteq Player BY Members
<1>2. Sublist(queue, Player) = queue BY <1>1, SublistFacts
<1>3. QED BY <1>2 DEF ReadPlayerRefs, Legible, MAX_COMPARE

(* What the first load makes of any storage. *)
LEMMA FirstRead ==
  ASSUME NEW raw \in Stored
  PROVE  /\ ReadPlayerRefs(raw.compareQueue) \in Seq(Player)
         /\ Len(ReadPlayerRefs(raw.compareQueue)) =< MAX_COMPARE
         /\ \A i, j \in 1..Len(ReadPlayerRefs(raw.compareQueue)) :
              ReadPlayerRefs(raw.compareQueue)[i] = ReadPlayerRefs(raw.compareQueue)[j] => i = j
<1> DEFINE stored == raw.compareQueue
           S == {stored[i] : i \in DOMAIN stored}
           t == Sublist(stored, Player)
<1>1. stored \in Seq(S) /\ DOMAIN stored = 1..Len(stored) BY StoredAssumption
<1>2. \A i, j \in 1..Len(stored) : stored[i] = stored[j] /\ stored[i] \in Player => i = j
  BY <1>1, StoredAssumption
<1> HIDE DEF S, stored
<1>3. /\ t \in Seq(S) /\ Len(t) \in Nat
      /\ \A i \in 1..Len(t) : t[i] \in Player
      /\ \A i, j \in 1..Len(t) : t[i] = t[j] => i = j
  BY <1>1, <1>2, SublistOfDistinct
<1> HIDE DEF t
<1>4. t \in Seq(Player) BY <1>3
<1> DEFINE r == ReadPlayerRefs(stored)
<1>5. r = IF Len(t) > MAX_COMPARE THEN SubSeq(t, 1, MAX_COMPARE) ELSE t
  BY DEF ReadPlayerRefs, Legible, t
<1> HIDE DEF r
<1>6. CASE Len(t) > MAX_COMPARE
  <2> DEFINE u == SubSeq(t, 1, MAX_COMPARE)
  <2>1. u \in Seq(Player) /\ Len(u) = 2 /\ \A i \in 1..2 : u[i] = t[i] BY <1>3, <1>4, <1>6 DEF MAX_COMPARE
  <2>2. \A i \in 1..2 : i \in 1..Len(t) BY <1>3, <1>6 DEF MAX_COMPARE
  <2> HIDE DEF u
  <2>3. \A i, j \in 1..Len(u) : u[i] = u[j] => i = j BY <2>1, <2>2, <1>3
  <2>4. r = u BY <1>5, <1>6 DEF u
  <2>5. r \in Seq(Player) /\ Len(r) =< MAX_COMPARE /\ \A i, j \in 1..Len(r) : r[i] = r[j] => i = j
    <3>1. Len(u) =< MAX_COMPARE BY <2>1 DEF MAX_COMPARE
    <3>2. QED BY <2>1, <2>3, <2>4, <3>1
  <2>6. QED BY <2>5 DEF r, stored
<1>7. CASE ~(Len(t) > MAX_COMPARE)
  <2>1. r \in Seq(Player) /\ Len(r) =< MAX_COMPARE /\ \A i, j \in 1..Len(r) : r[i] = r[j] => i = j
    BY <1>3, <1>4, <1>5, <1>7 DEF MAX_COMPARE
  <2>2. QED BY <2>1 DEF r, stored
<1>8. QED BY <1>6, <1>7

(* The queue after a tap is one of two players at most, none twice, the last one among them. *)
LEMMA QueueFacts ==
  ASSUME ListsHeld, NEW p \in Player
  PROVE  /\ \A q \in {Without(compareQueue, p), ToggledCompare(compareQueue, p)} :
              /\ q \in Seq(Player) /\ Len(q) =< MAX_COMPARE
              /\ \A i, j \in 1..Len(q) : q[i] = q[j] => i = j
         /\ \A x \in latest \ {p} : \E i \in 1..Len(Without(compareQueue, p)) : Without(compareQueue, p)[i] = x
         /\ Queued(compareQueue, p) => ToggledCompare(compareQueue, p) = Without(compareQueue, p)
         /\ ~Queued(compareQueue, p) =>
              \E i \in 1..Len(ToggledCompare(compareQueue, p)) : ToggledCompare(compareQueue, p)[i] = p
<1> DEFINE w == Without(compareQueue, p)
           c == ToggledCompare(compareQueue, p)
<1>1. /\ compareQueue \in Seq(Player) /\ Len(compareQueue) =< 2 /\ Len(compareQueue) \in Nat
      /\ \A i, j \in 1..Len(compareQueue) : compareQueue[i] = compareQueue[j] => i = j
  BY DEF ListsHeld, MAX_COMPARE
<1>2. /\ w \in Seq(Player) /\ Len(w) \in Nat /\ Len(w) =< Len(compareQueue)
      /\ \A i, j \in 1..Len(w) : w[i] = w[j] => i = j
      /\ \A x \in Player \ {p} : (\E i \in 1..Len(compareQueue) : compareQueue[i] = x) =>
                                   \E i \in 1..Len(w) : w[i] = x
  <2> DEFINE keep == Player \ {p}
  <2>1. w = Sublist(compareQueue, keep) BY DEF Without
  <2> HIDE DEF keep
  <2>2. /\ Sublist(compareQueue, keep) \in Seq(Player) /\ Len(Sublist(compareQueue, keep)) \in Nat
        /\ Len(Sublist(compareQueue, keep)) =< Len(compareQueue)
        /\ \A i, j \in 1..Len(Sublist(compareQueue, keep)) :
             Sublist(compareQueue, keep)[i] = Sublist(compareQueue, keep)[j] => i = j
        /\ \A x \in keep : (\E i \in 1..Len(compareQueue) : compareQueue[i] = x) =>
                             \E i \in 1..Len(Sublist(compareQueue, keep)) : Sublist(compareQueue, keep)[i] = x
    BY <1>1, SublistOfDistinct
  <2>3. QED BY <2>1, <2>2 DEF keep
<1>3. Queued(compareQueue, p) <=> \E i \in 1..Len(compareQueue) : compareQueue[i] = p
  BY <1>1 DEF Queued
<1>4. Queued(compareQueue, p) => c = w BY DEF ToggledCompare
<1>5. CASE ~Queued(compareQueue, p) /\ Len(compareQueue) >= MAX_COMPARE
  <2>1. c = <<compareQueue[2], p>> BY <1>5 DEF ToggledCompare
  <2>2. compareQueue[2] \in Player /\ compareQueue[2] # p BY <1>1, <1>3, <1>5 DEF MAX_COMPARE
  <2> HIDE DEF c, w
  <2>3. c \in Seq(Player) /\ Len(c) = 2 /\ c[1] = compareQueue[2] /\ c[2] = p BY <2>1, <2>2
  <2>4. \A i, j \in 1..Len(c) : c[i] = c[j] => i = j BY <2>2, <2>3
  <2>5. \E i \in 1..Len(c) : c[i] = p BY <2>3
  <2>6. QED BY <1>1, <1>2, <1>5, <2>3, <2>4, <2>5 DEF ListsHeld, MAX_COMPARE, c, w
<1>6. CASE ~Queued(compareQueue, p) /\ ~(Len(compareQueue) >= MAX_COMPARE)
  <2>1. c = Append(compareQueue, p) BY <1>6 DEF ToggledCompare
  <2> HIDE DEF c, w
  <2>2. /\ c \in Seq(Player) /\ Len(c) = Len(compareQueue) + 1 /\ c[Len(compareQueue) + 1] = p
        /\ \A i \in 1..Len(compareQueue) : c[i] = compareQueue[i]
    BY <1>1, <2>1
  <2>3. \A i, j \in 1..Len(c) : c[i] = c[j] => i = j BY <1>1, <1>3, <1>6, <2>2
  <2>4. Len(c) =< MAX_COMPARE /\ \E i \in 1..Len(c) : c[i] = p BY <1>1, <1>6, <2>2 DEF MAX_COMPARE
  <2>5. QED BY <1>1, <1>2, <1>6, <2>2, <2>3, <2>4 DEF ListsHeld, MAX_COMPARE, c, w
<1>7. CASE Queued(compareQueue, p)
  BY <1>1, <1>2, <1>4, <1>7 DEF ListsHeld, MAX_COMPARE
<1>8. QED BY <1>5, <1>6, <1>7

(* A render keeps what the tray holds, if the queue's players are held with it. *)
LEMMA TrayFollows ==
  ASSUME TrayHeld, ListsHeld, NEW stillOpen, Rendered(stillOpen)
  PROVE  TrayHeld' /\ (compareQueue' # <<>> => held' # <<>>)
<1>1. /\ held' = IF compareQueue' # <<>> THEN compareQueue' ELSE held
      /\ tray' = UsePresence(tray, TrayActive', reduced')
  BY DEF Rendered
<1>2. TrayActive' \in BOOLEAN /\ (TrayActive' => compareQueue' # <<>>) BY DEF TrayActive
<1>3. /\ tray' \in [previous : BOOLEAN, leaving : BOOLEAN] /\ tray'.previous = TrayActive'
      /\ tray'.leaving => ~TrayActive'
      /\ tray'.leaving => tray.leaving \/ tray.previous
  BY <1>1, <1>2, PresenceFollows DEF TrayHeld
<1>4. tray.leaving \/ tray.previous => held' # <<>> BY <1>1 DEF TrayHeld
<1>5. QED BY <1>1, <1>2, <1>3, <1>4 DEF TrayHeld

LEMMA InitLists == DeviceInit => ListsHeld /\ TrayHeld
<1> SUFFICES ASSUME DeviceInit PROVE ListsHeld /\ TrayHeld OBVIOUS
<1>1. PICK raw \in Stored, calm \in BOOLEAN :
        /\ guestIds = Mounted(raw).guestIds /\ compareQueue = Mounted(raw).queue
        /\ shortlist = Written(TRUE, Mounted(raw).guestIds, raw.shortlist)
        /\ queueStored = Written(TRUE, Mounted(raw).queue, raw.compareQueue)
        /\ held = Mounted(raw).queue /\ tray = UsePresence(Absent, Mounted(raw).queue # <<>>, calm)
        /\ kept = ReadNumberList(raw.shortlist) /\ latest = {} /\ onComparePage = FALSE
  BY DEF DeviceInit
<1>2. Mounted(raw).guestIds = ReadNumberList(raw.shortlist) /\ Mounted(raw).queue = ReadPlayerRefs(raw.compareQueue)
  BY DEF Mounted, Written
<1>3. ListsHeld BY <1>1, <1>2, FirstRead DEF ListsHeld, Written, ReadNumberList, Legible
<1>4. TrayHeld
  <2>1. Absent \in [previous : BOOLEAN, leaving : BOOLEAN] /\ ~Absent.leaving /\ ~Absent.previous BY DEF Absent
  <2>2. TrayActive = (compareQueue # <<>>) /\ TrayActive \in BOOLEAN BY <1>1 DEF TrayActive
  <2>3. tray = UsePresence(Absent, TrayActive, calm) BY <1>1, <2>2
  <2>4. /\ tray \in [previous : BOOLEAN, leaving : BOOLEAN] /\ tray.previous = TrayActive
        /\ ~tray.leaving
    BY <2>1, <2>2, <2>3, PresenceFollows
  <2>5. QED BY <1>1, <2>2, <2>4 DEF TrayHeld
<1>5. QED BY <1>3, <1>4

LEMMA StepLists ==
  ASSUME ListsHeld, TrayHeld, [DeviceNext]_deviceVars
  PROVE  ListsHeld' /\ TrayHeld'
<1>1. ASSUME NEW p \in Player, ToggleShortlist(p) \/ RemoveShortlist(p) PROVE ListsHeld' /\ TrayHeld'
  <2>1. /\ guestIds' = shortlist' /\ shortlist' = kept' /\ shortlist' \subseteq Player
        /\ UNCHANGED <<compareQueue, queueStored, latest>> /\ Rendered(open)
    BY <1>1 DEF ToggleShortlist, RemoveShortlist, Written, ListsHeld
  <2>2. TrayHeld' /\ (compareQueue' # <<>> => held' # <<>>) BY <2>1, TrayFollows
  <2>3. QED BY <2>1, <2>2 DEF ListsHeld
<1>2. ASSUME NEW queue, NEW last, SetCompareQueue(queue, last),
             queue \in Seq(Player), Len(queue) =< MAX_COMPARE, last \subseteq Player,
             \A i, j \in 1..Len(queue) : queue[i] = queue[j] => i = j,
             \A x \in last : \E i \in 1..Len(queue) : queue[i] = x
      PROVE  ListsHeld' /\ TrayHeld'
  <2>1. /\ compareQueue' = queue /\ queueStored' = queue /\ latest' = last /\ Rendered(open)
        /\ UNCHANGED <<guestIds, shortlist, kept>>
    BY <1>2 DEF SetCompareQueue, Written
  <2>2. TrayHeld' /\ (compareQueue' # <<>> => held' # <<>>) BY <2>1, TrayFollows
  <2>3. QED BY <1>2, <2>1, <2>2 DEF ListsHeld
<1>3. ASSUME NEW p \in Player, ToggleCompare(p) \/ RemoveCompare(p) PROVE ListsHeld' /\ TrayHeld'
  <2> DEFINE w == Without(compareQueue, p)
             c == ToggledCompare(compareQueue, p)
             less == latest \ {p}
             one == {p}
  <2>1. /\ \A q \in {w, c} : /\ q \in Seq(Player) /\ Len(q) =< MAX_COMPARE
                             /\ \A i, j \in 1..Len(q) : q[i] = q[j] => i = j
        /\ \A x \in less : \E i \in 1..Len(w) : w[i] = x
        /\ Queued(compareQueue, p) => c = w
        /\ ~Queued(compareQueue, p) => \E i \in 1..Len(c) : c[i] = p
    BY QueueFacts
  <2>2. SetCompareQueue(w, less) \/ (~Queued(compareQueue, p) /\ SetCompareQueue(c, one))
    BY <1>3, <2>1 DEF ToggleCompare, RemoveCompare
  <2>3. less \subseteq Player /\ one \subseteq Player BY DEF ListsHeld
  <2>4. ~Queued(compareQueue, p) => \A x \in one : \E i \in 1..Len(c) : c[i] = x BY <2>1
  <2> HIDE DEF w, c, less, one
  <2>5. /\ w \in Seq(Player) /\ Len(w) =< MAX_COMPARE /\ \A i, j \in 1..Len(w) : w[i] = w[j] => i = j
        /\ c \in Seq(Player) /\ Len(c) =< MAX_COMPARE /\ \A i, j \in 1..Len(c) : c[i] = c[j] => i = j
    BY <2>1
  <2>6. CASE SetCompareQueue(w, less) BY <1>2, <2>1, <2>3, <2>5, <2>6
  <2>7. CASE ~Queued(compareQueue, p) /\ SetCompareQueue(c, one) BY <1>2, <2>3, <2>4, <2>5, <2>7
  <2>8. QED BY <2>2, <2>6, <2>7
<1>5. ASSUME ClearCompare PROVE ListsHeld' /\ TrayHeld'
  <2>1. /\ compareQueue' = <<>> /\ queueStored' = <<>> /\ latest' = {} /\ Rendered(open)
        /\ UNCHANGED <<guestIds, shortlist, kept>>
    BY <1>5 DEF ClearCompare, SetCompareQueue, Written
  <2>2. TrayHeld' BY <2>1, TrayFollows
  <2>3. compareQueue' \in Seq(Player) /\ Len(compareQueue') = 0 BY <2>1
  <2>4. QED BY <2>1, <2>2, <2>3 DEF ListsHeld, MAX_COMPARE
<1>6. ASSUME SessionChanges \/ Merged \/ Dismiss \/ Close \/ Navigate \/ PreferReducedMotion
      PROVE  ListsHeld' /\ TrayHeld'
  <2>1. /\ guestIds' = shortlist' /\ shortlist' = kept' /\ shortlist' \subseteq Player
        /\ UNCHANGED <<compareQueue, queueStored, latest>> /\ \E stillOpen : Rendered(stillOpen)
    BY <1>6 DEF SessionChanges, Merged, Dismiss, Close, Navigate, PreferReducedMotion, Written,
                lists, stores, traces, ListsHeld
  <2>2. TrayHeld' /\ (compareQueue' # <<>> => held' # <<>>) BY <2>1, TrayFollows
  <2>3. QED BY <2>1, <2>2 DEF ListsHeld
<1>7. ASSUME NEW newSession \in BOOLEAN, Load(newSession) PROVE ListsHeld' /\ TrayHeld'
  <2> DEFINE page == Mounted([shortlist |-> shortlist, compareQueue |-> queueStored])
  <2>1. page.guestIds = shortlist /\ page.queue = compareQueue
    BY ReadBack DEF Mounted, Written, ReadNumberList, Legible, ListsHeld
  <2>2. /\ guestIds' = page.guestIds /\ compareQueue' = page.queue
        /\ shortlist' = page.guestIds /\ queueStored' = page.queue
        /\ held' = page.queue
        /\ tray' = UsePresence(Absent, page.queue # <<>> /\ ~onComparePage, reduced)
        /\ UNCHANGED <<onComparePage, kept, latest>>
    BY <1>7 DEF Load, Written, surroundings, traces
  <2> HIDE DEF page
  <2>3. ListsHeld' BY <2>1, <2>2 DEF ListsHeld
  <2>4. Absent \in [previous : BOOLEAN, leaving : BOOLEAN] /\ ~Absent.leaving /\ ~Absent.previous BY DEF Absent
  <2>5. TrayActive' = (page.queue # <<>> /\ ~onComparePage) /\ TrayActive' \in BOOLEAN
    BY <2>2 DEF TrayActive
  <2>6. /\ tray' \in [previous : BOOLEAN, leaving : BOOLEAN] /\ tray'.previous = TrayActive'
        /\ ~tray'.leaving
    BY <2>2, <2>4, <2>5, PresenceFollows
  <2>7. TrayHeld' BY <2>2, <2>5, <2>6 DEF TrayHeld
  <2>8. QED BY <2>3, <2>7
<1>8. ASSUME OfferGone \/ DayPasses \/ UNCHANGED deviceVars PROVE ListsHeld' /\ TrayHeld'
  BY <1>8 DEF OfferGone, DayPasses, deviceVars, lists, stores, surroundings, rail, traces,
              ListsHeld, TrayHeld, TrayActive
<1>9. ASSUME TrayGone PROVE ListsHeld' /\ TrayHeld'
  <2>1. tray' = [tray EXCEPT !.leaving = FALSE] /\ UNCHANGED <<lists, stores, onComparePage, traces, held>>
    BY <1>9 DEF TrayGone, Ended, surroundings
  <2>2. tray' \in [previous : BOOLEAN, leaving : BOOLEAN] /\ tray'.previous = tray.previous /\ tray'.leaving = FALSE
    BY <2>1 DEF TrayHeld
  <2>3. QED BY <2>1, <2>2 DEF lists, stores, traces, ListsHeld, TrayHeld, TrayActive
<1>10. QED
  BY <1>1, <1>3, <1>5, <1>6, <1>7, <1>8, <1>9 DEF DeviceNext, UsesTheTab

(* Whatever is loaded, signed in or dismissed, the screen, the device and what the
   scout left there agree, the queue has two different players at most and the
   last one put in, and a tray on screen has players to show: for any storage a
   browser may start with (scouting-state.tsx:177, 236). *)
THEOREM DeviceListsSurviveCorrect == DeviceSpec => []DeviceListsSurvive
<1>1. ListsHeld /\ TrayHeld => DeviceListsSurvive
  <2>1. ASSUME ListsHeld, TrayHeld, TrayVisible PROVE TrayShows # <<>>
    <3>1. TrayActive \/ tray.leaving BY <2>1 DEF TrayVisible, OnScreen
    <3>2. held # <<>> BY <2>1, <3>1 DEF TrayHeld
    <3>3. QED BY <3>2 DEF TrayShows
  <2>2. ListsHeld => DOMAIN compareQueue = 1..Len(compareQueue) BY DEF ListsHeld
  <2>3. QED BY <2>1, <2>2 DEF ListsHeld, DeviceListsSurvive, Queued
<1>2. QED BY <1>1, InitLists, StepLists, PTL DEF DeviceSpec
===============================================================================
