------------------------- MODULE IdentityResolution -------------------------
(***************************************************************************)
(* Which canonical player a source's record stands for: the link of its    *)
(* source id, else the one player with its name and birth date, else a new *)
(* player; several such players make the record ambiguous and it is left   *)
(* out.  Players are named <<tag, n>>: the run that creates them and a     *)
(* number, as a database sequence never gives an id twice.                 *)
(***************************************************************************)
EXTENDS IngestBundle

SourceKey(p) == <<p.source, p.ext>>
ParseDate(d) == IF d = Unparsable THEN None ELSE d

\* _apply_fields: a source overwrites the name, and the other fields it has a value for.
ApplyFields(player, p) ==
  [name  |-> p.name,
   birth |-> IF p.birth # None THEN ParseDate(p.birth) ELSE player.birth,
   pos   |-> IF p.pos # None THEN p.pos ELSE player.pos]

Blank == [name |-> None, birth |-> None, pos |-> None]

\* Mutant of Matching: the first player of the name is taken.
MatchingFirst(stored, made, p) ==
  LET same == { id \in DOMAIN stored : stored[id].name = p.name /\ stored[id].birth = ParseDate(p.birth) }
  IN  IF same = {} THEN {} ELSE { CHOOSE id \in same : TRUE }

\* The players a record without a link may stand for: those of the database as the batch found
\* it and those the batch has created.  Without a birth date nobody matches.
Matching(stored, made, p) ==
  LET birth == ParseDate(p.birth)
      same(players) == { id \in DOMAIN players : players[id].name = p.name /\ players[id].birth = birth }
  IN  IF birth = None THEN {} ELSE same(stored) \cup same(made)

(***************************************************************************)
(* resolve_players.  players and links are the tables, rows the records in *)
(* the order of the bundle, acc what has become of the first records: acc  *)
(* keeps the tables as the batch found them.  A record matched by name and *)
(* birth date gains a link and keeps the player's fields as they are.      *)
(***************************************************************************)
ResolveOne(acc, p, i) ==
  LET key == SourceKey(p)
      found == Matching(acc.stored, acc.made, p)
      new == <<acc.tag, Cardinality(DOMAIN acc.made) + 1>>
      row == ApplyFields(Blank, p)
  IN  CASE key \in DOMAIN acc.known ->
             LET id == acc.known[key]
             IN  [acc EXCEPT !.players = With(@, id, ApplyFields(@[id], p)), !.resolved = With(@, key, id)]
        [] key \notin DOMAIN acc.known /\ Cardinality(found) > 1 ->
             [acc EXCEPT !.ambiguous = With(@, i, Cardinality(found))]
        [] key \notin DOMAIN acc.known /\ Cardinality(found) = 1 ->
             LET id == CHOOSE id \in found : TRUE
             IN  [acc EXCEPT !.links = With(@, key, id), !.resolved = With(@, key, id)]
        [] OTHER ->
             [acc EXCEPT !.players = With(@, new, row), !.made = With(@, new, row),
                         !.links = With(@, key, new), !.resolved = With(@, key, new)]

Unresolved(players, links, tag) ==
  [stored |-> players, known |-> links, tag |-> tag, players |-> players, links |-> links,
   made |-> <<>>, resolved |-> <<>>, ambiguous |-> <<>>]

ResolvePlayers(players, links, rows, tag) ==
  LET after[n \in 0..Len(rows)] ==
        IF n = 0 THEN Unresolved(players, links, tag) ELSE ResolveOne(after[n - 1], rows[n], n)
  IN  after[Len(rows)]
=============================================================================
