---------------------------- MODULE DiscoverySort ----------------------------
(***************************************************************************)
(* The one specification of the orders of discovery: the database sorts by *)
(* the keys of the active mode, and the explanation beside the ledger      *)
(* walks the same keys (app/repositories/discovery_sort.py and             *)
(* app/services/discovery_explanation.py).  Labels and rule sentences are  *)
(* left out.                                                               *)
(*                                                                         *)
(* A context is what the keys of one row are computed from: its score, its *)
(* confidence, its displayed age and its lower asking price, each a set of *)
(* at most one value, its place in the collation of names and its number.  *)
(***************************************************************************)
EXTENDS Integers, Sequences, FiniteSetsExt, SequencesExt

The(option) == CHOOSE v \in option : TRUE
Or(option, default) == IF option = {} THEN default ELSE The(option)

CONFIDENCE_RANK == [unknown |-> 0, low |-> 1, medium |-> 2, high |-> 3]
UNKNOWN_AGE_ASC == 9990
UNKNOWN_AGE_DESC == -10

(***************************************************************************)
(* The keys.                                                               *)
(***************************************************************************)
SortKey(key, direction, role, unit) == [key |-> key, direction |-> direction, role |-> role, unit |-> unit]

RATED_FIRST == SortKey("rated_first", "ascending", "placement", "rating_status")
ROLEFIT_SCORE_DESC == SortKey("result_role_score", "descending", "measure", "rolefit_score")
ROLEFIT_SCORE_ASC == SortKey("result_role_score", "ascending", "measure", "rolefit_score")
ROLEFIT_CONFIDENCE == SortKey("result_role_confidence", "descending", "measure", "confidence")
AGE_ASC == SortKey("age", "ascending", "measure", "age_years")
AGE_DESC == SortKey("age", "descending", "measure", "age_years")
PRICED_FIRST == SortKey("asking_low_known_first", "ascending", "placement", "price_status")
ASKING_LOW_DESC == SortKey("expected_asking_low_eur", "descending", "measure", "eur")
ASKING_LOW_ASC == SortKey("expected_asking_low_eur", "ascending", "measure", "eur")
NAME_PRIMARY == SortKey("canonical_name", "ascending", "measure", "name")
NAME_TIE_BREAK == SortKey("canonical_name", "ascending", "tie_breaker", "name")
PLAYER_ID == SortKey("player_id", "ascending", "tie_breaker", "player_id")

SORT_SPECS ==
  [rolefit_desc |-> <<RATED_FIRST, ROLEFIT_SCORE_DESC, ROLEFIT_CONFIDENCE, NAME_TIE_BREAK, PLAYER_ID>>,
   rolefit_asc |-> <<RATED_FIRST, ROLEFIT_SCORE_ASC, ROLEFIT_CONFIDENCE, NAME_TIE_BREAK, PLAYER_ID>>,
   age_asc |-> <<AGE_ASC, NAME_TIE_BREAK, PLAYER_ID>>,
   age_desc |-> <<AGE_DESC, NAME_TIE_BREAK, PLAYER_ID>>,
   value_desc |-> <<PRICED_FIRST, ASKING_LOW_DESC, NAME_TIE_BREAK, PLAYER_ID>>,
   value_asc |-> <<PRICED_FIRST, ASKING_LOW_ASC, NAME_TIE_BREAK, PLAYER_ID>>,
   name_asc |-> <<NAME_PRIMARY, PLAYER_ID>>]

\* What the database evaluates for a key of a row.
KeyValue(key, context) ==
  CASE key = RATED_FIRST -> IF context.score = {} THEN 1 ELSE 0
    [] key.key = "result_role_score" -> Or(context.score, 0)
    [] key = ROLEFIT_CONFIDENCE -> Or({CONFIDENCE_RANK[level] : level \in context.confidence}, 0)
    [] key = AGE_ASC -> Or(context.age, UNKNOWN_AGE_ASC)
    [] key = AGE_DESC -> Or(context.age, UNKNOWN_AGE_DESC)
    [] key = PRICED_FIRST -> IF context.asking_low = {} THEN 1 ELSE 0
    [] key.key = "expected_asking_low_eur" -> Or(context.asking_low, 0)
    [] key.key = "canonical_name" -> context.name_key
    [] key = PLAYER_ID -> context.player_id

\* The keys of a row in turn, every one ascending: a descending one is negated.
OrderBy(context, sort) ==
  [i \in DOMAIN SORT_SPECS[sort] |->
     LET key == SORT_SPECS[sort][i]
     IN IF key.direction = "descending" THEN -KeyValue(key, context) ELSE KeyValue(key, context)]

Precedes(a, b) ==
  \E i \in DOMAIN a : a[i] < b[i] /\ \A j \in 1 .. i - 1 : a[j] = b[j]

(***************************************************************************)
(* The explanation.                                                        *)
(***************************************************************************)
TieBreakers(sort) == SelectSeq(SORT_SPECS[sort], LAMBDA key : key.role = "tie_breaker")

OrdersByRolefit(sort) == \E i \in DOMAIN SORT_SPECS[sort] : SORT_SPECS[sort][i].unit = "rolefit_score"

\* Which rating each result shows, and whether the page is ordered by it.
RoleContext(role, sort) ==
  [source |-> IF role = {} THEN "best_role" ELSE "selected_role", role |-> role,
   ordersThePage |-> OrdersByRolefit(sort)]

Explanation(sort, role) ==
  [sort |-> sort, keys |-> SORT_SPECS[sort], tieBreakers |-> TieBreakers(sort),
   roleContext |-> RoleContext(role, sort)]
=============================================================================
