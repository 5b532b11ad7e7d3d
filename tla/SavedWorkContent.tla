-------------------------- MODULE SavedWorkContent --------------------------
(***************************************************************************)
(* What the private API lets into a saved view and a saved comparison, and *)
(* what it tells of them later (app/models/schemas/saved_work.py and, in   *)
(* app/services/saved_work_service.py, the membership checks, the          *)
(* fingerprints and the projections).  SavedWorkStore has the collections  *)
(* these are kept in; DiscoveryView has the browser's reading of a view.   *)
(*                                                                         *)
(* A body is a record of JSON values, numbers and texts as in              *)
(* DiscoveryView; a null is an absent field.  The digest of a fingerprint  *)
(* is taken to be injective: it is the content digested.  Labels are       *)
(* bounded by a number of words, as texts are.                             *)
(***************************************************************************)
EXTENDS DiscoverySearch, DiscoveryView

CONSTANTS Keys,            \* words with the shape of an enumerated key
          KnownPlaystyles, \* the positive playstyles of the configuration
          ControlWords,    \* words with a control character inside
          LabelMax         \* LABEL_MAX and PLAYER_LABEL_MAX

DISCOVERABLE_POSITION_GROUPS == {"ATT", "MID", "DEF", "GK"}

(***************************************************************************)
(* The schema of a view.                                                   *)
(***************************************************************************)
PlainText(text, max) == Len(text) =< max /\ \A i \in DOMAIN text : text[i] \notin ControlWords

Limits == [min_minutes |-> 0 .. MINUTES_MAX, rolefit_min |-> 0 .. ROLEFIT_MAX, rolefit_max |-> 0 .. ROLEFIT_MAX,
           value_min |-> 0 .. ASKING_MAX, value_max |-> 0 .. ASKING_MAX, page_size |-> 1 .. PAGE_SIZE_CEILING,
           age_min |-> AGE_STOPS, age_max |-> AGE_STOPS]

\* The value a field is stored with, or nothing when it is refused.
Whole(raws, within) == {n \div 10 : n \in {m \in Numbers(raws) : m % 10 = 0 /\ m \div 10 \in within}}

FieldValue(f, raws) ==
  CASE f \in TextFields -> {t \in NormalizeText(raws) : PlainText(t, TextFilterMax)}
    [] f \in NumberFields -> Whole(raws, Limits[f])
    [] f = "position_group" -> KeyOf(raws, PositionGroups)
    [] OTHER -> KeyOf(raws, Keys)

\* White space alone is no predicate: the field counts as absent.
BlankText(f, raws) == f \in TextFields /\ Texts(raws) # {} /\ NormalizeText(raws) = {}

CanonicalForm(view) ==
  /\ ~{"age_min", "age_max"} \subseteq DOMAIN view
  /\ \A least \in Field(view, "rolefit_min"), most \in Field(view, "rolefit_max") : least =< most
  /\ \A least \in Field(view, "value_min"), most \in Field(view, "value_max") : least =< most

\* DiscoveryViewFilters: the view a body holds, or nothing when the body is refused.
ValidFilters(body) ==
  LET present == {f \in DOMAIN body : ~BlankText(f, {body[f]})}
      values == [f \in present |-> IF f \in DISCOVERY_VIEW_FIELDS THEN FieldValue(f, {body[f]}) ELSE {}]
  IN IF (\E f \in present : values[f] = {}) \/ ~CanonicalForm(Compact(values)) THEN {} ELSE {Compact(values)}

(***************************************************************************)
(* Membership, identity and projection of a view.                          *)
(***************************************************************************)
ValidateViewFilters(view) ==
  CASE ~(Field(view, "role") \subseteq Range(RoleKeys)) -> {"unknown role"}
    [] ~(Field(view, "position_group") \subseteq DISCOVERABLE_POSITION_GROUPS) -> {"unknown position group"}
    [] ~(Field(view, "sort") \subseteq SEARCH_SORTS) -> {"unknown sort"}
    [] ~(Field(view, "playstyle") \subseteq KnownPlaystyles) -> {"unknown playstyle"}
    [] OTHER -> {}

ViewFingerprint(view) == Restrict(view, DOMAIN view \intersect DISCOVERY_VIEW_FIELDS)

\* The row a view is stored in, one column for each field.
ViewRow(view) == [filters |-> [f \in DISCOVERY_VIEW_FIELDS |-> Field(view, f)], fingerprint |-> ViewFingerprint(view)]

\* A stored view is validated again on its way out.
ViewRecord(row) ==
  {[filters |-> view, fingerprint |-> row.fingerprint] : view \in ValidFilters(DiscoveryViewToParams(Compact(row.filters)))}

(***************************************************************************)
(* Comparison setups.                                                      *)
(***************************************************************************)
\* SavedComparisonInput: a setup as it is stored, or nothing when it is refused.
ValidLabel(text) == {t \in {Trimmed(text)} : t # <<>> /\ PlainText(t, LabelMax)}

ValidComparison(body) ==
  {[label |-> label, sides |-> <<[id |-> body.ids[1], label |-> first], [id |-> body.ids[2], label |-> second]>>,
    role |-> body.role]
     : label \in ValidLabel(body.label), first \in ValidLabel(body.labels[1]),
       second \in {t \in ValidLabel(body.labels[2]) :
                     body.ids[1] # body.ids[2] /\ body.ids[1] > 0 /\ body.ids[2] > 0 /\ body.role \subseteq Keys}}

ValidateComparison(db, setup) ==
  CASE ~(setup.role \subseteq Range(RoleKeys)) -> {"unknown role"}
    [] \E i \in 1 .. 2 : setup.sides[i].id \notin DOMAIN db.players -> {"player not found"}
    [] OTHER -> {}

ComparisonFingerprint(setup) == [a |-> setup.sides[1].id, b |-> setup.sides[2].id, role |-> setup.role]

\* A side whose player is gone keeps its name and loses its id.
Side(db, side) ==
  [id |-> {side.id} \intersect DOMAIN db.players, label |-> side.label, available |-> side.id \in DOMAIN db.players]

ComparisonRecord(db, setup) ==
  [label |-> setup.label, sides |-> <<Side(db, setup.sides[1]), Side(db, setup.sides[2])>>,
   role |-> setup.role, fingerprint |-> ComparisonFingerprint(setup)]
=============================================================================
