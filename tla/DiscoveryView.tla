---------------------------- MODULE DiscoveryView ----------------------------
(***************************************************************************)
(* What a Discovery address, a saved view and a request mean in the        *)
(* browser: one canonical view of a cohort, read from query parameters,    *)
(* from storage or from a live request, written back as parameters, and    *)
(* described as criteria that can be removed one at a time                 *)
(* (web/src/lib/filters/canonical.ts, index.ts, criteria.ts).              *)
(*                                                                         *)
(* A parameter is [num |-> tenths] when its text reads as a finite number  *)
(* and [txt |-> words] when it does not, which a text always is here; the  *)
(* word Blank is white space.  An optional value is a set of at most one   *)
(* element.                                                                *)
(***************************************************************************)
EXTENDS Integers, Sequences, FiniteSets, SequencesExt

CONSTANTS PositionGroups, Roles,  \* the keys the rail offers
          Slugs,                  \* words with the shape of a playstyle key
          SortOptions,            \* the sorts the rail offers
          Composed,               \* decomposed word -> its composed form
          TextFilterMax,          \* TEXT_FILTER_MAX, counted in words here
          LongWords,              \* words longer than the keys that are stored (KEY_MAX)
          DEFAULT_PAGE_SIZE

Blank == " "

\* The composed form of a word is composed, and is not white space; nor is what composes.
ASSUME ComposedAssumption ==
  Blank \notin DOMAIN Composed /\ \A word \in DOMAIN Composed : Composed[word] \notin DOMAIN Composed \union {Blank}

DEFAULT_SORT == "rolefit_desc"
DEFAULT_PAGE == 1
DEFAULT_SEARCH_SCOPE == "analyzed"
SEARCH_SCOPE_KEYS == {"analyzed", "all_records", "high_coverage_u23"}

Field(record, f) == IF f \in DOMAIN record THEN {record[f]} ELSE {}
Value(option) == CHOOSE v \in option : TRUE

TextFields == {"q", "league", "club", "nationality"}
NumberFields == {"age_min", "age_max", "min_minutes", "rolefit_min", "rolefit_max",
                 "value_min", "value_max", "page_size"}
DISCOVERY_VIEW_FIELDS == TextFields \union NumberFields \union {"position_group", "role", "playstyle", "sort"}

(***************************************************************************)
(* Reading numbers.                                                        *)
(***************************************************************************)
Numbers(raws) == {r.num : r \in {x \in raws : "num" \in DOMAIN x}}
Rounded(tenths) == (tenths + 5) \div 10
Clamped(n, floor, ceiling) == IF n < floor THEN floor ELSE IF n > ceiling THEN ceiling ELSE n

ParseBoundedWholeNumber(raws, floor, ceiling) ==
  {Clamped(Rounded(n), floor, ceiling) : n \in Numbers(raws)}

MINUTES_MAX == 10000
ROLEFIT_MAX == 99
PAGE_SIZE_CEILING == 100

ParseMinutesThreshold(raws) == ParseBoundedWholeNumber(raws, 0, MINUTES_MAX)
ParseRoleFitThreshold(raws) == ParseBoundedWholeNumber(raws, 0, ROLEFIT_MAX)
ParseAgeBound(raws) == {IF Rounded(n) < 0 THEN 0 ELSE Rounded(n) : n \in Numbers(raws)}
ParseAskingEur(raws) == {Rounded(n) : n \in {m \in Numbers(raws) : m >= 0}}
ParsePage(raws) == {n \div 10 : n \in {m \in Numbers(raws) : m % 10 = 0 /\ m >= 10}}
ParsePageSize(raws) == {n \in ParsePage(raws) : n =< PAGE_SIZE_CEILING}

\* A mutant: a minimum above its maximum is let through.
BoundsAsGiven(min, max, edited) == [min |-> min, max |-> max]

CoherentBounds(min, max, edited) ==
  IF \A a \in min, b \in max : a =< b THEN [min |-> min, max |-> max]
  ELSE IF edited = "min" THEN [min |-> min, max |-> min] ELSE [min |-> max, max |-> max]

(***************************************************************************)
(* Ages: one bound, on one of five stops.                                  *)
(***************************************************************************)
AGE_STOPS == {19, 22, 25, 28, 31}
Distance(a, b) == IF a < b THEN b - a ELSE a - b

SnapToAgeStop(age) ==
  CHOOSE stop \in AGE_STOPS : \A s \in AGE_STOPS :
    \/ Distance(stop, age) < Distance(s, age)
    \/ Distance(stop, age) = Distance(s, age) /\ stop =< s

AllAges == [direction |-> "all", threshold |-> 25]

AgeSelectionFromBounds(ageMin, ageMax) ==
  IF ageMax # {} THEN [direction |-> "younger", threshold |-> SnapToAgeStop(Value(ageMax))]
  ELSE IF ageMin # {} THEN [direction |-> "older", threshold |-> SnapToAgeStop(Value(ageMin))]
  ELSE AllAges

AgeBounds(selection) ==
  [age_min |-> IF selection.direction = "older" THEN {selection.threshold} ELSE {},
   age_max |-> IF selection.direction = "younger" THEN {selection.threshold} ELSE {}]

LegacyAgeBandSelection(band) ==
  CASE band = {[txt |-> <<"u23">>]} -> [direction |-> "younger", threshold |-> 22]
    [] band = {[txt |-> <<"24_26">>]} -> [direction |-> "older", threshold |-> 25]
    [] band = {[txt |-> <<"27_30">>]} -> [direction |-> "older", threshold |-> 28]
    [] band = {[txt |-> <<"31_plus">>]} -> [direction |-> "older", threshold |-> 31]
    [] OTHER -> AllAges

(***************************************************************************)
(* Reading texts and keys.                                                 *)
(***************************************************************************)
Texts(raws) == {r.txt : r \in {x \in raws : "txt" \in DOMAIN x}}

Trimmed(text) ==
  LET words == {i \in DOMAIN text : text[i] # Blank}
  IN IF words = {} THEN <<>>
     ELSE SubSeq(text, CHOOSE i \in words : \A j \in words : i =< j,
                       CHOOSE i \in words : \A j \in words : i >= j)

Nfc(text) == [i \in DOMAIN text |-> IF text[i] \in DOMAIN Composed THEN Composed[text[i]] ELSE text[i]]

NormalizeText(raws) == {Nfc(Trimmed(t)) : t \in Texts(raws)} \ {<<>>}

\* A one-word parameter that is one of the keys offered.
KeyOf(raws, keys) == {t[1] : t \in {x \in Texts(raws) : Len(x) = 1}} \intersect keys

Compact(fields) == [f \in {g \in DOMAIN fields : fields[g] # {}} |-> Value(fields[f])]

(***************************************************************************)
(* The canonical view.                                                     *)
(***************************************************************************)
DiscoveryViewFromParams(params) ==
  LET p(f) == Field(params, f)
      explicit == AgeSelectionFromBounds(ParseAgeBound(p("age_min")), ParseAgeBound(p("age_max")))
      age == AgeBounds(IF explicit.direction # "all" THEN explicit
                       ELSE LegacyAgeBandSelection(p("age_band")))
      roleFit == CoherentBounds(ParseRoleFitThreshold(p("rolefit_min")),
                                ParseRoleFitThreshold(p("rolefit_max")), "min")
      asking == CoherentBounds(ParseAskingEur(p("value_min")), ParseAskingEur(p("value_max")), "min")
  IN Compact(
       [q |-> NormalizeText(p("q")), league |-> NormalizeText(p("league")),
        club |-> NormalizeText(p("club")), nationality |-> NormalizeText(p("nationality")),
        position_group |-> KeyOf(p("position_group"), PositionGroups),
        role |-> KeyOf(p("role"), Roles),
        playstyle |-> {t[1] : t \in {x \in NormalizeText(p("playstyle")) : Len(x) = 1}} \intersect Slugs,
        age_min |-> age.age_min, age_max |-> age.age_max,
        min_minutes |-> ParseMinutesThreshold(p("min_minutes")),
        rolefit_min |-> roleFit.min, rolefit_max |-> roleFit.max,
        value_min |-> asking.min, value_max |-> asking.max,
        sort |-> KeyOf(p("sort"), SortOptions) \ {DEFAULT_SORT},
        page_size |-> ParsePageSize(p("page_size")) \ {DEFAULT_PAGE_SIZE}])

\* String(value) of a field, as a parameter or as JSON.
Written(f, value) ==
  IF f \in NumberFields THEN [num |-> 10 * value]
  ELSE IF f \in TextFields THEN [txt |-> value] ELSE [txt |-> <<value>>]

DiscoveryViewToParams(view) ==
  [f \in DOMAIN view \intersect DISCOVERY_VIEW_FIELDS |-> Written(f, view[f])]

DiscoveryViewFromFilters(filters) == DiscoveryViewFromParams(DiscoveryViewToParams(filters))

BoundedInteger(raws, min, max) ==
  {Rounded(n) : n \in {m \in Numbers(raws) : Rounded(m) >= min /\ Rounded(m) =< max}}

ASKING_MAX == 100000000  \* 10^12 in the code; TLC's integers are smaller

\* A view read from storage or from the API, and the fields of it that are lost.
RecoverDiscoveryView(raw) ==
  LET r(f) == Field(raw, f)
      age == IF r("age_min") # {} /\ r("age_max") # {} THEN AllAges
             ELSE AgeSelectionFromBounds(BoundedInteger(r("age_min"), 0, 120),
                                         BoundedInteger(r("age_max"), 0, 120))
      rolefit(f) == BoundedInteger(r(f), 0, ROLEFIT_MAX)
      asking(f) == BoundedInteger(r(f), 0, ASKING_MAX)
      size == BoundedInteger(r("page_size"), 1, PAGE_SIZE_CEILING)
      roleFit == CoherentBounds(rolefit("rolefit_min"), rolefit("rolefit_max"), "min")
      value == CoherentBounds(asking("value_min"), asking("value_max"), "min")
      short(f) == {t \in NormalizeText(r(f)) : Len(t) =< TextFilterMax}
      fields ==
       [q |-> short("q"), league |-> short("league"), club |-> short("club"),
        nationality |-> short("nationality"),
        position_group |-> KeyOf(r("position_group"), PositionGroups),
        role |-> KeyOf(r("role"), Roles), playstyle |-> KeyOf(r("playstyle"), Slugs \ LongWords),
        sort |-> KeyOf(r("sort"), SortOptions) \ {DEFAULT_SORT},
        age_min |-> AgeBounds(age).age_min, age_max |-> AgeBounds(age).age_max,
        min_minutes |-> BoundedInteger(r("min_minutes"), 0, MINUTES_MAX),
        rolefit_min |-> roleFit.min, rolefit_max |-> roleFit.max,
        value_min |-> value.min, value_max |-> value.max,
        page_size |-> size \ {DEFAULT_PAGE_SIZE}]
      lost == {f \in DOMAIN raw \intersect DISCOVERY_VIEW_FIELDS : fields[f] = {}}
  IN [view |-> Compact(fields),
      dropped |-> {f \in lost : ~(f = "age_max" /\ "age_min" \in lost) /\ ~(f = "page_size" /\ size # {})}]

CriteriaFields == DISCOVERY_VIEW_FIELDS \ {"sort", "page_size", "age_max"}
DiscoveryViewCriteriaCount(view) ==
  Cardinality(DOMAIN view \intersect CriteriaFields)
    + (IF "age_max" \in DOMAIN view /\ "age_min" \notin DOMAIN view THEN 1 ELSE 0)

(***************************************************************************)
(* The criteria a request narrows by, and what removing one clears.        *)
(***************************************************************************)
ActiveCriteria(filters) ==
  {[key |-> f, params |-> {f}] : f \in DOMAIN filters \intersect (CriteriaFields \ {"age_min"})}
    \union IF AgeSelectionFromBounds(Field(filters, "age_min"), Field(filters, "age_max")).direction # "all"
           THEN {[key |-> "age", params |-> {"age_min", "age_max", "age_band"}]} ELSE {}

\* { ...filters, ...patch }: the fields of a patch replace those of the filters,
\* and its absent values remove them.
Patched(filters, patch) ==
  Compact([f \in DOMAIN filters \union DOMAIN patch |->
             IF f \in DOMAIN patch THEN patch[f] ELSE {filters[f]}])

RemovalPatch(criterion) == [f \in criterion.params |-> {}]
=============================================================================
