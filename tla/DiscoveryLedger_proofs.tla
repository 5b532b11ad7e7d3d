----------------------- MODULE DiscoveryLedger_proofs -----------------------
(* Proofs about DiscoveryLedger, for every set of databases whose columns hold
   what they do (DatabasesAssumption), every address, saved view and change of
   the rail whose numbers are numbers and whose texts are words
   (AddressesAssumption), a rail that offers what the API knows (RailAssumption),
   every page size the API serves and any number of events: the cards
   of every answer that is cached meet the request it is cached for, in the
   order its explanation states; the pages of a result that were read of one
   publication have every player of it once; an address is read as what it was
   written for, so that it may follow the page that was served; and the view it
   means survives storage and the server. *)
EXTENDS DiscoveryLedger, ListFacts, FiniteSetTheorems, TLAPS

(* An age never decreases with the days. *)
LEMMA AgesGrow == ASSUME NEW a \in Int, NEW b \in Int, a <= b PROVE RoundedAge(a) <= RoundedAge(b)
BY DEF RoundedAge

(* An age is a number. *)
LEMMA AgeIsNumber == ASSUME NEW a \in Int PROVE RoundedAge(a) \in Int
BY DEF RoundedAge

(* The day an age first reaches a bound of the rail is near the estimate the scan starts from. *)
LEMMA FloorFound ==
  ASSUME NEW a \in Nat
  PROVE  /\ DaysForAgeFloor(a) \in Int /\ 10 * RoundedAge(DaysForAgeFloor(a)) >= a
         /\ 10 * RoundedAge(DaysForAgeFloor(a) - 1) < a
<1> DEFINE t == (a + 9) \div 10
           w == (2922 * t - 1382) \div 80
           e == WholeDays(a - 10) - 2
           Good(d) == 10 * RoundedAge(d) >= a /\ 10 * RoundedAge(d - 1) < a
<1>1. t \in Int /\ a <= 10 * t /\ 10 * t <= a + 9 OBVIOUS
<1> HIDE DEF t
<1>2. w \in Int /\ 80 * w + 1461 >= 2922 * t /\ 80 * (w - 1) + 1461 < 2922 * t BY <1>1
<1>3. e \in Int /\ e - 60 <= w /\ w <= e + 60
  <2>1. CASE a >= 10
    <3>1. e = ((a - 10) * 1461) \div 400 - 2 BY <2>1 DEF WholeDays
    <3>2. 400 * (e + 2) <= (a - 10) * 1461 /\ (a - 10) * 1461 < 400 * (e + 2) + 400 /\ e \in Int BY <3>1
    <3> HIDE DEF e
    <3>3. 80 * w <= 2922 * t - 1382 /\ 2922 * t - 1382 < 80 * w + 80 /\ w \in Int BY <1>1
    <3> HIDE DEF w
    <3>4. QED BY <1>1, <3>2, <3>3
  <2>2. CASE a < 10
    <3>1. e = -((-(a - 10) * 1461) \div 400) - 2 BY <2>2 DEF WholeDays
    <3>2. a \in Int /\ 0 <= a OBVIOUS
    <3>3. e \in Int /\ e >= -40 /\ e <= -2 /\ (a >= 1 => e >= -34) BY <2>2, <3>1, <3>2
    <3> HIDE DEF w, e
    <3>4. CASE a = 0
      <4>1. t = 0 BY <1>1, <3>4
      <4>2. w \in Int /\ w <= 0 /\ w >= -20 BY <1>2, <4>1
      <4>3. QED BY <3>3, <4>2
    <3>5. CASE a >= 1
      <4>1. t = 1 BY <1>1, <2>2, <3>2, <3>5
      <4>2. w \in Int /\ w <= 20 /\ w >= 0 BY <1>2, <4>1
      <4>3. QED BY <3>3, <3>5, <4>2
    <3>6. QED BY <3>2, <3>4, <3>5
  <2>3. QED BY <2>1, <2>2
<1> HIDE DEF w
<1>4. RoundedAge(w) >= t /\ RoundedAge(w - 1) < t /\ RoundedAge(w) \in Int /\ RoundedAge(w - 1) \in Int
  BY <1>1, <1>2 DEF RoundedAge
<1>5. Good(w) BY <1>1, <1>4
<1>6. w \in e - ScanLimit .. e + ScanLimit BY <1>2, <1>3 DEF ScanLimit
<1> HIDE DEF Good, e
<1>7. (CHOOSE d \in e - ScanLimit .. e + ScanLimit : Good(d)) \in e - ScanLimit .. e + ScanLimit
      /\ Good(CHOOSE d \in e - ScanLimit .. e + ScanLimit : Good(d)) BY <1>5, <1>6
<1>8. DaysForAgeFloor(a) = CHOOSE d \in e - ScanLimit .. e + ScanLimit : Good(d) BY DEF DaysForAgeFloor, Good, e
<1>9. DaysForAgeFloor(a) \in Int BY <1>3, <1>7, <1>8 DEF ScanLimit
<1>10. QED BY <1>7, <1>8, <1>9 DEF Good

(* So is the last day an age does not exceed a bound. *)
LEMMA CeilingFound ==
  ASSUME NEW a \in Nat
  PROVE  /\ DaysForAgeCeiling(a) \in Int /\ 10 * RoundedAge(DaysForAgeCeiling(a)) =< a
         /\ 10 * RoundedAge(DaysForAgeCeiling(a) + 1) > a
<1> DEFINE t == a \div 10
           w == (2922 * t + 1460) \div 80
           e == WholeDays(a + 10) + 2
           Good(d) == 10 * RoundedAge(d) =< a /\ 10 * RoundedAge(d + 1) > a
<1>1. t \in Int /\ 10 * t <= a /\ a <= 10 * t + 9 OBVIOUS
<1> HIDE DEF t
<1>2. w \in Int /\ 80 * w <= 2922 * t + 1460 /\ 2922 * t + 1460 < 80 * w + 80 BY <1>1
<1>3. e \in Int /\ e - 60 <= w /\ w <= e + 60
  <2>1. e = ((a + 10) * 1461) \div 400 + 2 BY DEF WholeDays
  <2>2. 400 * (e - 2) <= (a + 10) * 1461 /\ (a + 10) * 1461 < 400 * (e - 2) + 400 /\ e \in Int BY <2>1
  <2> HIDE DEF e, w
  <2>3. QED BY <1>1, <1>2, <2>2
<1> HIDE DEF w
<1>4. RoundedAge(w) <= t /\ RoundedAge(w + 1) > t /\ RoundedAge(w) \in Int /\ RoundedAge(w + 1) \in Int
  BY <1>1, <1>2 DEF RoundedAge
<1>5. Good(w) BY <1>1, <1>4
<1>6. w \in e - ScanLimit .. e + ScanLimit BY <1>2, <1>3 DEF ScanLimit
<1> HIDE DEF Good, e
<1>7. (CHOOSE d \in e - ScanLimit .. e + ScanLimit : Good(d)) \in e - ScanLimit .. e + ScanLimit
      /\ Good(CHOOSE d \in e - ScanLimit .. e + ScanLimit : Good(d)) BY <1>5, <1>6
<1>8. DaysForAgeCeiling(a) = CHOOSE d \in e - ScanLimit .. e + ScanLimit : Good(d) BY DEF DaysForAgeCeiling, Good, e
<1>9. DaysForAgeCeiling(a) \in Int BY <1>3, <1>7, <1>8 DEF ScanLimit
<1>10. QED BY <1>7, <1>8, <1>9 DEF Good

(* A bound holds of an age just from its day on, or up to its day. *)
LEMMA FloorIs ==
  ASSUME NEW a \in Nat, NEW n \in Int
  PROVE  10 * RoundedAge(n) >= a <=> n >= DaysForAgeFloor(a)
<1>1. PICK d : d = DaysForAgeFloor(a) /\ d \in Int /\ 10 * RoundedAge(d) >= a /\ 10 * RoundedAge(d - 1) < a
  BY FloorFound
<1>2. CASE n >= d
  <2>1. RoundedAge(d) <= RoundedAge(n) /\ RoundedAge(d) \in Int /\ RoundedAge(n) \in Int
    BY <1>1, <1>2, AgesGrow, AgeIsNumber
  <2>2. QED BY <1>1, <1>2, <2>1
<1>3. CASE n < d
  <2>1. n <= d - 1 /\ d - 1 \in Int BY <1>1, <1>3
  <2>2. RoundedAge(n) <= RoundedAge(d - 1) /\ RoundedAge(d - 1) \in Int /\ RoundedAge(n) \in Int
    BY <2>1, AgesGrow, AgeIsNumber
  <2>3. ~(10 * RoundedAge(n) >= a) BY <1>1, <2>2
  <2>4. QED BY <1>1, <1>3, <2>3
<1>4. QED BY <1>1, <1>2, <1>3

(* The displayed age is at most a bound exactly up to the ceiling of days of
   that bound. *)
LEMMA CeilingIs ==
  ASSUME NEW a \in Nat, NEW n \in Int
  PROVE  10 * RoundedAge(n) =< a <=> n =< DaysForAgeCeiling(a)
<1>1. PICK d : d = DaysForAgeCeiling(a) /\ d \in Int /\ 10 * RoundedAge(d) =< a /\ 10 * RoundedAge(d + 1) > a
  BY CeilingFound
<1>2. CASE n =< d
  <2>1. RoundedAge(n) <= RoundedAge(d) /\ RoundedAge(d) \in Int /\ RoundedAge(n) \in Int
    BY <1>1, <1>2, AgesGrow, AgeIsNumber
  <2>2. QED BY <1>1, <1>2, <2>1
<1>3. CASE n > d
  <2>1. n >= d + 1 /\ d + 1 \in Int BY <1>1, <1>3
  <2>2. RoundedAge(d + 1) <= RoundedAge(n) /\ RoundedAge(d + 1) \in Int /\ RoundedAge(n) \in Int
    BY <2>1, AgesGrow, AgeIsNumber
  <2>3. ~(10 * RoundedAge(n) =< a) BY <1>1, <2>2
  <2>4. QED BY <1>1, <1>3, <2>3
<1>4. QED BY <1>1, <1>2, <1>3

(* The least and the greatest of numbers of days, which are all above a first or up to a last one. *)
LEMMA LeastOf ==
  ASSUME NEW S, S \subseteq Int, S # {}, NEW low \in Int, \A x \in S : low =< x
  PROVE  Min(S) \in S /\ \A x \in S : Min(S) =< x
<1> DEFINE T == {n \in Nat : low + n \in S}
<1>1. PICK x \in S : TRUE OBVIOUS
<1>2. x - low \in Nat /\ low + (x - low) = x /\ x - low \in T OBVIOUS
<1>3. PICK n \in T : \A m \in T : n <= m BY <1>2, LeastNumber
<1>4. low + n \in S BY <1>3
<1>5. \A y \in S : low + n =< y
  <2> TAKE y \in S
  <2>1. y - low \in Nat /\ low + (y - low) = y OBVIOUS
  <2>2. n <= y - low BY <1>3, <2>1
  <2>3. QED BY <1>3, <2>1, <2>2
<1>6. \E y \in S : \A z \in S : y =< z BY <1>4, <1>5
<1>7. QED BY <1>6 DEF Min

(* A set of numbers that a number bounds from above has a greatest member. *)
LEMMA GreatestOf ==
  ASSUME NEW S, S \subseteq Int, S # {}, NEW high \in Int, \A x \in S : x =< high
  PROVE  Max(S) \in S /\ \A x \in S : x =< Max(S)
<1> DEFINE T == {n \in Nat : high - n \in S}
<1>1. PICK x \in S : TRUE OBVIOUS
<1>2. high - x \in Nat /\ high - (high - x) = x /\ high - x \in T OBVIOUS
<1>3. PICK n \in T : \A m \in T : n <= m BY <1>2, LeastNumber
<1>4. high - n \in S BY <1>3
<1>5. \A y \in S : y =< high - n
  <2> TAKE y \in S
  <2>1. high - y \in Nat /\ high - (high - y) = y OBVIOUS
  <2>2. n <= high - y BY <1>3, <2>1
  <2>3. QED BY <1>3, <2>1, <2>2
<1>6. \E y \in S : \A z \in S : y >= z BY <1>4, <1>5
<1>7. QED BY <1>6 DEF Max

\* What a request that bounds ages means of a birth date: the displayed age is within the bounds.
AgeWithin(birth, seasonEnd, floors, ceilings) ==
  /\ \A a \in floors : \E g \in AgeFor(birth, seasonEnd) : 10 * g >= a
  /\ \A a \in ceilings : \E g \in AgeFor(birth, seasonEnd) : 10 * g =< a

Bounds(S) == S \subseteq Nat /\ \A a \in S : a =< AGE_SPAN_LIMIT
BirthDates(birth) == birth \subseteq 1 .. LastDay /\ \A a, b \in birth : a = b
EndDates(end) == end \subseteq Int /\ \A a, b \in end : a = b

(* Known dates, and bounds: the dates before and after which the window is. *)
LEMMA WindowOfDates ==
  ASSUME NEW end \in Int, NEW b \in 1 .. LastDay, NEW floors, Bounds(floors), NEW ceilings, Bounds(ceilings),
         floors \cup ceilings # {}
  PROVE  BornInWindow({b}, BirthDateWindow({end}, floors, ceilings)) <=> AgeWithin({b}, {end}, floors, ceilings)
<1> DEFINE n == end - b
           oldest == end - 1
           youngest == end - LastDay
           floorDays == {DaysForAgeFloor(a) : a \in {x \in floors : x >= -AGE_SPAN_LIMIT}}
           ceilingDays == {DaysForAgeCeiling(a) : a \in {x \in ceilings : x =< AGE_SPAN_LIMIT}}
           befores == {end - d : d \in {e \in floorDays : e >= youngest}}
           afters == {end - d : d \in {e \in ceilingDays : e =< oldest}}
           before == IF befores = {} THEN {} ELSE {Min(befores)}
           after == IF afters = {} THEN {} ELSE {Max(afters)}
           none == (\E d \in floorDays : d > oldest) \/ (\E d \in ceilingDays : d < youngest)
           within == (\A d \in floorDays : n >= d) /\ (\A d \in ceilingDays : n =< d)
<1>1. LastDay \in Nat /\ b \in Int /\ 1 =< b /\ b =< LastDay BY DatabasesAssumption
<1>2. n \in Int /\ n =< oldest /\ youngest =< n /\ oldest \in Int /\ youngest \in Int BY <1>1
<1>3. The({b}) = b /\ The({end}) = end BY DEF The
<1>4. \A a \in floors : a \in Nat /\ a >= -AGE_SPAN_LIMIT BY DEF Bounds, AGE_SPAN_LIMIT
<1>5. \A a \in ceilings : a \in Nat /\ a =< AGE_SPAN_LIMIT BY DEF Bounds
<1>6. floorDays = {DaysForAgeFloor(a) : a \in floors} BY <1>4
<1>7. ceilingDays = {DaysForAgeCeiling(a) : a \in ceilings} BY <1>5
<1>8. floorDays \subseteq Int /\ ceilingDays \subseteq Int BY <1>4, <1>5, <1>6, <1>7, FloorFound, CeilingFound
<1>9. AgeWithin({b}, {end}, floors, ceilings) <=> within
  <2>1. AgeFor({b}, {end}) = {RoundedAge(n)} BY <1>3 DEF AgeFor
  <2> HIDE DEF n, floorDays, ceilingDays
  <2>2. \A a \in floors : 10 * RoundedAge(n) >= a <=> n >= DaysForAgeFloor(a) BY <1>2, <1>4, FloorIs
  <2>3. \A a \in ceilings : 10 * RoundedAge(n) =< a <=> n =< DaysForAgeCeiling(a) BY <1>2, <1>5, CeilingIs
  <2>4. AgeWithin({b}, {end}, floors, ceilings)
          <=> (\A a \in floors : 10 * RoundedAge(n) >= a) /\ (\A a \in ceilings : 10 * RoundedAge(n) =< a)
    BY <2>1 DEF AgeWithin
  <2>5. QED BY <1>6, <1>7, <2>2, <2>3, <2>4
<1>10. none => ~within
  <2> HIDE DEF n, oldest, youngest, floorDays, ceilingDays
  <2>1. QED BY <1>2, <1>8
<1>11. ASSUME ~none PROVE (\A last \in before : b =< last) <=> \A d \in floorDays : n >= d
  <2> HIDE DEF oldest, youngest, floorDays, ceilingDays
  <2>1. \A d \in floorDays : d \in Int /\ d =< oldest BY <1>2, <1>8, <1>11
  <2>2. befores \subseteq Int /\ \A x \in befores : 1 =< x
    <3>1. ASSUME NEW d \in floorDays PROVE end - d \in Int /\ 1 =< end - d BY <2>1 DEF oldest
    <3>2. QED BY <3>1
  <2>3. \A d \in floorDays : d >= youngest \/ n >= d BY <1>2, <2>1
  <2>4. \A d \in floorDays : b =< end - d <=> n >= d BY <1>1, <2>1
  <2>5. \A d \in floorDays : d >= youngest => end - d \in befores OBVIOUS
  <2>6. \A x \in befores : \E d \in floorDays : x = end - d OBVIOUS
  <2> HIDE DEF befores, n
  <2>7. CASE befores = {} BY <2>3, <2>5, <2>7
  <2>8. CASE befores # {}
    <3>1. Min(befores) \in befores /\ \A x \in befores : Min(befores) =< x 
      <4>1. PICK S, low : S = befores /\ low \in Int /\ low = 1 OBVIOUS
      <4>2. S \subseteq Int /\ S # {} /\ \A x \in S : low =< x BY <2>2, <2>8, <4>1
      <4>3. Min(S) \in S /\ \A x \in S : Min(S) =< x BY <4>1, <4>2, LeastOf
      <4>4. QED BY <4>1, <4>3
    <3>2. (\A last \in before : b =< last) <=> b =< Min(befores) BY <2>8
    <3>3. ASSUME b =< Min(befores), NEW d \in floorDays PROVE n >= d
      <4>1. CASE d >= youngest
        <5>1. end - d \in befores BY <2>5, <4>1
        <5>2. Min(befores) \in Int /\ end - d \in Int /\ Min(befores) =< end - d BY <2>2, <3>1, <5>1
        <5>3. b =< end - d BY <1>1, <3>3, <5>2
        <5>4. QED BY <2>4, <5>3
      <4>2. QED BY <2>3, <4>1
    <3>4. ASSUME \A d \in floorDays : n >= d PROVE b =< Min(befores)
      <4>1. PICK d \in floorDays : Min(befores) = end - d BY <2>6, <3>1
      <4>2. QED BY <2>4, <3>4, <4>1
    <3>5. QED BY <3>2, <3>3, <3>4
  <2>9. QED BY <2>7, <2>8
<1>12. ASSUME ~none PROVE (\A first \in after : b >= first) <=> \A d \in ceilingDays : n =< d
  <2> HIDE DEF oldest, youngest, floorDays, ceilingDays
  <2>1. \A d \in ceilingDays : d \in Int /\ d >= youngest BY <1>2, <1>8, <1>12
  <2>2. afters \subseteq Int /\ \A x \in afters : x =< LastDay
    <3>1. ASSUME NEW d \in ceilingDays PROVE end - d \in Int /\ end - d =< LastDay BY <1>1, <2>1 DEF youngest
    <3>2. QED BY <3>1
  <2>3. \A d \in ceilingDays : d =< oldest \/ n =< d BY <1>2, <2>1
  <2>4. \A d \in ceilingDays : b >= end - d <=> n =< d BY <1>1, <2>1
  <2>5. \A d \in ceilingDays : d =< oldest => end - d \in afters OBVIOUS
  <2>6. \A x \in afters : \E d \in ceilingDays : x = end - d OBVIOUS
  <2> HIDE DEF afters, n
  <2>7. CASE afters = {} BY <2>3, <2>5, <2>7
  <2>8. CASE afters # {}
    <3>1. Max(afters) \in afters /\ \A x \in afters : x =< Max(afters) 
      <4>1. PICK S, high : S = afters /\ high \in Int /\ high = LastDay BY <1>1
      <4>2. S \subseteq Int /\ S # {} /\ \A x \in S : x =< high BY <2>2, <2>8, <4>1
      <4>3. Max(S) \in S /\ \A x \in S : x =< Max(S) BY <4>1, <4>2, GreatestOf
      <4>4. QED BY <4>1, <4>3
    <3>2. (\A first \in after : b >= first) <=> b >= Max(afters) BY <2>8
    <3>3. ASSUME b >= Max(afters), NEW d \in ceilingDays PROVE n =< d
      <4>1. CASE d =< oldest
        <5>1. end - d \in afters BY <2>5, <4>1
        <5>2. Max(afters) \in Int /\ end - d \in Int /\ end - d =< Max(afters) BY <2>2, <3>1, <5>1
        <5>3. b >= end - d BY <1>1, <3>3, <5>2
        <5>4. QED BY <2>4, <5>3
      <4>2. QED BY <2>3, <4>1
    <3>4. ASSUME \A d \in ceilingDays : n =< d PROVE b >= Max(afters)
      <4>1. PICK d \in ceilingDays : Max(afters) = end - d BY <2>6, <3>1
      <4>2. QED BY <2>4, <3>4, <4>1
    <3>5. QED BY <3>2, <3>3, <3>4
  <2>9. QED BY <2>7, <2>8
<1>13. BirthDateWindow({end}, floors, ceilings) =
         IF none THEN NoBirthDate
         ELSE [before |-> before, after |-> after, active |-> TRUE, impossible |-> FALSE]
  <2>1. ~(\E a \in floors : a > AGE_SPAN_LIMIT) /\ ~(\E a \in ceilings : a < -AGE_SPAN_LIMIT)
    BY <1>4, <1>5 DEF Bounds, AGE_SPAN_LIMIT
  <2>2. {end} # {} OBVIOUS
  <2>3. QED BY <1>3, <2>1, <2>2, Zenon DEF BirthDateWindow
<1> HIDE DEF floorDays, ceilingDays, oldest, youngest, befores, afters, before, after, n
<1>14. CASE none
  <2>1. BirthDateWindow({end}, floors, ceilings).impossible BY <1>13, <1>14 DEF NoBirthDate, NoWindow
  <2>2. QED BY <1>9, <1>10, <1>14, <2>1 DEF BornInWindow
<1>15. CASE ~none
  <2>1. BirthDateWindow({end}, floors, ceilings) = [before |-> before, after |-> after, active |-> TRUE, impossible |-> FALSE]
    BY <1>13, <1>15
  <2>2. BornInWindow({b}, BirthDateWindow({end}, floors, ceilings))
          <=> (\A last \in before : b =< last) /\ (\A first \in after : b >= first)
    BY <2>1 DEF BornInWindow
  <2>3. QED BY <1>9, <1>11, <1>12, <1>15, <2>2
<1>16. QED BY <1>14, <1>15

(* The window of birth dates is the displayed age within the bounds, whatever is known. *)
LEMMA WindowIs ==
  ASSUME NEW end, EndDates(end), NEW birth, BirthDates(birth),
         NEW floors, Bounds(floors), NEW ceilings, Bounds(ceilings)
  PROVE  BornInWindow(birth, BirthDateWindow(end, floors, ceilings)) <=> AgeWithin(birth, end, floors, ceilings)
<1>1. CASE floors \cup ceilings = {}
  <2>1. BirthDateWindow(end, floors, ceilings) = NoWindow BY <1>1 DEF BirthDateWindow
  <2>2. QED BY <1>1, <2>1 DEF BornInWindow, NoWindow, AgeWithin
<1>2. CASE floors \cup ceilings # {} /\ end = {}
  <2>1. BirthDateWindow(end, floors, ceilings) = NoBirthDate BY <1>2 DEF BirthDateWindow
  <2>2. AgeFor(birth, end) = {} BY <1>2 DEF AgeFor
  <2>3. ~AgeWithin(birth, end, floors, ceilings) BY <1>2, <2>2 DEF AgeWithin
  <2>4. NoBirthDate.impossible BY DEF NoBirthDate, NoWindow
  <2>5. QED BY <2>1, <2>3, <2>4 DEF BornInWindow
<1>3. CASE floors \cup ceilings # {} /\ end # {} /\ birth = {}
  <2>1. AgeFor(birth, end) = {} BY <1>3 DEF AgeFor
  <2>2. ~AgeWithin(birth, end, floors, ceilings) BY <1>3, <2>1 DEF AgeWithin
  <2>3. BirthDateWindow(end, floors, ceilings).active
    <3>1. NoBirthDate.active BY DEF NoBirthDate, NoWindow
    <3>2. QED BY <1>3, <3>1 DEF BirthDateWindow
  <2>4. QED BY <1>3, <2>2, <2>3 DEF BornInWindow
<1>4. CASE floors \cup ceilings # {} /\ end # {} /\ birth # {}
  <2>1. PICK e : end = {e} /\ e \in Int BY <1>4 DEF EndDates
  <2>2. PICK b : birth = {b} /\ b \in 1 .. LastDay BY <1>4 DEF BirthDates
  <2>3. QED BY <1>4, <2>1, <2>2, WindowOfDates
<1>5. QED BY <1>1, <1>2, <1>3, <1>4

(* A request as the browser makes one: of a scope, for ages on the stops of the rail. *)
Proper(k) ==
  /\ k.scope \in SEARCH_SCOPES /\ k.page \in Int
  /\ Field(k, "age_min") \subseteq AGE_STOPS /\ Field(k, "age_max") \subseteq AGE_STOPS
  /\ Field(k, "age_band") = {} /\ Field(k, "universe") = {}

(* What the API receives of a request, field by field. *)
LEMMA QueryIs ==
  ASSUME NEW k, Proper(k)
  PROVE  LET y == Query(k)
         IN /\ y.q = Field(k, "q") /\ y.position_group = Field(k, "position_group") /\ y.role = Field(k, "role")
            /\ y.league = Field(k, "league") /\ y.club = Field(k, "club") /\ y.nationality = Field(k, "nationality")
            /\ y.min_minutes = Field(k, "min_minutes") /\ y.rolefit_min = Field(k, "rolefit_min")
            /\ y.rolefit_max = Field(k, "rolefit_max") /\ y.playstyle = Field(k, "playstyle")
            /\ y.value_min = Field(k, "value_min") /\ y.value_max = Field(k, "value_max")
            /\ y.age_min = Hundredths(Field(k, "age_min")) /\ y.age_max = Hundredths(Field(k, "age_max"))
            /\ y.age_band = {} /\ y.universe = {} /\ y.scope = {k.scope}
<1> DEFINE fields == DISCOVERY_VIEW_FIELDS \union {"universe", "age_band", "scope"}
           F == [f \in fields |-> CASE f \in {"age_min", "age_max"} -> Hundredths(Field(k, f))
                                    [] f = "scope" -> {k.scope}
                                    [] OTHER -> Field(k, f)]
<1>1. Query(k) = F BY DEF Query
<1>2. \A f \in {"q", "position_group", "role", "league", "club", "nationality", "min_minutes", "rolefit_min",
                "rolefit_max", "playstyle", "value_min", "value_max", "age_min", "age_max", "age_band", "universe", "scope"} :
        f \in fields
  BY DEF DISCOVERY_VIEW_FIELDS, TextFields, NumberFields
<1> HIDE DEF fields
<1>3. \A f \in fields : f \notin {"age_min", "age_max", "scope"} => F[f] = Field(k, f) OBVIOUS
<1>4. \A f \in fields \intersect {"age_min", "age_max"} : F[f] = Hundredths(Field(k, f)) OBVIOUS
<1>5. F["scope"] = {k.scope} BY <1>2
<1> HIDE DEF F
<1>6. /\ F["q"] = Field(k, "q") /\ F["position_group"] = Field(k, "position_group") /\ F["role"] = Field(k, "role")
      /\ F["league"] = Field(k, "league") /\ F["club"] = Field(k, "club") /\ F["nationality"] = Field(k, "nationality")
      /\ F["min_minutes"] = Field(k, "min_minutes") /\ F["rolefit_min"] = Field(k, "rolefit_min")
      /\ F["rolefit_max"] = Field(k, "rolefit_max") /\ F["playstyle"] = Field(k, "playstyle")
      /\ F["value_min"] = Field(k, "value_min") /\ F["value_max"] = Field(k, "value_max")
      /\ F["age_band"] = Field(k, "age_band") /\ F["universe"] = Field(k, "universe")
  BY <1>2, <1>3
<1>7. F["age_min"] = Hundredths(Field(k, "age_min")) /\ F["age_max"] = Hundredths(Field(k, "age_max")) BY <1>2, <1>4
<1>8. F["age_band"] = {} /\ F["universe"] = {} BY <1>6 DEF Proper
<1>9. QED BY <1>1, <1>5, <1>6, <1>7, <1>8

(* What the repository is asked. *)
LEMMA ResolvedIs ==
  ASSUME NEW k, Proper(k), NEW season
  PROVE  LET f == Resolved(Query(k), season)
         IN /\ f.season = season.id /\ f.seasonEnd = season.end /\ f.scope = k.scope
            /\ f.q = Field(k, "q") /\ f.position_group = Field(k, "position_group") /\ f.role = Field(k, "role")
            /\ f.league = Field(k, "league") /\ f.club = Field(k, "club") /\ f.nationality = Field(k, "nationality")
            /\ f.min_minutes = Field(k, "min_minutes") /\ f.rolefit_min = Field(k, "rolefit_min")
            /\ f.rolefit_max = Field(k, "rolefit_max") /\ f.playstyle = Field(k, "playstyle")
            /\ f.value_min = Field(k, "value_min") /\ f.value_max = Field(k, "value_max")
            /\ f.window = BirthDateWindow(season.end, Hundredths(Field(k, "age_min")), Hundredths(Field(k, "age_max")))
<1> PICK y : y = Query(k) OBVIOUS
<1>1. AgeBandBounds(y.age_band) = [floor |-> {}, ceiling |-> {}]
  <2>1. y.age_band = {} BY QueryIs
  <2>2. QED BY <2>1 DEF AgeBandBounds
<1>2. NormalizeScope(y.scope, y.universe) = k.scope
  <2>1. y.scope = {k.scope} /\ k.scope \in SEARCH_SCOPES BY QueryIs DEF Proper
  <2>2. y.scope \in {{s} : s \in SEARCH_SCOPES} /\ The(y.scope) = k.scope BY <2>1 DEF The
  <2>3. y.universe = {} BY QueryIs
  <2>4. QED BY <2>2, <2>3 DEF NormalizeScope
<1>3. y.age_min \cup AgeBandBounds(y.age_band).floor = Hundredths(Field(k, "age_min"))
  BY <1>1, QueryIs
<1>4. y.age_max \cup AgeBandBounds(y.age_band).ceiling = Hundredths(Field(k, "age_max"))
  BY <1>1, QueryIs
<1>5. QED BY <1>2, <1>3, <1>4, QueryIs DEF Resolved

(* The bounds of the rail are bounds of ages in hundredths. *)
LEMMA RailBounds ==
  ASSUME NEW years, years \subseteq AGE_STOPS
  PROVE  Bounds(Hundredths(years)) /\ years \subseteq Nat
<1>1. years \subseteq Nat /\ \A y \in years : y =< 31 BY DEF AGE_STOPS
<1>2. \A a \in Hundredths(years) : a \in Nat /\ a =< AGE_SPAN_LIMIT BY <1>1 DEF Hundredths, AGE_SPAN_LIMIT
<1>3. QED BY <1>1, <1>2 DEF Bounds

(* A displayed age is within the window just when it is within the years asked for. *)
LEMMA YearsAre ==
  ASSUME NEW birth, BirthDates(birth), NEW end, EndDates(end),
         NEW mins, mins \subseteq AGE_STOPS, NEW maxs, maxs \subseteq AGE_STOPS
  PROVE  BornInWindow(birth, BirthDateWindow(end, Hundredths(mins), Hundredths(maxs)))
           <=> /\ \A y \in mins : \E a \in AgeFor(birth, end) : a >= 10 * y
               /\ \A y \in maxs : \E a \in AgeFor(birth, end) : a =< 10 * y
<1>1. Bounds(Hundredths(mins)) /\ mins \subseteq Nat /\ Bounds(Hundredths(maxs)) /\ maxs \subseteq Nat BY RailBounds
<1>2. BornInWindow(birth, BirthDateWindow(end, Hundredths(mins), Hundredths(maxs)))
        <=> AgeWithin(birth, end, Hundredths(mins), Hundredths(maxs)) BY <1>1, WindowIs
<1>3. AgeFor(birth, end) \subseteq Int
  <2>1. CASE birth = {} \/ end = {} BY <2>1 DEF AgeFor
  <2>2. CASE birth # {} /\ end # {}
    <3>1. The(birth) \in birth /\ The(end) \in end BY <2>2 DEF The
    <3>2. birth \subseteq Int /\ end \subseteq Int BY DatabasesAssumption DEF BirthDates, EndDates
    <3>3. The(birth) \in Int /\ The(end) \in Int BY <3>1, <3>2
    <3>4. RoundedAge(The(end) - The(birth)) \in Int BY <3>3, AgeIsNumber
    <3>5. QED BY <2>2, <3>4 DEF AgeFor
  <2>3. QED BY <2>1, <2>2
<1> DEFINE ages == AgeFor(birth, end)
<1> HIDE DEF ages
<1>4. (\A a \in Hundredths(mins) : \E g \in ages : 10 * g >= a) <=> (\A y \in mins : \E g \in ages : g >= 10 * y)
  <2>1. \A g \in ages, y \in mins : 10 * g >= 100 * y <=> g >= 10 * y BY <1>1, <1>3 DEF ages
  <2>2. (\A a \in Hundredths(mins) : \E g \in ages : 10 * g >= a) <=> (\A y \in mins : \E g \in ages : 10 * g >= 100 * y)
    BY Zenon DEF Hundredths
  <2>3. QED BY <2>1, <2>2
<1>5. (\A a \in Hundredths(maxs) : \E g \in ages : 10 * g =< a) <=> (\A y \in maxs : \E g \in ages : g =< 10 * y)
  <2>1. \A g \in ages, y \in maxs : 10 * g =< 100 * y <=> g =< 10 * y BY <1>1, <1>3 DEF ages
  <2>2. (\A a \in Hundredths(maxs) : \E g \in ages : 10 * g =< a) <=> (\A y \in maxs : \E g \in ages : 10 * g =< 100 * y)
    BY Zenon DEF Hundredths
  <2>3. QED BY <2>1, <2>2
<1>6. QED BY <1>2, <1>4, <1>5 DEF AgeWithin, ages

(* The rating shown for a role is of that role. *)
LEMMA ResultRole ==
  ASSUME NEW d, NEW f, NEW p, NEW role, f.role = {role}, NEW r \in Candidate(d, f, p).result
  PROVE  r.role = role
<1>1. The(f.role) = role BY DEF The
<1>2. f.role # {} OBVIOUS
<1>3. r \in SelectedRating(d, p, f.season, role) BY <1>1, <1>2 DEF Candidate
<1>4. QED BY <1>3 DEF SelectedRating

(* Who qualifies has a card that meets the request. *)
LEMMA QualifiedMeets ==
  ASSUME NEW k, Proper(k), NEW season, EndDates(season.end), NEW d, NEW p, NEW badges,
         BirthDates(d.players[p].birth),
         Qualifies(Candidate(d, Resolved(Query(k), season), p), Resolved(Query(k), season))
  PROVE  CardMeets(CardFromRow(Candidate(d, Resolved(Query(k), season), p), badges, Resolved(Query(k), season)), k)
<1>1. PICK f : f = Resolved(Query(k), season) OBVIOUS
<1>2. PICK row : row = Candidate(d, f, p) OBVIOUS
<1>3. PICK card : card = CardFromRow(row, badges, f) OBVIOUS
<1>4. Qualifies(row, f) BY <1>1, <1>2
<1>5. row.who = d.players[p] BY <1>2 DEF Candidate
<1>6. \A role \in Field(k, "role") : card.resultRole = {role}
  <2> TAKE role \in Field(k, "role")
  <2>1. f.role = {role} BY <1>1, ResolvedIs DEF Field
  <2>2. row.result # {} BY <1>4, <2>1 DEF Qualifies
  <2>3. \A r \in row.result : r.role = role BY <1>2, <2>1, ResultRole
  <2>4. card.resultRole = {r.role : r \in row.result} BY <1>3 DEF CardFromRow
  <2>5. QED BY <2>2, <2>3, <2>4
<1>7. f.scope = k.scope /\ InScope(row, f.scope) BY <1>1, <1>4, ResolvedIs DEF Qualifies
<1>8. k.scope = "analyzed" => card.bestRole # {}
  <2> HAVE k.scope = "analyzed"
  <2>1. row.best # {} BY <1>7 DEF InScope
  <2>2. card.bestRole = {r.role : r \in row.best} BY <1>3 DEF CardFromRow
  <2>3. QED BY <2>1, <2>2
<1>9. k.scope = "high_coverage_u23" => card.evidence = "high_coverage"
  <2> HAVE k.scope = "high_coverage_u23"
  <2>1. row.highCoverage BY <1>7 DEF InScope
  <2>2. row.highCoverage \in BOOLEAN BY <1>2 DEF Candidate
  <2>3. row.highCoverage = TRUE BY <2>1, <2>2
  <2>4. EvidenceStatus(row) = "high_coverage" BY <2>3 DEF EvidenceStatus
  <2>5. card.evidence = EvidenceStatus(row) BY <1>3 DEF CardFromRow
  <2>6. QED BY <2>4, <2>5
<1>10. Field(k, "position_group") \subseteq card.group
  <2>1. f.position_group = Field(k, "position_group") BY <1>1, ResolvedIs
  <2>2. \A g \in f.position_group : PositionGroup(row.appearance, row.who) = {g} BY <1>4 DEF Qualifies
  <2>3. card.group = PositionGroup(row.appearance, row.who) BY <1>3 DEF CardFromRow
  <2>4. QED BY <2>1, <2>2, <2>3
<1>11. /\ \A y \in Field(k, "age_min") : \E a \in card.age : a >= 10 * y
       /\ \A y \in Field(k, "age_max") : \E a \in card.age : a =< 10 * y
  <2>1. BornInWindow(row.who.birth, f.window) BY <1>4 DEF Qualifies
  <2>2. f.window = BirthDateWindow(season.end, Hundredths(Field(k, "age_min")), Hundredths(Field(k, "age_max")))
        /\ f.seasonEnd = season.end BY <1>1, ResolvedIs
  <2>3. card.age = AgeFor(row.who.birth, season.end) BY <1>3, <2>2 DEF CardFromRow, Age
  <2>4. QED BY <1>5, <2>1, <2>2, <2>3, YearsAre DEF Proper
<1>12. \A n \in Field(k, "min_minutes") : card.minutes >= n
  <2>1. f.min_minutes = Field(k, "min_minutes") BY <1>1, ResolvedIs
  <2>2. card.minutes = Minutes(row.appearance) BY <1>3 DEF CardFromRow
  <2>3. QED BY <1>4, <2>1, <2>2 DEF Qualifies
<1>13. /\ \A n \in Field(k, "rolefit_min") : \E s \in card.resultScore : s >= n
       /\ \A n \in Field(k, "rolefit_max") : \E s \in card.resultScore : s =< n
  <2>1. f.rolefit_min = Field(k, "rolefit_min") /\ f.rolefit_max = Field(k, "rolefit_max") BY <1>1, ResolvedIs
  <2>2. card.resultScore = Scores(row) BY <1>3 DEF CardFromRow
  <2>3. QED BY <1>4, <2>1, <2>2 DEF Qualifies
<1>14. /\ \A n \in Field(k, "value_min") : \E high \in card.high : high >= n
       /\ \A n \in Field(k, "value_max") : \E low \in card.low : low =< n
  <2>1. f.value_min = Field(k, "value_min") /\ f.value_max = Field(k, "value_max") BY <1>1, ResolvedIs
  <2>2. card.low = MarketField(row.market, "low") /\ card.high = MarketField(row.market, "high") BY <1>3 DEF CardFromRow
  <2>3. QED BY <1>4, <2>1, <2>2 DEF Qualifies
<1>15. CardMeets(card, k) BY <1>6, <1>8, <1>9, <1>10, <1>11, <1>12, <1>13, <1>14 DEF CardMeets
<1>16. QED BY <1>1, <1>2, <1>3, <1>15

(* The keys of rows are lists of as many numbers. *)
KeyLists(n) == [1 .. n -> Int]

(* Of two different lists of as many numbers one precedes the other. *)
LEMMA OrderIsTotal ==
  ASSUME NEW n \in Nat, NEW a \in KeyLists(n), NEW b \in KeyLists(n), a # b
  PROVE  Precedes(a, b) \/ Precedes(b, a)
<1> DEFINE T == {i \in 1 .. n : a[i] # b[i]}
<1>1. T # {} /\ T \subseteq Nat BY DEF KeyLists
<1>2. PICK i \in T : \A m \in T : i <= m BY <1>1, LeastNumber
<1>3. i \in 1 .. n /\ a[i] # b[i] /\ a[i] \in Int /\ b[i] \in Int /\ DOMAIN a = 1 .. n /\ DOMAIN b = 1 .. n
  BY <1>2 DEF KeyLists
<1>4. ASSUME NEW j \in 1 .. i - 1 PROVE a[j] = b[j]
  <2>1. j \in 1 .. n /\ ~(i <= j) BY <1>3
  <2>2. j \notin T BY <1>2, <2>1
  <2>3. QED BY <2>1, <2>2
<1> HIDE DEF T
<1>5. CASE a[i] < b[i] BY <1>3, <1>4, <1>5 DEF Precedes
<1>6. CASE b[i] < a[i] BY <1>3, <1>4, <1>6 DEF Precedes
<1>7. QED BY <1>3, <1>5, <1>6

(* No list precedes itself. *)
LEMMA OrderIsStrict ==
  ASSUME NEW n \in Nat, NEW a \in KeyLists(n)
  PROVE  ~Precedes(a, a)
BY DEF Precedes, KeyLists

(* The order of lists of numbers is transitive. *)
LEMMA OrderIsTransitive ==
  ASSUME NEW n \in Nat, NEW a \in KeyLists(n), NEW b \in KeyLists(n), NEW c \in KeyLists(n),
         Precedes(a, b), Precedes(b, c)
  PROVE  Precedes(a, c)
<1>1. DOMAIN a = 1 .. n /\ DOMAIN b = 1 .. n /\ \A i \in 1 .. n : a[i] \in Int /\ b[i] \in Int /\ c[i] \in Int
  BY DEF KeyLists
<1>2. PICK i \in 1 .. n : a[i] < b[i] /\ \A j \in 1 .. i - 1 : a[j] = b[j] BY <1>1 DEF Precedes
<1>3. PICK k \in 1 .. n : b[k] < c[k] /\ \A j \in 1 .. k - 1 : b[j] = c[j] BY <1>1 DEF Precedes
<1>4. CASE i <= k
  <2>1. a[i] < c[i]
    <3>1. CASE i = k BY <1>1, <1>2, <1>3, <3>1
    <3>2. CASE i < k
      <4>1. i \in 1 .. k - 1 BY <3>2
      <4>2. QED BY <4>1, <1>1, <1>2, <1>3
    <3>3. QED BY <1>4, <3>1, <3>2
  <2>2. ASSUME NEW j \in 1 .. i - 1 PROVE a[j] = c[j]
    <3>1. j \in 1 .. k - 1 BY <1>4
    <3>2. QED BY <3>1, <1>2, <1>3
  <2>3. QED BY <1>1, <2>1, <2>2 DEF Precedes
<1>5. CASE k < i
  <2>1. k \in 1 .. i - 1 BY <1>5
  <2>2. a[k] < c[k] BY <2>1, <1>1, <1>2, <1>3
  <2>3. ASSUME NEW j \in 1 .. k - 1 PROVE a[j] = c[j]
    <3>1. j \in 1 .. i - 1 BY <1>5
    <3>2. QED BY <3>1, <1>2, <1>3
  <2>4. QED BY <1>1, <2>2, <2>3 DEF Precedes
<1>6. QED BY <1>4, <1>5

(* The rows that come before one. *)
Earlier(rows, keys, row) == {o \in rows : Precedes(keys[o], keys[row])}

(* More rows come before the later of two. *)
LEMMA FewerBefore ==
  ASSUME NEW rows, IsFiniteSet(rows), NEW n \in Nat, NEW keys \in [rows -> KeyLists(n)],
         NEW r \in rows, NEW s \in rows, Precedes(keys[r], keys[s])
  PROVE  Cardinality(Earlier(rows, keys, r)) < Cardinality(Earlier(rows, keys, s))
<1> DEFINE before(x) == Earlier(rows, keys, x)
<1> USE DEF Earlier
<1>1. ASSUME NEW o \in before(r) PROVE o \in before(s) BY OrderIsTransitive
<1>2. r \in before(s) /\ r \notin before(r) BY OrderIsStrict
<1>3. before(r) \subseteq before(s) /\ before(r) # before(s) BY <1>1, <1>2
<1>4. IsFiniteSet(before(s)) BY FS_Subset
<1> HIDE DEF before, Earlier
<1>5. Cardinality(before(r)) < Cardinality(before(s)) BY <1>3, <1>4, FS_Subset, FS_CardinalityType
<1>6. QED BY <1>5 DEF before

(* The rows counted before each row of a finite set are its places in the order. *)
LEMMA OnePlaceEach ==
  ASSUME NEW rows, IsFiniteSet(rows), NEW n \in Nat, NEW keys \in [rows -> KeyLists(n)],
         \A r, s \in rows : r # s => keys[r] # keys[s],
         NEW i \in 1 .. Cardinality(rows)
  PROVE  \E r \in rows : Cardinality(Earlier(rows, keys, r)) = i - 1
<1> DEFINE before(r) == Earlier(rows, keys, r)
           rank == [r \in rows |-> Cardinality(before(r)) + 1]
           N == Cardinality(rows)
<1>1. N \in Nat BY FS_CardinalityType
<1>2. ASSUME NEW r \in rows
      PROVE  IsFiniteSet(before(r)) /\ Cardinality(before(r)) \in Nat /\ Cardinality(before(r)) < N
  <2>1. before(r) \subseteq rows /\ r \notin before(r) BY OrderIsStrict DEF Earlier
  <2>2. before(r) # rows BY <2>1
  <2>3. QED BY <2>1, <2>2, FS_Subset, FS_CardinalityType
<1>3. ASSUME NEW r \in rows, NEW s \in rows, Precedes(keys[r], keys[s])
      PROVE  Cardinality(before(r)) < Cardinality(before(s))
  BY <1>3, FewerBefore
<1>4. ASSUME NEW r \in rows, NEW s \in rows, r # s PROVE Cardinality(before(r)) # Cardinality(before(s))
  <2>1. Precedes(keys[r], keys[s]) \/ Precedes(keys[s], keys[r]) BY <1>4, OrderIsTotal
  <2> HIDE DEF before
  <2>2. QED BY <2>1, <1>2, <1>3
<1> HIDE DEF before
<1>5. rank \in Injection(rows, 1 .. N)
  <2>1. \A r \in rows : rank[r] \in 1 .. N BY <1>1, <1>2
  <2>2. \A r, s \in rows : rank[r] = rank[s] => r = s BY <1>2, <1>4
  <2> HIDE DEF rank
  <2>3. rank = [r \in rows |-> rank[r]] BY DEF rank
  <2>4. QED BY <2>1, <2>2, <2>3 DEF Injection, IsInjective
<1>6. IsFiniteSet(1 .. N) /\ Cardinality(1 .. N) = N
  BY <1>1, FS_Interval
<1> HIDE DEF rank
<1>7. rank \in Surjection(rows, 1 .. N) BY <1>5, <1>6, FS_Injection
<1>8. PICK r \in rows : rank[r] = i BY <1>7 DEF Surjection
<1>9. Cardinality(before(r)) = i - 1 BY <1>8, <1>2 DEF rank
<1>10. QED BY <1>9 DEF before

(* What the keys of a row are computed from, when the columns hold what they do. *)
Measured(c) ==
  /\ c.score \subseteq Int /\ c.asking_low \subseteq Int
  /\ c.age \subseteq UNKNOWN_AGE_DESC + 1 .. UNKNOWN_AGE_ASC - 1
  /\ c.name_key \in Int /\ c.player_id \in Int
  /\ c.confidence \subseteq DOMAIN CONFIDENCE_RANK /\ \A x, y \in c.confidence : x = y

(* What the database evaluates, key by key. *)
LEMMA KeyValues ==
  ASSUME NEW c
  PROVE  /\ KeyValue(RATED_FIRST, c) = IF c.score = {} THEN 1 ELSE 0
         /\ KeyValue(ROLEFIT_SCORE_DESC, c) = Or(c.score, 0) /\ KeyValue(ROLEFIT_SCORE_ASC, c) = Or(c.score, 0)
         /\ KeyValue(ROLEFIT_CONFIDENCE, c) = Or({CONFIDENCE_RANK[level] : level \in c.confidence}, 0)
         /\ KeyValue(AGE_ASC, c) = Or(c.age, UNKNOWN_AGE_ASC) /\ KeyValue(AGE_DESC, c) = Or(c.age, UNKNOWN_AGE_DESC)
         /\ KeyValue(PRICED_FIRST, c) = IF c.asking_low = {} THEN 1 ELSE 0
         /\ KeyValue(ASKING_LOW_DESC, c) = Or(c.asking_low, 0) /\ KeyValue(ASKING_LOW_ASC, c) = Or(c.asking_low, 0)
         /\ KeyValue(NAME_PRIMARY, c) = c.name_key /\ KeyValue(NAME_TIE_BREAK, c) = c.name_key
         /\ KeyValue(PLAYER_ID, c) = c.player_id
<1> USE DEF SortKey, RATED_FIRST, ROLEFIT_SCORE_DESC, ROLEFIT_SCORE_ASC, ROLEFIT_CONFIDENCE, AGE_ASC, AGE_DESC,
            PRICED_FIRST, ASKING_LOW_DESC, ASKING_LOW_ASC, NAME_PRIMARY, NAME_TIE_BREAK, PLAYER_ID
<1>1. KeyValue(RATED_FIRST, c) = IF c.score = {} THEN 1 ELSE 0 BY DEF KeyValue
<1>2. KeyValue(ROLEFIT_SCORE_DESC, c) = Or(c.score, 0) BY DEF KeyValue
<1>3. KeyValue(ROLEFIT_SCORE_ASC, c) = Or(c.score, 0) BY DEF KeyValue
<1>4. KeyValue(ROLEFIT_CONFIDENCE, c) = Or({CONFIDENCE_RANK[level] : level \in c.confidence}, 0) BY DEF KeyValue
<1>5. KeyValue(AGE_ASC, c) = Or(c.age, UNKNOWN_AGE_ASC) BY DEF KeyValue
<1>6. KeyValue(AGE_DESC, c) = Or(c.age, UNKNOWN_AGE_DESC) BY DEF KeyValue
<1>7. KeyValue(PRICED_FIRST, c) = IF c.asking_low = {} THEN 1 ELSE 0 BY DEF KeyValue
<1>8. KeyValue(ASKING_LOW_DESC, c) = Or(c.asking_low, 0) BY DEF KeyValue
<1>9. KeyValue(ASKING_LOW_ASC, c) = Or(c.asking_low, 0) BY DEF KeyValue
<1>10. KeyValue(NAME_PRIMARY, c) = c.name_key BY DEF KeyValue
<1>11. KeyValue(NAME_TIE_BREAK, c) = c.name_key BY DEF KeyValue
<1>12. KeyValue(PLAYER_ID, c) = c.player_id BY DEF KeyValue
<1>13. QED BY <1>1, <1>2, <1>3, <1>4, <1>5, <1>6, <1>7, <1>8, <1>9, <1>10, <1>11, <1>12
         DEF SortKey

AllKeys == {RATED_FIRST, ROLEFIT_SCORE_DESC, ROLEFIT_SCORE_ASC, ROLEFIT_CONFIDENCE, AGE_ASC, AGE_DESC, PRICED_FIRST,
            ASKING_LOW_DESC, ASKING_LOW_ASC, NAME_PRIMARY, NAME_TIE_BREAK, PLAYER_ID}

(* Every key of a measured row has a number as its value. *)
LEMMA ValuesAreNumbers ==
  ASSUME NEW c, Measured(c), NEW key \in AllKeys
  PROVE  KeyValue(key, c) \in Int
<1>1. Or(c.score, 0) \in Int /\ Or(c.asking_low, 0) \in Int BY DEF Measured, Or, The
<1>2. Or(c.age, UNKNOWN_AGE_ASC) \in Int /\ Or(c.age, UNKNOWN_AGE_DESC) \in Int
  <2>1. c.age \subseteq UNKNOWN_AGE_DESC + 1 .. UNKNOWN_AGE_ASC - 1 BY DEF Measured
  <2>3. c.age \subseteq Int BY <2>1
  <2>2. QED BY <2>3 DEF Or, The, UNKNOWN_AGE_DESC, UNKNOWN_AGE_ASC
<1>3. {CONFIDENCE_RANK[level] : level \in c.confidence} \subseteq Int BY DEF Measured, CONFIDENCE_RANK
<1>4. Or({CONFIDENCE_RANK[level] : level \in c.confidence}, 0) \in Int BY <1>3 DEF Or, The
<1>5. c.name_key \in Int /\ c.player_id \in Int BY DEF Measured
<1>6. QED BY <1>1, <1>2, <1>4, <1>5, KeyValues DEF AllKeys

(* The specification of an order: a measure that may be unknown comes after the placement
   of what is known, ages have sentinels instead, and the player number decides at last. *)
LEMMA SpecIs ==
  ASSUME NEW sort \in SEARCH_SORTS, NEW i \in DOMAIN SORT_SPECS[sort]
  PROVE  /\ SORT_SPECS[sort][i] \in AllKeys
         /\ SORT_SPECS[sort][i] \in {ROLEFIT_SCORE_DESC, ROLEFIT_SCORE_ASC} => i = 2 /\ SORT_SPECS[sort][1] = RATED_FIRST
         /\ SORT_SPECS[sort][i] \in {ASKING_LOW_DESC, ASKING_LOW_ASC} => i = 2 /\ SORT_SPECS[sort][1] = PRICED_FIRST
<1> USE DEF SortKey, RATED_FIRST, ROLEFIT_SCORE_DESC, ROLEFIT_SCORE_ASC, ROLEFIT_CONFIDENCE, AGE_ASC, AGE_DESC,
            PRICED_FIRST, ASKING_LOW_DESC, ASKING_LOW_ASC, NAME_PRIMARY, NAME_TIE_BREAK, PLAYER_ID
<1>1. CASE sort = "rolefit_desc" BY <1>1 DEF SORT_SPECS, AllKeys
<1>2. CASE sort = "rolefit_asc" BY <1>2 DEF SORT_SPECS, AllKeys
<1>3. CASE sort = "age_asc" BY <1>3 DEF SORT_SPECS, AllKeys
<1>4. CASE sort = "age_desc" BY <1>4 DEF SORT_SPECS, AllKeys
<1>5. CASE sort = "value_desc" BY <1>5 DEF SORT_SPECS, AllKeys
<1>6. CASE sort = "value_asc" BY <1>6 DEF SORT_SPECS, AllKeys
<1>7. CASE sort = "name_asc" BY <1>7 DEF SORT_SPECS, AllKeys
<1>8. QED BY <1>1, <1>2, <1>3, <1>4, <1>5, <1>6, <1>7 DEF SEARCH_SORTS

(* Every sort ends with the id of the player. *)
LEMMA SpecEnds ==
  ASSUME NEW sort \in SEARCH_SORTS
  PROVE  \E n \in Nat : DOMAIN SORT_SPECS[sort] = 1 .. n /\ n > 0 /\ SORT_SPECS[sort][n] = PLAYER_ID
<1>1. CASE sort \in {"rolefit_desc", "rolefit_asc"}
  <2>1. DOMAIN SORT_SPECS[sort] = 1 .. 5 /\ SORT_SPECS[sort][5] = PLAYER_ID BY <1>1 DEF SORT_SPECS
  <2>2. QED BY <2>1
<1>2. CASE sort \in {"value_desc", "value_asc"}
  <2>1. DOMAIN SORT_SPECS[sort] = 1 .. 4 /\ SORT_SPECS[sort][4] = PLAYER_ID BY <1>2 DEF SORT_SPECS
  <2>2. QED BY <2>1
<1>3. CASE sort \in {"age_asc", "age_desc"}
  <2>1. DOMAIN SORT_SPECS[sort] = 1 .. 3 /\ SORT_SPECS[sort][3] = PLAYER_ID BY <1>3 DEF SORT_SPECS
  <2>2. QED BY <2>1
<1>4. CASE sort = "name_asc"
  <2>1. DOMAIN SORT_SPECS[sort] = 1 .. 2 /\ SORT_SPECS[sort][2] = PLAYER_ID BY <1>4 DEF SORT_SPECS
  <2>2. QED BY <2>1
<1>5. QED BY <1>1, <1>2, <1>3, <1>4 DEF SEARCH_SORTS

(* What a measured row is ordered by is a list of as many numbers as the sort
   has keys. *)
LEMMA OrderByIs ==
  ASSUME NEW c, Measured(c), NEW sort \in SEARCH_SORTS, NEW n \in Nat, DOMAIN SORT_SPECS[sort] = 1 .. n
  PROVE  OrderBy(c, sort) \in KeyLists(n)
<1>1. ASSUME NEW i \in 1 .. n PROVE KeyValue(SORT_SPECS[sort][i], c) \in Int
  BY SpecIs, ValuesAreNumbers
<1>2. \A i \in 1 .. n : (IF SORT_SPECS[sort][i].direction = "descending" THEN -KeyValue(SORT_SPECS[sort][i], c)
                         ELSE KeyValue(SORT_SPECS[sort][i], c)) \in Int BY <1>1
<1>3. OrderBy(c, sort) = [i \in 1 .. n |-> IF SORT_SPECS[sort][i].direction = "descending"
                                           THEN -KeyValue(SORT_SPECS[sort][i], c) ELSE KeyValue(SORT_SPECS[sort][i], c)]
  BY DEF OrderBy
<1>4. QED BY <1>2, <1>3 DEF KeyLists

(* Two players are never equal in every key. *)
LEMMA PlayersDiffer ==
  ASSUME NEW c, NEW d, c.player_id \in Int, d.player_id \in Int, c.player_id # d.player_id, NEW sort \in SEARCH_SORTS
  PROVE  OrderBy(c, sort) # OrderBy(d, sort)
<1>1. PICK n \in Nat : DOMAIN SORT_SPECS[sort] = 1 .. n /\ n > 0 /\ SORT_SPECS[sort][n] = PLAYER_ID BY SpecEnds
<1>2. PLAYER_ID.direction = "ascending" BY DEF PLAYER_ID, SortKey
<1>3. ASSUME NEW x PROVE OrderBy(x, sort)[n] = x.player_id
  <2>1. n \in DOMAIN SORT_SPECS[sort] BY <1>1
  <2>2. KeyValue(SORT_SPECS[sort][n], x) = x.player_id BY <1>1, KeyValues
  <2>3. SORT_SPECS[sort][n].direction # "descending" BY <1>1, <1>2
  <2>4. QED BY <2>1, <2>2, <2>3 DEF OrderBy
<1>4. QED BY <1>3

(* The order of rows of different players: there is one, and it is that of their keys. *)
LEMMA OrdersAre ==
  ASSUME NEW rows, IsFiniteSet(rows), NEW f, NEW sort \in SEARCH_SORTS,
         \A r \in rows : Measured(SortContext(r, f)),
         \A r, s \in rows : r # s => r.player # s.player,
         NEW s \in Orders(rows, f, sort)
  PROVE  /\ s \in Seq(rows) /\ Len(s) = Cardinality(rows) /\ Cardinality(rows) \in Nat
         /\ \A i, j \in 1 .. Len(s) : i < j => Precedes(OrderBy(SortContext(s[i], f), sort), OrderBy(SortContext(s[j], f), sort))
<1> DEFINE keys == [row \in rows |-> OrderBy(SortContext(row, f), sort)]
           before(row) == Earlier(rows, keys, row)
           N == Cardinality(rows)
           at(i) == CHOOSE row \in rows : Cardinality(before(row)) = i - 1
<1>1. PICK n \in Nat : DOMAIN SORT_SPECS[sort] = 1 .. n BY SpecEnds
<1>2. keys \in [rows -> KeyLists(n)] BY <1>1, OrderByIs
<1>3. ASSUME NEW r \in rows, NEW o \in rows, r # o PROVE keys[r] # keys[o]
  <2>1. /\ SortContext(r, f).player_id = r.player /\ SortContext(o, f).player_id = o.player BY DEF SortContext
  <2>2. r.player \in Int /\ o.player \in Int BY <2>1 DEF Measured
  <2>3. OrderBy(SortContext(r, f), sort) # OrderBy(SortContext(o, f), sort) BY <1>3, <2>1, <2>2, PlayersDiffer
  <2>4. QED BY <2>3
<1>4. Orders(rows, f, sort) = {[i \in 1 .. N |-> at(i)]} BY <1>3 DEF Orders, Earlier
<1>5. s = [i \in 1 .. N |-> at(i)] BY <1>4
<1> HIDE DEF keys
<1>6. N \in Nat BY FS_CardinalityType
<1>7. ASSUME NEW i \in 1 .. N PROVE at(i) \in rows /\ Cardinality(before(at(i))) = i - 1
  <2>1. \E r \in rows : Cardinality(before(r)) = i - 1
    <3>1. \A r, o \in rows : r # o => keys[r] # keys[o] BY <1>3
    <3>2. QED BY <3>1, <1>2, OnePlaceEach
  <2> HIDE DEF before
  <2>2. QED BY <2>1
<1> HIDE DEF at, before, N
<1>8. s \in Seq(rows) /\ Len(s) = N /\ \A i \in 1 .. N : s[i] \in rows /\ Cardinality(before(s[i])) = i - 1
  BY <1>5, <1>6, <1>7
<1>9. ASSUME NEW i \in 1 .. N, NEW j \in 1 .. N, i < j PROVE Precedes(keys[s[i]], keys[s[j]])
  <2>1. s[i] # s[j] BY <1>8, <1>9
  <2>2. keys[s[i]] # keys[s[j]] BY <1>3, <1>8, <2>1
  <2>3. keys[s[i]] \in KeyLists(n) /\ keys[s[j]] \in KeyLists(n) BY <1>2, <1>8
  <2>4. Precedes(keys[s[i]], keys[s[j]]) \/ Precedes(keys[s[j]], keys[s[i]]) BY <2>2, <2>3, OrderIsTotal
  <2>5. ~Precedes(keys[s[j]], keys[s[i]])
    <3>1. SUFFICES ASSUME Precedes(keys[s[j]], keys[s[i]]) PROVE FALSE OBVIOUS
    <3>2. Cardinality(before(s[j])) < Cardinality(before(s[i])) BY <3>1, <1>2, <1>8, FewerBefore DEF before
    <3>3. QED BY <3>2, <1>8, <1>9
  <2>6. QED BY <2>4, <2>5
<1>10. QED BY <1>6, <1>8, <1>9 DEF keys, N

(* A key as the database sorts by it. *)
Sorted(key, c) == IF key.direction = "descending" THEN -KeyValue(key, c) ELSE KeyValue(key, c)

(* A card that shows what the keys of its row are computed from. *)
Tells(card, c) ==
  /\ card.resultScore = c.score /\ card.age = c.age /\ card.low = c.asking_low
  /\ card.nameRank = c.name_key /\ card.id = c.player_id /\ card.confidence = Or(c.confidence, "unknown")

(* What a card that tells of a row shows of each key. *)
LEMMA ShownIs ==
  ASSUME NEW card, NEW c, Tells(card, c)
  PROVE  /\ \A key \in {RATED_FIRST, ROLEFIT_SCORE_DESC, ROLEFIT_SCORE_ASC} : ShownFor(card, key) = c.score
         /\ ShownFor(card, ROLEFIT_CONFIDENCE) = {CONFIDENCE_RANK[Or(c.confidence, "unknown")]}
         /\ \A key \in {AGE_ASC, AGE_DESC} : ShownFor(card, key) = c.age
         /\ \A key \in {PRICED_FIRST, ASKING_LOW_DESC, ASKING_LOW_ASC} : ShownFor(card, key) = c.asking_low
         /\ \A key \in {NAME_PRIMARY, NAME_TIE_BREAK} : ShownFor(card, key) = {c.name_key}
         /\ ShownFor(card, PLAYER_ID) = {c.player_id}
<1>1. ASSUME NEW key, key.unit \in {"rolefit_score", "rating_status"} PROVE ShownFor(card, key) = c.score
  BY <1>1 DEF ShownFor, Tells
<1>2. ASSUME NEW key, key.unit = "confidence" PROVE ShownFor(card, key) = {CONFIDENCE_RANK[Or(c.confidence, "unknown")]}
  BY <1>2 DEF ShownFor, Tells
<1>3. ASSUME NEW key, key.unit = "age_years" PROVE ShownFor(card, key) = c.age
  BY <1>3 DEF ShownFor, Tells
<1>4. ASSUME NEW key, key.unit \in {"eur", "price_status"} PROVE ShownFor(card, key) = c.asking_low
  BY <1>4 DEF ShownFor, Tells
<1>5. ASSUME NEW key, key.unit = "name" PROVE ShownFor(card, key) = {c.name_key}
  BY <1>5 DEF ShownFor, Tells
<1>6. ASSUME NEW key, key.unit = "player_id" PROVE ShownFor(card, key) = {c.player_id}
  BY <1>6 DEF ShownFor, Tells
<1>7. /\ RATED_FIRST.unit = "rating_status" /\ ROLEFIT_SCORE_DESC.unit = "rolefit_score" /\ ROLEFIT_SCORE_ASC.unit = "rolefit_score"
      /\ ROLEFIT_CONFIDENCE.unit = "confidence" /\ AGE_ASC.unit = "age_years" /\ AGE_DESC.unit = "age_years"
      /\ PRICED_FIRST.unit = "price_status" /\ ASKING_LOW_DESC.unit = "eur" /\ ASKING_LOW_ASC.unit = "eur"
      /\ NAME_PRIMARY.unit = "name" /\ NAME_TIE_BREAK.unit = "name" /\ PLAYER_ID.unit = "player_id"
  BY DEF SortKey, RATED_FIRST, ROLEFIT_SCORE_DESC, ROLEFIT_SCORE_ASC, ROLEFIT_CONFIDENCE, AGE_ASC, AGE_DESC,
         PRICED_FIRST, ASKING_LOW_DESC, ASKING_LOW_ASC, NAME_PRIMARY, NAME_TIE_BREAK, PLAYER_ID
<1>8. QED BY <1>1, <1>2, <1>3, <1>4, <1>5, <1>6, <1>7

(* Two cards that know as much of a measure. *)
LEMMA MeasureTells ==
  ASSUME NEW key, key.role # "placement", key.direction \in {"ascending", "descending"}, NEW a, NEW b,
         ShownFor(a, key) \subseteq Int, ShownFor(b, key) \subseteq Int,
         ShownFor(a, key) = {} <=> ShownFor(b, key) = {},
         NEW c, NEW d, NEW default \in Int,
         KeyValue(key, c) = Or(ShownFor(a, key), default), KeyValue(key, d) = Or(ShownFor(b, key), default)
  PROVE  /\ Sorted(key, c) < Sorted(key, d) => Before(key, a, b)
         /\ Sorted(key, c) = Sorted(key, d) => ~Before(key, b, a)
<1> PICK x, y : x = ShownFor(a, key) /\ y = ShownFor(b, key) OBVIOUS
<1>1. CASE x = {}
  <2>1. y = {} /\ Sorted(key, c) = Sorted(key, d) BY <1>1 DEF Sorted
  <2>2. KeyValue(key, c) \in Int /\ Sorted(key, c) \in Int BY <1>1 DEF Sorted, Or
  <2>3. QED BY <1>1, <2>1, <2>2 DEF Before
<1>2. CASE x # {}
  <2>1. y # {} /\ KeyValue(key, c) = The(x) /\ KeyValue(key, d) = The(y) BY <1>2 DEF Or
  <2>2. The(x) \in Int /\ The(y) \in Int BY <1>2, <2>1 DEF The
  <2>3. CASE key.direction = "ascending" BY <1>2, <2>1, <2>2, <2>3 DEF Before, Sorted
  <2>4. CASE key.direction = "descending" BY <1>2, <2>1, <2>2, <2>4 DEF Before, Sorted
  <2>5. QED BY <2>3, <2>4
<1>3. QED BY <1>1, <1>2

(* The placement of what is known. *)
LEMMA PlacementTells ==
  ASSUME NEW key, key.role = "placement", key.direction = "ascending", NEW a, NEW b, NEW c, NEW d,
         KeyValue(key, c) = IF ShownFor(a, key) = {} THEN 1 ELSE 0,
         KeyValue(key, d) = IF ShownFor(b, key) = {} THEN 1 ELSE 0
  PROVE  /\ Sorted(key, c) < Sorted(key, d) => Before(key, a, b)
         /\ Sorted(key, c) = Sorted(key, d) => ~Before(key, b, a) /\ (ShownFor(a, key) = {} <=> ShownFor(b, key) = {})
BY DEF Before, Sorted

(* An age that is not known comes last, whichever way ages go. *)
LEMMA AgeTells ==
  ASSUME NEW key \in {AGE_ASC, AGE_DESC}, NEW c, Measured(c), NEW d, Measured(d), NEW a, Tells(a, c), NEW b, Tells(b, d)
  PROVE  /\ Sorted(key, c) < Sorted(key, d) => Before(key, a, b)
         /\ Sorted(key, c) = Sorted(key, d) => ~Before(key, b, a)
<1>1. /\ key.role = "measure" /\ key.direction = (IF key = AGE_ASC THEN "ascending" ELSE "descending")
      /\ key = AGE_ASC => key.direction = "ascending" /\ key # AGE_DESC
  BY DEF AGE_ASC, AGE_DESC, SortKey
<1> DEFINE none == IF key = AGE_ASC THEN UNKNOWN_AGE_ASC ELSE UNKNOWN_AGE_DESC
<1>2. ShownFor(a, key) = c.age /\ ShownFor(b, key) = d.age BY ShownIs
<1>3. KeyValue(key, c) = Or(c.age, none) /\ KeyValue(key, d) = Or(d.age, none) BY KeyValues
<1>4. none \in Int BY DEF UNKNOWN_AGE_ASC, UNKNOWN_AGE_DESC
<1>5. c.age \subseteq UNKNOWN_AGE_DESC + 1 .. UNKNOWN_AGE_ASC - 1 /\ d.age \subseteq UNKNOWN_AGE_DESC + 1 .. UNKNOWN_AGE_ASC - 1
  BY DEF Measured
<1>6. c.age \subseteq Int /\ d.age \subseteq Int BY <1>5
<1>7. CASE c.age = {} <=> d.age = {} BY <1>1, <1>2, <1>3, <1>4, <1>6, <1>7, MeasureTells
<1>8. CASE c.age = {} /\ d.age # {}
  <2>1. The(d.age) \in d.age BY <1>8 DEF The
  <2>2. KeyValue(key, c) = none /\ KeyValue(key, d) = The(d.age) BY <1>3, <1>8 DEF Or
  <2>3. Sorted(key, d) < Sorted(key, c) /\ Sorted(key, c) \in Int /\ Sorted(key, d) \in Int
    <3>1. CASE key = AGE_ASC
      <4>1. KeyValue(key, c) = 9990 /\ KeyValue(key, d) \in Int /\ KeyValue(key, d) < 9990
        BY <3>1, <1>5, <2>1, <2>2 DEF UNKNOWN_AGE_ASC
      <4>2. QED BY <3>1, <4>1, <1>1 DEF Sorted
    <3>2. CASE key # AGE_ASC
      <4>1. KeyValue(key, c) = -10 /\ KeyValue(key, d) \in Int /\ KeyValue(key, d) > -10
        BY <3>2, <1>5, <2>1, <2>2 DEF UNKNOWN_AGE_DESC
      <4>2. QED BY <3>2, <4>1, <1>1 DEF Sorted
    <3>3. QED BY <3>1, <3>2
  <2>4. QED BY <2>3
<1>9. CASE c.age # {} /\ d.age = {}
  <2>1. The(c.age) \in c.age BY <1>9 DEF The
  <2>2. KeyValue(key, d) = none /\ KeyValue(key, c) = The(c.age) BY <1>3, <1>9 DEF Or
  <2>3. Sorted(key, c) < Sorted(key, d) /\ Sorted(key, c) \in Int /\ Sorted(key, d) \in Int
    <3>1. CASE key = AGE_ASC
      <4>1. KeyValue(key, d) = 9990 /\ KeyValue(key, c) \in Int /\ KeyValue(key, c) < 9990
        BY <3>1, <1>5, <2>1, <2>2 DEF UNKNOWN_AGE_ASC
      <4>2. QED BY <3>1, <4>1, <1>1 DEF Sorted
    <3>2. CASE key # AGE_ASC
      <4>1. KeyValue(key, d) = -10 /\ KeyValue(key, c) \in Int /\ KeyValue(key, c) > -10
        BY <3>2, <1>5, <2>1, <2>2 DEF UNKNOWN_AGE_DESC
      <4>2. QED BY <3>2, <4>1, <1>1 DEF Sorted
    <3>3. QED BY <3>1, <3>2
  <2>4. Before(key, a, b) BY <1>2, <1>9 DEF Before
  <2>5. QED BY <2>3, <2>4
<1>10. QED BY <1>7, <1>8, <1>9

(* A confidence is one of the levels, or unknown. *)
LEMMA ConfidenceTells ==
  ASSUME NEW c, Measured(c)
  PROVE  /\ Or({CONFIDENCE_RANK[level] : level \in c.confidence}, 0) = CONFIDENCE_RANK[Or(c.confidence, "unknown")]
         /\ CONFIDENCE_RANK[Or(c.confidence, "unknown")] \in Int
<1>1. CASE c.confidence = {} BY <1>1 DEF Or, CONFIDENCE_RANK
<1>2. CASE c.confidence # {}
  <2>1. PICK x : x \in c.confidence /\ c.confidence = {x} /\ x \in DOMAIN CONFIDENCE_RANK BY <1>2 DEF Measured
  <2>2. {CONFIDENCE_RANK[level] : level \in c.confidence} = {CONFIDENCE_RANK[x]} BY <2>1
  <2>3. The({CONFIDENCE_RANK[x]}) = CONFIDENCE_RANK[x] /\ The(c.confidence) = x BY <2>1 DEF The
  <2>4. CONFIDENCE_RANK[x] \in Int BY <2>1 DEF CONFIDENCE_RANK
  <2>5. QED BY <2>1, <2>2, <2>3, <2>4 DEF Or
<1>3. QED BY <1>1, <1>2

(* A placement, and a measure, is computed from what the card shows. *)
LEMMA PlacementShown ==
  ASSUME NEW key \in {RATED_FIRST, PRICED_FIRST}, NEW c, NEW card, Tells(card, c)
  PROVE  KeyValue(key, c) = IF ShownFor(card, key) = {} THEN 1 ELSE 0
<1>1. CASE key = RATED_FIRST
  <2>1. KeyValue(RATED_FIRST, c) = IF c.score = {} THEN 1 ELSE 0 BY KeyValues
  <2>2. ShownFor(card, RATED_FIRST) = c.score BY ShownIs
  <2>3. QED BY <1>1, <2>1, <2>2
<1>2. CASE key = PRICED_FIRST
  <2>1. KeyValue(PRICED_FIRST, c) = IF c.asking_low = {} THEN 1 ELSE 0 BY KeyValues
  <2>2. ShownFor(card, PRICED_FIRST) = c.asking_low BY ShownIs
  <2>3. QED BY <1>2, <2>1, <2>2
<1>3. QED BY <1>1, <1>2

(* Where no unknown is set apart, a key sorts by what the card shows, or by
   zero. *)
LEMMA MeasureShown ==
  ASSUME NEW key \in AllKeys \ {RATED_FIRST, PRICED_FIRST, AGE_ASC, AGE_DESC}, NEW c, Measured(c), NEW card, Tells(card, c)
  PROVE  KeyValue(key, c) = Or(ShownFor(card, key), 0) /\ ShownFor(card, key) \subseteq Int
<1>0. \A v : Or({v}, 0) = v BY DEF Or, The
<1>1. CASE key \in {ROLEFIT_SCORE_DESC, ROLEFIT_SCORE_ASC}
  <2>1. KeyValue(key, c) = Or(c.score, 0) BY <1>1, KeyValues
  <2>2. ShownFor(card, key) = c.score BY <1>1, ShownIs
  <2>3. QED BY <2>1, <2>2 DEF Measured
<1>2. CASE key \in {ASKING_LOW_DESC, ASKING_LOW_ASC}
  <2>1. KeyValue(key, c) = Or(c.asking_low, 0) BY <1>2, KeyValues
  <2>2. ShownFor(card, key) = c.asking_low BY <1>2, ShownIs
  <2>3. QED BY <2>1, <2>2 DEF Measured
<1>3. CASE key = ROLEFIT_CONFIDENCE
  <2>1. KeyValue(key, c) = Or({CONFIDENCE_RANK[level] : level \in c.confidence}, 0) BY <1>3, KeyValues
  <2>2. ShownFor(card, key) = {CONFIDENCE_RANK[Or(c.confidence, "unknown")]} BY <1>3, ShownIs
  <2>3. Or(ShownFor(card, key), 0) = CONFIDENCE_RANK[Or(c.confidence, "unknown")] BY <1>0, <2>2
  <2>4. QED BY <2>1, <2>2, <2>3, ConfidenceTells
<1>4. CASE key \in {NAME_PRIMARY, NAME_TIE_BREAK}
  <2>1. KeyValue(key, c) = c.name_key BY <1>4, KeyValues
  <2>2. ShownFor(card, key) = {c.name_key} BY <1>4, ShownIs
  <2>3. Or(ShownFor(card, key), 0) = c.name_key BY <1>0, <2>2
  <2>4. QED BY <2>1, <2>2, <2>3 DEF Measured
<1>5. CASE key = PLAYER_ID
  <2>1. KeyValue(key, c) = c.player_id BY <1>5, KeyValues
  <2>2. ShownFor(card, key) = {c.player_id} BY <1>5, ShownIs
  <2>3. Or(ShownFor(card, key), 0) = c.player_id BY <1>0, <2>2
  <2>4. QED BY <2>1, <2>2, <2>3 DEF Measured
<1>6. QED BY <1>1, <1>2, <1>3, <1>4, <1>5 DEF AllKeys

(* Every key is read off the cards as the database compares it, a measure where as much of it is known. *)
LEMMA KeyTells ==
  ASSUME NEW key \in AllKeys, NEW c, Measured(c), NEW d, Measured(d), NEW a, Tells(a, c), NEW b, Tells(b, d),
         key \in {ROLEFIT_SCORE_DESC, ROLEFIT_SCORE_ASC} => (c.score = {} <=> d.score = {}),
         key \in {ASKING_LOW_DESC, ASKING_LOW_ASC} => (c.asking_low = {} <=> d.asking_low = {})
  PROVE  /\ Sorted(key, c) < Sorted(key, d) => Before(key, a, b)
         /\ Sorted(key, c) = Sorted(key, d) => ~Before(key, b, a)
<1>1. CASE key \in {RATED_FIRST, PRICED_FIRST}
  <2>1. key.role = "placement" /\ key.direction = "ascending" BY <1>1 DEF RATED_FIRST, PRICED_FIRST, SortKey
  <2>2. /\ KeyValue(key, c) = IF ShownFor(a, key) = {} THEN 1 ELSE 0
        /\ KeyValue(key, d) = IF ShownFor(b, key) = {} THEN 1 ELSE 0
    BY <1>1, PlacementShown
  <2>3. QED BY <2>1, <2>2, PlacementTells
<1>2. CASE key \in AllKeys \ {RATED_FIRST, PRICED_FIRST, AGE_ASC, AGE_DESC}
  <2>1. key.role # "placement" /\ key.direction \in {"ascending", "descending"}
    BY <1>2 DEF AllKeys, SortKey, ROLEFIT_SCORE_DESC, ROLEFIT_SCORE_ASC, ASKING_LOW_DESC, ASKING_LOW_ASC,
                ROLEFIT_CONFIDENCE, NAME_PRIMARY, NAME_TIE_BREAK, PLAYER_ID
  <2>2. /\ KeyValue(key, c) = Or(ShownFor(a, key), 0) /\ ShownFor(a, key) \subseteq Int
        /\ KeyValue(key, d) = Or(ShownFor(b, key), 0) /\ ShownFor(b, key) \subseteq Int
    BY <1>2, MeasureShown
  <2>3. ShownFor(a, key) = {} <=> ShownFor(b, key) = {}
    <3>1. CASE key \in {ROLEFIT_SCORE_DESC, ROLEFIT_SCORE_ASC}
      <4>1. ShownFor(a, key) = c.score /\ ShownFor(b, key) = d.score BY <3>1, ShownIs
      <4>2. QED BY <3>1, <4>1
    <3>2. CASE key \in {ASKING_LOW_DESC, ASKING_LOW_ASC}
      <4>1. ShownFor(a, key) = c.asking_low /\ ShownFor(b, key) = d.asking_low BY <3>2, ShownIs
      <4>2. QED BY <3>2, <4>1
    <3>3. CASE key \in {ROLEFIT_CONFIDENCE, NAME_PRIMARY, NAME_TIE_BREAK, PLAYER_ID}
      <4>1. ShownFor(a, key) # {} /\ ShownFor(b, key) # {} BY <3>3, ShownIs
      <4>2. QED BY <4>1
    <3>4. QED BY <1>2, <3>1, <3>2, <3>3 DEF AllKeys
  <2>4. QED BY <2>1, <2>2, <2>3, MeasureTells
<1>5. CASE key \in {AGE_ASC, AGE_DESC} BY <1>5, AgeTells
<1>6. QED BY <1>1, <1>2, <1>5

(* The order of the database is the order the explanation states, read off the cards. *)
LEMMA OrderTells ==
  ASSUME NEW sort \in SEARCH_SORTS, NEW c, Measured(c), NEW d, Measured(d), NEW a, Tells(a, c), NEW b, Tells(b, d),
         Precedes(OrderBy(c, sort), OrderBy(d, sort))
  PROVE  ExplainedBefore(a, b, SORT_SPECS[sort])
<1> DEFINE keys == SORT_SPECS[sort]
<1>1. PICK n \in Nat : DOMAIN keys = 1 .. n BY SpecEnds
<1>2. OrderBy(c, sort) \in KeyLists(n) /\ OrderBy(d, sort) \in KeyLists(n) BY <1>1, OrderByIs
<1>3. \A j \in 1 .. n : OrderBy(c, sort)[j] = Sorted(keys[j], c) /\ OrderBy(d, sort)[j] = Sorted(keys[j], d)
  BY <1>1 DEF OrderBy, Sorted
<1>4. PICK i \in 1 .. n : /\ OrderBy(c, sort)[i] < OrderBy(d, sort)[i]
                          /\ \A j \in 1 .. i - 1 : OrderBy(c, sort)[j] = OrderBy(d, sort)[j]
  <2>1. DOMAIN OrderBy(c, sort) = 1 .. n BY <1>2 DEF KeyLists
  <2>2. QED BY <2>1 DEF Precedes
<1>5. Sorted(keys[i], c) < Sorted(keys[i], d) BY <1>3, <1>4
<1>6. \A j \in 1 .. i - 1 : j \in 1 .. n /\ Sorted(keys[j], c) = Sorted(keys[j], d) BY <1>3, <1>4
<1>7. ASSUME NEW j \in 1 .. i
      PROVE  /\ keys[j] \in AllKeys
             /\ keys[j] \in {ROLEFIT_SCORE_DESC, ROLEFIT_SCORE_ASC} => (c.score = {} <=> d.score = {})
             /\ keys[j] \in {ASKING_LOW_DESC, ASKING_LOW_ASC} => (c.asking_low = {} <=> d.asking_low = {})
  <2>1. j \in DOMAIN SORT_SPECS[sort] BY <1>1
  <2>2. ASSUME keys[1] = RATED_FIRST, j = 2 PROVE c.score = {} <=> d.score = {}
    <3>1. Sorted(RATED_FIRST, c) = Sorted(RATED_FIRST, d) BY <1>6, <2>2
    <3>2. RATED_FIRST.direction # "descending" BY DEF RATED_FIRST, SortKey
    <3>3. KeyValue(RATED_FIRST, c) = KeyValue(RATED_FIRST, d) BY <3>1, <3>2 DEF Sorted
    <3>4. KeyValue(RATED_FIRST, c) = IF c.score = {} THEN 1 ELSE 0 BY KeyValues
    <3>5. KeyValue(RATED_FIRST, d) = IF d.score = {} THEN 1 ELSE 0 BY KeyValues
    <3>6. 0 # 1 OBVIOUS
    <3>7. QED BY Zenon, <3>3, <3>4, <3>5, <3>6
  <2>3. ASSUME keys[1] = PRICED_FIRST, j = 2 PROVE c.asking_low = {} <=> d.asking_low = {}
    <3>1. Sorted(PRICED_FIRST, c) = Sorted(PRICED_FIRST, d) BY <1>6, <2>3
    <3>2. PRICED_FIRST.direction # "descending" BY DEF PRICED_FIRST, SortKey
    <3>3. KeyValue(PRICED_FIRST, c) = KeyValue(PRICED_FIRST, d) BY <3>1, <3>2 DEF Sorted
    <3>4. KeyValue(PRICED_FIRST, c) = IF c.asking_low = {} THEN 1 ELSE 0 BY KeyValues
    <3>5. KeyValue(PRICED_FIRST, d) = IF d.asking_low = {} THEN 1 ELSE 0 BY KeyValues
    <3>6. 0 # 1 OBVIOUS
    <3>7. QED BY Zenon, <3>3, <3>4, <3>5, <3>6
  <2>4. QED BY <2>1, <2>2, <2>3, SpecIs
<1> HIDE DEF keys
<1>8. Before(keys[i], a, b) BY <1>5, <1>7, KeyTells
<1>9. ASSUME NEW j \in 1 .. i - 1 PROVE ~Before(keys[j], b, a)
  <2>1. j \in 1 .. i BY <1>9
  <2>2. QED BY <2>1, <1>6, <1>7, KeyTells
<1>10. ExplainedBefore(a, b, keys) BY <1>1, <1>8, <1>9 DEF ExplainedBefore
<1>11. QED BY <1>10 DEF keys

(* The best rating of a player is one, or none, and so is that in a role. *)
LEMMA OneResult ==
  ASSUME NEW d, Recorded(d), NEW p, NEW season, NEW role
  PROVE  /\ \A r, o \in BestRating(d, p, season) : r = o
         /\ \A r, o \in SelectedRating(d, p, season, role) : r = o
         /\ BestRating(d, p, season) \subseteq d.ratings /\ SelectedRating(d, p, season, role) \subseteq d.ratings
<1>1. /\ \A r \in d.ratings : r.id \in Int /\ r.score \in Int /\ r.role \in Range(RoleKeys)
      /\ \A r, o \in d.ratings : r.id = o.id => r = o
  BY DEF Recorded
<1>2. BestRating(d, p, season) \subseteq d.ratings /\ SelectedRating(d, p, season, role) \subseteq d.ratings
  BY DEF BestRating, SelectedRating, Of
<1>3. ASSUME NEW r \in d.ratings PROVE RoleRank(r.role) \in Int /\ RoleKeys[RoleRank(r.role)] = r.role
  <2>1. \E i \in DOMAIN RoleKeys : RoleKeys[i] = r.role BY <1>1 DEF Range
  <2>2. RoleRank(r.role) \in DOMAIN RoleKeys /\ RoleKeys[RoleRank(r.role)] = r.role BY <2>1 DEF RoleRank
  <2>3. QED BY <2>2, DatabasesAssumption, ListIs
<1>4. ASSUME NEW r \in BestRating(d, p, season), NEW o \in BestRating(d, p, season) PROVE r = o
  <2>1. /\ ~(o.score > r.score) /\ ~(o.score = r.score /\ RoleRank(o.role) < RoleRank(r.role))
        /\ ~(o.score = r.score /\ o.role = r.role /\ o.id < r.id)
        /\ ~(r.score > o.score) /\ ~(r.score = o.score /\ RoleRank(r.role) < RoleRank(o.role))
        /\ ~(r.score = o.score /\ r.role = o.role /\ r.id < o.id)
    BY DEF BestRating
  <2>2. r \in d.ratings /\ o \in d.ratings BY <1>2
  <2>3. r.score = o.score BY <2>1, <2>2, <1>1
  <2>4. RoleRank(r.role) = RoleRank(o.role) BY <2>1, <2>2, <2>3, <1>3
  <2>5. r.role = o.role BY <2>2, <2>4, <1>3
  <2>6. r.id = o.id BY <2>1, <2>2, <2>3, <2>5, <1>1
  <2>7. QED BY <2>2, <2>6, <1>1
<1>5. ASSUME NEW r \in SelectedRating(d, p, season, role), NEW o \in SelectedRating(d, p, season, role) PROVE r = o
  <2>1. ~(o.id < r.id) /\ ~(r.id < o.id) BY DEF SelectedRating
  <2>2. r \in d.ratings /\ o \in d.ratings BY <1>2
  <2>3. r.id = o.id BY <2>1, <2>2, <1>1
  <2>4. QED BY <2>2, <2>3, <1>1
<1>6. QED BY <1>2, <1>4, <1>5

(* What the browser asks the repository for, of a season some database has. *)
Filtered(k, f) ==
  \E d \in DOMAIN Databases : \E season \in Databases[d].seasons : f = Resolved(Query(k), season)

(* A row is of somebody some database knows. *)
LEMMA CandidateMeasured ==
  ASSUME NEW k, Proper(k), NEW f, Filtered(k, f), NEW e \in DOMAIN Databases, NEW p \in Int \cap DOMAIN Databases[e].players
  PROVE  Measured(SortContext(Candidate(Databases[e], f, p), f))
<1> DEFINE d == Databases[e]
           row == Candidate(d, f, p)
<1>1. Recorded(d) BY DatabasesAssumption
<1>2. row.who = d.players[p] /\ row.player = p /\ row.market = MarketRow(d, p, f.season)
      /\ row.result = IF f.role = {} THEN BestRating(d, p, f.season) ELSE SelectedRating(d, p, f.season, The(f.role))
  BY DEF Candidate
<1>3. row.result \subseteq d.ratings /\ \A r, o \in row.result : r = o BY <1>1, <1>2, OneResult
<1>4. row.market \subseteq d.markets BY <1>2 DEF MarketRow, Of
<1>5. AgeFor(row.who.birth, f.seasonEnd) \subseteq UNKNOWN_AGE_DESC + 1 .. UNKNOWN_AGE_ASC - 1
  <2>0. PICK b \in DOMAIN Databases : \E season \in Databases[b].seasons : f = Resolved(Query(k), season) BY DEF Filtered
  <2>1. PICK season \in Databases[b].seasons : f = Resolved(Query(k), season) BY <2>0
  <2>2. f.seasonEnd = season.end BY <2>1, ResolvedIs
  <2>3. Aged(Databases[b], Databases[e]) BY DatabasesAssumption
  <2>4. AgeFor(d.players[p].birth, season.end) \subseteq UNKNOWN_AGE_DESC + 1 .. UNKNOWN_AGE_ASC - 1 BY <2>3 DEF Aged
  <2>5. QED BY <1>2, <2>2, <2>4
<1> HIDE DEF row, d
<1> DEFINE c == SortContext(row, f)
<1>6. /\ c.score = {r.score : r \in row.result} /\ c.confidence = {r.confidence : r \in row.result}
      /\ c.age = AgeFor(row.who.birth, f.seasonEnd) /\ c.asking_low = UNION {m.low : m \in row.market}
      /\ c.name_key = row.who.nameRank /\ c.player_id = row.player
  BY DEF SortContext, Scores, Age, MarketField
<1> HIDE DEF c
<1>7. c.score \subseteq Int /\ c.confidence \subseteq DOMAIN CONFIDENCE_RANK BY <1>1, <1>3, <1>6 DEF Recorded
<1>8. \A x, y \in c.confidence : x = y BY <1>3, <1>6
<1>9. c.asking_low \subseteq Int BY <1>1, <1>4, <1>6 DEF Recorded
<1>10. c.name_key \in Int /\ c.player_id \in Int BY <1>1, <1>2, <1>6 DEF Recorded, d
<1>11. Measured(c) BY <1>5, <1>6, <1>7, <1>8, <1>9, <1>10 DEF Measured
<1>12. QED BY <1>11 DEF c, row, d

(* Its card tells what the keys are computed from. *)
LEMMA CardTells ==
  ASSUME NEW row, NEW badges, NEW f
  PROVE  Tells(CardFromRow(row, badges, f), SortContext(row, f))
BY DEF Tells, CardFromRow, SortContext

(* Candidates are finitely many, each of a player of its own. *)
LEMMA CandidatesAre ==
  ASSUME NEW e \in DOMAIN Databases, NEW f
  PROVE  /\ IsFiniteSet(Candidates(Databases[e], f))
         /\ \A r \in Candidates(Databases[e], f) :
              /\ r.player \in Int \cap DOMAIN Databases[e].players /\ r = Candidate(Databases[e], f, r.player)
              /\ Qualifies(r, f)
         /\ \A r, s \in Candidates(Databases[e], f) : r # s => r.player # s.player
<1> DEFINE d == Databases[e]
           shown == {b \in d.appearances : b.season = f.season}
           of == [a \in shown |-> Candidate(d, f, a.player)]
           all == {of[a] : a \in shown}
<1>1. Recorded(d) BY DatabasesAssumption
<1>2. IsFiniteSet(d.appearances) /\ \A a \in d.appearances : a.player \in Int \cap DOMAIN d.players BY <1>1 DEF Recorded
<1>3. IsFiniteSet(shown) BY <1>2, FS_Subset
<1>4. of \in Surjection(shown, all) BY DEF Surjection
<1>5. IsFiniteSet(all) BY <1>3, <1>4, FS_Surjection
<1>6. Candidates(d, f) \subseteq all /\ \A r \in Candidates(d, f) : Qualifies(r, f) BY DEF Candidates
<1>7. IsFiniteSet(Candidates(d, f)) BY <1>5, <1>6, FS_Subset
<1>8. ASSUME NEW r \in Candidates(d, f) PROVE r.player \in Int \cap DOMAIN d.players /\ r = Candidate(d, f, r.player)
  <2>1. PICK a \in shown : r = Candidate(d, f, a.player) BY <1>6
  <2>2. r.player = a.player BY <2>1 DEF Candidate
  <2>3. QED BY <2>1, <2>2, <1>2
<1>9. \A r, s \in Candidates(d, f) : r # s => r.player # s.player BY <1>8
<1>10. QED BY <1>6, <1>7, <1>8, <1>9

(* A page is a part of the order of the candidates of one database. *)
PageOf(e, f, sort, size, rows) ==
  /\ rows \in Seq(Candidates(Databases[e], f)) /\ Len(rows) =< size
  /\ \A i, j \in 1 .. Len(rows) :
       i < j => Precedes(OrderBy(SortContext(rows[i], f), sort), OrderBy(SortContext(rows[j], f), sort))

(* The rows fetched for a page are of the candidates, not too many, and in the
   order of the sort. *)
LEMMA PageIs ==
  ASSUME NEW k, Proper(k), NEW f, Filtered(k, f), NEW e \in DOMAIN Databases, NEW sort \in SEARCH_SORTS,
         NEW size \in Nat, NEW offset \in Nat, NEW rows \in FetchPage(Databases[e], f, sort, size, offset)
  PROVE  PageOf(e, f, sort, size, rows)
<1> DEFINE all == Candidates(Databases[e], f)
<1>1. PICK s \in Orders(all, f, sort) : rows = SubSeq(s, offset + 1, Min({offset + size, Len(s)})) BY DEF FetchPage
<1>2. \A r \in all : Measured(SortContext(r, f)) BY CandidatesAre, CandidateMeasured
<1>3. /\ s \in Seq(all) /\ Len(s) \in Nat
      /\ \A i, j \in 1 .. Len(s) : i < j => Precedes(OrderBy(SortContext(s[i], f), sort), OrderBy(SortContext(s[j], f), sort))
  <2>1. IsFiniteSet(all) /\ \A r, o \in all : r # o => r.player # o.player BY CandidatesAre
  <2> HIDE DEF all
  <2>2. QED BY <2>1, <1>1, <1>2, OrdersAre
<1> DEFINE last == Min({offset + size, Len(s)})
<1>4. last \in Int /\ last =< offset + size /\ last =< Len(s)
  <2>0. PICK T : T = {offset + size, Len(s)} OBVIOUS
  <2>1. T \subseteq Int /\ T # {} /\ 0 \in Int /\ \A x \in T : 0 =< x BY <2>0, <1>3
  <2>2. Min(T) \in T /\ \A x \in T : Min(T) =< x BY <2>1, LeastOf
  <2>3. last = Min(T) BY <2>0
  <2> HIDE DEF last
  <2>4. QED BY <2>0, <2>1, <2>2, <2>3
<1> HIDE DEF last, all
<1>5. \A i \in offset + 1 .. last : i \in 1 .. Len(s) /\ s[i] \in all BY <1>3, <1>4
<1>6. /\ rows \in Seq(all) /\ Len(rows) = (IF offset + 1 <= last THEN last - (offset + 1) + 1 ELSE 0)
      /\ \A i \in 1 .. last - (offset + 1) + 1 : rows[i] = s[offset + 1 + i - 1]
  <2>1. rows = SubSeq(s, offset + 1, last) BY <1>1 DEF last
  <2>2. offset + 1 \in Int /\ last \in Int BY <1>4
  <2>3. QED BY <2>1, <2>2, <1>5, SubSeqProperties
<1>7. Len(rows) \in Nat /\ Len(rows) =< size BY <1>4, <1>6
<1>8. ASSUME NEW i \in 1 .. Len(rows) PROVE rows[i] = s[offset + i] /\ offset + i \in 1 .. Len(s)
  <2>1. i \in 1 .. last - (offset + 1) + 1 /\ offset + 1 + i - 1 = offset + i BY <1>4, <1>6, <1>8
  <2>2. offset + i \in 1 .. Len(s) BY <2>1, <1>3, <1>4
  <2>3. QED BY <2>1, <2>2, <1>6
<1>9. ASSUME NEW i \in 1 .. Len(rows), NEW j \in 1 .. Len(rows), i < j
      PROVE  Precedes(OrderBy(SortContext(rows[i], f), sort), OrderBy(SortContext(rows[j], f), sort))
  <2>1. offset + i < offset + j BY <1>7, <1>9
  <2>2. QED BY <2>1, <1>3, <1>8
<1>10. QED BY <1>6, <1>7, <1>9 DEF PageOf, all

(* An answer whose cards meet the request. *)
Meets(k, r) ==
  /\ Len(r.items) =< k.page_size
  /\ \A i \in DOMAIN r.items : CardMeets(r.items[i], k)
  /\ \A i, j \in DOMAIN r.items : i < j => ExplainedBefore(r.items[i], r.items[j], r.ranking.keys)
  /\ RoleContextHolds(r.ranking.roleContext, r.items)

(* An answer without rows meets any request. *)
LEMMA EmptyMeets ==
  ASSUME NEW k, k.page_size \in Nat, NEW asOf
  PROVE  Meets(k, EmptyResponse(k, asOf))
<1>1. EmptyResponse(k, asOf).items = <<>> BY DEF EmptyResponse
<1>2. DOMAIN (<<>>) = {} /\ Len(<<>>) = 0 OBVIOUS
<1>3. QED BY <1>1, <1>2 DEF Meets, RoleContextHolds

(* The cards of fetched rows meet the request, in the order its explanation
   states. *)
LEMMA PageMeets ==
  ASSUME NEW k, Proper(k), Accepted(k), NEW f, Filtered(k, f), NEW e \in DOMAIN Databases, NEW rows,
         PageOf(e, f, k.sort, k.page_size, rows),
         NEW r, NEW b, r.ranking = Ranking(k),
         r.items = [i \in DOMAIN rows |-> CardFromRow(rows[i], b[i], f)]
  PROVE  Meets(k, r)
<1> DEFINE d == Databases[e]
           n == Len(rows)
<1>0. k.sort \in SEARCH_SORTS /\ k.page_size \in Nat BY DEF Accepted, WithinLimits
<1>1. /\ n \in Nat /\ DOMAIN rows = 1 .. n /\ n =< k.page_size
      /\ \A i \in 1 .. n : rows[i] \in Candidates(d, f)
  BY DEF PageOf
<1>2. Len(r.items) = n /\ DOMAIN r.items = 1 .. n /\ \A i \in 1 .. n : r.items[i] = CardFromRow(rows[i], b[i], f)
  BY <1>1
<1>3. Recorded(d) BY DatabasesAssumption
<1>4. PICK c \in DOMAIN Databases : \E season \in Databases[c].seasons : f = Resolved(Query(k), season) BY DEF Filtered
<1>5. PICK season \in Databases[c].seasons : f = Resolved(Query(k), season) BY <1>4
<1>6. EndDates(season.end) /\ f.role = Field(k, "role")
  BY <1>5, ResolvedIs, DatabasesAssumption DEF Recorded, EndDates
<1>7. ASSUME NEW i \in 1 .. n
      PROVE  /\ rows[i].player \in Int \cap DOMAIN d.players /\ rows[i] = Candidate(d, f, rows[i].player)
             /\ Qualifies(rows[i], f) /\ Measured(SortContext(rows[i], f))
  <2>1. /\ rows[i].player \in Int \cap DOMAIN d.players /\ rows[i] = Candidate(d, f, rows[i].player)
        /\ Qualifies(rows[i], f) BY <1>1, CandidatesAre
  <2>2. QED BY <2>1, CandidateMeasured
<1>8. ASSUME NEW i \in DOMAIN r.items PROVE CardMeets(r.items[i], k)
  <2>1. i \in 1 .. n BY <1>2
  <2>2. PICK p \in DOMAIN d.players : rows[i] = Candidate(d, f, p) /\ Qualifies(rows[i], f) BY <2>1, <1>7
  <2>3. BirthDates(d.players[p].birth) BY <2>2, <1>3 DEF Recorded, BirthDates
  <2>4. CardMeets(CardFromRow(Candidate(d, f, p), b[i], f), k) BY <2>2, <2>3, <1>5, <1>6, QualifiedMeets
  <2>5. QED BY <2>1, <2>2, <2>4, <1>2
<1>9. r.ranking.keys = SORT_SPECS[k.sort] /\ r.ranking.roleContext = RoleContext(Field(k, "role"), k.sort)
  BY DEF Ranking, Explanation
<1>10. ASSUME NEW i \in DOMAIN r.items, NEW j \in DOMAIN r.items, i < j
       PROVE  ExplainedBefore(r.items[i], r.items[j], r.ranking.keys)
  <2>1. i \in 1 .. n /\ j \in 1 .. n BY <1>2
  <2>2. Precedes(OrderBy(SortContext(rows[i], f), k.sort), OrderBy(SortContext(rows[j], f), k.sort))
    BY <2>1, <1>10 DEF PageOf
  <2>3. Tells(r.items[i], SortContext(rows[i], f)) /\ Tells(r.items[j], SortContext(rows[j], f))
    BY <2>1, <1>2, CardTells
  <2>4. Measured(SortContext(rows[i], f)) /\ Measured(SortContext(rows[j], f)) BY <2>1, <1>7
  <2>5. ExplainedBefore(r.items[i], r.items[j], SORT_SPECS[k.sort]) BY <2>2, <2>3, <2>4, <1>0, OrderTells
  <2>6. QED BY <2>5, <1>9
<1>11. RoleContextHolds(r.ranking.roleContext, r.items)
  <2> DEFINE context == r.ranking.roleContext
  <2>1. /\ context.role = Field(k, "role")
        /\ context.source = IF Field(k, "role") = {} THEN "best_role" ELSE "selected_role"
    BY <1>9 DEF RoleContext
  <2> HIDE DEF context
  <2>2. ASSUME NEW i \in DOMAIN r.items, context.source = "selected_role" PROVE r.items[i].resultRole = context.role
    <3>1. Field(k, "role") # {} BY <2>1, <2>2
    <3>2. PICK role : Field(k, "role") = {role} BY <3>1 DEF Field
    <3>3. r.items[i].resultRole = {role} BY <3>2, <1>8 DEF CardMeets
    <3>4. QED BY <2>1, <3>2, <3>3
  <2>3. ASSUME NEW i \in DOMAIN r.items, context.source = "best_role"
        PROVE  r.items[i].resultRole = r.items[i].bestRole /\ r.items[i].resultScore = r.items[i].bestScore
    <3>1. f.role = {} BY <2>1, <2>3, <1>6
    <3>2. i \in 1 .. n BY <1>2
    <3>3. rows[i].result = rows[i].best
      <4>1. PICK p : rows[i] = Candidate(d, f, p) BY <3>2, <1>7
      <4>2. QED BY <4>1, <3>1 DEF Candidate
    <3>4. PICK row : row = rows[i] /\ r.items[i] = CardFromRow(row, b[i], f) BY <3>2, <1>2
    <3>5. /\ r.items[i].resultRole = {x.role : x \in row.result} /\ r.items[i].bestRole = {x.role : x \in row.best}
          /\ r.items[i].resultScore = {x.score : x \in row.result} /\ r.items[i].bestScore = {x.score : x \in row.best}
      BY <3>4 DEF CardFromRow, Scores
    <3>6. QED BY <3>3, <3>4, <3>5
  <2>4. QED BY <2>2, <2>3 DEF RoleContextHolds, context
<1>12. QED BY <1>0, <1>1, <1>2, <1>8, <1>10, <1>11 DEF Meets

(* A field of a view that leaves out what has no value. *)
LEMMA CompactIs ==
  ASSUME NEW fields, NEW g
  PROVE  /\ g \in DOMAIN fields => Field(Compact(fields), g) \subseteq fields[g]
         /\ g \in DOMAIN fields /\ fields[g] # {} => Field(Compact(fields), g) = {Value(fields[g])}
         /\ g \notin DOMAIN fields => Field(Compact(fields), g) = {}
<1> DEFINE D == {x \in DOMAIN fields : fields[x] # {}}
<1>1. Compact(fields) = [x \in D |-> Value(fields[x])] BY DEF Compact
<1>2. g \in D => Field(Compact(fields), g) = {Value(fields[g])} BY <1>1 DEF Field
<1>3. g \notin D => Field(Compact(fields), g) = {} BY <1>1 DEF Field
<1>4. g \in D => Value(fields[g]) \in fields[g] BY DEF Value
<1>5. QED BY <1>2, <1>3, <1>4

(* The number of a parameter is a number. *)
LEMMA NumbersOf ==
  ASSUME NEW params, NumbersIn(params), NEW f
  PROVE  /\ Numbers(Field(params, f)) \subseteq Int
         /\ ParseMinutesThreshold(Field(params, f)) \subseteq Int /\ ParseRoleFitThreshold(Field(params, f)) \subseteq Int
         /\ ParseAgeBound(Field(params, f)) \subseteq Int /\ ParseAskingEur(Field(params, f)) \subseteq Int
         /\ ParsePage(Field(params, f)) \subseteq Int /\ ParsePageSize(Field(params, f)) \subseteq Int
<1> PICK raws : raws = Field(params, f) OBVIOUS
<1>1. Numbers(raws) \subseteq Int
  <2>1. \A x \in raws : f \in DOMAIN params /\ x = params[f] BY DEF Field
  <2>2. QED BY <2>1 DEF Numbers, NumbersIn
<1>2. \A n \in Int : Rounded(n) \in Int BY DEF Rounded
<1>3. ParseMinutesThreshold(raws) \subseteq Int
  BY <1>1, <1>2 DEF ParseMinutesThreshold, ParseBoundedWholeNumber, Clamped, MINUTES_MAX
<1>4. ParseRoleFitThreshold(raws) \subseteq Int
  BY <1>1, <1>2 DEF ParseRoleFitThreshold, ParseBoundedWholeNumber, Clamped, ROLEFIT_MAX
<1>5. ParseAgeBound(raws) \subseteq Int BY <1>1, <1>2 DEF ParseAgeBound
<1>6. ParseAskingEur(raws) \subseteq Int BY <1>1, <1>2 DEF ParseAskingEur
<1>7. ParsePage(raws) \subseteq Int /\ ParsePageSize(raws) \subseteq Int BY <1>1 DEF ParsePage, ParsePageSize
<1>8. QED BY <1>1, <1>3, <1>4, <1>5, <1>6, <1>7

(* The nearest stop is one. *)
LEMMA SnapIs == ASSUME NEW age \in Int PROVE SnapToAgeStop(age) \in AGE_STOPS
<1> DEFINE Near(stop) == \A s \in AGE_STOPS : \/ Distance(stop, age) < Distance(s, age)
                                              \/ Distance(stop, age) = Distance(s, age) /\ stop =< s
<1>1. CASE age =< 20 
  <2>1. Near(19) BY <1>1 DEF AGE_STOPS, Distance
  <2>2. QED BY <2>1 DEF SnapToAgeStop, AGE_STOPS
<1>2. CASE 20 < age /\ age =< 23
  <2>1. Near(22) BY <1>2 DEF AGE_STOPS, Distance
  <2>2. QED BY <2>1 DEF SnapToAgeStop, AGE_STOPS
<1>3. CASE 23 < age /\ age =< 26
  <2>1. Near(25) BY <1>3 DEF AGE_STOPS, Distance
  <2>2. QED BY <2>1 DEF SnapToAgeStop, AGE_STOPS
<1>4. CASE 26 < age /\ age =< 29
  <2>1. Near(28) BY <1>4 DEF AGE_STOPS, Distance
  <2>2. QED BY <2>1 DEF SnapToAgeStop, AGE_STOPS
<1>5. CASE 29 < age
  <2>1. Near(31) BY <1>5 DEF AGE_STOPS, Distance
  <2>2. QED BY <2>1 DEF SnapToAgeStop, AGE_STOPS
<1>6. QED BY <1>1, <1>2, <1>3, <1>4, <1>5

(* An age of a view is a bound on a stop of the rail. *)
LEMMA AgesAreStops ==
  ASSUME NEW least, least \subseteq Int, NEW most, most \subseteq Int, NEW band
  PROVE  LET explicit == AgeSelectionFromBounds(least, most)
             age == AgeBounds(IF explicit.direction # "all" THEN explicit ELSE LegacyAgeBandSelection(band))
         IN age.age_min \subseteq AGE_STOPS /\ age.age_max \subseteq AGE_STOPS
<1>1. AgeSelectionFromBounds(least, most).threshold \in AGE_STOPS
  <2>1. CASE most # {}
    <3>1. Value(most) \in Int BY <2>1 DEF Value
    <3>2. QED BY <2>1, <3>1, SnapIs DEF AgeSelectionFromBounds
  <2>2. CASE most = {} /\ least # {}
    <3>1. Value(least) \in Int BY <2>2 DEF Value
    <3>2. QED BY <2>2, <3>1, SnapIs DEF AgeSelectionFromBounds
  <2>3. CASE most = {} /\ least = {} BY <2>3 DEF AgeSelectionFromBounds, AllAges, AGE_STOPS
  <2>4. QED BY <2>1, <2>2, <2>3
<1>2. LegacyAgeBandSelection(band).threshold \in AGE_STOPS
  <2> DEFINE of(key) == {[txt |-> <<key>>]}
  <2>1. of("u23") # of("24_26") /\ of("u23") # of("27_30") /\ of("u23") # of("31_plus")
        /\ of("24_26") # of("27_30") /\ of("24_26") # of("31_plus") /\ of("27_30") # of("31_plus")
    <3>1. \A a, b : of(a) = of(b) => a = b
      <4>1. ASSUME NEW a, NEW b, of(a) = of(b) PROVE a = b
        <5>1. [txt |-> <<a>>] = [txt |-> <<b>>] BY <4>1
        <5>2. <<a>> = <<b>> BY <5>1
        <5>3. QED BY <5>2
      <4>2. QED BY <4>1
    <3> HIDE DEF of
    <3>2. QED BY <3>1
  <2>2. LegacyAgeBandSelection(band) =
          CASE band = of("u23") -> [direction |-> "younger", threshold |-> 22]
            [] band = of("24_26") -> [direction |-> "older", threshold |-> 25]
            [] band = of("27_30") -> [direction |-> "older", threshold |-> 28]
            [] band = of("31_plus") -> [direction |-> "older", threshold |-> 31]
            [] OTHER -> AllAges
    BY DEF LegacyAgeBandSelection
  <2> HIDE DEF of
  <2>3. QED BY <2>1, <2>2 DEF AllAges, AGE_STOPS
<1>3. \A selection : selection.threshold \in AGE_STOPS =>
        AgeBounds(selection).age_min \subseteq AGE_STOPS /\ AgeBounds(selection).age_max \subseteq AGE_STOPS
  BY DEF AgeBounds
<1>4. QED BY <1>1, <1>2, <1>3

(* The view of an address: numbers, and ages on the stops. *)
LEMMA ViewIs ==
  ASSUME NEW params, NumbersIn(params)
  PROVE  LET view == DiscoveryViewFromParams(params)
         IN /\ Numbered(view) /\ \A f : f \notin DISCOVERY_VIEW_FIELDS => Field(view, f) = {}
            /\ Field(view, "age_min") \subseteq AGE_STOPS /\ Field(view, "age_max") \subseteq AGE_STOPS
<1> DEFINE p(f) == Field(params, f)
           explicit == AgeSelectionFromBounds(ParseAgeBound(p("age_min")), ParseAgeBound(p("age_max")))
           age == AgeBounds(IF explicit.direction # "all" THEN explicit ELSE LegacyAgeBandSelection(p("age_band")))
           roleFit == CoherentBounds(ParseRoleFitThreshold(p("rolefit_min")), ParseRoleFitThreshold(p("rolefit_max")), "min")
           asking == CoherentBounds(ParseAskingEur(p("value_min")), ParseAskingEur(p("value_max")), "min")
           minutes == ParseMinutesThreshold(p("min_minutes"))
           size == ParsePageSize(p("page_size"))
<1>1. age.age_min \subseteq AGE_STOPS /\ age.age_max \subseteq AGE_STOPS BY NumbersOf, AgesAreStops
<1>2. \A min, max : min \subseteq Int /\ max \subseteq Int =>
        CoherentBounds(min, max, "min").min \subseteq Int /\ CoherentBounds(min, max, "min").max \subseteq Int
  BY DEF CoherentBounds
<1>3. roleFit.min \subseteq Int /\ roleFit.max \subseteq Int /\ asking.min \subseteq Int /\ asking.max \subseteq Int
  BY <1>2, NumbersOf
<1>4. minutes \subseteq Int /\ size \subseteq Int BY NumbersOf
<1>5. AGE_STOPS \subseteq Int BY DEF AGE_STOPS
<1> HIDE DEF age, roleFit, asking, minutes, size
<1>6. PICK fields :
        /\ DiscoveryViewFromParams(params) = Compact(fields)
        /\ DOMAIN fields = DISCOVERY_VIEW_FIELDS
        /\ fields.age_min = age.age_min /\ fields.age_max = age.age_max /\ fields.min_minutes = minutes
        /\ fields.rolefit_min = roleFit.min /\ fields.rolefit_max = roleFit.max
        /\ fields.value_min = asking.min /\ fields.value_max = asking.max /\ fields.page_size = size \ {DEFAULT_PAGE_SIZE}
  <2> DEFINE fields == [q |-> NormalizeText(p("q")), league |-> NormalizeText(p("league")),
        club |-> NormalizeText(p("club")), nationality |-> NormalizeText(p("nationality")),
        position_group |-> KeyOf(p("position_group"), PositionGroups),
        role |-> KeyOf(p("role"), Roles),
        playstyle |-> {t[1] : t \in {x \in NormalizeText(p("playstyle")) : Len(x) = 1}} \intersect Slugs,
        age_min |-> age.age_min, age_max |-> age.age_max,
        min_minutes |-> minutes,
        rolefit_min |-> roleFit.min, rolefit_max |-> roleFit.max,
        value_min |-> asking.min, value_max |-> asking.max,
        sort |-> KeyOf(p("sort"), SortOptions) \ {DEFAULT_SORT},
        page_size |-> size \ {DEFAULT_PAGE_SIZE}]
  <2>1. DiscoveryViewFromParams(params) = Compact(fields)
    BY DEF DiscoveryViewFromParams, age, roleFit, asking, minutes, size
  <2>2. DOMAIN fields = DISCOVERY_VIEW_FIELDS BY DEF DISCOVERY_VIEW_FIELDS, TextFields, NumberFields
  <2>3. /\ fields.age_min = age.age_min /\ fields.age_max = age.age_max /\ fields.min_minutes = minutes
        /\ fields.rolefit_min = roleFit.min /\ fields.rolefit_max = roleFit.max
        /\ fields.value_min = asking.min /\ fields.value_max = asking.max /\ fields.page_size = size \ {DEFAULT_PAGE_SIZE}
    OBVIOUS
  <2> HIDE DEF fields
  <2>4. QED BY <2>1, <2>2, <2>3
<1>7. ASSUME NEW f \in NumberFields PROVE fields[f] \subseteq Int /\ f \in DOMAIN fields
  BY <1>1, <1>3, <1>4, <1>5, <1>6 DEF NumberFields, DISCOVERY_VIEW_FIELDS
<1>8. ASSUME NEW f, f \notin DISCOVERY_VIEW_FIELDS PROVE Field(Compact(fields), f) = {}
  BY <1>6, <1>8, CompactIs
<1>9. Numbered(Compact(fields))
  <2>1. ASSUME NEW f \in NumberFields PROVE Field(Compact(fields), f) \subseteq Int BY <1>7, CompactIs
  <2>2. "page" \notin DISCOVERY_VIEW_FIELDS BY DEF DISCOVERY_VIEW_FIELDS, TextFields, NumberFields
  <2>3. Field(Compact(fields), "page") = {} BY <2>2, <1>8
  <2>4. QED BY <2>1, <2>3 DEF Numbered
<1>10. /\ Field(Compact(fields), "age_min") \subseteq AGE_STOPS /\ Field(Compact(fields), "age_max") \subseteq AGE_STOPS
  <2>1. "age_min" \in DOMAIN fields /\ "age_max" \in DOMAIN fields BY <1>7 DEF NumberFields
  <2>2. QED BY <2>1, <1>1, <1>6, CompactIs
<1>11. QED BY <1>6, <1>8, <1>9, <1>10

(* What is written of a numbered request is numbers again. *)
LEMMA WrittenNumbers ==
  ASSUME NEW k, Numbered(k)
  PROVE  NumbersIn(DiscoveryViewToParams(k))
<1> DEFINE params == DiscoveryViewToParams(k)
<1>1. DOMAIN params = DOMAIN k \cap DISCOVERY_VIEW_FIELDS /\ \A f \in DOMAIN params : params[f] = Written(f, k[f])
  BY DEF DiscoveryViewToParams
<1>2. ASSUME NEW f \in DOMAIN params, "num" \in DOMAIN params[f] PROVE params[f].num \in Int
  <2>1. CASE f \in NumberFields
    <3>1. k[f] \in Int BY <2>1, <1>1 DEF Numbered, Field
    <3>2. params[f] = [num |-> 10 * k[f]] BY <2>1, <1>1 DEF Written
    <3>3. QED BY <3>1, <3>2
  <2>2. CASE f \notin NumberFields
    <3>1. \E x : params[f] = [txt |-> x] BY <2>2, <1>1 DEF Written
    <3>2. QED BY <3>1, <1>2
  <2>3. QED BY <2>1, <2>2
<1>3. QED BY <1>2 DEF NumbersIn

(* The address written for a request. *)
LEMMA AddressIs ==
  ASSUME NEW k, Numbered(k), k.page \in Int
  PROVE  NumbersIn(SetFilters(k))
<1> DEFINE view == DiscoveryViewToParams(DiscoveryViewFromFilters(k))
           page == [f \in (IF k.page # DEFAULT_PAGE THEN {"page"} ELSE {}) |-> [num |-> 10 * k.page]]
           scope == [f \in (IF k.scope # DEFAULT_SEARCH_SCOPE THEN {"scope"} ELSE {}) |-> [txt |-> <<k.scope>>]]
<1>1. NumbersIn(view)
  <2>1. Numbered(DiscoveryViewFromParams(DiscoveryViewToParams(k))) BY WrittenNumbers, ViewIs
  <2>2. QED BY <2>1, WrittenNumbers DEF DiscoveryViewFromFilters
<1>2. NumbersIn(page) BY DEF NumbersIn
<1>3. NumbersIn(scope) BY DEF NumbersIn
<1>4. \A f, g : NumbersIn(f) /\ NumbersIn(g) => NumbersIn(Overlaid(f, g)) BY DEF NumbersIn, Overlaid
<1>5. SetFilters(k) = Overlaid(view, Overlaid(page, scope)) BY DEF SetFilters
<1> HIDE DEF view, page, scope
<1>6. QED BY <1>1, <1>2, <1>3, <1>4, <1>5

(* The request an address means. *)
LEMMA FiltersAre ==
  ASSUME NEW params, NumbersIn(params)
  PROVE  Proper(Filters(params)) /\ Numbered(Filters(params))
<1> DEFINE k == Filters(params)
           front == [scope |-> ScopeFromParams(params), page |-> Or(ParsePage(Field(params, "page")), DEFAULT_PAGE)]
           view == View(params)
<1>1. k = Overlaid(front, Overlaid(view, DefaultFilters)) BY DEF Filters
<1>2. DOMAIN front = {"scope", "page"} /\ DOMAIN DefaultFilters = {"scope", "sort", "page", "page_size"} BY DEF DefaultFilters
<1>3. front.scope \in SEARCH_SCOPES
  <2>1. \A raws : KeyOf(raws, SEARCH_SCOPE_KEYS) \subseteq SEARCH_SCOPES BY DEF KeyOf, SEARCH_SCOPE_KEYS, SEARCH_SCOPES
  <2>2. PICK offered : offered = KeyOf(Field(params, "scope"), SEARCH_SCOPE_KEYS) OBVIOUS
  <2>3. ScopeFromParams(params) = IF offered = {} THEN DEFAULT_SEARCH_SCOPE ELSE Value(offered) BY <2>2 DEF ScopeFromParams
  <2>4. offered # {} => Value(offered) \in offered BY DEF Value
  <2>5. QED BY <2>1, <2>2, <2>3, <2>4 DEF DEFAULT_SEARCH_SCOPE, SEARCH_SCOPES
<1>4. front.page \in Int
  <2>1. ParsePage(Field(params, "page")) \subseteq Int BY NumbersOf
  <2>2. QED BY <2>1 DEF Or, The, DEFAULT_PAGE
<1>5. /\ Numbered(view) /\ \A f : f \notin DISCOVERY_VIEW_FIELDS => Field(view, f) = {}
      /\ Field(view, "age_min") \subseteq AGE_STOPS /\ Field(view, "age_max") \subseteq AGE_STOPS
  BY ViewIs DEF View
<1> HIDE DEF view, front
<1>6. k.scope = front.scope /\ k.page = front.page /\ "page" \in DOMAIN k BY <1>1, <1>2 DEF Overlaid
<1>7. ASSUME NEW f, f \notin {"scope", "page", "sort", "page_size"} PROVE Field(k, f) = Field(view, f)
  BY <1>1, <1>2, <1>7 DEF Overlaid, Field
<1>8. Field(k, "page_size") \subseteq Int
  <2>1. Field(k, "page_size") = IF "page_size" \in DOMAIN view THEN {view["page_size"]} ELSE {DefaultFilters.page_size}
    BY <1>1, <1>2 DEF Overlaid, Field
  <2>2. "page_size" \in DOMAIN view => view["page_size"] \in Int BY <1>5 DEF Numbered, Field, NumberFields
  <2>3. DefaultFilters.page_size \in Int BY AddressesAssumption DEF DefaultFilters
  <2>4. QED BY <2>1, <2>2, <2>3
<1> HIDE DEF k
<1>9. Numbered(k)
  <2>1. Field(k, "page") \subseteq Int BY <1>4, <1>6 DEF Field
  <2>2. ASSUME NEW f \in NumberFields \ {"page_size"} PROVE Field(k, f) \subseteq Int
    <3>1. f \notin {"scope", "page", "sort", "page_size"} BY <2>2 DEF NumberFields
    <3>2. QED BY <3>1, <1>5, <1>7 DEF Numbered
  <2>3. QED BY <2>1, <2>2, <1>8 DEF Numbered
<1>10. Proper(k)
  <2>1. "age_band" \notin DISCOVERY_VIEW_FIELDS /\ "universe" \notin DISCOVERY_VIEW_FIELDS
    BY DEF DISCOVERY_VIEW_FIELDS, TextFields, NumberFields
  <2>2. Field(k, "age_band") = {} /\ Field(k, "universe") = {} BY <2>1, <1>5, <1>7
  <2>3. Field(k, "age_min") \subseteq AGE_STOPS /\ Field(k, "age_max") \subseteq AGE_STOPS BY <1>5, <1>7
  <2>4. QED BY <2>2, <2>3, <1>3, <1>4, <1>6 DEF Proper
<1>11. QED BY <1>9, <1>10 DEF k

(* A change of the request keeps it numbered. *)
LEMMA PatchedIs ==
  ASSUME NEW k, Numbered(k), NEW patch,
         \A f \in DOMAIN patch \cap NumberFields : patch[f] \subseteq Int
  PROVE  LET next == Patched(k, With(patch, "page", {1}))
         IN Numbered(next) /\ next.page \in Int
<1> DEFINE changed == With(patch, "page", {1})
           fields == [f \in DOMAIN k \union DOMAIN changed |-> IF f \in DOMAIN changed THEN changed[f] ELSE {k[f]}]
<1>1. Patched(k, changed) = Compact(fields) BY DEF Patched
<1>2. DOMAIN changed = DOMAIN patch \cup {"page"} /\ changed["page"] = {1}
      /\ \A f \in DOMAIN patch : f # "page" => changed[f] = patch[f] BY DEF With
<1> HIDE DEF changed
<1>3. "page" \in DOMAIN fields /\ fields["page"] = {1} BY <1>2
<1>4. Field(Compact(fields), "page") = {1}
  <2>1. Value({1}) = 1 BY DEF Value
  <2> HIDE DEF fields
  <2>2. QED BY <2>1, <1>3, CompactIs
<1>5. Compact(fields).page = 1 BY <1>4 DEF Field
<1>6. ASSUME NEW f \in NumberFields PROVE Field(Compact(fields), f) \subseteq Int
  <2>1. f # "page" BY DEF NumberFields
  <2>2. f \in DOMAIN fields => fields[f] \subseteq Int
    <3>1. CASE f \in DOMAIN changed BY <3>1, <2>1, <1>2
    <3>2. CASE f \in DOMAIN k /\ f \notin DOMAIN changed BY <3>2 DEF Numbered, Field
    <3>3. QED BY <3>1, <3>2
  <2> HIDE DEF fields
  <2>3. QED BY <2>2, CompactIs
<1> HIDE DEF fields
<1>7. Numbered(Compact(fields)) BY <1>4, <1>6 DEF Numbered
<1>8. QED BY <1>1, <1>5, <1>7 DEF changed

(* A request in flight: it is one the browser makes; past the first statement it is of a
   season some database has, its rows are a page of one database, and its answer meets it. *)
CallFields == {"key", "attempt", "at", "filters", "total", "rows", "response", "asOf"}

Answers(k, data) == \A r \in data : Meets(k, r) /\ r.page \in Int

CallHeld(c) ==
  /\ DOMAIN c = CallFields
  /\ Proper(c.key) /\ c.total \in Nat
  /\ c.at \in {"count", "page", "badges"} =>
       Accepted(c.key) /\ \E f : c.filters = {f} /\ Filtered(c.key, f)
  /\ c.at \in {"sent", "count", "page"} => c.rows = <<>>
  /\ c.at \in {"sent", "count", "page", "badges"} => c.response = {}
  /\ c.at = "badges" => \E e \in DOMAIN Databases : PageOf(e, The(c.filters), c.key.sort, c.key.page_size, c.rows)
  /\ Answers(c.key, c.response)

IInv ==
  /\ published \in DOMAIN Databases
  /\ NumbersIn(url)
  /\ \A c \in calls : CallHeld(c)
  /\ \A k \in DOMAIN cache : Answers(k, cache[k].data)

(* The one member of a set of one. *)
LEMMA TheOf == ASSUME NEW v PROVE The({v}) = v BY DEF The

(* The page that is served, and where it starts. *)
LEMMA ServedIs ==
  ASSUME NEW c, CallHeld(c), Accepted(c.key)
  PROVE  /\ TotalPages(c) \in Nat /\ ServedPage(c) \in Nat
         /\ Offset(ServedPage(c), c.key.page_size) \in Nat
<1>1. PICK n, s, p : n = c.total /\ s = c.key.page_size /\ p = c.key.page OBVIOUS
<1>2. n \in Nat /\ s \in Nat /\ s > 0 /\ p \in Nat /\ p >= 1
  <2>1. n \in Nat /\ p \in Int BY <1>1 DEF CallHeld, Proper
  <2>2. p >= 1 /\ s \in 1 .. PAGE_SIZE_CEILING BY <1>1 DEF Accepted, WithinLimits
  <2>3. PAGE_SIZE_CEILING \in Int BY DEF PAGE_SIZE_CEILING
  <2>4. QED BY <2>1, <2>2, <2>3
<1>3. PICK t : t = TotalPages(c) OBVIOUS
<1>4. t \in Nat BY <1>1, <1>2, <1>3 DEF TotalPages, CeilDiv
<1>5. PICK x : x = ServedPage(c) OBVIOUS
<1>6. x \in Nat /\ x >= 1
  <2>1. CASE t = 0 BY <2>1, <1>3, <1>5 DEF ServedPage, EffectivePage
  <2>2. CASE t # 0
    <3>1. {p, t} \subseteq Int /\ {p, t} # {} /\ 0 \in Int /\ \A y \in {p, t} : 0 =< y BY <1>2, <1>4
    <3>2. PICK T : T = {p, t} OBVIOUS
    <3>3. Min(T) \in T BY <3>1, <3>2, LeastOf
    <3>4. x = Min(T) BY <2>2, <3>2, <1>1, <1>3, <1>5 DEF ServedPage, EffectivePage
    <3>5. QED BY <3>2, <3>3, <3>4, <2>2, <1>2, <1>4
  <2>3. QED BY <2>1, <2>2
<1>7. x - 1 \in Nat BY <1>6
<1>8. (x - 1) * s \in Nat BY <1>2, <1>7
<1>9. Offset(x, s) \in Nat BY <1>8 DEF Offset
<1>10. QED BY <1>1, <1>3, <1>4, <1>5, <1>6, <1>9

(* What an answer says of its page does not depend on which page the request was for. *)
LEMMA MeetsAnyPage ==
  ASSUME NEW k, NEW page, "page" \in DOMAIN k, NEW r, Meets(k, r)
  PROVE  Meets([k EXCEPT !.page = page], r)
<1> DEFINE h == [k EXCEPT !.page = page]
<1>1. DOMAIN h = DOMAIN k /\ \A f \in DOMAIN k : f # "page" => h[f] = k[f] OBVIOUS
<1>2. \A f : f # "page" => Field(h, f) = Field(k, f) BY <1>1 DEF Field
<1>3. h.page_size = k.page_size /\ h.scope = k.scope OBVIOUS
<1> HIDE DEF h
<1>4. \A card : CardMeets(card, k) => CardMeets(card, h) BY <1>2, <1>3 DEF CardMeets
<1>5. Meets(h, r) BY <1>3, <1>4 DEF Meets
<1>6. QED BY <1>5 DEF h

(* The key of the address on screen. *)
LEMMA KeyHeld ==
  ASSUME IInv
  PROVE  Proper(Key) /\ Numbered(Key) /\ Key.page \in Int /\ "page" \in DOMAIN Key
<1>1. Proper(Key) /\ Numbered(Key) BY FiltersAre DEF IInv, Key
<1>2. "page" \in DOMAIN Key BY DEF Key, Filters, Overlaid
<1>3. QED BY <1>1, <1>2 DEF Proper

(* What the cache has for a key, nothing included, answers that key. *)
LEMMA EntryHeld ==
  ASSUME IInv, NEW k
  PROVE  Answers(k, Entry(k).data)
BY DEF IInv, Entry, NoEntry, Answers

(* The cache holds answers to their keys after one more is stored. *)
LEMMA StoredHeld ==
  ASSUME \A k \in DOMAIN cache : Answers(k, cache[k].data), NEW k, NEW e, Answers(k, e.data), cache' = Stored(k, e)
  PROVE  \A x \in DOMAIN cache' : Answers(x, cache'[x].data)
BY DEF Stored

(* The invariant holds of a visit that begins. *)
LEMMA InitHeld == Init => IInv
<1> SUFFICES ASSUME Init PROVE IInv OBVIOUS
<1>1. published \in DOMAIN Databases /\ NumbersIn(url) BY AddressesAssumption DEF Init
<1>2. calls = {} /\ DOMAIN cache = {} BY DEF Init
<1>3. QED BY <1>1, <1>2 DEF IInv

(* A statement changes nothing but the call it is made for. *)
LEMMA ServerMoves ==
  ASSUME IInv, NEW c \in calls, NEW d, Move(c, d), ServerStep, CallHeld(d)
  PROVE  IInv'
<1>1. \A x \in calls' : CallHeld(x) BY DEF Move, IInv
<1>2. \A x \in calls' : CallHeld(x)' BY <1>1 DEF CallHeld, CallFields, Answers, Meets, RoleContextHolds
<1>3. UNCHANGED <<published, publications, url, cache, events>> BY DEF ServerStep
<1>4. QED BY <1>2, <1>3 DEF IInv

(* The first statement of a request keeps the invariant: the request is
   refused, or answered with no rows, or has its filters. *)
LEMMA ReadSeasonStep ==
  ASSUME IInv, NEW c \in calls, ReadSeason(c)
  PROVE  IInv'
<1> DEFINE season == GetCurrentSeason(db)
           refused == [c EXCEPT !.at = "refused"]
           none == [c EXCEPT !.at = "done", !.response = {EmptyResponse(c.key, {publications})}]
           read == [c EXCEPT !.at = "count", !.filters = {Resolved(Query(c.key), The(season))}, !.asOf = {publications}]
<1>1. CallHeld(c) /\ c.at = "sent" /\ c.rows = <<>> /\ published \in DOMAIN Databases BY DEF IInv, ReadSeason, CallHeld
<1>2. CASE ~Accepted(c.key)
  <2>1. /\ DOMAIN refused = CallFields /\ refused.at = "refused" /\ refused.key = c.key /\ refused.total = c.total
        /\ refused.response = c.response
    BY <1>1 DEF CallHeld, CallFields
  <2> HIDE DEF refused
  <2>2. CallHeld(refused) BY <2>1, <1>1 DEF CallHeld
  <2>3. Move(c, refused) /\ ServerStep BY <1>2 DEF ReadSeason, refused
  <2>4. QED BY <2>2, <2>3, ServerMoves
<1>3. CASE Accepted(c.key) /\ season = {}
  <2>1. /\ DOMAIN none = CallFields /\ none.at = "done" /\ none.key = c.key /\ none.total = c.total
        /\ none.response = {EmptyResponse(c.key, {publications})}
    BY <1>1 DEF CallHeld, CallFields
  <2>2. c.key.page_size \in Nat BY <1>3 DEF Accepted, WithinLimits
  <2>3. Answers(c.key, {EmptyResponse(c.key, {publications})})
    <3>1. Meets(c.key, EmptyResponse(c.key, {publications})) BY <2>2, EmptyMeets
    <3>2. EmptyResponse(c.key, {publications}).page \in Int BY DEF EmptyResponse
    <3>3. QED BY <3>1, <3>2 DEF Answers
  <2> HIDE DEF none
  <2>4. CallHeld(none) BY <2>1, <2>3, <1>1 DEF CallHeld
  <2>5. Move(c, none) /\ ServerStep BY <1>3 DEF ReadSeason, none
  <2>6. QED BY <2>4, <2>5, ServerMoves
<1>4. CASE Accepted(c.key) /\ season # {}
  <2>1. /\ DOMAIN read = CallFields /\ read.at = "count" /\ read.key = c.key /\ read.total = c.total
        /\ read.filters = {Resolved(Query(c.key), The(season))} /\ read.rows = c.rows /\ read.response = c.response
    BY <1>1 DEF CallHeld, CallFields
  <2>2. The(season) \in Databases[published].seasons
    <3>1. The(season) \in season BY <1>4 DEF The
    <3>2. QED BY <3>1 DEF GetCurrentSeason, db
  <2>3. Filtered(c.key, Resolved(Query(c.key), The(season))) BY <2>2, <1>1 DEF Filtered
  <2> HIDE DEF read, season
  <2>4. c.response = {} BY <1>1 DEF CallHeld
  <2>5. CallHeld(read) BY <2>1, <2>3, <2>4, <1>1, <1>4 DEF CallHeld
  <2>6. Move(c, read) /\ ServerStep BY <1>4 DEF ReadSeason, read, season
  <2>7. QED BY <2>5, <2>6, ServerMoves
<1>5. QED BY <1>2, <1>3, <1>4

(* Counting keeps the invariant: the count is a natural number, however many
   rows there are. *)
LEMMA CountStep ==
  ASSUME IInv, NEW c \in calls, CountMatches(c)
  PROVE  IInv'
<1> DEFINE f == The(c.filters)
           counted == [c EXCEPT !.at = "page", !.total = CountPlayers(db, f), !.asOf = @ \union {publications}]
<1>1. CallHeld(c) /\ c.at = "count" /\ published \in DOMAIN Databases BY DEF IInv, CountMatches
<1>2. CountPlayers(db, f) \in Nat
  <2> DEFINE rows == Candidates(Databases[published], f)
             of == [row \in rows |-> row.player]
             players == {row.player : row \in rows}
  <2>1. IsFiniteSet(rows) BY <1>1, CandidatesAre
  <2>2. of \in Surjection(rows, players) BY DEF Surjection
  <2>3. IsFiniteSet(players) BY <2>1, <2>2, FS_Surjection
  <2>4. Cardinality(players) \in Nat BY <2>3, FS_CardinalityType
  <2>5. QED BY <2>4 DEF CountPlayers, db
<1>3. /\ DOMAIN counted = CallFields /\ counted.at = "page" /\ counted.key = c.key /\ counted.total = CountPlayers(db, f)
      /\ counted.filters = c.filters /\ counted.rows = c.rows /\ counted.response = c.response
  BY <1>1 DEF CallHeld, CallFields
<1>4. Move(c, counted) /\ ServerStep BY DEF CountMatches
<1> HIDE DEF counted, f
<1>5. CallHeld(counted) BY <1>1, <1>2, <1>3 DEF CallHeld
<1>6. QED BY <1>4, <1>5, ServerMoves

(* Fetching a page keeps the invariant: its rows are those of the database
   published by then. *)
LEMMA FetchRowsStep ==
  ASSUME IInv, NEW c \in calls, FetchRows(c)
  PROVE  IInv'
<1> DEFINE offset == Offset(ServedPage(c), c.key.page_size)
           seen == [c EXCEPT !.at = "badges", !.asOf = @ \union {publications}]
<1>1. CallHeld(c) /\ c.at = "page" /\ published \in DOMAIN Databases BY DEF IInv, FetchRows
<1>2. PICK f : c.filters = {f} /\ Filtered(c.key, f) BY <1>1 DEF CallHeld
<1>3. The(c.filters) = f BY <1>2, TheOf
<1>4. /\ Accepted(c.key) /\ Proper(c.key) /\ c.response = {} /\ c.rows = <<>> /\ c.total \in Nat /\ DOMAIN c = CallFields
      /\ Answers(c.key, c.response)
  BY <1>1 DEF CallHeld
<1>5. /\ DOMAIN seen = CallFields /\ seen.at = "badges" /\ seen.key = c.key /\ seen.total = c.total
      /\ seen.filters = c.filters /\ seen.rows = c.rows /\ seen.response = c.response
  BY <1>4 DEF CallFields
<1>6. c.key.sort \in SEARCH_SORTS /\ c.key.page_size \in Nat BY <1>4 DEF Accepted, WithinLimits
<1>7. CASE TotalPages(c) = 0
  <2>1. Move(c, seen) /\ ServerStep BY <1>7 DEF FetchRows
  <2>2. PageOf(published, f, c.key.sort, c.key.page_size, <<>>)
    <3>1. <<>> \in Seq(Candidates(Databases[published], f)) /\ Len(<<>>) = 0 /\ 1 .. 0 = {} OBVIOUS
    <3>2. QED BY <3>1, <1>6 DEF PageOf
  <2> HIDE DEF seen
  <2>3. CallHeld(seen) BY <2>2, <1>1, <1>2, <1>3, <1>4, <1>5 DEF CallHeld
  <2>4. QED BY <2>1, <2>3, ServerMoves
<1>8. CASE TotalPages(c) # 0
  <2>1. PICK rows \in FetchPage(db, f, c.key.sort, c.key.page_size, offset) : Move(c, [seen EXCEPT !.rows = rows])
    BY <1>3, <1>8 DEF FetchRows
  <2>2. offset \in Nat BY <1>1, <1>4, ServedIs
  <2>3. PageOf(published, f, c.key.sort, c.key.page_size, rows)
    <3> HIDE DEF offset
    <3>1. rows \in FetchPage(Databases[published], f, c.key.sort, c.key.page_size, offset) BY <2>1 DEF db
    <3>2. QED BY <3>1, <2>2, <1>1, <1>2, <1>4, <1>6, PageIs
  <2> HIDE DEF seen, offset
  <2> DEFINE page == [seen EXCEPT !.rows = rows]
  <2>4. /\ DOMAIN page = CallFields /\ page.at = "badges" /\ page.key = c.key /\ page.total = c.total
        /\ page.filters = c.filters /\ page.rows = rows /\ page.response = c.response
    BY <1>5 DEF CallFields
  <2>5. Move(c, page) /\ ServerStep BY <2>1 DEF FetchRows
  <2> HIDE DEF page
  <2>6. CallHeld(page) BY <2>3, <2>4, <1>1, <1>2, <1>3, <1>4 DEF CallHeld
  <2>7. QED BY <2>5, <2>6, ServerMoves
<1>9. QED BY <1>7, <1>8

(* The last statement keeps the invariant: the answer that is assembled meets
   the request. *)
LEMMA FetchBadgesStep ==
  ASSUME IInv, NEW c \in calls, FetchBadges(c)
  PROVE  IInv'
<1> DEFINE season == The(c.filters).season
           of(p) == Of(db.badges, p, season)
           answer == Response(c, of)
           done == [c EXCEPT !.at = "done", !.response = {answer}]
<1>1. CallHeld(c) /\ c.at = "badges" BY DEF IInv, FetchBadges
<1>2. PICK f : c.filters = {f} /\ Filtered(c.key, f) BY <1>1 DEF CallHeld
<1>3. The(c.filters) = f BY <1>2, TheOf
<1>4. PICK e \in DOMAIN Databases : PageOf(e, f, c.key.sort, c.key.page_size, c.rows) BY <1>1, <1>3 DEF CallHeld
<1>5. Accepted(c.key) /\ Proper(c.key) /\ c.total \in Nat /\ DOMAIN c = CallFields BY <1>1 DEF CallHeld
<1> DEFINE b == [i \in DOMAIN c.rows |-> of(c.rows[i].player)]
<1>6. /\ answer.items = [i \in DOMAIN c.rows |-> CardFromRow(c.rows[i], b[i], f)]
      /\ answer.ranking = Ranking(c.key) /\ answer.page = ServedPage(c)
  BY <1>3 DEF Response
<1>7. Move(c, done) /\ ServerStep BY DEF FetchBadges
<1>8. /\ DOMAIN done = CallFields /\ done.at = "done" /\ done.key = c.key /\ done.total = c.total
      /\ done.response = {answer}
  BY <1>5 DEF CallFields
<1> HIDE DEF answer, done, of, b, season
<1>9. Meets(c.key, answer) BY <1>2, <1>4, <1>5, <1>6, PageMeets
<1>10. answer.page \in Int BY <1>1, <1>5, <1>6, ServedIs
<1>11. CallHeld(done) BY <1>5, <1>8, <1>9, <1>10 DEF CallHeld, Answers
<1>12. QED BY <1>7, <1>11, ServerMoves

(* A new request. *)
LEMMA CallIs == ASSUME NEW k, Proper(k), NEW attempt PROVE CallHeld(Call(k, attempt))
<1>1. PICK c : c = Call(k, attempt) OBVIOUS
<1>2. /\ DOMAIN c = CallFields /\ c.key = k /\ c.at = "sent" /\ c.total = 0 /\ c.rows = <<>> /\ c.response = {}
  BY <1>1 DEF Call, CallFields
<1>3. CallHeld(c) BY <1>2 DEF CallHeld, Answers
<1>4. QED BY <1>1, <1>3

(* What is held of a call is held of it in every state. *)
LEMMA CallsKept ==
  ASSUME \A c \in calls' : CallHeld(c)
  PROVE  \A c \in calls' : CallHeld(c)'
BY DEF CallHeld, CallFields, Answers, Meets, RoleContextHolds

(* A step that leaves the requests as they are, or takes some away, and stores
   an answer to its key keeps the invariant. *)
LEMMA BrowserMoves ==
  ASSUME IInv, published' \in DOMAIN Databases, NumbersIn(url'),
         \A c \in calls' : CallHeld(c),
         cache' = cache \/ \E k : \E e : Answers(k, e.data) /\ cache' = Stored(k, e)
  PROVE  IInv'
<1>1. \A c \in calls' : CallHeld(c)' BY CallsKept
<1>2. \A x \in DOMAIN cache' : Answers(x, cache'[x].data)
  <2>1. \A k \in DOMAIN cache : Answers(k, cache[k].data) BY DEF IInv
  <2>2. CASE cache' = cache BY <2>1, <2>2
  <2>3. CASE \E k : \E e : Answers(k, e.data) /\ cache' = Stored(k, e) BY <2>1, <2>3, StoredHeld
  <2>4. QED BY <2>2, <2>3
<1>3. (\A x \in DOMAIN cache : Answers(x, cache[x].data))' BY <1>2 DEF Answers, Meets, RoleContextHolds
<1>4. QED BY <1>1, <1>3 DEF IInv

(* Asking keeps the invariant: the request is that of an address. *)
LEMMA RequestStep ==
  ASSUME IInv, Ask \/ AskAgain
  PROVE  IInv'
<1>1. Proper(Key) BY KeyHeld
<1>2. calls' = calls \union {Call(Key, 1)} /\ UNCHANGED <<published, url>> BY DEF Ask, AskAgain
<1>3. \A c \in calls' : CallHeld(c) BY <1>1, <1>2, CallIs DEF IInv
<1>4. published' \in DOMAIN Databases /\ NumbersIn(url') BY <1>2 DEF IInv
<1>5. cache' = cache \/ \E k : \E e : Answers(k, e.data) /\ cache' = Stored(k, e)
  <2>1. CASE Ask BY <2>1 DEF Ask
  <2>2. CASE AskAgain
    <3> DEFINE e == Entry(Key)
               again == [e EXCEPT !.failed = e.failed /\ e.data # {}]
    <3>1. cache' = Stored(Key, again) BY <2>2 DEF AskAgain
    <3>2. again.data = e.data OBVIOUS
    <3>3. Answers(Key, again.data) BY <3>2, EntryHeld
    <3>4. QED BY <3>1, <3>3
  <2>3. QED BY <2>1, <2>2
<1>6. QED BY <1>3, <1>4, <1>5, BrowserMoves

(* The arrival of an answer keeps the invariant. *)
LEMMA AnsweredStep ==
  ASSUME IInv, NEW c \in calls, Answered(c)
  PROVE  IInv'
<1> DEFINE e == [data |-> c.response, failed |-> FALSE]
<1>1. cache' = Stored(c.key, e) /\ e.data = c.response /\ calls' \subseteq calls /\ UNCHANGED <<published, url>>
  BY DEF Answered
<1>2. Answers(c.key, c.response) BY DEF IInv, CallHeld
<1> HIDE DEF e
<1>3. \A x \in calls' : CallHeld(x) BY <1>1 DEF IInv
<1>4. published' \in DOMAIN Databases /\ NumbersIn(url') BY <1>1 DEF IInv
<1>5. QED BY <1>1, <1>2, <1>3, <1>4, BrowserMoves

(* A failure keeps the invariant: what the key held stays. *)
LEMMA LostStep ==
  ASSUME IInv, NEW c \in calls, Lost(c)
  PROVE  IInv'
<1>1. UNCHANGED <<published, url>> /\ Failed(c) BY DEF Lost
<1>2. Proper(c.key) BY DEF IInv, CallHeld
<1>3. published' \in DOMAIN Databases /\ NumbersIn(url') BY <1>1 DEF IInv
<1>4. \A x \in calls' : CallHeld(x) BY <1>1, <1>2, CallIs DEF Failed, Move, IInv
<1>5. cache' = cache \/ \E k : \E e : Answers(k, e.data) /\ cache' = Stored(k, e)
  <2> DEFINE e == Entry(c.key)
             failed == [e EXCEPT !.failed = TRUE]
  <2>1. failed.data = e.data OBVIOUS
  <2>2. Answers(c.key, failed.data) BY <2>1, EntryHeld
  <2>3. cache' = cache \/ cache' = Stored(c.key, failed) BY <1>1 DEF Failed
  <2>4. QED BY <2>2, <2>3
<1>6. QED BY <1>3, <1>4, <1>5, BrowserMoves

(* Moving the answer to the key of its page keeps the invariant: no criterion
   names the page. *)
LEMMA SyncStep ==
  ASSUME IInv, SyncCanonicalPage
  PROVE  IInv'
<1>1. PICK served \in Entry(Key).data :
        /\ cache' = Stored(CanonicalKey(Key, served.page), [data |-> {served}, failed |-> FALSE])
        /\ url' = SetFilters([Key EXCEPT !.page = served.page])
        /\ UNCHANGED <<published, publications, calls, events>>
  BY DEF SyncCanonicalPage
<1> DEFINE h == [Key EXCEPT !.page = served.page]
           e == [data |-> {served}, failed |-> FALSE]
<1>2. Meets(Key, served) /\ served.page \in Int BY EntryHeld DEF Answers
<1>3. Proper(Key) /\ Numbered(Key) /\ "page" \in DOMAIN Key BY KeyHeld
<1>4. Answers(h, e.data)
  <2>1. Meets(h, served) BY <1>2, <1>3, MeetsAnyPage
  <2>2. e.data = {served} OBVIOUS
  <2> HIDE DEF e, h
  <2>3. QED BY <2>1, <2>2, <1>2 DEF Answers
<1>5. Numbered(h) /\ h.page \in Int
  <2>1. h.page = served.page /\ DOMAIN h = DOMAIN Key /\ \A f \in DOMAIN Key : f # "page" => h[f] = Key[f] BY <1>3
  <2> HIDE DEF h
  <2>2. QED BY <2>1, <1>2, <1>3 DEF Numbered, Field
<1>6. NumbersIn(url') BY <1>1, <1>5, AddressIs
<1>7. cache' = Stored(h, e) BY <1>1 DEF CanonicalKey
<1> HIDE DEF h, e
<1>8. published' \in DOMAIN Databases /\ \A x \in calls' : CallHeld(x) BY <1>1 DEF IInv
<1>9. QED BY <1>4, <1>6, <1>7, <1>8, BrowserMoves

(* Following the rail, the pages or a saved view keeps the invariant: the
   address written holds numbers. *)
LEMMA NavigateStep ==
  ASSUME IInv, ChangeFilter \/ RemoveCriterion \/ ClearAll \/ TurnPage \/ OpenView
  PROVE  IInv'
<1>0. Numbered(Key) /\ "page" \in DOMAIN Key BY KeyHeld
<1>1. ASSUME NEW next, NumbersIn(next), Navigate(next) PROVE IInv'
  <2>1. url' = next /\ UNCHANGED <<published, publications, cache, calls>> BY <1>1 DEF Navigate
  <2>2. published' \in DOMAIN Databases /\ \A x \in calls' : CallHeld(x) BY <2>1 DEF IInv
  <2>3. QED BY <1>1, <2>1, <2>2, BrowserMoves
<1>2. CASE ChangeFilter
  <2>1. PICK patch \in Patches : Navigate(SetFilters(Patched(Key, With(patch, "page", {1})))) BY <1>2 DEF ChangeFilter
  <2>2. \A f \in DOMAIN patch \cap NumberFields : patch[f] \subseteq Int BY AddressesAssumption
  <2>3. NumbersIn(SetFilters(Patched(Key, With(patch, "page", {1})))) BY <2>2, <1>0, PatchedIs, AddressIs
  <2>4. QED BY <2>1, <2>3, <1>1
<1>3. CASE RemoveCriterion
  <2>1. PICK c : Navigate(SetFilters(Patched(Key, With(RemovalPatch(c), "page", {1})))) BY <1>3 DEF RemoveCriterion
  <2>2. PICK patch : patch = RemovalPatch(c) OBVIOUS
  <2>3. \A f \in DOMAIN patch \cap NumberFields : patch[f] \subseteq Int BY <2>2 DEF RemovalPatch
  <2>4. NumbersIn(SetFilters(Patched(Key, With(patch, "page", {1})))) BY <2>3, <1>0, PatchedIs, AddressIs
  <2>5. QED BY <2>1, <2>2, <2>4, <1>1
<1>4. CASE ClearAll
  <2>1. Numbered(DefaultFilters) /\ DefaultFilters.page \in Int
    BY AddressesAssumption DEF DefaultFilters, Numbered, Field, NumberFields, DEFAULT_PAGE
  <2>2. NumbersIn(SetFilters(DefaultFilters)) BY <2>1, AddressIs
  <2>3. QED BY <1>4, <2>2, <1>1 DEF ClearAll
<1>5. CASE TurnPage
  <2>1. PICK shown \in Entry(Key).data, step \in {-1, 1} : Navigate(SetFilters([Key EXCEPT !.page = shown.page + step]))
    BY <1>5 DEF TurnPage
  <2>2. shown.page \in Int BY EntryHeld DEF Answers
  <2> DEFINE h == [Key EXCEPT !.page = shown.page + step]
  <2>3. h.page = shown.page + step /\ DOMAIN h = DOMAIN Key /\ \A f \in DOMAIN Key : f # "page" => h[f] = Key[f] BY <1>0
  <2>4. shown.page + step \in Int BY <2>2
  <2> HIDE DEF h
  <2>5. Numbered(h) /\ h.page \in Int BY <2>3, <2>4, <1>0 DEF Numbered, Field
  <2>6. NumbersIn(SetFilters(h)) BY <2>5, AddressIs
  <2>7. QED BY <2>1, <2>6, <1>1 DEF h
<1>6. CASE OpenView
  <2>1. PICK v \in SavedViews : Navigate(DiscoveryViewToParams(v)) BY <1>6 DEF OpenView
  <2>2. NumbersIn(DiscoveryViewToParams(v)) BY AddressesAssumption, WrittenNumbers
  <2>3. QED BY <2>1, <2>2, <1>1
<1>7. QED BY <1>2, <1>3, <1>4, <1>5, <1>6

(* Every step keeps the invariant. *)
LEMMA NextHeld ==
  ASSUME IInv, [Next]_vars
  PROVE  IInv'
<1>1. CASE Publish
  <2>1. published' \in DOMAIN Databases /\ UNCHANGED <<url, cache, calls>> BY <1>1 DEF Publish
  <2>2. NumbersIn(url') /\ \A x \in calls' : CallHeld(x) BY <2>1 DEF IInv
  <2>3. QED BY <2>1, <2>2, BrowserMoves
<1>2. CASE Server BY <1>2, ReadSeasonStep, CountStep, FetchRowsStep, FetchBadgesStep DEF Server
<1>3. CASE Network BY <1>3, AnsweredStep DEF Network
<1>4. CASE \E c \in calls : Lost(c) BY <1>4, LostStep
<1>5. CASE Ask \/ AskAgain BY <1>5, RequestStep
<1>6. CASE SyncCanonicalPage BY <1>6, SyncStep
<1>7. CASE ChangeFilter \/ RemoveCriterion \/ ClearAll \/ TurnPage \/ OpenView BY <1>7, NavigateStep
<1>8. CASE UNCHANGED vars
  <2>1. UNCHANGED <<published, url, cache, calls>> BY <1>8 DEF vars
  <2>2. published' \in DOMAIN Databases /\ NumbersIn(url') /\ \A x \in calls' : CallHeld(x) BY <2>1 DEF IInv
  <2>3. QED BY <2>1, <2>2, BrowserMoves
<1>9. QED BY <1>1, <1>2, <1>3, <1>4, <1>5, <1>6, <1>7, <1>8 DEF Next

(* Whatever is published and whenever, every answer in the cache meets its request. *)
THEOREM CardsMeetTheRequestCorrect == Spec => []CardsMeetTheRequest
<1>1. IInv => CardsMeetTheRequest BY DEF IInv, Answers, Meets, CardsMeetTheRequest
<1>2. QED BY <1>1, InitHeld, NextHeld, PTL DEF Spec

(* The rows of different players have one order, and every row is in it once. *)
LEMMA OneOrder ==
  ASSUME NEW rows, IsFiniteSet(rows), NEW f, NEW sort \in SEARCH_SORTS,
         \A r \in rows : Measured(SortContext(r, f)),
         \A r, s \in rows : r # s => r.player # s.player
  PROVE  \E s : /\ Orders(rows, f, sort) = {s}
                /\ s \in Seq(rows) /\ Len(s) = Cardinality(rows) /\ Cardinality(rows) \in Nat
                /\ \A i, j \in 1 .. Len(s) : i # j => s[i].player # s[j].player
                /\ \A r \in rows : \E i \in 1 .. Len(s) : s[i] = r
<1> DEFINE keys == [row \in rows |-> OrderBy(SortContext(row, f), sort)]
           before(row) == {o \in rows : Precedes(keys[o], keys[row])}
           N == Cardinality(rows)
           order == [i \in 1 .. N |-> CHOOSE row \in rows : Cardinality(before(row)) = i - 1]
<1>1. \A r, o \in rows : r # o => keys[r] # keys[o]
  <2> TAKE r \in rows, o \in rows
  <2> HAVE r # o
  <2>1. SortContext(r, f).player_id = r.player /\ SortContext(o, f).player_id = o.player BY DEF SortContext
  <2>2. r.player \in Int /\ o.player \in Int BY <2>1 DEF Measured
  <2>3. OrderBy(SortContext(r, f), sort) # OrderBy(SortContext(o, f), sort) BY <2>1, <2>2, PlayersDiffer
  <2>4. QED BY <2>3
<1>2. Orders(rows, f, sort) = {order} BY <1>1 DEF Orders
<1>3. PICK s : s = order OBVIOUS
<1>4. s \in Orders(rows, f, sort) BY <1>2, <1>3
<1> HIDE DEF keys, order
<1>5. PICK n \in Nat : DOMAIN SORT_SPECS[sort] = 1 .. n BY SpecEnds
<1>6. /\ s \in Seq(rows) /\ Len(s) = N /\ N \in Nat
      /\ \A i, j \in 1 .. Len(s) : i < j => Precedes(OrderBy(SortContext(s[i], f), sort), OrderBy(SortContext(s[j], f), sort))
  BY <1>4, OrdersAre
<1> HIDE DEF N
<1>7. \A i \in 1 .. N : s[i] \in rows BY <1>6
<1>8. ASSUME NEW i \in 1 .. N, NEW j \in 1 .. N, i < j PROVE s[i] # s[j]
  <2>1. OrderBy(SortContext(s[i], f), sort) \in KeyLists(n) BY <1>5, <1>7, OrderByIs
  <2>2. Precedes(OrderBy(SortContext(s[i], f), sort), OrderBy(SortContext(s[j], f), sort)) BY <1>6, <1>8
  <2>3. ~Precedes(OrderBy(SortContext(s[i], f), sort), OrderBy(SortContext(s[i], f), sort)) BY <2>1, OrderIsStrict
  <2>4. QED BY <2>2, <2>3
<1>9. \A i, j \in 1 .. N : i # j => s[i] # s[j]
  <2> TAKE i \in 1 .. N, j \in 1 .. N
  <2> HAVE i # j
  <2>1. CASE i < j BY <2>1, <1>8
  <2>2. CASE j < i BY <2>2, <1>8
  <2>3. QED BY <2>1, <2>2, <1>6
<1>10. s \in Injection(1 .. N, rows)
  <2>1. s \in [1 .. N -> rows] BY <1>6
  <2>2. QED BY <2>1, <1>9 DEF Injection, IsInjective
<1>11. IsFiniteSet(1 .. N) /\ Cardinality(1 .. N) = N BY <1>6, FS_Interval
<1>12. s \in Surjection(1 .. N, rows) BY <1>10, <1>11, FS_Injection DEF N
<1>13. \A r \in rows : \E i \in 1 .. N : s[i] = r BY <1>12 DEF Surjection
<1>14. \A i, j \in 1 .. N : i # j => s[i].player # s[j].player BY <1>7, <1>9
<1>15. QED BY <1>2, <1>3, <1>6, <1>13, <1>14 DEF N

(* A list without repetitions has as many values as places. *)
LEMMA CountIs ==
  ASSUME NEW n \in Nat, NEW at, \A i, j \in 1 .. n : i # j => at[i] # at[j],
         NEW P, \A p : p \in P <=> \E i \in 1 .. n : p = at[i]
  PROVE  IsFiniteSet(P) /\ Cardinality(P) = n
<1> DEFINE f == [i \in 1 .. n |-> at[i]]
<1>1. IsFiniteSet(1 .. n) /\ Cardinality(1 .. n) = n BY FS_Interval
<1>2. f \in Bijection(1 .. n, P)
  <2>1. \A i \in 1 .. n : f[i] = at[i] /\ at[i] \in P OBVIOUS
  <2> HIDE DEF f
  <2>2. f \in [1 .. n -> P]
    <3>1. f = [i \in 1 .. n |-> at[i]] BY DEF f
    <3>2. QED BY <2>1, <3>1
  <2>3. QED BY <2>1, <2>2 DEF Bijection, Injection, Surjection, IsInjective
<1> HIDE DEF f
<1>3. IsFiniteSet(P) /\ Cardinality(P) = n BY <1>1, <1>2, FS_Bijection DEF ExistsBijection
<1>4. QED BY <1>3

(* A quotient. *)
LEMMA QuotientIs ==
  ASSUME NEW n \in Nat, NEW d \in Nat, d > 0
  PROVE  n \div d \in Nat /\ (n \div d) * d <= n /\ n < (n \div d) * d + d
OBVIOUS

(* Products grow with a factor. *)
LEMMA ProductsGrow ==
  ASSUME NEW a \in Nat, NEW b \in Nat, NEW s \in Nat, a < b
  PROVE  a * s \in Nat /\ b * s \in Nat /\ a * s + s <= b * s
<1>1. PICK k \in Nat : b = a + 1 + k
  <2>1. b - a - 1 \in Nat /\ b = a + 1 + (b - a - 1) OBVIOUS
  <2>2. QED BY <2>1
<1>2. b * s = a * s + s + k * s BY <1>1
<1>3. a * s \in Nat /\ k * s \in Nat /\ b * s \in Nat OBVIOUS
<1>4. QED BY <1>2, <1>3

\* The rows of a result are shared out among its pages: each has one place on one page.
SharedOut(n, size, t) ==
  /\ t \in Nat /\ (t = 0 <=> n = 0)
  /\ \A q \in 1 .. t : Offset(q, size) \in Nat
  /\ \A j \in 1 .. n : \E q \in 1 .. t, i \in 1 .. size : j = Offset(q, size) + i
  /\ \A q, p \in 1 .. t, i, h \in 1 .. size : Offset(q, size) + i = Offset(p, size) + h => q = p /\ i = h

(* So they are among as many pages as the API says there are. *)
LEMMA PlacesAre ==
  ASSUME NEW n \in Nat, NEW size \in Nat, size > 0, NEW t, t = CeilDiv(n, size)
  PROVE  SharedOut(n, size, t)
<1>1. t \in Nat /\ t * size <= n + size - 1 /\ n + size - 1 < t * size + size
  <2>1. n + size - 1 \in Nat OBVIOUS
  <2>2. QED BY <2>1, QuotientIs DEF CeilDiv
<1>2. t * size \in Nat BY <1>1
<1>3. t = 0 <=> n = 0
  <2>1. CASE t = 0 BY <2>1, <1>1
  <2>2. CASE t # 0
    <3>1. 0 < t /\ 0 * size = 0 BY <2>2, <1>1
    <3>2. size <= t * size BY <3>1, <1>1, ProductsGrow
    <3>3. QED BY <3>2, <2>2, <1>1, <1>2
  <2>3. QED BY <2>1, <2>2
<1>4. \A q \in 1 .. t : q - 1 \in Nat /\ Offset(q, size) = (q - 1) * size /\ Offset(q, size) \in Nat
  <2> TAKE q \in 1 .. t
  <2>1. q - 1 \in Nat BY <1>1
  <2>2. (q - 1) * size \in Nat BY <2>1
  <2>3. QED BY <2>1, <2>2 DEF Offset
<1>5. ASSUME NEW j \in 1 .. n PROVE \E q \in 1 .. t, i \in 1 .. size : j = Offset(q, size) + i
  <2>1. j - 1 \in Nat OBVIOUS
  <2>2. PICK p : p = (j - 1) \div size OBVIOUS
  <2>3. p \in Nat /\ p * size <= j - 1 /\ j - 1 < p * size + size BY <2>1, <2>2, QuotientIs
  <2>4. p * size \in Nat BY <2>3
  <2>5. p < t
    <3>1. SUFFICES ASSUME t <= p PROVE FALSE BY <1>1, <2>3
    <3>2. t * size <= p * size
      <4>1. CASE t = p BY <4>1, <1>2
      <4>2. CASE t < p BY <4>2, <1>1, <2>3, ProductsGrow
      <4>3. QED BY <3>1, <4>1, <4>2, <1>1, <2>3
    <3>3. QED BY <3>2, <1>1, <1>2, <2>3, <2>4
  <2>6. PICK o : o = p * size OBVIOUS
  <2>7. Offset(p + 1, size) = o
    <3>1. PICK q : q = p + 1 OBVIOUS
    <3>2. q - 1 = p BY <3>1, <2>3
    <3>3. Offset(q, size) = (q - 1) * size BY DEF Offset
    <3>4. QED BY <3>1, <3>2, <3>3, <2>6
  <2>8. p + 1 \in 1 .. t /\ j - o \in 1 .. size /\ j = o + (j - o) BY <1>1, <2>3, <2>4, <2>5, <2>6
  <2>9. QED BY <2>7, <2>8
<1>6. ASSUME NEW q \in 1 .. t, NEW p \in 1 .. t, NEW i \in 1 .. size, NEW h \in 1 .. size, q < p
      PROVE  Offset(q, size) + i < Offset(p, size) + h
  <2>1. q - 1 \in Nat /\ p - 1 \in Nat /\ q - 1 < p - 1 BY <1>4, <1>6
  <2>2. (q - 1) * size + size <= (p - 1) * size BY <2>1, ProductsGrow
  <2>3. Offset(q, size) + size <= Offset(p, size) BY <2>2, <1>4
  <2>4. QED BY <2>3, <1>4
<1>7. ASSUME NEW q \in 1 .. t, NEW p \in 1 .. t, NEW i \in 1 .. size, NEW h \in 1 .. size,
             Offset(q, size) + i = Offset(p, size) + h
      PROVE  q = p /\ i = h
  <2>1. Offset(q, size) \in Nat /\ Offset(p, size) \in Nat BY <1>4
  <2>2. ~(q < p) /\ ~(p < q) BY <2>1, <1>6, <1>7
  <2>3. q = p BY <2>2
  <2>4. QED BY <2>1, <2>3, <1>7
<1>8. QED BY <1>1, <1>3, <1>4, <1>5, <1>7 DEF SharedOut

(* The lesser of two numbers. *)
LEMMA LesserIs ==
  ASSUME NEW a \in Nat, NEW b \in Nat
  PROVE  LET m == Min({a, b}) IN m \in Nat /\ m =< a /\ m =< b /\ (m = a \/ m = b)
<1>1. PICK T : T = {a, b} OBVIOUS
<1>2. T \subseteq Int /\ T # {} /\ 0 \in Int /\ \A x \in T : 0 =< x BY <1>1
<1>3. Min(T) \in T /\ \A x \in T : Min(T) =< x BY <1>2, LeastOf
<1>4. QED BY <1>1, <1>3

(* The rows of a page: as many of the order as there are from its offset on. *)
LEMMA PageRows ==
  ASSUME NEW rows, NEW s \in Seq(rows), NEW size \in Nat, NEW o \in Nat, NEW last \in Nat,
         last =< o + size, last =< Len(s), last = o + size \/ last = Len(s)
  PROVE  LET page == SubSeq(s, o + 1, last)
         IN /\ \A i : i \in DOMAIN page <=> i \in 1 .. size /\ o + i <= Len(s)
            /\ \A i \in DOMAIN page : page[i] = s[o + i] /\ o + i \in 1 .. Len(s)
<1>1. Len(s) \in Nat OBVIOUS
<1>2. \A i \in o + 1 .. last : i \in 1 .. Len(s) /\ s[i] \in rows BY <1>1
<1>3. PICK page : page = SubSeq(s, o + 1, last) OBVIOUS
<1>4. /\ page \in Seq(rows) /\ Len(page) = (IF o + 1 <= last THEN last - (o + 1) + 1 ELSE 0)
      /\ \A i \in 1 .. last - (o + 1) + 1 : page[i] = s[o + 1 + i - 1]
  <2>1. o + 1 \in Int /\ last \in Int OBVIOUS
  <2>2. QED BY <2>1, <1>2, <1>3, SubSeqProperties
<1>5. DOMAIN page = 1 .. Len(page) /\ Len(page) \in Nat BY <1>4
<1>6. \A i \in 1 .. Len(page) : i \in 1 .. size /\ o + i <= Len(s) BY <1>1, <1>4
<1>7. \A i \in 1 .. size : o + i <= Len(s) => i \in 1 .. Len(page) BY <1>1, <1>4
<1>8. \A i \in 1 .. Len(page) : page[i] = s[o + i]
  <2> TAKE i \in 1 .. Len(page)
  <2>1. i \in 1 .. last - (o + 1) + 1 /\ o + 1 + i - 1 = o + i BY <1>4
  <2>2. QED BY <2>1, <1>4
<1>9. \A i : i \in DOMAIN page <=> i \in 1 .. size /\ o + i <= Len(s) BY <1>5, <1>6, <1>7
<1>10. \A i \in DOMAIN page : page[i] = s[o + i] /\ o + i \in 1 .. Len(s)
  <2> TAKE i \in DOMAIN page
  <2>1. i \in 1 .. Len(page) BY <1>5
  <2>2. i \in 1 .. size /\ o + i <= Len(s) BY <2>1, <1>6
  <2>3. o + i \in 1 .. Len(s) BY <2>2, <1>1
  <2>4. QED BY <2>1, <2>3, <1>8
<1>11. QED BY <1>3, <1>9, <1>10

(* Who appears in a season is represented by one of the appearances. *)
LEMMA PrimaryIs ==
  ASSUME NEW d, Recorded(d), NEW p, NEW season, Of(d.appearances, p, season) # {}
  PROVE  The(PrimaryAppearance(d, p, season)) \in d.appearances
<1> DEFINE rows == Of(d.appearances, p, season)
           keys == [a \in rows |-> <<-Minutes(a), a.id>>]
<1>1. rows \subseteq d.appearances /\ IsFiniteSet(rows) BY FS_Subset DEF Recorded, Of
<1>2. ASSUME NEW a \in rows PROVE Minutes(a) \in Int /\ a.id \in Int
  <2>1. a.minutes \subseteq Int /\ a.id \in Int BY <1>1 DEF Recorded
  <2>2. QED BY <2>1 DEF Minutes, Or, The
<1>3. \A a, b \in rows : a # b => a.id # b.id BY <1>1 DEF Recorded
<1> HIDE DEF rows
<1>4. keys \in [rows -> KeyLists(2)] BY <1>2 DEF KeyLists
<1>5. \A a \in rows : keys[a][1] = -Minutes(a) /\ keys[a][2] = a.id /\ DOMAIN keys[a] = 1 .. 2 OBVIOUS
<1> HIDE DEF keys
<1>6. \A a, b \in rows : a # b => keys[a] # keys[b] BY <1>3, <1>5
<1>7. 1 \in 1 .. Cardinality(rows) /\ 2 \in Nat
  <2>1. Cardinality(rows) \in Nat /\ Cardinality(rows) # 0 BY <1>1, FS_CardinalityType, FS_EmptySet DEF rows
  <2>2. QED BY <2>1
<1>8. PICK a \in rows : Cardinality(Earlier(rows, keys, a)) = 0
  <2>1. \E a \in rows : Cardinality(Earlier(rows, keys, a)) = 1 - 1 BY <1>1, <1>4, <1>6, <1>7, OnePlaceEach
  <2>2. QED BY <2>1
<1>9. Earlier(rows, keys, a) = {}
  <2>1. IsFiniteSet(Earlier(rows, keys, a)) BY <1>1, FS_Subset DEF Earlier
  <2>2. QED BY <2>1, <1>8, FS_EmptySet
<1>10. ASSUME NEW b \in rows, Minutes(b) > Minutes(a) \/ (Minutes(b) = Minutes(a) /\ b.id < a.id) PROVE FALSE
  <2>1. ~Precedes(keys[b], keys[a]) BY <1>9 DEF Earlier
  <2>2. CASE Minutes(b) > Minutes(a)
    <3>1. 1 \in DOMAIN keys[b] /\ keys[b][1] < keys[a][1] /\ 1 .. (1 - 1) = {} BY <2>2, <1>2, <1>5
    <3>2. QED BY <3>1, <2>1 DEF Precedes
  <2>3. CASE Minutes(b) = Minutes(a) /\ b.id < a.id
    <3>1. 2 \in DOMAIN keys[b] /\ keys[b][2] < keys[a][2] /\ \A j \in 1 .. (2 - 1) : keys[b][j] = keys[a][j] BY <2>3, <1>2, <1>5
    <3>2. QED BY <3>1, <2>1 DEF Precedes
  <2>4. QED BY <1>10, <2>2, <2>3
<1>11. a \in PrimaryAppearance(d, p, season) BY <1>10 DEF PrimaryAppearance, rows
<1>12. The(PrimaryAppearance(d, p, season)) \in PrimaryAppearance(d, p, season) BY <1>11 DEF The
<1>13. QED BY <1>1, <1>12 DEF PrimaryAppearance, rows

(* A player has one group or none. *)
LEMMA OneGroup ==
  ASSUME NEW a, \A g, h \in a.group : g = h, NEW who, \A x, y \in who.position : x = y
  PROVE  \A g, h \in PositionGroup(a, who) : g = h
BY DEF PositionGroup

(* A request that names no text is met by the cards of those who qualify for it, and of nobody else. *)
LEMMA MeetingQualifies ==
  ASSUME NEW k, Proper(k), ~NarrowsByText(k), NEW season, EndDates(season.end), NEW d, Recorded(d),
         NEW p \in DOMAIN d.players, Of(d.appearances, p, season.id) # {}, NEW badges,
         CardMeets(CardFromRow(Candidate(d, Resolved(Query(k), season), p), badges, Resolved(Query(k), season)), k)
  PROVE  Qualifies(Candidate(d, Resolved(Query(k), season), p), Resolved(Query(k), season))
<1>1. PICK f : f = Resolved(Query(k), season) OBVIOUS
<1>2. PICK row : row = Candidate(d, f, p) OBVIOUS
<1>3. PICK card : card = CardFromRow(row, badges, f) OBVIOUS
<1>4. CardMeets(card, k) BY <1>1, <1>2, <1>3
<1>5. row.who = d.players[p] /\ row.appearance = The(PrimaryAppearance(d, p, f.season)) BY <1>2 DEF Candidate
<1>6. f.role # {} => row.result # {}
  <2> HAVE f.role # {}
  <2>1. PICK role : role \in Field(k, "role") BY <1>1, ResolvedIs
  <2>2. card.resultRole = {role} BY <1>4, <2>1 DEF CardMeets
  <2>3. card.resultRole = {r.role : r \in row.result} BY <1>3 DEF CardFromRow
  <2>4. QED BY <2>2, <2>3
<1>7. InScope(row, f.scope)
  <2>1. f.scope = k.scope BY <1>1, ResolvedIs
  <2>2. card.bestRole = {r.role : r \in row.best} /\ card.evidence = EvidenceStatus(row) BY <1>3 DEF CardFromRow
  <2>3. CASE k.scope = "analyzed"
    <3>1. row.best # {} BY <2>2, <2>3, <1>4 DEF CardMeets
    <3>2. QED BY <2>1, <2>3, <3>1 DEF InScope
  <2>4. CASE k.scope = "high_coverage_u23"
    <3>1. EvidenceStatus(row) = "high_coverage" BY <2>2, <2>4, <1>4 DEF CardMeets
    <3>2. row.highCoverage BY <3>1 DEF EvidenceStatus
    <3>3. QED BY <2>1, <2>4, <3>2 DEF InScope
  <2>5. CASE k.scope # "analyzed" /\ k.scope # "high_coverage_u23" BY <2>1, <2>5 DEF InScope
  <2>6. QED BY <2>3, <2>4, <2>5
<1>8. f.q = {} /\ f.league = {} /\ f.club = {} /\ f.nationality = {} /\ f.playstyle = {}
  <2>1. \A g \in {"q", "league", "club", "nationality", "playstyle"} : Field(k, g) = {} BY DEF NarrowsByText, Field
  <2>2. QED BY <2>1, <1>1, ResolvedIs
<1>9. \A g \in f.position_group : PositionGroup(row.appearance, row.who) = {g}
  <2> TAKE g \in f.position_group
  <2>1. card.group = PositionGroup(row.appearance, row.who) BY <1>3 DEF CardFromRow
  <2>2. g \in card.group BY <1>1, <1>4, ResolvedIs DEF CardMeets
  <2>3. f.season = season.id BY <1>1, ResolvedIs
  <2>4. row.appearance \in d.appearances BY <2>3, <1>5, PrimaryIs
  <2>5. PICK a : a = row.appearance OBVIOUS
  <2>6. PICK who : who = row.who OBVIOUS
  <2>7. (\A x, y \in a.group : x = y) /\ (\A x, y \in who.position : x = y) BY <2>4, <2>5, <2>6, <1>5 DEF Recorded
  <2>8. \A x, y \in PositionGroup(a, who) : x = y BY <2>7, OneGroup
  <2>9. QED BY <2>1, <2>2, <2>5, <2>6, <2>8
<1>10. \A least \in f.min_minutes : Minutes(row.appearance) >= least
  <2>1. f.min_minutes = Field(k, "min_minutes") BY <1>1, ResolvedIs
  <2>2. card.minutes = Minutes(row.appearance) BY <1>3 DEF CardFromRow
  <2>3. QED BY <1>4, <2>1, <2>2 DEF CardMeets
<1>11. BornInWindow(row.who.birth, f.window)
  <2>1. f.window = BirthDateWindow(season.end, Hundredths(Field(k, "age_min")), Hundredths(Field(k, "age_max")))
        /\ f.seasonEnd = season.end BY <1>1, ResolvedIs
  <2>2. card.age = AgeFor(row.who.birth, season.end) BY <1>3, <2>1 DEF CardFromRow, Age
  <2>3. BirthDates(row.who.birth) BY <1>5 DEF Recorded, BirthDates
  <2>4. /\ \A y \in Field(k, "age_min") : \E a \in card.age : a >= 10 * y
        /\ \A y \in Field(k, "age_max") : \E a \in card.age : a =< 10 * y BY <1>4 DEF CardMeets
  <2>5. QED BY <2>1, <2>2, <2>3, <2>4, YearsAre DEF Proper
<1>12. /\ \A least \in f.rolefit_min : \E s \in Scores(row) : s >= least
       /\ \A most \in f.rolefit_max : \E s \in Scores(row) : s =< most
  <2>1. f.rolefit_min = Field(k, "rolefit_min") /\ f.rolefit_max = Field(k, "rolefit_max") BY <1>1, ResolvedIs
  <2>2. card.resultScore = Scores(row) BY <1>3 DEF CardFromRow
  <2>3. QED BY <1>4, <2>1, <2>2 DEF CardMeets
<1>13. /\ \A least \in f.value_min : \E high \in MarketField(row.market, "high") : high >= least
       /\ \A most \in f.value_max : \E low \in MarketField(row.market, "low") : low =< most
  <2>1. f.value_min = Field(k, "value_min") /\ f.value_max = Field(k, "value_max") BY <1>1, ResolvedIs
  <2>2. card.low = MarketField(row.market, "low") /\ card.high = MarketField(row.market, "high") BY <1>3 DEF CardFromRow
  <2>3. QED BY <1>4, <2>1, <2>2 DEF CardMeets
<1>14. Qualifies(row, f) BY <1>6, <1>7, <1>8, <1>9, <1>10, <1>11, <1>12, <1>13 DEF Qualifies
<1>15. QED BY <1>1, <1>2, <1>14

\* The season a request is answered for, and what the repository is asked then.
SeasonOf(d) == The(GetCurrentSeason(d))
FiltersFor(d, k) == Resolved(Query(k), SeasonOf(d))

(* There is one current season, if any. *)
LEMMA OneSeason ==
  ASSUME NEW d, Recorded(d), GetCurrentSeason(d) # {}
  PROVE  GetCurrentSeason(d) = {SeasonOf(d)} /\ SeasonOf(d) \in d.seasons /\ EndDates(SeasonOf(d).end)
<1> DEFINE current == GetCurrentSeason(d)
<1>1. current \subseteq d.seasons BY DEF GetCurrentSeason
<1>2. \A s, t \in current : s = t
  <2>1. CASE {s \in d.seasons : s.current} # {}
    <3>1. \A s \in current : s \in d.seasons /\ s.current BY <2>1 DEF GetCurrentSeason
    <3>2. QED BY <3>1 DEF Recorded
  <2>2. CASE {s \in d.seasons : s.current} = {}
    <3>1. current = {s \in d.seasons : \A t \in d.seasons : t.id =< s.id} BY <2>2 DEF GetCurrentSeason
    <3> HIDE DEF current
    <3>2. ASSUME NEW s \in current, NEW t \in current PROVE s = t
      <4>1. s \in d.seasons /\ t \in d.seasons /\ s.id =< t.id /\ t.id =< s.id BY <3>1
      <4>2. s.id \in Int /\ t.id \in Int BY <4>1 DEF Recorded
      <4>3. s.id = t.id BY <4>1, <4>2
      <4>4. QED BY <4>1, <4>3 DEF Recorded
    <3>3. QED BY <3>2
  <2>3. QED BY <2>1, <2>2
<1>3. SeasonOf(d) \in current BY DEF The, SeasonOf
<1>4. SeasonOf(d) \in d.seasons BY <1>1, <1>3
<1>5. EndDates(SeasonOf(d).end) BY <1>4 DEF Recorded, EndDates
<1>6. QED BY <1>2, <1>3, <1>4, <1>5

(* The players of the result are those whose cards meet the request. *)
LEMMA WhoMeets ==
  ASSUME published \in DOMAIN Databases, GetCurrentSeason(db) # {}, NEW k, Proper(k), ~NarrowsByText(k)
  PROVE  {r.player : r \in Candidates(db, FiltersFor(db, k))} = {p \in WithAppearance : CardMeets(CardOf(p, k), k)}
<1>1. PICK d : d = db /\ d = Databases[published] BY DEF db
<1>2. PICK season : season = SeasonOf(d) OBVIOUS
<1>3. PICK f : f = Resolved(Query(k), season) OBVIOUS
<1>4. Recorded(d) BY <1>1, DatabasesAssumption
<1>5. GetCurrentSeason(d) = {season} /\ EndDates(season.end) BY <1>1, <1>2, <1>4, OneSeason
<1>6. f.season = season.id /\ f.seasonEnd = season.end /\ f.role = Field(k, "role") BY <1>3, ResolvedIs
<1>7. WithAppearance = {a.player : a \in {b \in d.appearances : b.season = season.id}}
  <2>1. {s.id : s \in GetCurrentSeason(db)} = {season.id} BY <1>1, <1>5
  <2>2. QED BY <2>1, <1>1 DEF WithAppearance
<1>8. ASSUME NEW p PROVE CardOf(p, k) = CardFromRow(Candidate(d, f, p), {}, f)
  <2>1. PICK g : g = [season |-> season.id, seasonEnd |-> season.end, role |-> Field(k, "role")] OBVIOUS
  <2>2. g.season = f.season /\ g.seasonEnd = f.seasonEnd /\ g.role = f.role BY <2>1, <1>6
  <2>3. Candidate(d, g, p) = Candidate(d, f, p) BY <2>2 DEF Candidate
  <2>4. \A row : CardFromRow(row, {}, g) = CardFromRow(row, {}, f) BY <2>2 DEF CardFromRow, Age
  <2>5. CardOf(p, k) = CardFromRow(Candidate(d, g, p), {}, g) BY <1>1, <1>2, <2>1 DEF CardOf, SeasonOf
  <2>6. QED BY <2>3, <2>4, <2>5
<1>9. ASSUME NEW p \in WithAppearance PROVE p \in DOMAIN d.players /\ Of(d.appearances, p, season.id) # {}
  <2>1. PICK a \in d.appearances : a.season = season.id /\ a.player = p BY <1>7
  <2>2. a \in Of(d.appearances, p, season.id) BY <2>1 DEF Of
  <2>3. QED BY <2>1, <2>2, <1>4 DEF Recorded
<1>10. ASSUME NEW p \in WithAppearance
       PROVE  Qualifies(Candidate(d, f, p), f) <=> CardMeets(CardOf(p, k), k)
  <2>1. BirthDates(d.players[p].birth) BY <1>4, <1>9 DEF Recorded, BirthDates
  <2>2. Qualifies(Candidate(d, f, p), f) => CardMeets(CardFromRow(Candidate(d, f, p), {}, f), k)
    BY <2>1, <1>3, <1>5, QualifiedMeets
  <2>3. CardMeets(CardFromRow(Candidate(d, f, p), {}, f), k) => Qualifies(Candidate(d, f, p), f)
    BY <1>3, <1>4, <1>5, <1>9, MeetingQualifies
  <2>4. QED BY <2>2, <2>3, <1>8
<1>11. Candidates(d, f) = {row \in {Candidate(d, f, p) : p \in WithAppearance} : Qualifies(row, f)}
  BY <1>6, <1>7 DEF Candidates
<1>12. \A p : Candidate(d, f, p).player = p BY DEF Candidate
<1>13. {r.player : r \in Candidates(d, f)} = {p \in WithAppearance : Qualifies(Candidate(d, f, p), f)}
  <2> PICK W : W = WithAppearance OBVIOUS
  <2>1. \A r \in Candidates(d, f) : r.player \in W /\ Qualifies(Candidate(d, f, r.player), f) BY <1>11, <1>12
  <2>2. \A p \in W : Qualifies(Candidate(d, f, p), f) => Candidate(d, f, p) \in Candidates(d, f) BY <1>11
  <2>3. \A p \in W : Qualifies(Candidate(d, f, p), f) => p \in {r.player : r \in Candidates(d, f)} BY <2>2, <1>12
  <2>4. QED BY <2>1, <2>3
<1>14. {r.player : r \in Candidates(d, f)} = {p \in WithAppearance : CardMeets(CardOf(p, k), k)} BY <1>10, <1>13
<1>15. QED BY <1>1, <1>2, <1>3, <1>14 DEF FiltersFor

\* What an answer says if it is of the database d.
TrueOf(d, k, r) ==
  IF GetCurrentSeason(d) = {}
  THEN r.items = <<>> /\ r.total = 0 /\ r.total_pages = 0 /\ r.page = 1
  ELSE /\ r.total = CountPlayers(d, FiltersFor(d, k)) /\ r.total_pages = CeilDiv(r.total, k.page_size)
       /\ r.page = EffectivePage(k.page, r.total_pages)
       /\ IF r.total_pages = 0 THEN r.items = <<>>
          ELSE \E rows \in FetchPage(d, FiltersFor(d, k), k.sort, k.page_size, Offset(r.page, k.page_size)) :
                 DOMAIN r.items = DOMAIN rows /\ \A i \in DOMAIN rows : r.items[i].id = rows[i].player

\* The pages of a result of n players, in the order ids has them.
PartOf(r, n, ids, size) ==
  /\ r.total = n /\ r.total_pages = CeilDiv(n, size)
  /\ r.total_pages = 0 => r.items = <<>>
  /\ r.total_pages # 0 => DOMAIN r.items = {i \in 1 .. size : Offset(r.page, size) + i <= n}
  /\ r.total_pages # 0 => \A i \in DOMAIN r.items : r.items[i].id = ids[Offset(r.page, size) + i]

(* A page that is served is one of the pages, or the first. *)
LEMMA EffectiveIs ==
  ASSUME NEW page \in Nat, page >= 1, NEW t \in Nat
  PROVE  /\ EffectivePage(page, t) \in Nat /\ EffectivePage(page, t) >= 1
         /\ t # 0 => EffectivePage(page, t) =< t
         /\ EffectivePage(EffectivePage(page, t), t) = EffectivePage(page, t)
<1>1. CASE t = 0 BY <1>1 DEF EffectivePage
<1>2. CASE t # 0
  <2>1. PICK m : m = Min({page, t}) OBVIOUS
  <2>2. m \in Nat /\ m =< page /\ m =< t /\ (m = page \/ m = t) BY <2>1, LesserIs
  <2>3. EffectivePage(page, t) = m BY <2>1, <1>2 DEF EffectivePage
  <2>4. PICK l : l = Min({m, t}) OBVIOUS
  <2>5. l \in Nat /\ l =< m /\ l =< t /\ (l = m \/ l = t) BY <2>2, <2>4, LesserIs
  <2>6. EffectivePage(m, t) = l BY <2>4, <1>2 DEF EffectivePage
  <2>7. l = m BY <2>2, <2>5
  <2>8. m >= 1 BY <1>2, <2>2
  <2>9. EffectivePage(EffectivePage(page, t), t) = m BY <2>3, <2>6, <2>7
  <2>10. QED BY <2>2, <2>3, <2>8, <2>9
<1>3. QED BY <1>1, <1>2

\* Two requests that differ in the page at most.
SameCriteria(x, k) ==
  /\ \A f : f # "page" => Field(x, f) = Field(k, f)
  /\ x.scope = k.scope /\ x.sort = k.sort /\ x.page_size = k.page_size

(* They ask the repository for the same. *)
LEMMA SameAsked ==
  ASSUME NEW x, NEW k, SameCriteria(x, k), NEW d
  PROVE  FiltersFor(d, x) = FiltersFor(d, k)
<1> DEFINE fields == DISCOVERY_VIEW_FIELDS \union {"universe", "age_band", "scope"}
           of(y) == [f \in fields |-> CASE f \in {"age_min", "age_max"} -> Hundredths(Field(y, f))
                                        [] f = "scope" -> {y.scope}
                                        [] OTHER -> Field(y, f)]
<1>1. "page" \notin fields BY DEF DISCOVERY_VIEW_FIELDS, TextFields, NumberFields
<1> HIDE DEF fields
<1>2. of(x) = of(k)
  <2>1. \A f \in fields : Field(x, f) = Field(k, f) BY <1>1 DEF SameCriteria
  <2>2. x.scope = k.scope BY DEF SameCriteria
  <2>3. QED BY <2>1, <2>2
<1>3. Query(x) = of(x) /\ Query(k) = of(k) BY DEF Query, fields
<1> HIDE DEF of
<1>4. Query(x) = Query(k) BY <1>2, <1>3
<1>5. QED BY <1>4 DEF FiltersFor

(* The page of an answer is a part of the order of the candidates. *)
LEMMA PartIs ==
  ASSUME NEW rows, NEW s \in Seq(rows), NEW n \in Nat, Len(s) = n, NEW size \in Nat, size > 0,
         NEW page \in Nat, page >= 1, NEW r,
         r.total = n, r.total_pages = CeilDiv(n, size), r.page = EffectivePage(page, r.total_pages),
         r.total_pages # 0 =>
           LET shown == SubSeq(s, Offset(r.page, size) + 1, Min({Offset(r.page, size) + size, Len(s)}))
           IN DOMAIN r.items = DOMAIN shown /\ \A i \in DOMAIN shown : r.items[i].id = shown[i].player,
         r.total_pages = 0 => r.items = <<>>
  PROVE  PartOf(r, n, [j \in 1 .. n |-> s[j].player], size)
<1> DEFINE ids == [j \in 1 .. n |-> s[j].player]
<1>1. PICK t : t = r.total_pages OBVIOUS
<1>2. SharedOut(n, size, t) /\ t \in Nat
  <2>1. t = CeilDiv(n, size) BY <1>1
  <2>2. SharedOut(n, size, t) BY <2>1, PlacesAre
  <2>3. QED BY <2>2 DEF SharedOut
<1>3. r.page \in Nat /\ r.page >= 1 /\ (t # 0 => r.page =< t)
  <2>1. PICK q : q = EffectivePage(page, t) OBVIOUS
  <2>2. r.page = q BY <1>1, <2>1
  <2>3. q \in Nat /\ q >= 1 /\ (t # 0 => q =< t) BY <2>1, <1>2, EffectiveIs
  <2>4. QED BY <2>2, <2>3
<1>4. ASSUME t # 0
      PROVE  /\ DOMAIN r.items = {i \in 1 .. size : Offset(r.page, size) + i <= n}
             /\ \A i \in DOMAIN r.items : r.items[i].id = ids[Offset(r.page, size) + i]
  <2>1. PICK o : o = Offset(r.page, size) OBVIOUS
  <2>2. o \in Nat
    <3>1. r.page \in 1 .. t BY <1>2, <1>3, <1>4
    <3>2. QED BY <2>1, <3>1, <1>2 DEF SharedOut
  <2>3. PICK last : last = Min({o + size, Len(s)}) OBVIOUS
  <2>4. o + size \in Nat /\ Len(s) \in Nat BY <2>2
  <2>5. last \in Nat /\ last =< o + size /\ last =< Len(s) /\ (last = o + size \/ last = Len(s))
    BY <2>3, <2>4, LesserIs
  <2>6. PICK shown : shown = SubSeq(s, o + 1, last) OBVIOUS
  <2>7. /\ DOMAIN shown = {i \in 1 .. size : o + i <= Len(s)}
        /\ \A i \in DOMAIN shown : shown[i] = s[o + i] /\ o + i \in 1 .. Len(s)
    <3>1. last =< o + size /\ last =< Len(s) /\ (last = o + size \/ last = Len(s)) /\ last \in Nat BY <2>5
    <3>2. \A i : i \in DOMAIN shown <=> i \in 1 .. size /\ o + i <= Len(s) BY <3>1, <2>2, <2>6, PageRows
    <3>3. \A i \in DOMAIN shown : shown[i] = s[o + i] /\ o + i \in 1 .. Len(s) BY <3>1, <2>2, <2>6, PageRows
    <3>4. QED BY <3>2, <3>3
  <2>8. DOMAIN r.items = DOMAIN shown /\ \A i \in DOMAIN shown : r.items[i].id = shown[i].player
    BY <1>1, <1>4, <2>1, <2>3, <2>6, Zenon
  <2>9. \A i \in DOMAIN shown : ids[o + i] = shown[i].player BY <2>7
  <2>10. QED BY <2>1, <2>7, <2>8, <2>9
<1> HIDE DEF ids
<1>5. PartOf(r, n, ids, size) BY <1>1, <1>4 DEF PartOf
<1>6. QED BY <1>5 DEF ids

\* The list of n players that all answers of a database to a request are parts of, whatever their pages.
PartsOf(d, k, n, ids) ==
  /\ \A i, j \in 1 .. n : i # j => ids[i] # ids[j]
  /\ {ids[i] : i \in 1 .. n} = {r.player : r \in Candidates(d, FiltersFor(d, k))}
  /\ \A x, r : SameCriteria(x, k) /\ x.page \in Nat /\ x.page >= 1 /\ TrueOf(d, x, r)
       => PartOf(r, n, ids, k.page_size)

(* There is such a list. *)
LEMMA PartsAre ==
  ASSUME NEW e \in DOMAIN Databases, GetCurrentSeason(Databases[e]) # {}, NEW k, Proper(k), Accepted(k)
  PROVE  \E n \in Nat : \E ids : PartsOf(Databases[e], k, n, ids)
<1>1. PICK d : d = Databases[e] OBVIOUS
<1>2. PICK f : f = FiltersFor(d, k) OBVIOUS
<1>3. PICK rows : rows = Candidates(d, f) OBVIOUS
<1>4. PICK size : size = k.page_size OBVIOUS
<1>5. size \in Nat /\ size > 0 /\ k.sort \in SEARCH_SORTS
  <2>1. PAGE_SIZE_CEILING \in Int BY DEF PAGE_SIZE_CEILING
  <2>2. QED BY <2>1, <1>4 DEF Accepted, WithinLimits
<1>6. Filtered(k, f)
  <2>1. SeasonOf(d) \in d.seasons BY <1>1, OneSeason, DatabasesAssumption
  <2>2. QED BY <2>1, <1>1, <1>2 DEF FiltersFor, Filtered
<1>7. /\ IsFiniteSet(rows) /\ \A r, o \in rows : r # o => r.player # o.player
      /\ \A r \in rows : Measured(SortContext(r, f))
  <2>1. /\ IsFiniteSet(rows) /\ \A r, o \in rows : r # o => r.player # o.player
        /\ \A r \in rows : r.player \in Int \cap DOMAIN d.players /\ r = Candidate(d, f, r.player)
    BY <1>1, <1>3, CandidatesAre
  <2>2. ASSUME NEW r \in rows PROVE Measured(SortContext(r, f))
    <3>1. PICK p \in Int \cap DOMAIN Databases[e].players : r = Candidate(Databases[e], f, p) BY <2>1, <1>1
    <3>2. QED BY <3>1, <1>6, CandidateMeasured
  <2>3. QED BY <2>1, <2>2
<1>8. PICK s : /\ Orders(rows, f, k.sort) = {s}
               /\ s \in Seq(rows) /\ Len(s) = Cardinality(rows) /\ Cardinality(rows) \in Nat
               /\ \A i, j \in 1 .. Len(s) : i # j => s[i].player # s[j].player
               /\ \A r \in rows : \E i \in 1 .. Len(s) : s[i] = r
  <2>1. PICK sort \in SEARCH_SORTS : sort = k.sort BY <1>5
  <2>2. \E s : /\ Orders(rows, f, sort) = {s}
               /\ s \in Seq(rows) /\ Len(s) = Cardinality(rows) /\ Cardinality(rows) \in Nat
               /\ \A i, j \in 1 .. Len(s) : i # j => s[i].player # s[j].player
               /\ \A r \in rows : \E i \in 1 .. Len(s) : s[i] = r
    BY <1>7, OneOrder
  <2>3. QED BY <2>1, <2>2
<1>9. PICK n : n = Len(s) OBVIOUS
<1>10. n \in Nat /\ Len(s) = n BY <1>8, <1>9
<1>11. PICK ids : ids = [j \in 1 .. n |-> s[j].player] OBVIOUS
<1>12. \A j \in 1 .. n : ids[j] = s[j].player BY <1>11
<1>13. \A i, j \in 1 .. n : i # j => ids[i] # ids[j] BY <1>8, <1>9, <1>12
<1>14. {r.player : r \in rows} = {ids[i] : i \in 1 .. n}
  <2>1. \A i \in 1 .. n : s[i] \in rows BY <1>8, <1>9
  <2>2. \A r \in rows : \E i \in 1 .. n : s[i] = r BY <1>8, <1>9
  <2>3. QED BY <2>1, <2>2, <1>12
<1>15. CountPlayers(d, f) = n
  <2>1. PICK P : P = {r.player : r \in rows} OBVIOUS
  <2>2. \A p : p \in P <=> \E i \in 1 .. n : p = ids[i] BY <2>1, <1>14
  <2>3. Cardinality(P) = n BY <2>2, <1>10, <1>13, CountIs
  <2>4. QED BY <2>1, <2>3, <1>3 DEF CountPlayers
<1>16. ASSUME NEW x, NEW r, SameCriteria(x, k), x.page \in Nat, x.page >= 1, TrueOf(d, x, r)
       PROVE  PartOf(r, n, ids, size)
  <2>1. FiltersFor(d, x) = f BY <1>2, <1>16, SameAsked
  <2>2. x.page_size = size /\ x.sort = k.sort BY <1>4, <1>16 DEF SameCriteria
  <2>3. /\ r.total = n /\ r.total_pages = CeilDiv(n, size) /\ r.page = EffectivePage(x.page, r.total_pages)
        /\ r.total_pages = 0 => r.items = <<>>
    BY <1>1, <1>15, <1>16, <2>1, <2>2 DEF TrueOf
  <2>4. ASSUME r.total_pages # 0
        PROVE  LET shown == SubSeq(s, Offset(r.page, size) + 1, Min({Offset(r.page, size) + size, Len(s)}))
               IN DOMAIN r.items = DOMAIN shown /\ \A i \in DOMAIN shown : r.items[i].id = shown[i].player
    <3>1. PICK shown \in FetchPage(d, f, k.sort, size, Offset(r.page, size)) :
            DOMAIN r.items = DOMAIN shown /\ \A i \in DOMAIN shown : r.items[i].id = shown[i].player
      BY <1>1, <1>16, <2>1, <2>2, <2>4 DEF TrueOf
    <3>2. shown = SubSeq(s, Offset(r.page, size) + 1, Min({Offset(r.page, size) + size, Len(s)}))
      <4>1. PICK z \in Orders(rows, f, k.sort) :
              shown = SubSeq(z, Offset(r.page, size) + 1, Min({Offset(r.page, size) + size, Len(z)}))
        BY <1>3 DEF FetchPage
      <4>2. z = s BY <1>8
      <4>3. QED BY <4>1, <4>2
    <3>3. QED BY <3>1, <3>2, Zenon
  <2>5. PICK page \in Nat : page = x.page BY <1>16
  <2>6. PartOf(r, n, [j \in 1 .. n |-> s[j].player], size)
    BY <2>3, <2>4, <2>5, <1>5, <1>8, <1>10, <1>16, PartIs
  <2>7. QED BY <2>6, <1>11
<1>17. PartsOf(d, k, n, ids) BY <1>2, <1>3, <1>4, <1>13, <1>14, <1>16 DEF PartsOf
<1>18. QED BY <1>1, <1>10, <1>17

\* The places on the pages of a result, and the players there.
CardsOf(pages) == UNION {{<<r.page, i>> : i \in DOMAIN r.items} : r \in pages}
IdsOf(pages) == UNION {{r.items[i].id : i \in DOMAIN r.items} : r \in pages}

\* No page is missing.
EveryPage(pages) == {{1} \union 1 .. r.total_pages : r \in pages} = {{r.page : r \in pages}}

(* All the pages of a result have each of its players once, and nobody else. *)
LEMMA WalkIs ==
  ASSUME NEW n \in Nat, NEW ids, \A i, j \in 1 .. n : i # j => ids[i] # ids[j],
         NEW size \in Nat, size > 0, NEW pages, pages # {}, \A r \in pages : PartOf(r, n, ids, size),
         EveryPage(pages)
  PROVE  /\ Cardinality(CardsOf(pages)) = n /\ Cardinality(IdsOf(pages)) = n
         /\ IdsOf(pages) = {ids[j] : j \in 1 .. n}
<1> DEFINE cards == CardsOf(pages)
           players == IdsOf(pages)
<1>1. PICK t : t = CeilDiv(n, size) OBVIOUS
<1>2. SharedOut(n, size, t) BY <1>1, PlacesAre
<1> USE DEF SharedOut
<1>3. \A r \in pages : r.total_pages = t BY <1>1 DEF PartOf
<1>4. {1} \union 1 .. t = {r.page : r \in pages}
  <2>1. PICK any \in pages : TRUE OBVIOUS
  <2>2. {1} \union 1 .. any.total_pages \in {{r.page : r \in pages}} BY <2>1 DEF EveryPage
  <2>3. QED BY <2>1, <2>2, <1>3
<1>5. CASE t = 0
  <2>1. \A r \in pages : r.items = <<>> BY <1>3, <1>5 DEF PartOf
  <2>2. cards = {} /\ players = {} BY <2>1 DEF CardsOf, IdsOf
  <2>3. n = 0 /\ 1 .. 0 = {} BY <1>2, <1>5
  <2>4. QED BY <2>2, <2>3, FS_EmptySet
<1>6. CASE t # 0
  <2>1. 1 .. t = {r.page : r \in pages} BY <1>2, <1>4, <1>6
  <2>2. ASSUME NEW r \in pages
        PROVE  /\ r.page \in 1 .. t
               /\ \A i : i \in DOMAIN r.items <=> i \in 1 .. size /\ Offset(r.page, size) + i <= n
               /\ \A i \in DOMAIN r.items : r.items[i].id = ids[Offset(r.page, size) + i]
    <3>1. r.page \in 1 .. t BY <2>1
    <3>2. QED BY <3>1, <1>3, <1>6 DEF PartOf
  <2>3. \A c : c \in cards <=> \E q \in 1 .. t, i \in 1 .. size : c = <<q, i>> /\ Offset(q, size) + i <= n
    <3>1. ASSUME NEW c \in cards PROVE \E q \in 1 .. t, i \in 1 .. size : c = <<q, i>> /\ Offset(q, size) + i <= n
      <4>1. PICK r \in pages : \E i \in DOMAIN r.items : c = <<r.page, i>> BY DEF CardsOf
      <4>2. PICK i \in DOMAIN r.items : c = <<r.page, i>> BY <4>1
      <4>3. QED BY <4>2, <2>2
    <3>2. ASSUME NEW q \in 1 .. t, NEW i \in 1 .. size, Offset(q, size) + i <= n PROVE <<q, i>> \in cards
      <4>1. PICK r \in pages : r.page = q BY <2>1
      <4>2. i \in DOMAIN r.items BY <4>1, <3>2, <2>2
      <4>3. QED BY <4>1, <4>2 DEF CardsOf
    <3>3. QED BY <3>1, <3>2
  <2>4. \A p : p \in players <=> \E j \in 1 .. n : p = ids[j]
    <3>1. ASSUME NEW p \in players PROVE \E j \in 1 .. n : p = ids[j]
      <4>1. PICK r \in pages : \E i \in DOMAIN r.items : p = r.items[i].id BY DEF IdsOf
      <4>2. PICK i \in DOMAIN r.items : p = r.items[i].id BY <4>1
      <4>3. i \in 1 .. size /\ Offset(r.page, size) + i <= n /\ Offset(r.page, size) \in Nat BY <4>2, <2>2, <1>2
      <4>4. Offset(r.page, size) + i \in 1 .. n BY <4>3
      <4>5. QED BY <4>2, <4>4, <2>2
    <3>2. ASSUME NEW j \in 1 .. n PROVE ids[j] \in players
      <4>1. PICK q \in 1 .. t, i \in 1 .. size : j = Offset(q, size) + i BY <1>2
      <4>2. PICK r \in pages : r.page = q BY <2>1
      <4>3. i \in DOMAIN r.items
        <5>1. Offset(r.page, size) + i <= n BY <4>1, <4>2
        <5>2. QED BY <5>1, <4>1, <2>2
      <4>4. r.items[i].id = ids[j] BY <4>1, <4>2, <4>3, <2>2
      <4>5. QED BY <4>3, <4>4 DEF IdsOf
    <3>3. QED BY <3>1, <3>2
  <2> HIDE DEF cards, players
  <2>5. Cardinality(players) = n BY <2>4, CountIs
  <2>6. Cardinality(cards) = n
    <3> DEFINE at == [j \in 1 .. n |-> CHOOSE c \in cards : j = Offset(c[1], size) + c[2]]
    <3>1. ASSUME NEW j \in 1 .. n PROVE at[j] \in cards /\ j = Offset(at[j][1], size) + at[j][2]
      <4>1. PICK q \in 1 .. t, i \in 1 .. size : j = Offset(q, size) + i BY <1>2
      <4>2. <<q, i>> \in cards BY <4>1, <2>3
      <4>3. \E c \in cards : j = Offset(c[1], size) + c[2]
        <5>1. <<q, i>>[1] = q /\ <<q, i>>[2] = i OBVIOUS
        <5>2. QED BY <4>1, <4>2, <5>1
      <4>4. QED BY <4>3
    <3>2. ASSUME NEW c \in cards PROVE \E j \in 1 .. n : c = at[j]
      <4>1. PICK q \in 1 .. t, i \in 1 .. size : c = <<q, i>> /\ Offset(q, size) + i <= n BY <2>3
      <4>2. PICK j : j = Offset(q, size) + i OBVIOUS
      <4>3. j \in 1 .. n BY <4>1, <4>2, <1>2
      <4>4. PICK d : d = at[j] OBVIOUS
      <4>5. d \in cards /\ j = Offset(d[1], size) + d[2] BY <4>3, <4>4, <3>1
      <4>6. PICK p \in 1 .. t, h \in 1 .. size : d = <<p, h>> BY <4>5, <2>3
      <4>7. Offset(p, size) + h = Offset(q, size) + i BY <4>2, <4>5, <4>6
      <4>8. p = q /\ h = i BY <4>7, <1>2
      <4>9. c = d BY <4>1, <4>6, <4>8
      <4>10. QED BY <4>3, <4>4, <4>9
    <3> HIDE DEF at
    <3>3. \A i, j \in 1 .. n : i # j => at[i] # at[j] BY <3>1
    <3>4. \A c : c \in cards <=> \E j \in 1 .. n : c = at[j] BY <3>1, <3>2
    <3>5. QED BY <3>3, <3>4, CountIs
  <2>7. players = {ids[j] : j \in 1 .. n} BY <2>4
  <2>8. QED BY <2>5, <2>6, <2>7 DEF cards, players
<1>7. QED BY <1>5, <1>6

\* An answer that was made after the last publication, the n-th, tells what is published.
Until(asOf, n) == asOf \subseteq Nat /\ \A m \in asOf : m =< n
AnswersNow(d, n, k, data) ==
  \A r \in data : Until(r.asOf, n) /\ (r.asOf = {n} => Accepted(k) /\ TrueOf(d, k, r))

\* So do the statements of a request in flight.
CallNow(d, n, c) ==
  /\ c.at \in {"count", "page", "badges"} =>
       /\ Until(c.asOf, n) /\ c.asOf # {}
       /\ c.asOf = {n} =>
            /\ GetCurrentSeason(d) # {} /\ c.filters = {FiltersFor(d, c.key)}
            /\ c.at # "count" => c.total = CountPlayers(d, FiltersFor(d, c.key))
            /\ c.at = "badges" =>
                 IF TotalPages(c) = 0 THEN c.rows = <<>>
                 ELSE c.rows \in FetchPage(d, FiltersFor(d, c.key), c.key.sort, c.key.page_size,
                                           Offset(ServedPage(c), c.key.page_size))
  /\ AnswersNow(d, n, c.key, c.response)
  /\ "page" \in DOMAIN c.key

EntryNow(d, n, k, data) == "page" \in DOMAIN k /\ Proper(k) /\ AnswersNow(d, n, k, data)

WInv ==
  /\ publications \in Nat
  /\ \A c \in calls : CallNow(db, publications, c)
  /\ \A k \in DOMAIN cache : EntryNow(db, publications, k, cache[k].data)

(* What the invariant says of the next state. *)
LEMMA NextNow ==
  ASSUME publications' \in Nat, \A c \in calls' : CallNow(Databases[published'], publications', c),
         \A k \in DOMAIN cache' : EntryNow(Databases[published'], publications', k, cache'[k].data)
  PROVE  WInv'
BY DEF WInv, db

(* It holds of a visit that begins. *)
LEMMA InitNow == Init => WInv
BY DEF Init, WInv

(* A statement changes nothing but the call it is made for. *)
LEMMA ServerNow ==
  ASSUME WInv, NEW c \in calls, NEW d, Move(c, d), ServerStep, CallNow(db, publications, d)
  PROVE  WInv'
<1>1. calls' = (calls \ {c}) \union {d} /\ published' = published /\ publications' = publications /\ cache' = cache
  BY DEF Move, ServerStep
<1>2. \A x \in calls' : CallNow(Databases[published'], publications', x) BY <1>1 DEF WInv, db
<1>3. \A k \in DOMAIN cache' : EntryNow(Databases[published'], publications', k, cache'[k].data) BY <1>1 DEF WInv, db
<1>4. publications' \in Nat BY <1>1 DEF WInv
<1>5. QED BY <1>2, <1>3, <1>4, NextNow

(* The first statement: a season that is not there is that of the database. *)
LEMMA ReadSeasonNow ==
  ASSUME IInv, WInv, NEW c \in calls, ReadSeason(c)
  PROVE  WInv'
<1> DEFINE season == GetCurrentSeason(db)
           refused == [c EXCEPT !.at = "refused"]
           empty == EmptyResponse(c.key, {publications})
           none == [c EXCEPT !.at = "done", !.response = {empty}]
           read == [c EXCEPT !.at = "count", !.filters = {Resolved(Query(c.key), The(season))}, !.asOf = {publications}]
<1>1. CallNow(db, publications, c) /\ publications \in Nat /\ DOMAIN c = CallFields
  BY DEF WInv, IInv, CallHeld
<1>2. AnswersNow(db, publications, c.key, c.response) /\ "page" \in DOMAIN c.key BY <1>1 DEF CallNow
<1>3. CASE ~Accepted(c.key)
  <2>1. refused.at = "refused" /\ refused.key = c.key /\ refused.response = c.response BY <1>1 DEF CallFields
  <2>2. Move(c, refused) /\ ServerStep BY <1>3 DEF ReadSeason
  <2> HIDE DEF refused
  <2>3. CallNow(db, publications, refused) BY <2>1, <1>2 DEF CallNow
  <2>4. QED BY <2>2, <2>3, ServerNow
<1>4. CASE Accepted(c.key) /\ season = {}
  <2>1. none.at = "done" /\ none.key = c.key /\ none.response = {empty} BY <1>1 DEF CallFields
  <2>2. empty.asOf = {publications} /\ empty.items = <<>> /\ empty.total = 0 /\ empty.total_pages = 0 /\ empty.page = 1
    BY DEF EmptyResponse
  <2>3. Move(c, none) /\ ServerStep BY <1>4 DEF ReadSeason
  <2> HIDE DEF none, empty
  <2>4. TrueOf(db, c.key, empty) BY <2>2, <1>4 DEF TrueOf
  <2>5. Until(empty.asOf, publications) BY <2>2, <1>1 DEF Until
  <2>6. CallNow(db, publications, none) BY <2>1, <2>4, <2>5, <1>2, <1>4 DEF CallNow, AnswersNow
  <2>7. QED BY <2>3, <2>6, ServerNow
<1>5. CASE Accepted(c.key) /\ season # {}
  <2>1. /\ read.at = "count" /\ read.key = c.key /\ read.response = c.response /\ read.asOf = {publications}
        /\ read.filters = {FiltersFor(db, c.key)}
    BY <1>1 DEF CallFields, FiltersFor, SeasonOf
  <2>2. Move(c, read) /\ ServerStep BY <1>5 DEF ReadSeason
  <2> HIDE DEF read
  <2>3. Until({publications}, publications) BY <1>1 DEF Until
  <2>4. CallNow(db, publications, read) BY <2>1, <2>3, <1>2, <1>5 DEF CallNow
  <2>5. QED BY <2>2, <2>4, ServerNow
<1>6. QED BY <1>3, <1>4, <1>5

(* Of a set of publications up to the n-th, the n-th alone is left when it is joined. *)
LEMMA JoinedIs ==
  ASSUME NEW n \in Nat, NEW asOf, Until(asOf, n), asOf # {}
  PROVE  /\ Until(asOf \union {n}, n) /\ asOf \union {n} # {}
         /\ asOf \union {n} = {n} => asOf = {n}
BY DEF Until

(* The count is of the database. *)
LEMMA CountNow ==
  ASSUME IInv, WInv, NEW c \in calls, CountMatches(c)
  PROVE  WInv'
<1> DEFINE total == CountPlayers(db, The(c.filters))
           asOf == c.asOf \union {publications}
           counted == [c EXCEPT !.at = "page", !.total = CountPlayers(db, The(c.filters)), !.asOf = @ \union {publications}]
<1>1. CallNow(db, publications, c) /\ publications \in Nat /\ DOMAIN c = CallFields /\ c.at = "count"
  BY DEF WInv, IInv, CallHeld, CountMatches
<1>2. /\ counted.at = "page" /\ counted.key = c.key /\ counted.response = c.response /\ counted.filters = c.filters
      /\ counted.total = total /\ counted.asOf = asOf
  BY <1>1 DEF CallFields
<1>3. Move(c, counted) /\ ServerStep BY DEF CountMatches
<1> HIDE DEF counted
<1>4. Until(c.asOf, publications) /\ c.asOf # {} BY <1>1 DEF CallNow
<1>5. Until(asOf, publications) /\ asOf # {} /\ (asOf = {publications} => c.asOf = {publications})
  BY <1>1, <1>4, JoinedIs
<1>6. c.asOf = {publications} => total = CountPlayers(db, FiltersFor(db, c.key)) BY <1>1, TheOf DEF CallNow
<1> HIDE DEF asOf, total
<1>7. CallNow(db, publications, counted) BY <1>1, <1>2, <1>5, <1>6 DEF CallNow
<1>8. QED BY <1>3, <1>7, ServerNow

(* The rows are of the database. *)
LEMMA FetchRowsNow ==
  ASSUME IInv, WInv, NEW c \in calls, FetchRows(c)
  PROVE  WInv'
<1> DEFINE asOf == c.asOf \union {publications}
           offset == Offset(ServedPage(c), c.key.page_size)
           seen == [c EXCEPT !.at = "badges", !.asOf = @ \union {publications}]
<1>1. CallNow(db, publications, c) /\ publications \in Nat /\ DOMAIN c = CallFields /\ c.at = "page" /\ c.rows = <<>>
  BY DEF WInv, IInv, CallHeld, FetchRows
<1>2. /\ DOMAIN seen = CallFields /\ seen.at = "badges" /\ seen.key = c.key /\ seen.response = c.response
      /\ seen.filters = c.filters /\ seen.total = c.total /\ seen.asOf = asOf /\ seen.rows = c.rows
  BY <1>1 DEF CallFields
<1>3. Until(c.asOf, publications) /\ c.asOf # {} BY <1>1 DEF CallNow
<1>4. Until(asOf, publications) /\ asOf # {} /\ (asOf = {publications} => c.asOf = {publications})
  BY <1>1, <1>3, JoinedIs
<1>5. c.asOf = {publications} => The(c.filters) = FiltersFor(db, c.key) BY <1>1, TheOf DEF CallNow
<1>6. CASE TotalPages(c) = 0
  <2>1. Move(c, seen) /\ ServerStep BY <1>6 DEF FetchRows
  <2> HIDE DEF seen, asOf
  <2>2. TotalPages(seen) = 0 /\ seen.rows = <<>> BY <1>1, <1>2, <1>6 DEF TotalPages
  <2>3. CallNow(db, publications, seen) BY <2>2, <1>1, <1>2, <1>4 DEF CallNow
  <2>4. QED BY <2>1, <2>3, ServerNow
<1>7. CASE TotalPages(c) # 0
  <2>1. PICK rows \in FetchPage(db, The(c.filters), c.key.sort, c.key.page_size, offset) : Move(c, [seen EXCEPT !.rows = rows])
    BY <1>7 DEF FetchRows
  <2>2. ServerStep BY DEF FetchRows
  <2> HIDE DEF seen, asOf
  <2> DEFINE page == [seen EXCEPT !.rows = rows]
  <2>3. /\ page.at = "badges" /\ page.key = c.key /\ page.response = c.response
        /\ page.filters = c.filters /\ page.total = c.total /\ page.asOf = asOf /\ page.rows = rows
    BY <1>2 DEF CallFields
  <2> HIDE DEF page
  <2>4. TotalPages(page) = TotalPages(c) /\ ServedPage(page) = ServedPage(c) BY <2>3 DEF TotalPages, ServedPage
  <2>5. c.asOf = {publications} => rows \in FetchPage(db, FiltersFor(db, c.key), c.key.sort, c.key.page_size, offset)
    BY <2>1, <1>5
  <2>6. CallNow(db, publications, page)
    <3>1. asOf = {publications} =>
            /\ GetCurrentSeason(db) # {} /\ page.filters = {FiltersFor(db, c.key)}
            /\ page.total = CountPlayers(db, FiltersFor(db, c.key))
            /\ page.rows \in FetchPage(db, FiltersFor(db, c.key), c.key.sort, c.key.page_size,
                                       Offset(ServedPage(page), c.key.page_size))
      <4> HAVE asOf = {publications}
      <4>1. c.asOf = {publications} BY <1>4
      <4>2. c.filters = {FiltersFor(db, c.key)} /\ c.total = CountPlayers(db, FiltersFor(db, c.key)) /\ GetCurrentSeason(db) # {}
        BY <4>1, <1>1 DEF CallNow
      <4>3. QED BY <4>1, <4>2, <2>3, <2>4, <2>5
    <3>2. AnswersNow(db, publications, c.key, c.response) /\ "page" \in DOMAIN c.key BY <1>1 DEF CallNow
    <3>3. QED BY <3>1, <3>2, <2>3, <2>4, <1>4, <1>7 DEF CallNow
  <2>7. QED BY <2>1, <2>2, <2>6, ServerNow DEF page
<1>8. QED BY <1>6, <1>7

(* The answer that is assembled is that of the database. *)
LEMMA FetchBadgesNow ==
  ASSUME IInv, WInv, NEW c \in calls, FetchBadges(c)
  PROVE  WInv'
<1> DEFINE season == The(c.filters).season
           of(p) == Of(db.badges, p, season)
           answer == Response(c, of)
           done == [c EXCEPT !.at = "done", !.response = {answer}]
<1>1. CallNow(db, publications, c) /\ publications \in Nat /\ c.at = "badges" /\ DOMAIN c = CallFields /\ Accepted(c.key)
  BY DEF WInv, IInv, CallHeld, FetchBadges
<1> DEFINE card(i) == CardFromRow(c.rows[i], of(c.rows[i].player), The(c.filters))
<1>2. /\ answer.items = [i \in DOMAIN c.rows |-> card(i)] /\ answer.total = c.total /\ answer.page = ServedPage(c)
      /\ answer.total_pages = TotalPages(c) /\ answer.asOf = c.asOf
  BY DEF Response
<1>3. \A i : card(i).id = c.rows[i].player BY DEF CardFromRow
<1>4. Move(c, done) /\ ServerStep BY DEF FetchBadges
<1>5. done.at = "done" /\ done.key = c.key /\ done.response = {answer} BY <1>1 DEF CallFields
<1> HIDE DEF done, answer, of, card
<1>6. DOMAIN answer.items = DOMAIN c.rows /\ \A i \in DOMAIN c.rows : answer.items[i].id = c.rows[i].player
  BY <1>2, <1>3
<1>7. Until(c.asOf, publications) BY <1>1 DEF CallNow
<1>8. ASSUME c.asOf = {publications} PROVE TrueOf(db, c.key, answer)
  <2>1. /\ GetCurrentSeason(db) # {} /\ c.total = CountPlayers(db, FiltersFor(db, c.key))
        /\ IF TotalPages(c) = 0 THEN c.rows = <<>>
           ELSE c.rows \in FetchPage(db, FiltersFor(db, c.key), c.key.sort, c.key.page_size,
                                     Offset(ServedPage(c), c.key.page_size))
    BY <1>1, <1>8 DEF CallNow
  <2>2. answer.total_pages = CeilDiv(answer.total, c.key.page_size) /\ answer.page = EffectivePage(c.key.page, answer.total_pages)
    BY <1>2 DEF TotalPages, ServedPage
  <2>3. CASE TotalPages(c) = 0
    <3>1. answer.items = <<>>
      <4>1. DOMAIN c.rows = {} BY <2>1, <2>3
      <4>2. answer.items = [i \in {} |-> card(i)] BY <4>1, <1>2
      <4>3. QED BY <4>2
    <3>2. QED BY <3>1, <2>1, <2>2, <2>3, <1>2 DEF TrueOf
  <2>4. CASE TotalPages(c) # 0 BY <2>1, <2>2, <2>4, <1>2, <1>6 DEF TrueOf
  <2>5. QED BY <2>3, <2>4
<1>9. CallNow(db, publications, done) BY <1>1, <1>2, <1>5, <1>7, <1>8 DEF CallNow, AnswersNow
<1>10. QED BY <1>4, <1>9, ServerNow

(* A new request says nothing yet. *)
LEMMA CallNowIs ==
  ASSUME NEW d, NEW n, NEW k, "page" \in DOMAIN k, NEW attempt
  PROVE  CallNow(d, n, Call(k, attempt))
<1>1. PICK c : c = Call(k, attempt) OBVIOUS
<1>2. c.key = k /\ c.at = "sent" /\ c.response = {} BY <1>1 DEF Call
<1>3. CallNow(d, n, c) BY <1>2 DEF CallNow, AnswersNow
<1>4. QED BY <1>1, <1>3

(* A step of the browser publishes nothing; what it stores under a key is true of it. *)
LEMMA BrowserNow ==
  ASSUME WInv, UNCHANGED <<published, publications>>,
         \A c \in calls' : CallNow(db, publications, c),
         cache' = cache \/ \E k : \E e : EntryNow(db, publications, k, e.data) /\ cache' = Stored(k, e)
  PROVE  WInv'
<1>1. \A k \in DOMAIN cache : EntryNow(db, publications, k, cache[k].data) BY DEF WInv
<1>2. \A k \in DOMAIN cache' : EntryNow(db, publications, k, cache'[k].data)
  <2>1. CASE cache' = cache BY <2>1, <1>1
  <2>2. CASE \E k : \E e : EntryNow(db, publications, k, e.data) /\ cache' = Stored(k, e) BY <2>2, <1>1 DEF Stored
  <2>3. QED BY <2>1, <2>2
<1>3. publications' \in Nat BY DEF WInv
<1>4. db = Databases[published'] BY DEF db
<1>5. QED BY <1>2, <1>3, <1>4, NextNow

(* What the cache has for a proper key, nothing included, is true of it. *)
LEMMA HeldNow ==
  ASSUME WInv, NEW k, Proper(k), "page" \in DOMAIN k
  PROVE  EntryNow(db, publications, k, Entry(k).data)
BY DEF WInv, Entry, NoEntry, EntryNow, AnswersNow

(* Nothing that is held is of the publication that comes. *)
LEMMA PublishNow ==
  ASSUME WInv, Publish
  PROVE  WInv'
<1> DEFINE n == publications
<1>1. n \in Nat /\ publications' = n + 1 /\ calls' = calls /\ cache' = cache BY DEF WInv, Publish
<1>2. PICK d : d = Databases[published'] OBVIOUS
<1> HIDE DEF n
<1>3. \A asOf : Until(asOf, n) => Until(asOf, n + 1) /\ asOf # {n + 1} BY <1>1 DEF Until
<1>4. \A k, data : AnswersNow(db, n, k, data) => AnswersNow(d, n + 1, k, data) BY <1>3 DEF AnswersNow
<1>5. \A c \in calls' : CallNow(d, n + 1, c)
  <2> TAKE c \in calls'
  <2>1. CallNow(db, n, c) BY <1>1 DEF WInv, n
  <2>2. QED BY <2>1, <1>3, <1>4 DEF CallNow
<1>6. \A k \in DOMAIN cache' : EntryNow(d, n + 1, k, cache'[k].data)
  <2> TAKE k \in DOMAIN cache'
  <2>1. EntryNow(db, n, k, cache[k].data) BY <1>1 DEF WInv, n
  <2>2. QED BY <2>1, <1>1, <1>4 DEF EntryNow
<1>7. QED BY <1>1, <1>2, <1>5, <1>6, NextNow

(* A request is made; what its key holds stays. *)
LEMMA RequestNow ==
  ASSUME IInv, WInv, Ask \/ AskAgain
  PROVE  WInv'
<1>1. Proper(Key) /\ "page" \in DOMAIN Key BY KeyHeld
<1>2. calls' = calls \union {Call(Key, 1)} /\ UNCHANGED <<published, publications>> BY DEF Ask, AskAgain
<1>3. \A c \in calls' : CallNow(db, publications, c) BY <1>1, <1>2, CallNowIs DEF WInv
<1>4. cache' = cache \/ \E k : \E e : EntryNow(db, publications, k, e.data) /\ cache' = Stored(k, e)
  <2>1. CASE Ask BY <2>1 DEF Ask
  <2>2. CASE AskAgain
    <3> DEFINE e == Entry(Key)
               again == [e EXCEPT !.failed = e.failed /\ e.data # {}]
    <3>1. cache' = Stored(Key, again) BY <2>2 DEF AskAgain
    <3>2. again.data = e.data OBVIOUS
    <3>3. EntryNow(db, publications, Key, again.data) BY <3>2, <1>1, HeldNow
    <3>4. QED BY <3>1, <3>3
  <2>3. QED BY <2>1, <2>2
<1>5. QED BY <1>2, <1>3, <1>4, BrowserNow

(* An answer arrives under the key it answers. *)
LEMMA AnsweredNow ==
  ASSUME IInv, WInv, NEW c \in calls, Answered(c)
  PROVE  WInv'
<1> DEFINE e == [data |-> c.response, failed |-> FALSE]
<1>1. /\ cache' = Stored(c.key, e) /\ e.data = c.response /\ calls' \subseteq calls
      /\ UNCHANGED <<published, publications>>
  BY DEF Answered
<1>2. EntryNow(db, publications, c.key, c.response) BY DEF IInv, CallHeld, WInv, CallNow, EntryNow
<1> HIDE DEF e
<1>3. \A x \in calls' : CallNow(db, publications, x) BY <1>1 DEF WInv
<1>4. QED BY <1>1, <1>2, <1>3, BrowserNow

(* A request fails; what its key held stays. *)
LEMMA LostNow ==
  ASSUME IInv, WInv, NEW c \in calls, Lost(c)
  PROVE  WInv'
<1>1. UNCHANGED <<published, publications>> /\ Failed(c) BY DEF Lost
<1>2. Proper(c.key) /\ "page" \in DOMAIN c.key BY DEF IInv, CallHeld, WInv, CallNow
<1>3. \A x \in calls' : CallNow(db, publications, x) BY <1>1, <1>2, CallNowIs DEF Failed, Move, WInv
<1>4. cache' = cache \/ \E k : \E e : EntryNow(db, publications, k, e.data) /\ cache' = Stored(k, e)
  <2> DEFINE e == Entry(c.key)
             failed == [e EXCEPT !.failed = TRUE]
  <2>1. failed.data = e.data OBVIOUS
  <2>2. EntryNow(db, publications, c.key, failed.data) BY <2>1, <1>2, HeldNow
  <2>3. cache' = cache \/ cache' = Stored(c.key, failed) BY <1>1 DEF Failed
  <2>4. QED BY <2>2, <2>3
<1>5. QED BY <1>1, <1>3, <1>4, BrowserNow

(* What is true of a request whose page is not there is true of the request for the page
   that was served instead. *)
LEMMA ServedInstead ==
  ASSUME NEW e \in DOMAIN Databases, NEW k, Proper(k), Accepted(k), "page" \in DOMAIN k,
         NEW r, TrueOf(Databases[e], k, r), r.page \in Int
  PROVE  LET h == [k EXCEPT !.page = r.page] IN Accepted(h) /\ TrueOf(Databases[e], h, r)
<1>1. PICK d : d = Databases[e] OBVIOUS
<1>2. PICK h : h = [k EXCEPT !.page = r.page] OBVIOUS
<1>3. SameCriteria(h, k) /\ h.page = r.page BY <1>2 DEF SameCriteria, Field
<1>4. k.page \in Nat /\ k.page >= 1 /\ k.page_size \in Nat /\ k.page_size > 0
  <2>1. k.page >= 1 /\ k.page_size \in 1 .. PAGE_SIZE_CEILING /\ k.page \in Int BY DEF Accepted, WithinLimits, Proper
  <2>2. PAGE_SIZE_CEILING \in Int BY DEF PAGE_SIZE_CEILING
  <2>3. QED BY <2>1, <2>2
<1>5. r.page >= 1 /\ TrueOf(d, h, r)
  <2>1. CASE GetCurrentSeason(d) = {}
    <3>1. r.page = 1 BY <2>1, <1>1 DEF TrueOf
    <3>2. QED BY <3>1, <2>1, <1>1 DEF TrueOf
  <2>2. CASE GetCurrentSeason(d) # {}
    <3>1. SameCriteria(k, k) BY DEF SameCriteria
    <3>2. PICK n \in Nat : \E ids : PartsOf(Databases[e], k, n, ids) BY <2>2, <1>1, PartsAre
    <3> PICK ids : PartsOf(Databases[e], k, n, ids) BY <3>2
    <3>3. PartOf(r, n, ids, k.page_size) BY <3>1, <1>4 DEF PartsOf
    <3>4. PICK t : t = r.total_pages OBVIOUS
    <3>5. t = CeilDiv(n, k.page_size) BY <3>3, <3>4 DEF PartOf
    <3>6. t \in Nat
      <4>1. PICK size \in Nat : size = k.page_size /\ size > 0 BY <1>4
      <4>2. SharedOut(n, size, t) BY <3>5, <4>1, PlacesAre
      <4>3. QED BY <4>2 DEF SharedOut
    <3>7. PICK page \in Nat : page = k.page /\ page >= 1 BY <1>4
    <3>8. r.page = EffectivePage(page, t) BY <3>4, <3>7, <2>2, <1>1 DEF TrueOf
    <3>9. r.page >= 1 /\ EffectivePage(r.page, t) = r.page BY <3>6, <3>7, <3>8, EffectiveIs
    <3>10. FiltersFor(d, h) = FiltersFor(d, k) /\ h.sort = k.sort /\ h.page_size = k.page_size
      BY <1>3, SameAsked DEF SameCriteria
    <3>11. TrueOf(d, h, r) BY <2>2, <1>1, <1>3, <3>4, <3>9, <3>10 DEF TrueOf
    <3>12. QED BY <3>9, <3>11
  <2>3. QED BY <2>1, <2>2
<1>6. Accepted(h) BY <1>3, <1>5 DEF Accepted, WithinLimits, SameCriteria
<1>7. QED BY <1>1, <1>2, <1>5, <1>6

(* The address follows the page that was served. *)
LEMMA SyncNow ==
  ASSUME IInv, WInv, SyncCanonicalPage
  PROVE  WInv'
<1>1. PICK served \in Entry(Key).data :
        /\ cache' = Stored(CanonicalKey(Key, served.page), [data |-> {served}, failed |-> FALSE])
        /\ UNCHANGED <<published, publications, calls>>
  BY DEF SyncCanonicalPage
<1>2. PICK k : k = Key OBVIOUS
<1>3. PICK h : h = [k EXCEPT !.page = served.page] OBVIOUS
<1>4. Proper(k) /\ "page" \in DOMAIN k BY <1>2, KeyHeld
<1>5. served.page \in Int BY EntryHeld DEF Answers
<1>6. EntryNow(db, publications, k, Entry(k).data) BY <1>4, HeldNow
<1>7. Until(served.asOf, publications) /\ (served.asOf = {publications} => Accepted(k) /\ TrueOf(db, k, served))
  BY <1>2, <1>6 DEF EntryNow, AnswersNow
<1>8. "page" \in DOMAIN h /\ Proper(h) BY <1>3, <1>4, <1>5 DEF Proper, Field
<1>9. served.asOf = {publications} => Accepted(h) /\ TrueOf(db, h, served)
  <2> HAVE served.asOf = {publications}
  <2>1. published \in DOMAIN Databases /\ db = Databases[published] BY DEF IInv, db
  <2>2. QED BY <2>1, <1>3, <1>4, <1>5, <1>7, ServedInstead
<1>10. EntryNow(db, publications, h, {served}) BY <1>7, <1>8, <1>9 DEF EntryNow, AnswersNow
<1>11. PICK e : e = [data |-> {served}, failed |-> FALSE] OBVIOUS
<1>12. cache' = Stored(h, e) BY <1>1, <1>2, <1>3, <1>11 DEF CanonicalKey
<1>13. EntryNow(db, publications, h, e.data)
  <2>1. e.data = {served} BY <1>11
  <2>2. QED BY <2>1, <1>10
<1>14. \A c \in calls' : CallNow(db, publications, c) BY <1>1 DEF WInv
<1>15. QED BY <1>1, <1>12, <1>13, <1>14, BrowserNow

(* A click changes the address and nothing else. *)
LEMMA ClickNow ==
  ASSUME WInv, ChangeFilter \/ RemoveCriterion \/ ClearAll \/ TurnPage \/ OpenView
  PROVE  WInv'
<1>1. UNCHANGED <<published, publications, cache, calls>>
  BY DEF ChangeFilter, RemoveCriterion, ClearAll, TurnPage, OpenView, Navigate
<1>2. \A c \in calls' : CallNow(db, publications, c) BY <1>1 DEF WInv
<1>3. QED BY <1>1, <1>2, BrowserNow

(* Every step keeps what the answers tell of the last publication. *)
LEMMA StepNow == IInv /\ WInv /\ [Next]_vars => WInv'
<1> SUFFICES ASSUME IInv, WInv, [Next]_vars PROVE WInv' OBVIOUS
<1>1. CASE Publish BY <1>1, PublishNow
<1>2. CASE Server
  <2>1. PICK c \in calls : ReadSeason(c) \/ CountMatches(c) \/ FetchRows(c) \/ FetchBadges(c) BY <1>2 DEF Server
  <2>2. QED BY <2>1, ReadSeasonNow, CountNow, FetchRowsNow, FetchBadgesNow
<1>3. CASE Network BY <1>3, AnsweredNow DEF Network
<1>4. CASE \E c \in calls : Lost(c) BY <1>4, LostNow
<1>5. CASE Ask \/ AskAgain BY <1>5, RequestNow
<1>6. CASE SyncCanonicalPage BY <1>6, SyncNow
<1>7. CASE ChangeFilter \/ RemoveCriterion \/ ClearAll \/ TurnPage \/ OpenView BY <1>7, ClickNow
<1>8. CASE UNCHANGED vars
  <2>1. UNCHANGED <<published, publications, cache, calls>> BY <1>8 DEF vars
  <2>2. \A c \in calls' : CallNow(db, publications, c) BY <2>1 DEF WInv
  <2>3. QED BY <2>1, <2>2, BrowserNow
<1>9. QED BY <1>1, <1>2, <1>3, <1>4, <1>5, <1>6, <1>7, <1>8 DEF Next

(* The pages of a walk answer requests that differ in the page at most, and are of the
   database that is published. *)
LEMMA PagesTrue ==
  ASSUME WInv, NEW k \in DOMAIN cache, NEW r \in Pages(k)
  PROVE  \E x \in DOMAIN cache :
           /\ SameCriteria(x, k) /\ Proper(x) /\ Accepted(x) /\ x.page \in Nat /\ x.page >= 1
           /\ TrueOf(db, x, r)
<1>1. PICK x \in DOMAIN cache : [x EXCEPT !.page = k.page] = k /\ r \in cache[x].data /\ r.asOf = {publications}
  BY DEF Pages
<1>2. EntryNow(db, publications, x, cache[x].data) BY DEF WInv
<1>3. "page" \in DOMAIN x /\ Proper(x) /\ Accepted(x) /\ TrueOf(db, x, r) BY <1>1, <1>2 DEF EntryNow, AnswersNow
<1>4. PICK h : h = [x EXCEPT !.page = k.page] OBVIOUS
<1>5. SameCriteria(h, x) BY <1>3, <1>4 DEF SameCriteria, Field
<1>6. SameCriteria(x, k) BY <1>1, <1>4, <1>5 DEF SameCriteria
<1>7. x.page \in Nat /\ x.page >= 1 BY <1>3 DEF Proper, Accepted, WithinLimits
<1>8. QED BY <1>3, <1>6, <1>7

(* Of a request whose first page is there, all the pages have each player of the result once. *)
LEMMA WalkHeld == IInv /\ WInv => WalkIsComplete
<1> SUFFICES ASSUME IInv, WInv, NEW k \in DOMAIN cache, k.page = 1, NEW pages, pages = Pages(k), pages # {},
                    EveryPage(pages)
             PROVE  /\ {r.total : r \in pages} = {Cardinality(CardsOf(pages))}
                    /\ {r.total : r \in pages} = {Cardinality(IdsOf(pages))}
                    /\ ~NarrowsByText(k) => IdsOf(pages) = {p \in WithAppearance : CardMeets(CardOf(p, k), k)}
  BY Zenon DEF WalkIsComplete, CardsOf, IdsOf, EveryPage
<1>1. \A r \in pages : \E x \in DOMAIN cache :
        /\ SameCriteria(x, k) /\ Proper(x) /\ Accepted(x) /\ x.page \in Nat /\ x.page >= 1
        /\ TrueOf(db, x, r)
  BY PagesTrue
<1>2. Proper(k) BY DEF WInv, EntryNow
<1>3. Accepted(k)
  <2>1. PICK r \in pages : TRUE OBVIOUS
  <2>2. PICK x \in DOMAIN cache : SameCriteria(x, k) /\ Accepted(x) BY <2>1, <1>1
  <2>3. /\ \A f \in {"min_minutes", "rolefit_min", "rolefit_max", "value_min", "value_max", "position_group", "role"} :
               Field(x, f) = Field(k, f)
        /\ x.sort = k.sort /\ x.page_size = k.page_size
    BY <2>2 DEF SameCriteria
  <2>4. k.page >= 1 OBVIOUS
  <2>5. WithinLimits(k) BY <2>2, <2>3, <2>4 DEF Accepted, WithinLimits
  <2>6. QED BY <2>2, <2>3, <2>5 DEF Accepted
<1>4. CASE GetCurrentSeason(db) = {}
  <2>1. \A r \in pages : r.items = <<>> /\ r.total = 0 BY <1>1, <1>4 DEF TrueOf
  <2>2. CardsOf(pages) = {} /\ IdsOf(pages) = {} BY <2>1 DEF CardsOf, IdsOf
  <2>3. {r.total : r \in pages} = {0} BY <2>1
  <2>4. WithAppearance = {}
    <3>1. {s.id : s \in GetCurrentSeason(db)} = {} BY <1>4
    <3>2. \A b : {b.season} # {} OBVIOUS
    <3>3. {b \in db.appearances : {b.season} = {s.id : s \in GetCurrentSeason(db)}} = {} BY <3>1, <3>2
    <3>4. QED BY <3>3 DEF WithAppearance
  <2>5. QED BY <2>2, <2>3, <2>4, FS_EmptySet
<1>5. CASE GetCurrentSeason(db) # {}
  <2>1. published \in DOMAIN Databases /\ db = Databases[published] BY DEF IInv, db
  <2> PICK n \in Nat : \E ids : PartsOf(db, k, n, ids)
    <3>1. PICK e \in DOMAIN Databases : Databases[e] = db BY <2>1
    <3>2. \E n \in Nat : \E ids : PartsOf(Databases[e], k, n, ids) BY <3>1, <1>2, <1>3, <1>5, PartsAre
    <3>3. QED BY <3>1, <3>2
  <2> PICK ids : PartsOf(db, k, n, ids) OBVIOUS
  <2>2. /\ \A i, j \in 1 .. n : i # j => ids[i] # ids[j]
        /\ {ids[i] : i \in 1 .. n} = {r.player : r \in Candidates(db, FiltersFor(db, k))}
    BY DEF PartsOf
  <2>3. \A r \in pages : PartOf(r, n, ids, k.page_size) BY <1>1 DEF PartsOf
  <2>4. PICK size \in Nat : size = k.page_size /\ size > 0
    <3>1. PAGE_SIZE_CEILING \in Int BY DEF PAGE_SIZE_CEILING
    <3>2. QED BY <3>1, <1>3 DEF Accepted, WithinLimits
  <2>5. \A r \in pages : PartOf(r, n, ids, size) BY <2>3, <2>4
  <2>6. /\ Cardinality(CardsOf(pages)) = n /\ Cardinality(IdsOf(pages)) = n
        /\ IdsOf(pages) = {ids[j] : j \in 1 .. n}
    <3>1. \A i, j \in 1 .. n : i # j => ids[i] # ids[j] BY <2>2
    <3>2. QED BY <3>1, <2>4, <2>5, WalkIs
  <2>7. {r.total : r \in pages} = {n}
    <3>1. \A r \in pages : r.total = n BY <2>5 DEF PartOf
    <3>2. PICK r \in pages : TRUE OBVIOUS
    <3>3. QED BY <3>1, <3>2
  <2>8. ~NarrowsByText(k) => IdsOf(pages) = {p \in WithAppearance : CardMeets(CardOf(p, k), k)}
    BY <2>1, <2>2, <2>6, <1>2, <1>5, WhoMeets
  <2>9. QED BY <2>6, <2>7, <2>8
<1>6. QED BY <1>4, <1>5

(* Whatever is published, asked for, lost and repeated meanwhile: once every page of a result
   has been read of one publication, they have every player who meets the request exactly once. *)
THEOREM WalkIsCompleteCorrect == Spec => []WalkIsComplete
<1>1. IInv /\ WInv /\ [Next]_vars => IInv' /\ WInv' BY NextHeld, StepNow
<1>2. Init => IInv /\ WInv BY InitHeld, InitNow
<1>3. IInv /\ WInv => WalkIsComplete BY WalkHeld
<1>4. QED BY <1>1, <1>2, <1>3, PTL DEF Spec

\* A text with a word at either end, and one in which every word is composed besides.
Edged(t) == IsList(t) /\ Len(t) # 0 /\ t[1] # Blank /\ t[Len(t)] # Blank
Normal(t) == Edged(t) /\ \A i \in DOMAIN t : t[i] \notin DOMAIN Composed

(* A part of a list. *)
LEMMA PartOfList ==
  ASSUME NEW t, IsList(t), NEW m \in 1 .. Len(t), NEW n \in 1 .. Len(t), m =< n
  PROVE  LET s == SubSeq(t, m, n)
         IN IsList(s) /\ Len(s) = n - m + 1 /\ \A i \in 1 .. n - m + 1 : s[i] = t[m + i - 1]
<1>1. PICK V : V = {t[i] : i \in DOMAIN t} OBVIOUS
<1>2. Len(t) \in Nat /\ DOMAIN t = 1 .. Len(t) BY ListIs
<1>3. \A i \in m .. n : t[i] \in V BY <1>1, <1>2
<1>4. PICK s : s = SubSeq(t, m, n) OBVIOUS
<1>5. m \in Int /\ n \in Int BY <1>2
<1>6. s \in Seq(V) /\ Len(s) = n - m + 1 /\ \A i \in 1 .. n - m + 1 : s[i] = t[m + i - 1]
  BY <1>3, <1>4, <1>5, SubSeqProperties
<1>7. n - m + 1 \in Nat BY <1>5
<1>8. s = [i \in 1 .. n - m + 1 |-> s[i]] BY <1>6, <1>7
<1>9. IsList(s) BY <1>7, <1>8, ListOf
<1>10. QED BY <1>4, <1>6, <1>9

(* White space is trimmed off both ends. *)
LEMMA TrimIs ==
  ASSUME NEW t, IsList(t)
  PROVE  Trimmed(t) = <<>> \/ Edged(Trimmed(t))
<1> DEFINE words == {i \in DOMAIN t : t[i] # Blank}
           first == CHOOSE i \in words : \A j \in words : i =< j
           last == CHOOSE i \in words : \A j \in words : i >= j
<1>1. Len(t) \in Nat /\ DOMAIN t = 1 .. Len(t) BY ListIs
<1>2. CASE words = {} BY <1>2 DEF Trimmed
<1>3. CASE words # {}
  <2>1. words \subseteq Int /\ \A x \in words : 1 =< x /\ x =< Len(t) BY <1>1
  <2>2. PICK m \in words : \A j \in words : m =< j
    <3>1. PICK S : S = words OBVIOUS
    <3>2. S \subseteq Int /\ S # {} /\ 1 \in Int /\ \A x \in S : 1 =< x BY <1>3, <2>1, <3>1
    <3>3. Min(S) \in S /\ \A x \in S : Min(S) =< x BY <3>2, LeastOf
    <3>4. QED BY <3>1, <3>3
  <2>3. PICK n \in words : \A j \in words : n >= j
    <3>1. PICK S : S = words OBVIOUS
    <3>2. S \subseteq Int /\ S # {} /\ Len(t) \in Int /\ \A x \in S : x =< Len(t) BY <1>1, <1>3, <2>1, <3>1
    <3>3. Max(S) \in S /\ \A x \in S : x =< Max(S) BY <3>2, GreatestOf
    <3>4. QED BY <2>1, <3>1, <3>3
  <2>4. first \in words /\ \A j \in words : first =< j BY <2>2
  <2>5. last \in words /\ \A j \in words : last >= j BY <2>3
  <2>6. Trimmed(t) = SubSeq(t, first, last) BY <1>3 DEF Trimmed
  <2>7. PICK a, b : a = first /\ b = last OBVIOUS
  <2>8. a \in words /\ b \in words /\ a =< b BY <2>4, <2>5, <2>7
  <2>9. a \in 1 .. Len(t) /\ b \in 1 .. Len(t) /\ t[a] # Blank /\ t[b] # Blank BY <1>1, <2>8
  <2>10. PICK s : s = SubSeq(t, a, b) OBVIOUS
  <2>11. IsList(s) /\ Len(s) = b - a + 1 /\ \A i \in 1 .. b - a + 1 : s[i] = t[a + i - 1]
    BY <2>8, <2>9, <2>10, PartOfList
  <2>12. 1 \in 1 .. b - a + 1 /\ b - a + 1 \in 1 .. b - a + 1 /\ a + 1 - 1 = a /\ a + (b - a + 1) - 1 = b
    BY <2>8, <2>9, <1>1
  <2>13. Edged(s) BY <2>9, <2>11, <2>12 DEF Edged
  <2>14. QED BY <2>6, <2>7, <2>10, <2>13
<1>4. QED BY <1>2, <1>3

(* What has no white space at its ends stays as it is. *)
LEMMA TrimFix ==
  ASSUME NEW t, Edged(t)
  PROVE  Trimmed(t) = t
<1> DEFINE words == {i \in DOMAIN t : t[i] # Blank}
           first == CHOOSE i \in words : \A j \in words : i =< j
           last == CHOOSE i \in words : \A j \in words : i >= j
<1>1. Len(t) \in Nat /\ DOMAIN t = 1 .. Len(t) /\ IsList(t) /\ t = [i \in 1 .. Len(t) |-> t[i]] BY ListIs DEF Edged
<1>2. 1 \in words /\ Len(t) \in words BY <1>1 DEF Edged
<1>3. \A j \in words : 1 =< j /\ Len(t) >= j BY <1>1
<1>4. words \subseteq Int BY <1>1
<1>5. first = 1 BY <1>2, <1>3, <1>4
<1>6. last = Len(t) BY <1>2, <1>3, <1>4
<1>7. Trimmed(t) = SubSeq(t, first, last) BY <1>2 DEF Trimmed
<1>8. PICK s : s = SubSeq(t, 1, Len(t)) OBVIOUS
<1>9. 1 \in 1 .. Len(t) /\ Len(t) \in 1 .. Len(t) /\ 1 =< Len(t) BY <1>1, <1>2
<1>10. IsList(s) /\ Len(s) = Len(t) - 1 + 1 /\ \A i \in 1 .. Len(t) - 1 + 1 : s[i] = t[1 + i - 1]
  BY <1>1, <1>8, <1>9, PartOfList
<1>11. Len(t) - 1 + 1 = Len(t) /\ \A i \in 1 .. Len(t) : 1 + i - 1 = i BY <1>1
<1>12. Len(s) = Len(t) /\ \A i \in 1 .. Len(t) : s[i] = t[i] BY <1>10, <1>11
<1>13. s = [i \in 1 .. Len(s) |-> s[i]] BY <1>10, ListIs
<1>14. s = t BY <1>1, <1>12, <1>13
<1>15. QED BY <1>5, <1>6, <1>7, <1>8, <1>14

(* A composed text has no white space at its ends if it had none. *)
LEMMA NfcIs ==
  ASSUME NEW t, Edged(t)
  PROVE  Normal(Nfc(t))
<1>1. PICK n : n = Len(t) OBVIOUS
<1>2. n \in Nat /\ n # 0 /\ DOMAIN t = 1 .. n BY <1>1, ListIs DEF Edged
<1>3. PICK s : s = Nfc(t) OBVIOUS
<1>4. s = [i \in 1 .. n |-> IF t[i] \in DOMAIN Composed THEN Composed[t[i]] ELSE t[i]] BY <1>2, <1>3 DEF Nfc
<1>5. s = [i \in 1 .. n |-> s[i]] BY <1>4
<1>6. IsList(s) /\ Len(s) = n /\ DOMAIN s = 1 .. n BY <1>2, <1>5, ListOf
<1>7. \A i \in 1 .. n : s[i] = IF t[i] \in DOMAIN Composed THEN Composed[t[i]] ELSE t[i] BY <1>4
<1>8. \A i \in 1 .. n : s[i] \notin DOMAIN Composed BY <1>7, ComposedAssumption
<1>9. \A i \in 1 .. n : t[i] # Blank => s[i] # Blank BY <1>7, ComposedAssumption
<1>10. 1 \in 1 .. n /\ n \in 1 .. n BY <1>2
<1>11. t[1] # Blank /\ t[n] # Blank BY <1>1 DEF Edged
<1>12. Normal(s) BY <1>2, <1>6, <1>8, <1>9, <1>10, <1>11 DEF Normal, Edged
<1>13. QED BY <1>3, <1>12

(* A normal text is not changed by normalizing it. *)
LEMMA NormalFix ==
  ASSUME NEW t, Normal(t)
  PROVE  Nfc(Trimmed(t)) = t /\ t # <<>>
<1>1. Trimmed(t) = t BY TrimFix DEF Normal
<1>2. IsList(t) /\ Len(t) # 0 BY DEF Normal, Edged
<1>3. DOMAIN t = 1 .. Len(t) /\ t = [i \in 1 .. Len(t) |-> t[i]] BY <1>2, ListIs
<1>4. Nfc(t) = [i \in 1 .. Len(t) |-> t[i]] BY <1>3 DEF Nfc, Normal
<1>5. t # <<>> BY <1>2
<1>6. QED BY <1>1, <1>3, <1>4, <1>5

(* What normalizing leaves of parameters that are lists of words is normal. *)
LEMMA TextsAreNormal ==
  ASSUME NEW params, TextsIn(params), NEW f
  PROVE  /\ \A t \in NormalizeText(Field(params, f)) : Normal(t)
         /\ \A s, t \in NormalizeText(Field(params, f)) : s = t
<1>1. PICK raws : raws = Field(params, f) OBVIOUS
<1>2. \A t \in Texts(raws) : IsList(t) /\ t = params[f].txt
  <2>1. \A x \in raws : x = params[f] /\ f \in DOMAIN params BY <1>1 DEF Field
  <2>2. QED BY <2>1 DEF Texts, TextsIn
<1>3. ASSUME NEW t \in NormalizeText(raws) PROVE Normal(t) /\ t = Nfc(Trimmed(params[f].txt))
  <2>1. PICK x \in Texts(raws) : t = Nfc(Trimmed(x)) /\ t # <<>> BY DEF NormalizeText
  <2>2. IsList(x) BY <1>2
  <2>3. Trimmed(x) # <<>>
    <3>1. SUFFICES ASSUME Trimmed(x) = <<>> PROVE FALSE OBVIOUS
    <3>2. Nfc(<<>>) = <<>> BY DEF Nfc
    <3>3. QED BY <2>1, <3>1, <3>2
  <2>4. Edged(Trimmed(x)) BY <2>2, <2>3, TrimIs
  <2>5. Normal(t) BY <2>1, <2>4, NfcIs
  <2>6. QED BY <1>2, <2>1, <2>5
<1>4. QED BY <1>1, <1>3

\* The fields of a view before those without a value are left out.
AgesOf(params) ==
  LET explicit == AgeSelectionFromBounds(ParseAgeBound(Field(params, "age_min")), ParseAgeBound(Field(params, "age_max")))
  IN AgeBounds(IF explicit.direction # "all" THEN explicit ELSE LegacyAgeBandSelection(Field(params, "age_band")))
RoleFitOf(params) ==
  CoherentBounds(ParseRoleFitThreshold(Field(params, "rolefit_min")), ParseRoleFitThreshold(Field(params, "rolefit_max")), "min")
AskingOf(params) ==
  CoherentBounds(ParseAskingEur(Field(params, "value_min")), ParseAskingEur(Field(params, "value_max")), "min")
PlaystyleOf(params) ==
  {t[1] : t \in {x \in NormalizeText(Field(params, "playstyle")) : Len(x) = 1}} \intersect Slugs

FieldsOf(params) ==
  [q |-> NormalizeText(Field(params, "q")), league |-> NormalizeText(Field(params, "league")),
   club |-> NormalizeText(Field(params, "club")), nationality |-> NormalizeText(Field(params, "nationality")),
   position_group |-> KeyOf(Field(params, "position_group"), PositionGroups),
   role |-> KeyOf(Field(params, "role"), Roles), playstyle |-> PlaystyleOf(params),
   age_min |-> AgesOf(params).age_min, age_max |-> AgesOf(params).age_max,
   min_minutes |-> ParseMinutesThreshold(Field(params, "min_minutes")),
   rolefit_min |-> RoleFitOf(params).min, rolefit_max |-> RoleFitOf(params).max,
   value_min |-> AskingOf(params).min, value_max |-> AskingOf(params).max,
   sort |-> KeyOf(Field(params, "sort"), SortOptions) \ {DEFAULT_SORT},
   page_size |-> ParsePageSize(Field(params, "page_size")) \ {DEFAULT_PAGE_SIZE}]

(* They are the fields of the view. *)
LEMMA FieldsAre ==
  ASSUME NEW params
  PROVE  /\ DiscoveryViewFromParams(params) = Compact(FieldsOf(params))
         /\ DOMAIN FieldsOf(params) = DISCOVERY_VIEW_FIELDS
<1>1. DiscoveryViewFromParams(params) = Compact(FieldsOf(params))
  BY DEF DiscoveryViewFromParams, FieldsOf, AgesOf, RoleFitOf, AskingOf, PlaystyleOf
<1>2. DOMAIN FieldsOf(params) = DISCOVERY_VIEW_FIELDS
  BY DEF FieldsOf, DISCOVERY_VIEW_FIELDS, TextFields, NumberFields
<1>3. QED BY <1>1, <1>2

\* A value, or none.
Single(S) == \A x, y \in S : x = y

(* A view that has the same fields is the same view, and has a field with the one value it was made of. *)
LEMMA CompactTells ==
  ASSUME NEW F, \A f \in DOMAIN F : Single(F[f])
  PROVE  /\ \A f \in DOMAIN F : Field(Compact(F), f) = F[f]
         /\ \A G : DOMAIN G = DOMAIN F /\ (\A f \in DOMAIN F : G[f] = F[f]) => Compact(G) = Compact(F)
<1>1. ASSUME NEW f \in DOMAIN F PROVE Field(Compact(F), f) = F[f]
  <2>1. CASE F[f] = {}
    <3>1. Field(Compact(F), f) \subseteq F[f] BY CompactIs
    <3>2. QED BY <2>1, <3>1
  <2>2. CASE F[f] # {}
    <3>1. Field(Compact(F), f) = {Value(F[f])} BY <2>2, CompactIs
    <3>2. PICK S : S = F[f] OBVIOUS
    <3>3. Value(S) \in S /\ Single(S) BY <2>2, <3>2 DEF Value
    <3>4. S = {Value(S)} BY <3>3 DEF Single
    <3>5. QED BY <3>1, <3>2, <3>4
  <2>3. QED BY <2>1, <2>2
<1>2. ASSUME NEW G, DOMAIN G = DOMAIN F, \A f \in DOMAIN F : G[f] = F[f] PROVE Compact(G) = Compact(F)
  <2>1. {g \in DOMAIN G : G[g] # {}} = {g \in DOMAIN F : F[g] # {}} BY <1>2
  <2>2. QED BY <1>2, <2>1 DEF Compact
<1>3. QED BY <1>1, <1>2

(* What is written of the fields is read as their numbers and texts. *)
LEMMA ReadBack ==
  ASSUME NEW S, NEW f, NEW raws, raws = {Written(f, x) : x \in S}
  PROVE  /\ f \in NumberFields => Numbers(raws) = {10 * x : x \in S}
         /\ f \in TextFields => Texts(raws) = S
         /\ f \notin NumberFields \union TextFields => Texts(raws) = {<<x>> : x \in S}
<1>1. CASE f \in NumberFields
  <2>1. \A r \in raws : \E x \in S : r = [num |-> 10 * x] BY <1>1 DEF Written
  <2>2. \A x \in S : [num |-> 10 * x] \in raws BY <1>1 DEF Written
  <2>3. \A n : n \in Numbers(raws) <=> \E r \in raws : "num" \in DOMAIN r /\ n = r.num BY DEF Numbers
  <2>4. \A n : n \in Numbers(raws) => \E x \in S : n = 10 * x BY <2>1, <2>3
  <2>5. \A x \in S : 10 * x \in Numbers(raws)
    <3> TAKE x \in S
    <3>1. PICK r : r = [num |-> 10 * x] OBVIOUS
    <3>2. r \in raws /\ "num" \in DOMAIN r /\ r.num = 10 * x BY <2>2, <3>1
    <3>3. QED BY <2>3, <3>2
  <2>6. \A n : n \in Numbers(raws) <=> \E x \in S : n = 10 * x BY <2>4, <2>5
  <2>7. QED BY <1>1, <2>6 DEF NumberFields, TextFields
<1>2. CASE f \notin NumberFields
  <2>1. PICK text : text = [x \in S |-> IF f \in TextFields THEN x ELSE <<x>>] OBVIOUS
  <2>2. \A x \in S : Written(f, x) = [txt |-> text[x]] BY <1>2, <2>1 DEF Written
  <2>3. \A t : t \in Texts(raws) <=> \E r \in raws : "txt" \in DOMAIN r /\ t = r.txt BY DEF Texts
  <2>4. \A t : t \in Texts(raws) <=> \E x \in S : t = text[x]
    <3>1. \A r \in raws : \E x \in S : r = [txt |-> text[x]] BY <2>2
    <3>2. ASSUME NEW x \in S PROVE text[x] \in Texts(raws)
      <4>1. PICK r : r = [txt |-> text[x]] OBVIOUS
      <4>2. r \in raws /\ "txt" \in DOMAIN r /\ r.txt = text[x] BY <2>2, <4>1
      <4>3. QED BY <2>3, <4>2
    <3>3. QED BY <2>3, <3>1, <3>2
  <2>5. f \in TextFields => Texts(raws) = S BY <2>1, <2>4
  <2>6. f \notin TextFields => Texts(raws) = {<<x>> : x \in S}
    <3>1. f \notin TextFields => \A x \in S : text[x] = <<x>> BY <2>1
    <3>2. QED BY <2>4, <3>1
  <2>7. QED BY <1>2, <2>5, <2>6
<1>3. QED BY <1>1, <1>2

(* A number is read as it was written. *)
LEMMA RoundedIs == ASSUME NEW x \in Int PROVE Rounded(10 * x) = x
<1>1. 10 * x + 5 \in Int /\ 10 * x =< 10 * x + 5 /\ 10 * x + 5 < 10 * x + 10 OBVIOUS
<1>2. (10 * x + 5) \div 10 = x BY <1>1
<1>3. QED BY <1>2 DEF Rounded

(* Numbers within the bounds a threshold has are read back. *)
LEMMA BoundedBack ==
  ASSUME NEW low \in Int, NEW high \in Int, NEW S, S \subseteq low .. high,
         NEW raws, Numbers(raws) = {10 * x : x \in S}
  PROVE  ParseBoundedWholeNumber(raws, low, high) = S
<1>1. \A x \in S : x \in Int /\ low =< x /\ x =< high OBVIOUS
<1>2. \A x \in S : Clamped(Rounded(10 * x), low, high) = x BY <1>1, RoundedIs DEF Clamped
<1>3. \A y : y \in ParseBoundedWholeNumber(raws, low, high) <=> \E n \in Numbers(raws) : y = Clamped(Rounded(n), low, high)
  BY DEF ParseBoundedWholeNumber
<1>4. \A y : y \in ParseBoundedWholeNumber(raws, low, high) <=> \E x \in S : y = Clamped(Rounded(10 * x), low, high)
  BY <1>3
<1>5. ASSUME NEW y \in ParseBoundedWholeNumber(raws, low, high) PROVE y \in S
  <2>1. PICK x \in S : y = Clamped(Rounded(10 * x), low, high) BY <1>4
  <2>2. QED BY <2>1, <1>2
<1>6. ASSUME NEW x \in S PROVE x \in ParseBoundedWholeNumber(raws, low, high)
  <2>1. x = Clamped(Rounded(10 * x), low, high) BY <1>2
  <2>2. QED BY <2>1, <1>4
<1>7. QED BY <1>5, <1>6

(* So are ages, prices and sizes of pages. *)
LEMMA OthersBack ==
  ASSUME NEW S, S \subseteq Int, NEW raws, Numbers(raws) = {10 * x : x \in S}
  PROVE  /\ S \subseteq Nat => ParseAgeBound(raws) = S /\ ParseAskingEur(raws) = S
         /\ S \subseteq Nat \ {0} => ParsePage(raws) = S
         /\ S \subseteq 1 .. PAGE_SIZE_CEILING => ParsePageSize(raws) = S
<1>1. \A x \in S : x \in Int /\ Rounded(10 * x) = x BY RoundedIs
<1>2. ASSUME S \subseteq Nat PROVE ParseAgeBound(raws) = S
  <2>1. \A y : y \in ParseAgeBound(raws) <=> \E n \in Numbers(raws) : y = IF Rounded(n) < 0 THEN 0 ELSE Rounded(n)
    BY DEF ParseAgeBound
  <2>2. \A y : y \in ParseAgeBound(raws) <=> \E x \in S : y = IF Rounded(10 * x) < 0 THEN 0 ELSE Rounded(10 * x)
    BY <2>1
  <2>3. \A x \in S : ~(Rounded(10 * x) < 0) BY <1>1, <1>2
  <2>4. ASSUME NEW y \in ParseAgeBound(raws) PROVE y \in S
    <3>1. PICK x \in S : y = IF Rounded(10 * x) < 0 THEN 0 ELSE Rounded(10 * x) BY <2>2
    <3>2. y = x BY <3>1, <1>1, <2>3
    <3>3. QED BY <3>2
  <2>5. ASSUME NEW x \in S PROVE x \in ParseAgeBound(raws)
    <3>1. x = IF Rounded(10 * x) < 0 THEN 0 ELSE Rounded(10 * x) BY <1>1, <2>3
    <3>2. QED BY <3>1, <2>2
  <2>6. QED BY <2>4, <2>5
<1>3. ASSUME S \subseteq Nat PROVE ParseAskingEur(raws) = S
  <2>1. \A y : y \in ParseAskingEur(raws) <=> \E n \in Numbers(raws) : n >= 0 /\ y = Rounded(n) BY DEF ParseAskingEur
  <2>2. \A y : y \in ParseAskingEur(raws) <=> \E x \in S : 10 * x >= 0 /\ y = Rounded(10 * x) BY <2>1
  <2>3. \A x \in S : 10 * x >= 0
    <3> TAKE x \in S
    <3>1. x \in Nat BY <1>3
    <3>2. QED BY <3>1
  <2>4. ASSUME NEW y \in ParseAskingEur(raws) PROVE y \in S
    <3>1. PICK x \in S : 10 * x >= 0 /\ y = Rounded(10 * x) BY <2>2
    <3>2. y = x BY <3>1, <1>1, <2>3
    <3>3. QED BY <3>2
  <2>5. ASSUME NEW x \in S PROVE x \in ParseAskingEur(raws)
    <3>1. 10 * x >= 0 /\ x = Rounded(10 * x) BY <1>1, <2>3
    <3>2. QED BY <3>1, <2>2
  <2>6. QED BY <2>4, <2>5
<1>4. ASSUME S \subseteq Nat \ {0} PROVE ParsePage(raws) = S
  <2>1. \A y : y \in ParsePage(raws) <=> \E n \in Numbers(raws) : n % 10 = 0 /\ n >= 10 /\ y = n \div 10
    BY DEF ParsePage
  <2>2. \A y : y \in ParsePage(raws) <=>
          \E x \in S : (10 * x) % 10 = 0 /\ 10 * x >= 10 /\ y = (10 * x) \div 10
    BY <2>1
  <2>3. \A x \in S : (10 * x) % 10 = 0 /\ 10 * x >= 10 /\ (10 * x) \div 10 = x
    <3> TAKE x \in S
    <3>1. x \in Nat /\ x # 0 BY <1>4
    <3>2. 10 * x >= 10 BY <3>1
    <3>3. (10 * x) % 10 = 0 /\ (10 * x) \div 10 = x BY <3>1
    <3>4. QED BY <3>2, <3>3
  <2>4. ASSUME NEW y \in ParsePage(raws) PROVE y \in S
    <3>1. PICK x \in S : y = (10 * x) \div 10 BY <2>2
    <3>2. QED BY <3>1, <2>3
  <2>5. ASSUME NEW x \in S PROVE x \in ParsePage(raws)
    <3>1. (10 * x) % 10 = 0 /\ 10 * x >= 10 /\ x = (10 * x) \div 10 BY <2>3
    <3>2. QED BY <3>1, <2>2
  <2>6. QED BY <2>4, <2>5
<1>5. ASSUME S \subseteq 1 .. PAGE_SIZE_CEILING PROVE ParsePageSize(raws) = S
  <2>1. \A x \in S : x \in Nat \ {0} /\ x =< PAGE_SIZE_CEILING BY <1>5 DEF PAGE_SIZE_CEILING
  <2>2. ParsePage(raws) = S BY <1>4, <2>1
  <2>3. QED BY <2>1, <2>2 DEF ParsePageSize
<1>6. QED BY <1>2, <1>3, <1>4, <1>5

(* A pair of bounds that is coherent stays as it is. *)
LEMMA CoherentBack ==
  ASSUME NEW a, NEW b, Single(a), Single(b), a \subseteq Int, b \subseteq Int
  PROVE  LET c == CoherentBounds(a, b, "min")
         IN /\ Single(c.min) /\ Single(c.max) /\ c.min \in {a, b} /\ c.max \in {a, b}
            /\ \A x \in c.min, y \in c.max : x =< y
            /\ CoherentBounds(c.min, c.max, "min") = c
<1>1. PICK c : c = CoherentBounds(a, b, "min") OBVIOUS
<1>2. c = [min |-> a, max |-> IF \A x \in a, y \in b : x =< y THEN b ELSE a] BY <1>1 DEF CoherentBounds
<1>3. c.min = a /\ c.max \in {a, b} BY <1>2
<1>4. \A x \in c.min, y \in c.max : x =< y BY <1>2 DEF Single
<1>5. CoherentBounds(c.min, c.max, "min") = [min |-> c.min, max |-> c.max] BY <1>4 DEF CoherentBounds
<1>6. c = [min |-> c.min, max |-> c.max] BY <1>2
<1>7. QED BY <1>1, <1>3, <1>4, <1>5, <1>6

(* A parameter has one number or text, or none. *)
LEMMA ReadsAreSingle ==
  ASSUME NEW params, NEW f
  PROVE  /\ Single(Numbers(Field(params, f))) /\ Single(Texts(Field(params, f)))
         /\ \A keys : Single(KeyOf(Field(params, f), keys))
         /\ \A low, high : Single(ParseBoundedWholeNumber(Field(params, f), low, high))
         /\ Single(ParseAgeBound(Field(params, f))) /\ Single(ParseAskingEur(Field(params, f)))
         /\ Single(ParsePageSize(Field(params, f))) /\ Single(ParsePage(Field(params, f)))
<1>1. PICK raws : raws = Field(params, f) OBVIOUS
<1>2. Single(raws) BY <1>1 DEF Field, Single
<1>3. Single(Numbers(raws)) /\ Single(Texts(raws)) BY <1>2 DEF Numbers, Texts, Single
<1>4. \A keys : Single(KeyOf(raws, keys)) BY <1>3 DEF KeyOf, Single
<1>5. \A low, high : Single(ParseBoundedWholeNumber(raws, low, high)) BY <1>3 DEF ParseBoundedWholeNumber, Single
<1>6. Single(ParseAgeBound(raws)) BY <1>3 DEF ParseAgeBound, Single
<1>7. Single(ParseAskingEur(raws)) BY <1>3 DEF ParseAskingEur, Single
<1>8. Single(ParsePageSize(raws)) /\ Single(ParsePage(raws)) BY <1>3 DEF ParsePageSize, ParsePage, Single
<1>9. QED BY <1>1, <1>3, <1>4, <1>5, <1>6, <1>7, <1>8

(* A stop is the stop nearest to it. *)
LEMMA SnapFix == ASSUME NEW stop \in AGE_STOPS PROVE SnapToAgeStop(stop) = stop
<1>1. \A s \in AGE_STOPS : Distance(stop, stop) < Distance(s, stop) \/ (Distance(stop, stop) = Distance(s, stop) /\ stop =< s)
  BY DEF AGE_STOPS, Distance
<1>2. \A t \in AGE_STOPS :
        (\A s \in AGE_STOPS : Distance(t, stop) < Distance(s, stop) \/ (Distance(t, stop) = Distance(s, stop) /\ t =< s)) => t = stop
  BY DEF AGE_STOPS, Distance
<1>3. QED BY <1>1, <1>2 DEF SnapToAgeStop

(* No band, no ages. *)
LEMMA NoBand == LegacyAgeBandSelection({}) = AllAges
<1> DEFINE of(key) == {[txt |-> <<key>>]}
<1>1. \A key : {} # of(key) OBVIOUS
<1>2. LegacyAgeBandSelection({}) =
        CASE {} = of("u23") -> [direction |-> "younger", threshold |-> 22]
          [] {} = of("24_26") -> [direction |-> "older", threshold |-> 25]
          [] {} = of("27_30") -> [direction |-> "older", threshold |-> 28]
          [] {} = of("31_plus") -> [direction |-> "older", threshold |-> 31]
          [] OTHER -> AllAges
  BY DEF LegacyAgeBandSelection
<1> HIDE DEF of
<1>3. QED BY <1>1, <1>2

\* The bounds of a selection of the rail: one of the two, or none, on a stop.
Selected(age) ==
  /\ age.age_min \subseteq AGE_STOPS /\ age.age_max \subseteq AGE_STOPS
  /\ Single(age.age_min) /\ Single(age.age_max) /\ (age.age_min = {} \/ age.age_max = {})
  /\ DOMAIN age = {"age_min", "age_max"}

(* The bounds of an address are. *)
LEMMA AgesSelected ==
  ASSUME NEW params, NumbersIn(params)
  PROVE  Selected(AgesOf(params))
<1>1. PICK least, most, band :
        /\ least = ParseAgeBound(Field(params, "age_min")) /\ most = ParseAgeBound(Field(params, "age_max"))
        /\ band = Field(params, "age_band")
  OBVIOUS
<1>2. least \subseteq Int /\ most \subseteq Int BY <1>1, NumbersOf
<1>3. PICK explicit : explicit = AgeSelectionFromBounds(least, most) OBVIOUS
<1>4. PICK sel : sel = IF explicit.direction # "all" THEN explicit ELSE LegacyAgeBandSelection(band) OBVIOUS
<1>5. AgesOf(params) = AgeBounds(sel) BY <1>1, <1>3, <1>4 DEF AgesOf
<1>6. AgeBounds(sel).age_min \subseteq AGE_STOPS /\ AgeBounds(sel).age_max \subseteq AGE_STOPS
  BY <1>2, <1>3, <1>4, AgesAreStops
<1>7. PICK age : age = AgeBounds(sel) OBVIOUS
<1>8. /\ DOMAIN age = {"age_min", "age_max"}
      /\ Single(age.age_min) /\ Single(age.age_max) /\ (age.age_min = {} \/ age.age_max = {})
  <2>1. age = [age_min |-> IF sel.direction = "older" THEN {sel.threshold} ELSE {},
               age_max |-> IF sel.direction = "younger" THEN {sel.threshold} ELSE {}]
    BY <1>7 DEF AgeBounds
  <2>2. age.age_min = (IF sel.direction = "older" THEN {sel.threshold} ELSE {})
        /\ age.age_max = (IF sel.direction = "younger" THEN {sel.threshold} ELSE {})
        /\ DOMAIN age = {"age_min", "age_max"}
    BY <2>1
  <2>3. QED BY <2>2 DEF Single
<1>9. QED BY <1>5, <1>6, <1>7, <1>8 DEF Selected

(* Bounds that are a selection are read as that selection. *)
LEMMA AgesBack ==
  ASSUME NEW age, Selected(age)
  PROVE  LET explicit == AgeSelectionFromBounds(age.age_min, age.age_max)
         IN /\ AgeBounds(IF explicit.direction # "all" THEN explicit ELSE AllAges).age_min = age.age_min
            /\ AgeBounds(IF explicit.direction # "all" THEN explicit ELSE AllAges).age_max = age.age_max
            /\ AgeBounds(explicit).age_min = age.age_min /\ AgeBounds(explicit).age_max = age.age_max
            /\ explicit.direction # "all" <=> age.age_min \union age.age_max # {}
<1>1. PICK a, b : a = age.age_min /\ b = age.age_max OBVIOUS
<1>2. a \subseteq AGE_STOPS /\ b \subseteq AGE_STOPS /\ Single(a) /\ Single(b) /\ (a = {} \/ b = {}) BY <1>1 DEF Selected
<1>3. PICK e : e = AgeSelectionFromBounds(a, b) OBVIOUS
<1>4. CASE b # {}
  <2>1. PICK stop \in AGE_STOPS : b = {stop} BY <1>2, <1>4 DEF Single
  <2>2. Value(b) = stop BY <2>1 DEF Value
  <2>3. e = [direction |-> "younger", threshold |-> stop] BY <1>3, <1>4, <2>2, SnapFix DEF AgeSelectionFromBounds
  <2>4. e.direction = "younger" /\ e.threshold = stop BY <2>3
  <2>5. AgeBounds(e).age_min = {} /\ AgeBounds(e).age_max = {stop} BY <2>4 DEF AgeBounds
  <2>6. a = {} BY <1>2, <1>4
  <2>7. QED BY <1>1, <1>3, <2>1, <2>4, <2>5, <2>6
<1>5. CASE b = {} /\ a # {}
  <2>1. PICK stop \in AGE_STOPS : a = {stop} BY <1>2, <1>5 DEF Single
  <2>2. Value(a) = stop BY <2>1 DEF Value
  <2>3. e = [direction |-> "older", threshold |-> stop] BY <1>3, <1>5, <2>2, SnapFix DEF AgeSelectionFromBounds
  <2>4. e.direction = "older" /\ e.threshold = stop BY <2>3
  <2>5. AgeBounds(e).age_min = {stop} /\ AgeBounds(e).age_max = {} BY <2>4 DEF AgeBounds
  <2>6. QED BY <1>1, <1>3, <1>5, <2>1, <2>4, <2>5
<1>6. CASE b = {} /\ a = {}
  <2>1. e = AllAges /\ AllAges.direction = "all" BY <1>3, <1>6 DEF AgeSelectionFromBounds, AllAges
  <2>2. AgeBounds(AllAges).age_min = {} /\ AgeBounds(AllAges).age_max = {} BY DEF AgeBounds, AllAges
  <2>3. QED BY <1>1, <1>3, <1>6, <2>1, <2>2
<1>7. QED BY <1>4, <1>5, <1>6

(* Keys that are offered are read back. *)
LEMMA KeysBack ==
  ASSUME NEW keys, NEW S, S \subseteq keys, NEW raws, Texts(raws) = {<<x>> : x \in S}
  PROVE  KeyOf(raws, keys) = S
<1>1. \A x : Len(<<x>>) = 1 /\ <<x>>[1] = x OBVIOUS
<1>2. \A y : y \in KeyOf(raws, keys) <=> y \in keys /\ \E t \in Texts(raws) : Len(t) = 1 /\ y = t[1] BY DEF KeyOf
<1>3. ASSUME NEW y \in KeyOf(raws, keys) PROVE y \in S
  <2>1. PICK t \in Texts(raws) : y = t[1] BY <1>2
  <2>2. PICK x \in S : t = <<x>> BY <2>1
  <2>3. QED BY <1>1, <2>1, <2>2
<1>4. ASSUME NEW x \in S PROVE x \in KeyOf(raws, keys)
  <2>1. <<x>> \in Texts(raws) OBVIOUS
  <2>2. QED BY <1>1, <1>2, <2>1
<1>5. QED BY <1>3, <1>4

(* Normal texts are read back. *)
LEMMA TextsBack ==
  ASSUME NEW S, \A t \in S : Normal(t), NEW raws, Texts(raws) = S
  PROVE  NormalizeText(raws) = S
<1>1. \A t \in S : Nfc(Trimmed(t)) = t /\ t # <<>> BY NormalFix
<1>2. \A y : y \in NormalizeText(raws) <=> y # <<>> /\ \E t \in S : y = Nfc(Trimmed(t)) BY DEF NormalizeText
<1>3. QED BY <1>1, <1>2

(* So are playstyles. *)
LEMMA PlaystyleBack ==
  ASSUME NEW p, NEW S, S \subseteq Slugs, \A x \in S : Normal(<<x>>),
         Texts(Field(p, "playstyle")) = {<<x>> : x \in S}
  PROVE  PlaystyleOf(p) = S
<1>1. PICK texts : texts = Texts(Field(p, "playstyle")) OBVIOUS
<1>2. \A t \in texts : Normal(t) BY <1>1
<1>3. NormalizeText(Field(p, "playstyle")) = {<<x>> : x \in S} BY <1>1, <1>2, TextsBack
<1>4. \A y : y \in PlaystyleOf(p) <=> y \in Slugs /\ \E t \in NormalizeText(Field(p, "playstyle")) : Len(t) = 1 /\ y = t[1]
  BY DEF PlaystyleOf
<1>5. \A x : Len(<<x>>) = 1 /\ <<x>>[1] = x OBVIOUS
<1>6. ASSUME NEW y \in PlaystyleOf(p) PROVE y \in S
  <2>1. PICK t \in NormalizeText(Field(p, "playstyle")) : y = t[1] BY <1>4
  <2>2. PICK x \in S : t = <<x>> BY <1>3, <2>1
  <2>3. QED BY <1>5, <2>1, <2>2
<1>7. ASSUME NEW x \in S PROVE x \in PlaystyleOf(p)
  <2>1. <<x>> \in NormalizeText(Field(p, "playstyle")) BY <1>3
  <2>2. QED BY <1>4, <1>5, <2>1
<1>8. QED BY <1>6, <1>7

(* The playstyle of an address is a word that is normal. *)
LEMMA PlaystyleIs ==
  ASSUME NEW q, TextsIn(q)
  PROVE  Single(PlaystyleOf(q)) /\ \A y \in PlaystyleOf(q) : Normal(<<y>>)
<1>1. PICK texts : texts = NormalizeText(Field(q, "playstyle")) OBVIOUS
<1>2. (\A t \in texts : Normal(t)) /\ \A s, t \in texts : s = t BY <1>1, TextsAreNormal
<1>3. \A y : y \in PlaystyleOf(q) <=> y \in Slugs /\ \E t \in texts : Len(t) = 1 /\ y = t[1] BY <1>1 DEF PlaystyleOf
<1>4. Single(PlaystyleOf(q)) BY <1>2, <1>3 DEF Single
<1>5. ASSUME NEW y \in PlaystyleOf(q) PROVE Normal(<<y>>)
  <2>1. PICK t \in texts : Len(t) = 1 /\ y = t[1] BY <1>3
  <2>2. Normal(t) /\ IsList(t) BY <1>2 DEF Normal, Edged
  <2>3. DOMAIN t = 1 .. 1 /\ t = [i \in 1 .. 1 |-> t[i]] BY <2>1, <2>2, ListIs
  <2>4. <<y>> = t
    <3>1. PICK s : s = <<y>> OBVIOUS
    <3>2. Len(s) = 1 /\ s[1] = y /\ s = [i \in 1 .. 1 |-> s[i]] BY <3>1
    <3>3. s = t BY <2>1, <2>3, <3>2
    <3>4. QED BY <3>1, <3>3
  <2>5. QED BY <2>2, <2>4
<1>6. QED BY <1>4, <1>5

\* The fields of a view: each of one value or none, within what the rail offers and the
\* routes take, one bound of age at most, and bounds in order.
CanonicalFields(F) ==
  /\ DOMAIN F = DISCOVERY_VIEW_FIELDS
  /\ \A f \in DISCOVERY_VIEW_FIELDS : Single(F[f])
  /\ \A f \in TextFields : \A t \in F[f] : Normal(t)
  /\ F.position_group \subseteq PositionGroups /\ F.role \subseteq Roles
  /\ F.playstyle \subseteq Slugs /\ \A x \in F.playstyle : Normal(<<x>>)
  /\ F.sort \subseteq SortOptions \ {DEFAULT_SORT}
  /\ F.age_min \subseteq AGE_STOPS /\ F.age_max \subseteq AGE_STOPS /\ (F.age_min = {} \/ F.age_max = {})
  /\ F.min_minutes \subseteq 0 .. MINUTES_MAX
  /\ F.rolefit_min \subseteq 0 .. ROLEFIT_MAX /\ F.rolefit_max \subseteq 0 .. ROLEFIT_MAX
  /\ F.value_min \subseteq Nat /\ F.value_max \subseteq Nat
  /\ \A x \in F.rolefit_min, y \in F.rolefit_max : x =< y
  /\ \A x \in F.value_min, y \in F.value_max : x =< y
  /\ F.page_size \subseteq (1 .. PAGE_SIZE_CEILING) \ {DEFAULT_PAGE_SIZE}

(* Those of an address are. *)
LEMMA FieldsHold ==
  ASSUME NEW q, NumbersIn(q), TextsIn(q)
  PROVE  CanonicalFields(FieldsOf(q))
<1>1. \A f : Numbers(Field(q, f)) \subseteq Int BY NumbersOf
<1>2. ASSUME NEW f, NEW low \in Int, NEW high \in Int, low =< high
      PROVE  ParseBoundedWholeNumber(Field(q, f), low, high) \subseteq low .. high
  <2>1. \A n \in Int : Rounded(n) \in Int BY DEF Rounded
  <2>2. \A n \in Int : Clamped(Rounded(n), low, high) \in low .. high BY <2>1, <1>2 DEF Clamped
  <2>3. QED BY <2>2, <1>1 DEF ParseBoundedWholeNumber
<1>3. ASSUME NEW f PROVE ParseAskingEur(Field(q, f)) \subseteq Nat
  <2>1. \A n \in Int : n >= 0 => Rounded(n) \in Nat BY DEF Rounded
  <2>2. QED BY <2>1, <1>1 DEF ParseAskingEur
<1>4. ASSUME NEW f PROVE ParsePageSize(Field(q, f)) \subseteq 1 .. PAGE_SIZE_CEILING
  <2>1. \A m \in Int : m % 10 = 0 /\ m >= 10 => m \div 10 \in Nat \ {0} OBVIOUS
  <2>2. ParsePage(Field(q, f)) \subseteq Nat \ {0} BY <2>1, <1>1 DEF ParsePage
  <2>3. QED BY <2>2 DEF ParsePageSize, PAGE_SIZE_CEILING
<1>5. PICK F : F = FieldsOf(q) OBVIOUS
<1>6. /\ F.q = NormalizeText(Field(q, "q")) /\ F.league = NormalizeText(Field(q, "league"))
      /\ F.club = NormalizeText(Field(q, "club")) /\ F.nationality = NormalizeText(Field(q, "nationality"))
      /\ F.position_group = KeyOf(Field(q, "position_group"), PositionGroups)
      /\ F.role = KeyOf(Field(q, "role"), Roles) /\ F.playstyle = PlaystyleOf(q)
      /\ F.age_min = AgesOf(q).age_min /\ F.age_max = AgesOf(q).age_max
      /\ F.min_minutes = ParseMinutesThreshold(Field(q, "min_minutes"))
      /\ F.rolefit_min = RoleFitOf(q).min /\ F.rolefit_max = RoleFitOf(q).max
      /\ F.value_min = AskingOf(q).min /\ F.value_max = AskingOf(q).max
      /\ F.sort = KeyOf(Field(q, "sort"), SortOptions) \ {DEFAULT_SORT}
      /\ F.page_size = ParsePageSize(Field(q, "page_size")) \ {DEFAULT_PAGE_SIZE}
  BY <1>5 DEF FieldsOf
<1>7. ASSUME NEW f \in TextFields PROVE (\A t \in F[f] : Normal(t)) /\ Single(F[f])
  <2>1. F[f] = NormalizeText(Field(q, f)) BY <1>6 DEF TextFields
  <2>2. QED BY <2>1, TextsAreNormal DEF Single
<1>8. Single(F.position_group) /\ Single(F.role) /\ Single(F.sort) /\ Single(F.page_size) /\ Single(F.min_minutes)
  BY <1>6, ReadsAreSingle DEF Single, ParseMinutesThreshold
<1>9. Single(F.playstyle) /\ \A x \in F.playstyle : Normal(<<x>>) BY <1>6, PlaystyleIs
<1>10. /\ Single(F.age_min) /\ Single(F.age_max) /\ F.age_min \subseteq AGE_STOPS /\ F.age_max \subseteq AGE_STOPS
       /\ (F.age_min = {} \/ F.age_max = {})
  BY <1>6, AgesSelected DEF Selected
<1>11. /\ Single(F.rolefit_min) /\ Single(F.rolefit_max)
       /\ F.rolefit_min \subseteq 0 .. ROLEFIT_MAX /\ F.rolefit_max \subseteq 0 .. ROLEFIT_MAX
       /\ \A x \in F.rolefit_min, y \in F.rolefit_max : x =< y
  <2>1. PICK a, b : a = ParseRoleFitThreshold(Field(q, "rolefit_min")) /\ b = ParseRoleFitThreshold(Field(q, "rolefit_max"))
    OBVIOUS
  <2>2. Single(a) /\ Single(b) BY <2>1, ReadsAreSingle DEF ParseRoleFitThreshold
  <2>3. a \subseteq 0 .. ROLEFIT_MAX /\ b \subseteq 0 .. ROLEFIT_MAX
    <3>1. 0 \in Int /\ ROLEFIT_MAX \in Int /\ 0 =< ROLEFIT_MAX BY DEF ROLEFIT_MAX
    <3>2. \A f : ParseBoundedWholeNumber(Field(q, f), 0, ROLEFIT_MAX) \subseteq 0 .. ROLEFIT_MAX BY <3>1, <1>2
    <3>3. QED BY <2>1, <3>2 DEF ParseRoleFitThreshold
  <2>4. a \subseteq Int /\ b \subseteq Int BY <2>3
  <2>5. PICK c : c = CoherentBounds(a, b, "min") OBVIOUS
  <2>6. RoleFitOf(q) = c BY <2>1, <2>5 DEF RoleFitOf
  <2>7. /\ Single(c.min) /\ Single(c.max) /\ c.min \in {a, b} /\ c.max \in {a, b}
        /\ \A x \in c.min, y \in c.max : x =< y
    BY <2>2, <2>4, <2>5, CoherentBack
  <2>8. QED BY <2>3, <2>6, <2>7, <1>6
<1>12. /\ Single(F.value_min) /\ Single(F.value_max) /\ F.value_min \subseteq Nat /\ F.value_max \subseteq Nat
       /\ \A x \in F.value_min, y \in F.value_max : x =< y
  <2>1. PICK a, b : a = ParseAskingEur(Field(q, "value_min")) /\ b = ParseAskingEur(Field(q, "value_max")) OBVIOUS
  <2>2. Single(a) /\ Single(b) BY <2>1, ReadsAreSingle
  <2>3. a \subseteq Nat /\ b \subseteq Nat BY <2>1, <1>3
  <2>4. a \subseteq Int /\ b \subseteq Int BY <2>3
  <2>5. PICK c : c = CoherentBounds(a, b, "min") OBVIOUS
  <2>6. AskingOf(q) = c BY <2>1, <2>5 DEF AskingOf
  <2>7. /\ Single(c.min) /\ Single(c.max) /\ c.min \in {a, b} /\ c.max \in {a, b}
        /\ \A x \in c.min, y \in c.max : x =< y
    BY <2>2, <2>4, <2>5, CoherentBack
  <2>8. QED BY <2>3, <2>6, <2>7, <1>6
<1>13. F.position_group \subseteq PositionGroups /\ F.role \subseteq Roles /\ F.playstyle \subseteq Slugs
       /\ F.sort \subseteq SortOptions \ {DEFAULT_SORT}
  BY <1>6 DEF KeyOf, PlaystyleOf
<1>14. F.min_minutes \subseteq 0 .. MINUTES_MAX
  <2>1. 0 \in Int /\ MINUTES_MAX \in Int /\ 0 =< MINUTES_MAX BY DEF MINUTES_MAX
  <2>2. ParseBoundedWholeNumber(Field(q, "min_minutes"), 0, MINUTES_MAX) \subseteq 0 .. MINUTES_MAX BY <2>1, <1>2
  <2>3. QED BY <2>2, <1>6 DEF ParseMinutesThreshold
<1>15. F.page_size \subseteq (1 .. PAGE_SIZE_CEILING) \ {DEFAULT_PAGE_SIZE} BY <1>4, <1>6
<1>16. \A f \in DISCOVERY_VIEW_FIELDS : Single(F[f])
  BY <1>7, <1>8, <1>9, <1>10, <1>11, <1>12 DEF DISCOVERY_VIEW_FIELDS, NumberFields
<1>17. DOMAIN F = DISCOVERY_VIEW_FIELDS BY <1>5, FieldsAre
<1>18. CanonicalFields(F)
  BY <1>7, <1>9, <1>10, <1>11, <1>12, <1>13, <1>14, <1>15, <1>16, <1>17 DEF CanonicalFields
<1>19. QED BY <1>5, <1>18

\* Parameters that say what a view does: its fields as they are written, with a default
\* at most where the view has none, and no band.
Says(p, view) ==
  /\ Field(p, "age_band") = {}
  /\ \A f \in DISCOVERY_VIEW_FIELDS :
       LET value == {Written(f, x) : x \in Field(view, f)}
       IN \/ Field(p, f) = value
          \/ f = "sort" /\ value = {} /\ Field(p, f) = {Written(f, DEFAULT_SORT)}
          \/ f = "page_size" /\ value = {} /\ Field(p, f) = {Written(f, DEFAULT_PAGE_SIZE)}

(* Some fields of a view are those of a view. *)
LEMMA FewerFields ==
  ASSUME NEW F, CanonicalFields(F), NEW G, DOMAIN G = DISCOVERY_VIEW_FIELDS,
         \A f \in DISCOVERY_VIEW_FIELDS : G[f] \subseteq F[f]
  PROVE  CanonicalFields(G)
<1>1. \A f \in DISCOVERY_VIEW_FIELDS : Single(G[f]) BY DEF CanonicalFields, Single
<1>2. \A f \in TextFields : \A t \in G[f] : Normal(t) BY DEF CanonicalFields, DISCOVERY_VIEW_FIELDS
<1>3. /\ G.position_group \subseteq F.position_group /\ G.role \subseteq F.role /\ G.playstyle \subseteq F.playstyle
      /\ G.sort \subseteq F.sort /\ G.age_min \subseteq F.age_min /\ G.age_max \subseteq F.age_max
      /\ G.min_minutes \subseteq F.min_minutes /\ G.rolefit_min \subseteq F.rolefit_min
      /\ G.rolefit_max \subseteq F.rolefit_max /\ G.value_min \subseteq F.value_min
      /\ G.value_max \subseteq F.value_max /\ G.page_size \subseteq F.page_size
  BY DEF DISCOVERY_VIEW_FIELDS, NumberFields
<1>4. QED BY <1>1, <1>2, <1>3 DEF CanonicalFields

(* A view has the fields it was made of. *)
LEMMA CanonicalField ==
  ASSUME NEW F, CanonicalFields(F)
  PROVE  /\ \A f \in DISCOVERY_VIEW_FIELDS : Field(Compact(F), f) = F[f]
         /\ \A f : f \notin DISCOVERY_VIEW_FIELDS => f \notin DOMAIN Compact(F)
         /\ \A G : DOMAIN G = DISCOVERY_VIEW_FIELDS /\ (\A f \in DISCOVERY_VIEW_FIELDS : G[f] = F[f]) => Compact(G) = Compact(F)
<1>1. DOMAIN F = DISCOVERY_VIEW_FIELDS /\ \A f \in DOMAIN F : Single(F[f]) BY DEF CanonicalFields
<1>2. DOMAIN Compact(F) \subseteq DOMAIN F BY DEF Compact
<1>3. QED BY <1>1, <1>2, CompactTells

(* Parameters that say what a view does hold its numbers and texts. *)
LEMMA SaidIs ==
  ASSUME NEW F, CanonicalFields(F), NEW p, Says(p, Compact(F)), NEW f \in DISCOVERY_VIEW_FIELDS
  PROVE  /\ f \notin {"sort", "page_size"} =>
              /\ f \in NumberFields => Numbers(Field(p, f)) = {10 * x : x \in F[f]}
              /\ f \in TextFields => Texts(Field(p, f)) = F[f]
              /\ f \notin NumberFields \union TextFields => Texts(Field(p, f)) = {<<x>> : x \in F[f]}
         /\ f = "sort" => \/ Texts(Field(p, f)) = {<<x>> : x \in F[f]}
                          \/ F[f] = {} /\ Texts(Field(p, f)) = {<<DEFAULT_SORT>>}
         /\ f = "page_size" => \/ Numbers(Field(p, f)) = {10 * x : x \in F[f]}
                               \/ F[f] = {} /\ Numbers(Field(p, f)) = {10 * DEFAULT_PAGE_SIZE}
<1>1. PICK S : S = F[f] OBVIOUS
<1>2. PICK raws : raws = Field(p, f) OBVIOUS
<1>3. PICK value : value = {Written(f, x) : x \in S} OBVIOUS
<1>4. Field(Compact(F), f) = S BY <1>1, CanonicalField
<1>5. \/ raws = value
      \/ f = "sort" /\ value = {} /\ raws = {Written(f, DEFAULT_SORT)}
      \/ f = "page_size" /\ value = {} /\ raws = {Written(f, DEFAULT_PAGE_SIZE)}
  BY <1>2, <1>3, <1>4 DEF Says
<1>6. CASE raws = value
  <2>1. /\ f \in NumberFields => Numbers(raws) = {10 * x : x \in S}
        /\ f \in TextFields => Texts(raws) = S
        /\ f \notin NumberFields \union TextFields => Texts(raws) = {<<x>> : x \in S}
    BY <1>3, <1>6, ReadBack
  <2>2. "sort" \notin NumberFields \union TextFields /\ "page_size" \in NumberFields BY DEF NumberFields, TextFields
  <2>3. QED BY <1>1, <1>2, <2>1, <2>2
<1>7. CASE f = "sort" /\ value = {} /\ raws = {Written(f, DEFAULT_SORT)}
  <2>1. PICK D : D = {DEFAULT_SORT} OBVIOUS
  <2>2. raws = {Written(f, x) : x \in D} BY <2>1, <1>7
  <2>3. f \notin NumberFields \union TextFields BY <1>7 DEF NumberFields, TextFields
  <2>4. Texts(raws) = {<<x>> : x \in D} BY <2>2, <2>3, ReadBack
  <2>5. S = {} BY <1>3, <1>7
  <2>6. Texts(raws) = {<<DEFAULT_SORT>>} BY <2>1, <2>4
  <2>7. QED BY <1>1, <1>2, <1>7, <2>5, <2>6
<1>8. CASE f = "page_size" /\ value = {} /\ raws = {Written(f, DEFAULT_PAGE_SIZE)}
  <2>1. PICK D : D = {DEFAULT_PAGE_SIZE} OBVIOUS
  <2>2. raws = {Written(f, x) : x \in D} BY <2>1, <1>8
  <2>3. f \in NumberFields BY <1>8 DEF NumberFields
  <2>4. Numbers(raws) = {10 * x : x \in D} BY <2>2, <2>3, ReadBack
  <2>5. S = {} BY <1>3, <1>8
  <2>6. Numbers(raws) = {10 * DEFAULT_PAGE_SIZE} BY <2>1, <2>4
  <2>7. QED BY <1>1, <1>2, <1>8, <2>5, <2>6
<1>9. QED BY <1>5, <1>6, <1>7, <1>8

(* They are read as that view. *)
LEMMA CanonicalBack ==
  ASSUME NEW F, CanonicalFields(F), NEW p, Says(p, Compact(F))
  PROVE  DiscoveryViewFromParams(p) = Compact(F)
<1>1. DOMAIN FieldsOf(p) = DISCOVERY_VIEW_FIELDS BY FieldsAre
<1>2. DiscoveryViewFromParams(p) = Compact(FieldsOf(p)) BY FieldsAre
<1>3. \A f \in TextFields : Texts(Field(p, f)) = F[f]
  BY SaidIs DEF TextFields, DISCOVERY_VIEW_FIELDS
<1>4. \A f \in NumberFields \ {"page_size"} : Numbers(Field(p, f)) = {10 * x : x \in F[f]}
  BY SaidIs DEF NumberFields, DISCOVERY_VIEW_FIELDS
<1>5. \A f \in {"position_group", "role", "playstyle"} : Texts(Field(p, f)) = {<<x>> : x \in F[f]}
  BY SaidIs DEF NumberFields, TextFields, DISCOVERY_VIEW_FIELDS
<1>6. PICK H : H = FieldsOf(p) OBVIOUS
<1>7. /\ H.q = NormalizeText(Field(p, "q")) /\ H.league = NormalizeText(Field(p, "league"))
      /\ H.club = NormalizeText(Field(p, "club")) /\ H.nationality = NormalizeText(Field(p, "nationality"))
      /\ H.position_group = KeyOf(Field(p, "position_group"), PositionGroups)
      /\ H.role = KeyOf(Field(p, "role"), Roles) /\ H.playstyle = PlaystyleOf(p)
      /\ H.age_min = AgesOf(p).age_min /\ H.age_max = AgesOf(p).age_max
      /\ H.min_minutes = ParseMinutesThreshold(Field(p, "min_minutes"))
      /\ H.rolefit_min = RoleFitOf(p).min /\ H.rolefit_max = RoleFitOf(p).max
      /\ H.value_min = AskingOf(p).min /\ H.value_max = AskingOf(p).max
      /\ H.sort = KeyOf(Field(p, "sort"), SortOptions) \ {DEFAULT_SORT}
      /\ H.page_size = ParsePageSize(Field(p, "page_size")) \ {DEFAULT_PAGE_SIZE}
  BY <1>6 DEF FieldsOf
<1>8. ASSUME NEW f \in TextFields PROVE H[f] = F[f]
  <2>1. \A t \in F[f] : Normal(t) BY DEF CanonicalFields
  <2>2. NormalizeText(Field(p, f)) = F[f] BY <2>1, <1>3, TextsBack
  <2>3. H[f] = NormalizeText(Field(p, f)) BY <1>7 DEF TextFields
  <2>4. QED BY <2>2, <2>3
<1>9. H.position_group = F.position_group /\ H.role = F.role /\ H.playstyle = F.playstyle
  <2>1. PICK S, T, U : S = F["position_group"] /\ T = F["role"] /\ U = F["playstyle"] OBVIOUS
  <2>2. S \subseteq PositionGroups /\ T \subseteq Roles /\ U \subseteq Slugs /\ \A x \in U : Normal(<<x>>)
    BY <2>1 DEF CanonicalFields
  <2>3. /\ Texts(Field(p, "position_group")) = {<<x>> : x \in S} /\ Texts(Field(p, "role")) = {<<x>> : x \in T}
        /\ Texts(Field(p, "playstyle")) = {<<x>> : x \in U}
    BY <1>5, <2>1
  <2>4. KeyOf(Field(p, "position_group"), PositionGroups) = S BY <2>2, <2>3, KeysBack
  <2>5. KeyOf(Field(p, "role"), Roles) = T BY <2>2, <2>3, KeysBack
  <2>6. PlaystyleOf(p) = U BY <2>2, <2>3, PlaystyleBack
  <2>7. QED BY <2>1, <2>4, <2>5, <2>6, <1>7
<1>10. ASSUME NEW f \in {"rolefit_min", "rolefit_max"} PROVE ParseRoleFitThreshold(Field(p, f)) = F[f]
  <2>1. 0 \in Int /\ ROLEFIT_MAX \in Int BY DEF ROLEFIT_MAX
  <2>2. Numbers(Field(p, f)) = {10 * x : x \in F[f]} BY <1>4 DEF NumberFields
  <2>3. F[f] \subseteq 0 .. ROLEFIT_MAX BY DEF CanonicalFields
  <2>4. QED BY <2>1, <2>2, <2>3, BoundedBack DEF ParseRoleFitThreshold
<1>11. H.rolefit_min = F.rolefit_min /\ H.rolefit_max = F.rolefit_max
  <2>1. PICK a, b : a = F.rolefit_min /\ b = F.rolefit_max OBVIOUS
  <2>2. \A x \in a, y \in b : x =< y BY <2>1 DEF CanonicalFields
  <2>3. RoleFitOf(p) = CoherentBounds(a, b, "min") BY <2>1, <1>10 DEF RoleFitOf
  <2>4. RoleFitOf(p) = [min |-> a, max |-> b] BY <2>2, <2>3 DEF CoherentBounds
  <2>5. QED BY <2>1, <2>4, <1>7
<1>12. ASSUME NEW f \in {"value_min", "value_max"} PROVE ParseAskingEur(Field(p, f)) = F[f]
  <2>1. Numbers(Field(p, f)) = {10 * x : x \in F[f]} BY <1>4 DEF NumberFields
  <2>2. F[f] \subseteq Nat /\ F[f] \subseteq Int BY DEF CanonicalFields
  <2>3. QED BY <2>1, <2>2, OthersBack
<1>13. H.value_min = F.value_min /\ H.value_max = F.value_max
  <2>1. PICK a, b : a = F.value_min /\ b = F.value_max OBVIOUS
  <2>2. \A x \in a, y \in b : x =< y BY <2>1 DEF CanonicalFields
  <2>3. AskingOf(p) = CoherentBounds(a, b, "min") BY <2>1, <1>12 DEF AskingOf
  <2>4. AskingOf(p) = [min |-> a, max |-> b] BY <2>2, <2>3 DEF CoherentBounds
  <2>5. QED BY <2>1, <2>4, <1>7
<1>14. H.min_minutes = F.min_minutes
  <2>1. ASSUME NEW f \in {"min_minutes"} PROVE ParseMinutesThreshold(Field(p, f)) = F[f]
    <3>1. 0 \in Int /\ MINUTES_MAX \in Int BY DEF MINUTES_MAX
    <3>2. Numbers(Field(p, f)) = {10 * x : x \in F[f]} BY <1>4 DEF NumberFields
    <3>3. F[f] \subseteq 0 .. MINUTES_MAX BY DEF CanonicalFields
    <3>4. QED BY <3>1, <3>2, <3>3, BoundedBack DEF ParseMinutesThreshold
  <2>2. QED BY <2>1, <1>7
<1>15. H.age_min = F.age_min /\ H.age_max = F.age_max
  <2>1. PICK age : age = [age_min |-> F.age_min, age_max |-> F.age_max] OBVIOUS
  <2>2. Selected(age) BY <2>1 DEF CanonicalFields, Selected, DISCOVERY_VIEW_FIELDS, NumberFields
  <2>3. \A f \in {"age_min", "age_max"} : ParseAgeBound(Field(p, f)) = F[f]
    <3> TAKE f \in {"age_min", "age_max"}
    <3>1. Numbers(Field(p, f)) = {10 * x : x \in F[f]} BY <1>4 DEF NumberFields
    <3>2. F[f] \subseteq Nat /\ F[f] \subseteq Int BY DEF CanonicalFields, AGE_STOPS
    <3>3. QED BY <3>1, <3>2, OthersBack
  <2>4. LegacyAgeBandSelection(Field(p, "age_band")) = AllAges BY NoBand DEF Says
  <2>5. PICK e : e = AgeSelectionFromBounds(age.age_min, age.age_max) OBVIOUS
  <2>6. AgesOf(p) = AgeBounds(IF e.direction # "all" THEN e ELSE AllAges) BY <2>1, <2>3, <2>4, <2>5 DEF AgesOf
  <2>7. AgesOf(p).age_min = age.age_min /\ AgesOf(p).age_max = age.age_max BY <2>2, <2>5, <2>6, AgesBack
  <2>8. QED BY <2>1, <2>7, <1>7
<1>16. H.sort = F.sort
  <2>1. PICK raws, S : raws = Field(p, "sort") /\ S = F["sort"] OBVIOUS
  <2>2. S \subseteq SortOptions /\ DEFAULT_SORT \notin S BY <2>1 DEF CanonicalFields
  <2>3. Texts(raws) = {<<x>> : x \in S} \/ (S = {} /\ Texts(raws) = {<<DEFAULT_SORT>>})
    BY <2>1, SaidIs DEF DISCOVERY_VIEW_FIELDS
  <2>4. CASE Texts(raws) = {<<x>> : x \in S}
    <3>1. KeyOf(raws, SortOptions) = S BY <2>2, <2>4, KeysBack
    <3>2. QED BY <2>1, <2>2, <3>1, <1>7
  <2>5. CASE S = {} /\ Texts(raws) = {<<DEFAULT_SORT>>}
    <3>1. \A y \in KeyOf(raws, SortOptions) : y = DEFAULT_SORT BY <2>5 DEF KeyOf
    <3>2. QED BY <2>1, <2>5, <3>1, <1>7
  <2>6. QED BY <2>3, <2>4, <2>5
<1>17. H.page_size = F.page_size
  <2>1. PICK raws, S : raws = Field(p, "page_size") /\ S = F["page_size"] OBVIOUS
  <2>2. S \subseteq 1 .. PAGE_SIZE_CEILING /\ DEFAULT_PAGE_SIZE \notin S BY <2>1 DEF CanonicalFields
  <2>3. Numbers(raws) = {10 * x : x \in S} \/ (S = {} /\ Numbers(raws) = {10 * DEFAULT_PAGE_SIZE})
    BY <2>1, SaidIs DEF DISCOVERY_VIEW_FIELDS, NumberFields
  <2>4. PAGE_SIZE_CEILING \in Int /\ DEFAULT_PAGE_SIZE \in Int BY AddressesAssumption DEF PAGE_SIZE_CEILING
  <2>5. H.page_size = ParsePageSize(raws) \ {DEFAULT_PAGE_SIZE} BY <2>1, <1>7
  <2>6. CASE Numbers(raws) = {10 * x : x \in S}
    <3>1. S \subseteq Int BY <2>2, <2>4
    <3>2. ParsePageSize(raws) = S BY <2>2, <2>4, <2>6, <3>1, OthersBack
    <3>3. QED BY <2>1, <2>2, <2>5, <3>2
  <2>7. CASE S = {} /\ Numbers(raws) = {10 * DEFAULT_PAGE_SIZE}
    <3>1. (10 * DEFAULT_PAGE_SIZE) \div 10 = DEFAULT_PAGE_SIZE BY <2>4
    <3>2. \A y \in ParsePageSize(raws) : \E n \in Numbers(raws) : y = n \div 10 BY DEF ParsePageSize, ParsePage
    <3>3. \A y \in ParsePageSize(raws) : y = DEFAULT_PAGE_SIZE BY <2>7, <3>1, <3>2
    <3>4. QED BY <2>1, <2>5, <2>7, <3>3
  <2>8. QED BY <2>3, <2>6, <2>7
<1>18. \A f \in DISCOVERY_VIEW_FIELDS : H[f] = F[f]
  BY <1>8, <1>9, <1>11, <1>13, <1>14, <1>15, <1>16, <1>17 DEF DISCOVERY_VIEW_FIELDS, NumberFields
<1>19. QED BY <1>1, <1>2, <1>6, <1>18, CanonicalField

(* Parameters that say what an address does are read as the view it means. *)
LEMMA RoundTrip ==
  ASSUME NEW q, NumbersIn(q), TextsIn(q), NEW p, Says(p, DiscoveryViewFromParams(q))
  PROVE  DiscoveryViewFromParams(p) = DiscoveryViewFromParams(q)
<1>1. PICK F : F = FieldsOf(q) OBVIOUS
<1>2. CanonicalFields(F) /\ DiscoveryViewFromParams(q) = Compact(F) BY <1>1, FieldsHold, FieldsAre
<1>3. QED BY <1>2, CanonicalBack

(* What a view is written as says what it does. *)
LEMMA WrittenIs ==
  ASSUME NEW k
  PROVE  /\ \A f \in DISCOVERY_VIEW_FIELDS : Field(DiscoveryViewToParams(k), f) = {Written(f, x) : x \in Field(k, f)}
         /\ \A f : f \notin DISCOVERY_VIEW_FIELDS => f \notin DOMAIN DiscoveryViewToParams(k)
<1>1. PICK params : params = DiscoveryViewToParams(k) OBVIOUS
<1>2. DOMAIN params = DOMAIN k \cap DISCOVERY_VIEW_FIELDS /\ \A f \in DOMAIN params : params[f] = Written(f, k[f])
  BY <1>1 DEF DiscoveryViewToParams
<1>3. ASSUME NEW f \in DISCOVERY_VIEW_FIELDS PROVE Field(params, f) = {Written(f, x) : x \in Field(k, f)}
  BY <1>2 DEF Field
<1>4. QED BY <1>1, <1>2, <1>3

(* The fields of the request an address means. *)
LEMMA RequestIs ==
  ASSUME NEW q
  PROVE  LET k == Filters(q)
             view == View(q)
         IN /\ k.scope \in SEARCH_SCOPE_KEYS /\ k.page = Or(ParsePage(Field(q, "page")), DEFAULT_PAGE)
            /\ DOMAIN k = DOMAIN view \union {"scope", "sort", "page", "page_size"}
            /\ \A f \in DISCOVERY_VIEW_FIELDS \ {"sort", "page_size"} : Field(k, f) = Field(view, f)
            /\ Field(k, "sort") = IF "sort" \in DOMAIN view THEN {view["sort"]} ELSE {DEFAULT_SORT}
            /\ Field(k, "page_size") = IF "page_size" \in DOMAIN view THEN {view["page_size"]} ELSE {DEFAULT_PAGE_SIZE}
            /\ DOMAIN view \subseteq DISCOVERY_VIEW_FIELDS
<1>1. PICK k : k = Filters(q) OBVIOUS
<1>2. PICK view : view = View(q) OBVIOUS
<1>3. PICK front : front = [scope |-> ScopeFromParams(q), page |-> Or(ParsePage(Field(q, "page")), DEFAULT_PAGE)] OBVIOUS
<1>4. k = Overlaid(front, Overlaid(view, DefaultFilters)) BY <1>1, <1>2, <1>3 DEF Filters
<1>5. DOMAIN front = {"scope", "page"} /\ DOMAIN DefaultFilters = {"scope", "sort", "page", "page_size"} BY <1>3 DEF DefaultFilters
<1>6. DOMAIN view \subseteq DISCOVERY_VIEW_FIELDS
  <2>1. view = Compact(FieldsOf(q)) BY <1>2, FieldsAre DEF View
  <2>2. DOMAIN view \subseteq DOMAIN FieldsOf(q) BY <2>1 DEF Compact
  <2>3. QED BY <2>2, FieldsAre
<1>7. front.scope \in SEARCH_SCOPE_KEYS
  <2>1. PICK offered : offered = KeyOf(Field(q, "scope"), SEARCH_SCOPE_KEYS) OBVIOUS
  <2>2. offered \subseteq SEARCH_SCOPE_KEYS BY <2>1 DEF KeyOf
  <2>3. front.scope = IF offered = {} THEN DEFAULT_SEARCH_SCOPE ELSE Value(offered) BY <1>3, <2>1 DEF ScopeFromParams
  <2>4. offered # {} => Value(offered) \in offered BY DEF Value
  <2>5. DEFAULT_SEARCH_SCOPE \in SEARCH_SCOPE_KEYS BY DEF DEFAULT_SEARCH_SCOPE, SEARCH_SCOPE_KEYS
  <2>6. QED BY <2>2, <2>3, <2>4, <2>5
<1>8. k.scope = front.scope /\ k.page = front.page BY <1>4, <1>5 DEF Overlaid
<1>9. DOMAIN k = DOMAIN view \union {"scope", "sort", "page", "page_size"} BY <1>4, <1>5 DEF Overlaid
<1>10. "page" \notin DISCOVERY_VIEW_FIELDS /\ "scope" \notin DISCOVERY_VIEW_FIELDS
  BY DEF DISCOVERY_VIEW_FIELDS, TextFields, NumberFields
<1>11. ASSUME NEW f \in DISCOVERY_VIEW_FIELDS \ {"sort", "page_size"} PROVE Field(k, f) = Field(view, f)
  BY <1>4, <1>5, <1>10 DEF Overlaid, Field
<1>12. DefaultFilters.sort = DEFAULT_SORT /\ DefaultFilters.page_size = DEFAULT_PAGE_SIZE BY DEF DefaultFilters
<1>13. Field(k, "sort") = IF "sort" \in DOMAIN view THEN {view["sort"]} ELSE {DEFAULT_SORT}
  BY <1>4, <1>5, <1>12 DEF Overlaid, Field
<1>14. Field(k, "page_size") = IF "page_size" \in DOMAIN view THEN {view["page_size"]} ELSE {DEFAULT_PAGE_SIZE}
  BY <1>4, <1>5, <1>12 DEF Overlaid, Field
<1>15. k.page = Or(ParsePage(Field(q, "page")), DEFAULT_PAGE) BY <1>3, <1>8
<1>16. QED BY <1>1, <1>2, <1>6, <1>7, <1>8, <1>9, <1>11, <1>13, <1>14, <1>15

(* The page an address means is one of those it can name. *)
LEMMA PageNamed ==
  ASSUME NEW q, NumbersIn(q)
  PROVE  Filters(q).page \in Nat \ {0}
<1>1. PICK S : S = ParsePage(Field(q, "page")) OBVIOUS
<1>2. S \subseteq Nat \ {0}
  <2>1. Numbers(Field(q, "page")) \subseteq Int BY NumbersOf
  <2>2. \A m \in Int : m % 10 = 0 /\ m >= 10 => m \div 10 \in Nat \ {0} OBVIOUS
  <2>3. QED BY <2>1, <2>2, <1>1 DEF ParsePage
<1>3. DEFAULT_PAGE \in Nat \ {0} BY DEF DEFAULT_PAGE
<1>4. Or(S, DEFAULT_PAGE) \in Nat \ {0}
  <2>1. S # {} => The(S) \in S BY DEF The
  <2>2. QED BY <2>1, <1>2, <1>3 DEF Or
<1>5. Filters(q).page = Or(S, DEFAULT_PAGE) BY <1>1, RequestIs
<1>6. QED BY <1>4, <1>5

(* A request for a view is written as what the view does: it names the defaults a view leaves out. *)
LEMMA RequestSays ==
  ASSUME NEW next, NEW view,
         \A f \in DISCOVERY_VIEW_FIELDS :
           \/ Field(next, f) = Field(view, f)
           \/ f = "sort" /\ Field(view, f) = {} /\ Field(next, f) = {DEFAULT_SORT}
           \/ f = "page_size" /\ Field(view, f) = {} /\ Field(next, f) = {DEFAULT_PAGE_SIZE}
  PROVE  Says(DiscoveryViewToParams(next), view)
<1>1. PICK w : w = DiscoveryViewToParams(next) OBVIOUS
<1>2. \A f \in DISCOVERY_VIEW_FIELDS : Field(w, f) = {Written(f, x) : x \in Field(next, f)} BY <1>1, WrittenIs
<1>3. "age_band" \notin DISCOVERY_VIEW_FIELDS BY DEF DISCOVERY_VIEW_FIELDS, TextFields, NumberFields
<1>4. Field(w, "age_band") = {} BY <1>1, <1>3, WrittenIs DEF Field
<1>5. ASSUME NEW f \in DISCOVERY_VIEW_FIELDS, NEW value, value = {Written(f, x) : x \in Field(view, f)}
      PROVE  \/ Field(w, f) = value
             \/ f = "sort" /\ value = {} /\ Field(w, f) = {Written(f, DEFAULT_SORT)}
             \/ f = "page_size" /\ value = {} /\ Field(w, f) = {Written(f, DEFAULT_PAGE_SIZE)}
  <2>1. PICK S, T : S = Field(view, f) /\ T = Field(next, f) OBVIOUS
  <2>2. value = {Written(f, x) : x \in S} /\ Field(w, f) = {Written(f, x) : x \in T} BY <1>2, <1>5, <2>1
  <2>3. \/ T = S
        \/ f = "sort" /\ S = {} /\ T = {DEFAULT_SORT}
        \/ f = "page_size" /\ S = {} /\ T = {DEFAULT_PAGE_SIZE}
    BY <2>1
  <2>4. S = {} => value = {} BY <2>2
  <2>5. \A d : T = {d} => Field(w, f) = {Written(f, d)} BY <2>2
  <2>6. QED BY <2>2, <2>3, <2>4, <2>5
<1>6. QED BY <1>1, <1>4, <1>5 DEF Says

(* The address of a request for a view means that view. *)
LEMMA AddressMeans ==
  ASSUME NEW F, CanonicalFields(F), NEW next, Says(DiscoveryViewToParams(next), Compact(F))
  PROVE  /\ SetFilters(next) = Overlaid(DiscoveryViewToParams(Compact(F)),
              Overlaid([f \in (IF next.page # DEFAULT_PAGE THEN {"page"} ELSE {}) |-> [num |-> 10 * next.page]],
                       [f \in (IF next.scope # DEFAULT_SEARCH_SCOPE THEN {"scope"} ELSE {}) |-> [txt |-> <<next.scope>>]]))
         /\ View(SetFilters(next)) = Compact(F)
         /\ View(DiscoveryViewToParams(Compact(F))) = Compact(F)
<1>1. PICK view : view = Compact(F) OBVIOUS
<1>2. DiscoveryViewFromFilters(next) = view BY <1>1, CanonicalBack DEF DiscoveryViewFromFilters
<1>3. PICK w, pages, scopes :
        /\ w = DiscoveryViewToParams(view)
        /\ pages = [f \in (IF next.page # DEFAULT_PAGE THEN {"page"} ELSE {}) |-> [num |-> 10 * next.page]]
        /\ scopes = [f \in (IF next.scope # DEFAULT_SEARCH_SCOPE THEN {"scope"} ELSE {}) |-> [txt |-> <<next.scope>>]]
  OBVIOUS
<1>4. PICK p : p = SetFilters(next) OBVIOUS
<1>5. p = Overlaid(w, Overlaid(pages, scopes)) BY <1>2, <1>3, <1>4 DEF SetFilters
<1>6. DOMAIN pages \subseteq {"page"} /\ DOMAIN scopes \subseteq {"scope"} BY <1>3
<1>7. \A f \in DISCOVERY_VIEW_FIELDS \union {"age_band"} : f # "page" /\ f # "scope"
  BY DEF DISCOVERY_VIEW_FIELDS, TextFields, NumberFields
<1>8. \A f \in DISCOVERY_VIEW_FIELDS \union {"age_band"} : Field(p, f) = Field(w, f)
  BY <1>5, <1>6, <1>7 DEF Overlaid, Field
<1>9. Says(w, view) BY <1>3, RequestSays
<1>10. Says(p, view) BY <1>8, <1>9 DEF Says
<1>11. View(p) = view /\ View(w) = view BY <1>1, <1>9, <1>10, CanonicalBack DEF View
<1>12. QED BY <1>1, <1>3, <1>4, <1>5, <1>11

(* The address of another page of a request means that page of that request. *)
LEMMA AddressBack ==
  ASSUME NEW q, NumbersIn(q), TextsIn(q), NEW page \in Nat \ {0}
  PROVE  LET next == [Filters(q) EXCEPT !.page = page]
         IN Filters(SetFilters(next)) = next /\ View(SetFilters(next)) = View(q)
<1>1. PICK k : k = Filters(q) OBVIOUS
<1>2. PICK view : view = View(q) OBVIOUS
<1>3. PICK next : next = [k EXCEPT !.page = page] OBVIOUS
<1>4. PICK p : p = SetFilters(next) OBVIOUS
<1>5. /\ k.scope \in SEARCH_SCOPE_KEYS
      /\ DOMAIN k = DOMAIN view \union {"scope", "sort", "page", "page_size"}
      /\ \A f \in DISCOVERY_VIEW_FIELDS \ {"sort", "page_size"} : Field(k, f) = Field(view, f)
      /\ Field(k, "sort") = IF "sort" \in DOMAIN view THEN {view["sort"]} ELSE {DEFAULT_SORT}
      /\ Field(k, "page_size") = IF "page_size" \in DOMAIN view THEN {view["page_size"]} ELSE {DEFAULT_PAGE_SIZE}
      /\ DOMAIN view \subseteq DISCOVERY_VIEW_FIELDS
  BY <1>1, <1>2, RequestIs
<1>6. "page" \notin DISCOVERY_VIEW_FIELDS /\ "scope" \notin DISCOVERY_VIEW_FIELDS /\ "age_band" \notin DISCOVERY_VIEW_FIELDS
      /\ "sort" \in DISCOVERY_VIEW_FIELDS /\ "page_size" \in DISCOVERY_VIEW_FIELDS
  BY DEF DISCOVERY_VIEW_FIELDS, TextFields, NumberFields
<1>7. next.page = page /\ next.scope = k.scope /\ \A f \in DISCOVERY_VIEW_FIELDS : Field(next, f) = Field(k, f)
  BY <1>3, <1>5, <1>6 DEF Field
<1>8. Says(DiscoveryViewToParams(next), view)
  <2>1. ASSUME NEW f \in {"sort", "page_size"}
        PROVE  \/ Field(next, f) = Field(view, f)
               \/ f = "sort" /\ Field(view, f) = {} /\ Field(next, f) = {DEFAULT_SORT}
               \/ f = "page_size" /\ Field(view, f) = {} /\ Field(next, f) = {DEFAULT_PAGE_SIZE}
    BY <1>5, <1>6, <1>7 DEF Field
  <2>2. QED BY <2>1, <1>5, <1>7, RequestSays
<1>9. PICK F : F = FieldsOf(q) /\ CanonicalFields(F) /\ view = Compact(F)
  BY <1>2, FieldsHold, FieldsAre DEF View
<1>10. PICK w : w = DiscoveryViewToParams(view) OBVIOUS
<1>11. PICK pages : pages = [f \in (IF page # DEFAULT_PAGE THEN {"page"} ELSE {}) |-> [num |-> 10 * page]] OBVIOUS
<1>12. PICK scopes : scopes = [f \in (IF k.scope # DEFAULT_SEARCH_SCOPE THEN {"scope"} ELSE {}) |-> [txt |-> <<k.scope>>]] OBVIOUS
<1>13. p = Overlaid(w, Overlaid(pages, scopes)) BY <1>4, <1>7, <1>8, <1>9, <1>10, <1>11, <1>12, AddressMeans
<1>14. DOMAIN pages = (IF page # DEFAULT_PAGE THEN {"page"} ELSE {})
       /\ DOMAIN scopes = (IF k.scope # DEFAULT_SEARCH_SCOPE THEN {"scope"} ELSE {})
       /\ (page # DEFAULT_PAGE => pages["page"] = [num |-> 10 * page])
       /\ (k.scope # DEFAULT_SEARCH_SCOPE => scopes["scope"] = [txt |-> <<k.scope>>])
  BY <1>11, <1>12
<1>15. (\A f \in DISCOVERY_VIEW_FIELDS : Field(w, f) = {Written(f, x) : x \in Field(view, f)})
       /\ \A f : f \notin DISCOVERY_VIEW_FIELDS => f \notin DOMAIN w
  BY <1>10, WrittenIs
<1>16. View(p) = view BY <1>4, <1>8, <1>9, AddressMeans
<1>17. ScopeFromParams(p) = k.scope
  <2>1. PICK S : S = IF k.scope # DEFAULT_SEARCH_SCOPE THEN {k.scope} ELSE {} OBVIOUS
  <2>2. PICK raws : raws = Field(p, "scope") OBVIOUS
  <2>3. raws = {Written("scope", x) : x \in S}
    <3>1. \A x : Written("scope", x) = [txt |-> <<x>>] BY DEF Written, NumberFields, TextFields
    <3>2. raws = IF k.scope # DEFAULT_SEARCH_SCOPE THEN {[txt |-> <<k.scope>>]} ELSE {}
      BY <2>2, <1>6, <1>13, <1>14, <1>15 DEF Overlaid, Field
    <3>3. QED BY <2>1, <3>1, <3>2
  <2>4. Texts(raws) = {<<x>> : x \in S}
    <3>1. "scope" \notin NumberFields \union TextFields BY DEF NumberFields, TextFields
    <3>2. QED BY <2>3, <3>1, ReadBack
  <2>5. KeyOf(raws, SEARCH_SCOPE_KEYS) = S BY <2>1, <2>4, <1>5, KeysBack
  <2>6. ScopeFromParams(p) = IF S = {} THEN DEFAULT_SEARCH_SCOPE ELSE Value(S) BY <2>2, <2>5 DEF ScopeFromParams
  <2>7. QED BY <2>1, <2>6 DEF Value
<1>18. Or(ParsePage(Field(p, "page")), DEFAULT_PAGE) = page
  <2>1. PICK S : S = IF page # DEFAULT_PAGE THEN {page} ELSE {} OBVIOUS
  <2>2. PICK raws : raws = Field(p, "page") OBVIOUS
  <2>3. Numbers(raws) = {10 * x : x \in S}
    <3>1. raws = IF page # DEFAULT_PAGE THEN {[num |-> 10 * page]} ELSE {}
      <4>1. "page" \notin DOMAIN w /\ "page" \notin DOMAIN scopes BY <1>6, <1>14, <1>15
      <4>2. PICK r : r = [num |-> 10 * page] OBVIOUS
      <4>3. CASE page # DEFAULT_PAGE
        <5>1. "page" \in DOMAIN pages /\ pages["page"] = r BY <1>14, <4>2, <4>3
        <5>2. "page" \in DOMAIN p /\ p["page"] = r BY <4>1, <5>1, <1>13 DEF Overlaid
        <5>3. raws = {r} BY <2>2, <5>2 DEF Field
        <5>4. QED BY <4>2, <4>3, <5>3
      <4>4. CASE page = DEFAULT_PAGE
        <5>1. "page" \notin DOMAIN pages BY <1>14, <4>4
        <5>2. "page" \notin DOMAIN p BY <4>1, <5>1, <1>13 DEF Overlaid
        <5>3. raws = {} BY <2>2, <5>2 DEF Field
        <5>4. QED BY <4>4, <5>3
      <4>5. QED BY <4>3, <4>4
    <3>2. CASE page # DEFAULT_PAGE
      <4>1. PICK r : r = [num |-> 10 * page] OBVIOUS
      <4>2. raws = {r} /\ "num" \in DOMAIN r /\ r.num = 10 * page BY <3>1, <3>2, <4>1
      <4>3. Numbers(raws) = {10 * page} BY <4>2 DEF Numbers
      <4>4. QED BY <4>3, <3>2, <2>1
    <3>3. CASE page = DEFAULT_PAGE BY <3>1, <3>3, <2>1 DEF Numbers
    <3>4. QED BY <3>2, <3>3
  <2>4. S \subseteq Int /\ S \subseteq Nat \ {0} BY <2>1
  <2>6. ParsePage(raws) = S BY <2>3, <2>4, OthersBack
  <2>7. QED BY <2>1, <2>2, <2>6 DEF Or, The
<1>19. Filters(p) = next
  <2>1. PICK rest : rest = Overlaid(view, DefaultFilters) OBVIOUS
  <2>2. PICK old, new : old = [scope |-> ScopeFromParams(q), page |-> Or(ParsePage(Field(q, "page")), DEFAULT_PAGE)]
                        /\ new = [scope |-> k.scope, page |-> page]
    OBVIOUS
  <2>3. k = Overlaid(old, rest) BY <1>1, <1>2, <2>1, <2>2 DEF Filters
  <2>4. Filters(p) = Overlaid(new, rest) BY <1>16, <1>17, <1>18, <2>1, <2>2 DEF Filters
  <2>5. DOMAIN old = {"scope", "page"} /\ DOMAIN new = {"scope", "page"} /\ new.scope = k.scope /\ new.page = page BY <2>2
  <2>6. k.scope = old.scope BY <2>3, <2>5 DEF Overlaid
  <2>7. QED BY <1>3, <2>3, <2>4, <2>5, <2>6 DEF Overlaid
<1>20. QED BY <1>1, <1>2, <1>3, <1>4, <1>16, <1>19

(* The texts of what a request is written as are lists of words. *)
LEMMA WrittenTexts ==
  ASSUME NEW k, Worded(k)
  PROVE  TextsIn(DiscoveryViewToParams(k))
<1>1. PICK params : params = DiscoveryViewToParams(k) OBVIOUS
<1>2. DOMAIN params = DOMAIN k \cap DISCOVERY_VIEW_FIELDS /\ \A f \in DOMAIN params : params[f] = Written(f, k[f])
  BY <1>1 DEF DiscoveryViewToParams
<1>3. ASSUME NEW f \in DOMAIN params, "txt" \in DOMAIN params[f] PROVE IsList(params[f].txt)
  <2>1. CASE f \in NumberFields
    <3>1. \E x : params[f] = [num |-> x] BY <2>1, <1>2 DEF Written
    <3>2. QED BY <3>1, <1>3
  <2>2. CASE f \notin NumberFields /\ f \in TextFields
    <3>1. params[f].txt = k[f] BY <2>2, <1>2 DEF Written
    <3>2. IsList(k[f]) BY <2>2, <1>2 DEF Worded, Field
    <3>3. QED BY <3>1, <3>2
  <2>3. CASE f \notin NumberFields /\ f \notin TextFields
    <3>1. params[f].txt = <<k[f]>> BY <2>3, <1>2 DEF Written
    <3>2. PICK s : s = <<k[f]>> OBVIOUS
    <3>3. s = [i \in 1 .. 1 |-> s[i]] BY <3>2
    <3>4. 1 \in Nat OBVIOUS
    <3>5. IsList(s) BY <3>3, <3>4, ListOf
    <3>6. QED BY <3>1, <3>2, <3>5
  <2>4. QED BY <2>1, <2>2, <2>3
<1>4. QED BY <1>1, <1>3 DEF TextsIn

(* So are those of the view and of the request an address means. *)
LEMMA MeantTexts ==
  ASSUME NEW q, TextsIn(q)
  PROVE  Worded(DiscoveryViewFromParams(q)) /\ Worded(Filters(q))
<1>1. PICK view : view = DiscoveryViewFromParams(q) OBVIOUS
<1>2. view = Compact(FieldsOf(q)) BY <1>1, FieldsAre
<1>3. ASSUME NEW f \in TextFields PROVE \A t \in Field(view, f) : IsList(t)
  <2>1. f \in DOMAIN FieldsOf(q) /\ FieldsOf(q)[f] = NormalizeText(Field(q, f)) BY DEF FieldsOf, TextFields
  <2>2. Field(view, f) \subseteq FieldsOf(q)[f] BY <2>1, <1>2, CompactIs
  <2>3. \A t \in NormalizeText(Field(q, f)) : IsList(t) BY TextsAreNormal DEF Normal, Edged
  <2>4. QED BY <2>1, <2>2, <2>3
<1>4. Worded(view) BY <1>3 DEF Worded
<1>5. \A f \in TextFields : Field(Filters(q), f) = Field(view, f)
  <2>1. TextFields \subseteq DISCOVERY_VIEW_FIELDS \ {"sort", "page_size"} BY DEF TextFields, DISCOVERY_VIEW_FIELDS
  <2>2. QED BY <2>1, <1>1, RequestIs DEF View
<1>6. Worded(Filters(q)) BY <1>4, <1>5 DEF Worded
<1>7. QED BY <1>1, <1>4, <1>6

(* So are those of the address of a request. *)
LEMMA AddressTexts ==
  ASSUME NEW k, Worded(k)
  PROVE  TextsIn(SetFilters(k))
<1> DEFINE view == DiscoveryViewToParams(DiscoveryViewFromFilters(k))
           page == [f \in (IF k.page # DEFAULT_PAGE THEN {"page"} ELSE {}) |-> [num |-> 10 * k.page]]
           scope == [f \in (IF k.scope # DEFAULT_SEARCH_SCOPE THEN {"scope"} ELSE {}) |-> [txt |-> <<k.scope>>]]
<1>1. TextsIn(view)
  <2>1. Worded(DiscoveryViewFromFilters(k)) BY WrittenTexts, MeantTexts DEF DiscoveryViewFromFilters
  <2>2. QED BY <2>1, WrittenTexts
<1>2. TextsIn(page) BY DEF TextsIn
<1>3. TextsIn(scope)
  <2>1. PICK s : s = <<k.scope>> OBVIOUS
  <2>2. s = [i \in 1 .. 1 |-> s[i]] /\ 1 \in Nat BY <2>1
  <2>3. IsList(s) BY <2>2, ListOf
  <2>4. \A f \in DOMAIN scope : scope[f].txt = s BY <2>1
  <2>5. QED BY <2>3, <2>4 DEF TextsIn
<1>4. \A f, g : TextsIn(f) /\ TextsIn(g) => TextsIn(Overlaid(f, g)) BY DEF TextsIn, Overlaid
<1>5. SetFilters(k) = Overlaid(view, Overlaid(page, scope)) BY DEF SetFilters
<1> HIDE DEF view, page, scope
<1>6. QED BY <1>1, <1>2, <1>3, <1>4, <1>5

(* A change of the request keeps its texts lists of words. *)
LEMMA PatchedTexts ==
  ASSUME NEW k, Worded(k), NEW patch,
         \A f \in DOMAIN patch \cap TextFields : \A t \in patch[f] : IsList(t)
  PROVE  Worded(Patched(k, With(patch, "page", {1})))
<1> DEFINE changed == With(patch, "page", {1})
           fields == [f \in DOMAIN k \union DOMAIN changed |-> IF f \in DOMAIN changed THEN changed[f] ELSE {k[f]}]
<1>1. Patched(k, changed) = Compact(fields) BY DEF Patched
<1>2. DOMAIN changed = DOMAIN patch \cup {"page"} /\ \A f \in DOMAIN patch : f # "page" => changed[f] = patch[f] BY DEF With
<1> HIDE DEF changed
<1>3. ASSUME NEW f \in TextFields PROVE \A t \in Field(Compact(fields), f) : IsList(t)
  <2>1. f # "page" BY DEF TextFields
  <2>2. f \in DOMAIN fields => \A t \in fields[f] : IsList(t)
    <3>1. CASE f \in DOMAIN changed BY <3>1, <2>1, <1>2
    <3>2. CASE f \in DOMAIN k /\ f \notin DOMAIN changed BY <3>2 DEF Worded, Field
    <3>3. QED BY <3>1, <3>2
  <2> HIDE DEF fields
  <2>3. QED BY <2>2, CompactIs
<1> HIDE DEF fields
<1>4. Worded(Compact(fields)) BY <1>3 DEF Worded
<1>5. QED BY <1>1, <1>4 DEF changed

(* The page that is served is at most the one that is asked for. *)
LEMMA ServedInRange ==
  ASSUME NEW c, CallHeld(c), Accepted(c.key), c.key.page \in Nat \ {0}
  PROVE  ServedPage(c) \in Nat \ {0}
<1>1. PICK p, t : p = c.key.page /\ t = TotalPages(c) OBVIOUS
<1>2. p \in Int /\ 1 =< p /\ t \in Nat
  <2>1. t \in Nat BY <1>1, ServedIs
  <2>2. QED BY <2>1, <1>1
<1>3. CASE t = 0 BY <1>1, <1>2, <1>3 DEF ServedPage, EffectivePage
<1>4. CASE t # 0
  <2>1. PICK T : T = {p, t} OBVIOUS
  <2>2. T \subseteq Int /\ T # {} /\ 0 \in Int /\ \A y \in T : 0 =< y BY <1>2, <2>1
  <2>3. Min(T) \in T /\ \A y \in T : Min(T) =< y BY <2>2, LeastOf
  <2>4. ServedPage(c) = Min(T) BY <1>4, <1>1, <2>1 DEF ServedPage, EffectivePage
  <2>5. QED BY <2>1, <2>3, <2>4, <1>2, <1>4
<1>5. QED BY <1>3, <1>4

\* The texts of the address are lists of words, and the pages asked for and served are
\* those an address can name.
Named(data) == \A r \in data : r.page \in Nat \ {0}
AInv ==
  /\ TextsIn(url)
  /\ \A c \in calls : c.key.page \in Nat \ {0} /\ Named(c.response)
  /\ \A k \in DOMAIN cache : Named(cache[k].data)

(* They are when a visit begins. *)
LEMMA InitNamed == Init => AInv
<1> SUFFICES ASSUME Init PROVE AInv OBVIOUS
<1>1. TextsIn(url) BY AddressesAssumption DEF Init
<1>2. calls = {} /\ DOMAIN cache = {} BY DEF Init
<1>3. QED BY <1>1, <1>2 DEF AInv

(* They are after a step that writes texts, asks for pages an address can name and stores
   answers for such pages. *)
LEMMA BrowserNamed ==
  ASSUME AInv, TextsIn(url'), \A c \in calls' : c.key.page \in Nat \ {0} /\ Named(c.response),
         cache' = cache \/ \E k : \E e : Named(e.data) /\ cache' = Stored(k, e)
  PROVE  AInv'
<1>1. \A k \in DOMAIN cache' : Named(cache'[k].data)
  <2>1. CASE cache' = cache BY <2>1 DEF AInv
  <2>2. CASE \E k : \E e : Named(e.data) /\ cache' = Stored(k, e) BY <2>2 DEF AInv, Stored
  <2>3. QED BY <2>1, <2>2
<1>2. QED BY <1>1 DEF AInv, Named

(* A statement keeps the page a request is for. *)
LEMMA ServerNamed ==
  ASSUME AInv, NEW c \in calls, NEW d, Move(c, d), ServerStep, d.key = c.key, Named(d.response)
  PROVE  AInv'
<1>1. UNCHANGED <<url, cache>> /\ calls' \subseteq calls \union {d} BY DEF Move, ServerStep
<1>2. c.key.page \in Nat \ {0} BY DEF AInv
<1>3. \A x \in calls' : x.key.page \in Nat \ {0} /\ Named(x.response) BY <1>1, <1>2 DEF AInv
<1>4. TextsIn(url') BY <1>1 DEF AInv
<1>5. QED BY <1>1, <1>3, <1>4, BrowserNamed

(* So do the four of a request, the last of which serves a page. *)
LEMMA StatementNamed ==
  ASSUME IInv, AInv, NEW c \in calls, ReadSeason(c) \/ CountMatches(c) \/ FetchRows(c) \/ FetchBadges(c)
  PROVE  AInv'
<1>1. CallHeld(c) /\ DOMAIN c = CallFields /\ c.key.page \in Nat \ {0} /\ Named(c.response)
  BY DEF IInv, AInv, CallHeld
<1>2. CASE ReadSeason(c)
  <2> DEFINE empty == EmptyResponse(c.key, {publications})
             refused == [c EXCEPT !.at = "refused"]
             none == [c EXCEPT !.at = "done", !.response = {empty}]
             read == [c EXCEPT !.at = "count", !.filters = {Resolved(Query(c.key), The(GetCurrentSeason(db)))},
                               !.asOf = {publications}]
  <2>1. ServerStep /\ (Move(c, refused) \/ Move(c, none) \/ Move(c, read)) BY <1>2 DEF ReadSeason
  <2>2. refused.key = c.key /\ refused.response = c.response /\ read.key = c.key /\ read.response = c.response
        /\ none.key = c.key /\ none.response = {empty}
    BY <1>1 DEF CallFields
  <2>3. empty.page = 1 BY DEF EmptyResponse
  <2> HIDE DEF empty, refused, none, read
  <2>4. Named({empty}) BY <2>3 DEF Named
  <2>5. QED BY <2>1, <2>2, <2>4, <1>1, ServerNamed
<1>3. CASE CountMatches(c)
  <2>1. PICK d : /\ d = [c EXCEPT !.at = "page", !.total = CountPlayers(db, The(c.filters)), !.asOf = @ \union {publications}]
                 /\ Move(c, d)
    BY <1>3 DEF CountMatches
  <2>2. d.key = c.key /\ d.response = c.response BY <2>1, <1>1 DEF CallFields
  <2>3. ServerStep BY <1>3 DEF CountMatches
  <2>4. QED BY <2>1, <2>2, <2>3, <1>1, ServerNamed
<1>4. CASE FetchRows(c)
  <2>1. PICK seen : seen = [c EXCEPT !.at = "badges", !.asOf = @ \union {publications}] OBVIOUS
  <2>2. PICK d : Move(c, d) /\ (d = seen \/ \E rows : d = [seen EXCEPT !.rows = rows]) BY <1>4, <2>1 DEF FetchRows
  <2>3. seen.key = c.key /\ seen.response = c.response /\ DOMAIN seen = CallFields BY <2>1, <1>1 DEF CallFields
  <2>4. d.key = c.key /\ d.response = c.response
    <3>1. CASE d = seen BY <3>1, <2>3
    <3>2. CASE \E rows : d = [seen EXCEPT !.rows = rows]
      <4>1. PICK rows : d = [seen EXCEPT !.rows = rows] BY <3>2
      <4>2. QED BY <4>1, <2>3 DEF CallFields
    <3>3. QED BY <2>2, <3>1, <3>2
  <2>5. ServerStep BY <1>4 DEF FetchRows
  <2>6. QED BY <2>2, <2>4, <2>5, <1>1, ServerNamed
<1>5. CASE FetchBadges(c)
  <2> DEFINE of(p) == Of(db.badges, p, The(c.filters).season)
             answer == Response(c, of)
             done == [c EXCEPT !.at = "done", !.response = {answer}]
  <2>1. ServerStep /\ Move(c, done) /\ c.at = "badges" BY <1>5 DEF FetchBadges
  <2>2. done.key = c.key /\ done.response = {answer} BY <1>1 DEF CallFields
  <2>3. answer.page = ServedPage(c) BY DEF Response
  <2>4. Accepted(c.key) BY <2>1, <1>1 DEF CallHeld
  <2>5. answer.page \in Nat \ {0} BY <2>3, <2>4, <1>1, ServedInRange
  <2> HIDE DEF answer, done
  <2>6. Named({answer}) BY <2>5 DEF Named
  <2>7. QED BY <2>1, <2>2, <2>6, ServerNamed
<1>6. QED BY <1>2, <1>3, <1>4, <1>5

(* What the cache has for a key. *)
LEMMA EntryNamed == ASSUME AInv, NEW k PROVE Named(Entry(k).data)
BY DEF AInv, Entry, NoEntry, Named

(* Asking, an answer and a failure keep it. *)
LEMMA NetworkNamed ==
  ASSUME IInv, AInv, Ask \/ AskAgain \/ Network \/ \E c \in calls : Lost(c)
  PROVE  AInv'
<1>1. ASSUME NEW k, NEW attempt, k.page \in Nat \ {0}
      PROVE  Call(k, attempt).key.page \in Nat \ {0} /\ Named(Call(k, attempt).response)
  BY <1>1 DEF Call, Named
<1>2. ASSUME NEW k, NEW e, e.data = Entry(k).data, cache' = Stored(k, e)
      PROVE  cache' = cache \/ \E x : \E d : Named(d.data) /\ cache' = Stored(x, d)
  <2>1. Named(e.data) BY <1>2, EntryNamed
  <2>2. QED BY <2>1, <1>2
<1>3. CASE Ask \/ AskAgain
  <2>1. calls' = calls \union {Call(Key, 1)} /\ url' = url BY <1>3 DEF Ask, AskAgain
  <2>2. Key.page \in Nat \ {0} BY PageNamed DEF IInv, Key
  <2>3. \A c \in calls' : c.key.page \in Nat \ {0} /\ Named(c.response) BY <2>1, <2>2, <1>1 DEF AInv
  <2>4. cache' = cache \/ \E k : \E e : Named(e.data) /\ cache' = Stored(k, e)
    <3>1. CASE Ask BY <3>1 DEF Ask
    <3>2. CASE AskAgain
      <4> DEFINE again == [Entry(Key) EXCEPT !.failed = Entry(Key).failed /\ Entry(Key).data # {}]
      <4>1. cache' = Stored(Key, again) BY <3>2 DEF AskAgain
      <4>2. again.data = Entry(Key).data OBVIOUS
      <4> HIDE DEF again
      <4>3. QED BY <4>1, <4>2, <1>2
    <3>3. QED BY <3>1, <3>2, <1>3
  <2>5. TextsIn(url') BY <2>1 DEF AInv
  <2>6. QED BY <2>3, <2>4, <2>5, BrowserNamed
<1>4. CASE Network
  <2>1. PICK c \in calls : Answered(c) BY <1>4 DEF Network
  <2>2. PICK e : e = [data |-> c.response, failed |-> FALSE] OBVIOUS
  <2>3. cache' = Stored(c.key, e) /\ e.data = c.response /\ calls' \subseteq calls /\ url' = url BY <2>1, <2>2 DEF Answered
  <2>4. \A x \in calls' : x.key.page \in Nat \ {0} /\ Named(x.response) BY <2>3 DEF AInv
  <2>5. Named(e.data) BY <2>3 DEF AInv
  <2>6. TextsIn(url') BY <2>3 DEF AInv
  <2>7. QED BY <2>3, <2>4, <2>5, <2>6, BrowserNamed
<1>5. CASE \E c \in calls : Lost(c)
  <2>1. PICK c \in calls : Lost(c) BY <1>5
  <2>2. url' = url /\ Failed(c) BY <2>1 DEF Lost
  <2>3. c.key.page \in Nat \ {0} BY DEF AInv
  <2>4. calls' \subseteq calls \union {Call(c.key, 2)} BY <2>2 DEF Failed, Move
  <2>5. \A x \in calls' : x.key.page \in Nat \ {0} /\ Named(x.response) BY <2>3, <2>4, <1>1 DEF AInv
  <2>6. cache' = cache \/ \E k : \E e : Named(e.data) /\ cache' = Stored(k, e)
    <3> DEFINE failed == [Entry(c.key) EXCEPT !.failed = TRUE]
    <3>1. failed.data = Entry(c.key).data OBVIOUS
    <3>2. cache' = cache \/ cache' = Stored(c.key, failed) BY <2>2 DEF Failed
    <3> HIDE DEF failed
    <3>3. QED BY <3>1, <3>2, <1>2
  <2>7. TextsIn(url') BY <2>2 DEF AInv
  <2>8. QED BY <2>5, <2>6, <2>7, BrowserNamed
<1>6. QED BY <1>3, <1>4, <1>5

(* So do the clicks. *)
LEMMA ClickNamed ==
  ASSUME IInv, AInv, ChangeFilter \/ RemoveCriterion \/ ClearAll \/ TurnPage \/ OpenView
  PROVE  AInv'
<1>1. Worded(Key) BY MeantTexts DEF AInv, Key
<1>2. ASSUME NEW next, TextsIn(next), Navigate(next) PROVE AInv'
  <2>1. url' = next /\ UNCHANGED <<cache, calls>> BY <1>2 DEF Navigate
  <2>2. \A c \in calls' : c.key.page \in Nat \ {0} /\ Named(c.response) BY <2>1 DEF AInv
  <2>3. QED BY <1>2, <2>1, <2>2, BrowserNamed
<1>3. CASE ChangeFilter
  <2>1. PICK patch \in Patches : Navigate(SetFilters(Patched(Key, With(patch, "page", {1})))) BY <1>3 DEF ChangeFilter
  <2>2. \A f \in DOMAIN patch \cap TextFields : \A t \in patch[f] : IsList(t) BY AddressesAssumption
  <2>3. TextsIn(SetFilters(Patched(Key, With(patch, "page", {1})))) BY <2>2, <1>1, PatchedTexts, AddressTexts
  <2>4. QED BY <2>1, <2>3, <1>2
<1>4. CASE RemoveCriterion
  <2>1. PICK c : Navigate(SetFilters(Patched(Key, With(RemovalPatch(c), "page", {1})))) BY <1>4 DEF RemoveCriterion
  <2>2. PICK patch : patch = RemovalPatch(c) OBVIOUS
  <2>3. \A f \in DOMAIN patch \cap TextFields : \A t \in patch[f] : IsList(t) BY <2>2 DEF RemovalPatch
  <2>4. TextsIn(SetFilters(Patched(Key, With(patch, "page", {1})))) BY <2>3, <1>1, PatchedTexts, AddressTexts
  <2>5. QED BY <2>1, <2>2, <2>4, <1>2
<1>5. CASE ClearAll
  <2>1. Worded(DefaultFilters) BY DEF DefaultFilters, Worded, Field, TextFields
  <2>2. TextsIn(SetFilters(DefaultFilters)) BY <2>1, AddressTexts
  <2>3. QED BY <1>5, <2>2, <1>2 DEF ClearAll
<1>6. CASE TurnPage
  <2>1. PICK h : Navigate(SetFilters(h)) /\ \E page : h = [Key EXCEPT !.page = page] BY <1>6 DEF TurnPage
  <2>2. DOMAIN h = DOMAIN Key /\ \A f \in DOMAIN Key : f # "page" => h[f] = Key[f] BY <2>1
  <2>3. "page" \notin TextFields BY DEF TextFields
  <2>4. Worded(h) BY <2>2, <2>3, <1>1 DEF Worded, Field
  <2>5. TextsIn(SetFilters(h)) BY <2>4, AddressTexts
  <2>6. QED BY <2>1, <2>5, <1>2
<1>7. CASE OpenView
  <2>1. PICK v \in SavedViews : Navigate(DiscoveryViewToParams(v)) BY <1>7 DEF OpenView
  <2>2. TextsIn(DiscoveryViewToParams(v)) BY AddressesAssumption, WrittenTexts
  <2>3. QED BY <2>1, <2>2, <1>2
<1>8. QED BY <1>3, <1>4, <1>5, <1>6, <1>7

(* The address that follows an answer means the request for the page that was served. *)
LEMMA SyncMeans ==
  ASSUME IInv, AInv, SyncCanonicalPage
  PROVE  /\ AInv'
         /\ \E r \in Entry(Key).data : /\ Key' = [Key EXCEPT !.page = r.page]
                                       /\ Entry(Key)' = [data |-> {r}, failed |-> FALSE]
<1>1. PICK served \in Entry(Key).data :
        /\ cache' = Stored(CanonicalKey(Key, served.page), [data |-> {served}, failed |-> FALSE])
        /\ url' = SetFilters([Key EXCEPT !.page = served.page])
        /\ calls' = calls
  BY DEF SyncCanonicalPage
<1>2. PICK h : h = [Key EXCEPT !.page = served.page] OBVIOUS
<1>3. PICK e : e = [data |-> {served}, failed |-> FALSE] OBVIOUS
<1>4. served.page \in Nat \ {0} BY EntryNamed DEF Named
<1>5. NumbersIn(url) /\ TextsIn(url) BY DEF IInv, AInv
<1>6. Filters(SetFilters(h)) = h BY <1>2, <1>4, <1>5, AddressBack DEF Key
<1>7. Key' = h BY <1>1, <1>2, <1>6 DEF Key
<1>8. cache' = Stored(h, e) BY <1>1, <1>2, <1>3 DEF CanonicalKey
<1>9. Entry(Key)' = e BY <1>7, <1>8 DEF Entry, Stored
<1>10. AInv'
  <2>1. Worded(h)
    <3>1. Worded(Key) BY MeantTexts DEF AInv, Key
    <3>2. DOMAIN h = DOMAIN Key /\ \A f \in DOMAIN Key : f # "page" => h[f] = Key[f] BY <1>2
    <3>3. "page" \notin TextFields BY DEF TextFields
    <3>4. QED BY <3>1, <3>2, <3>3 DEF Worded, Field
  <2>2. TextsIn(url') BY <2>1, <1>1, <1>2, AddressTexts
  <2>3. Named(e.data)
    <3>1. e.data = {served} BY <1>3
    <3>2. QED BY <3>1, <1>4 DEF Named
  <2>4. \A c \in calls' : c.key.page \in Nat \ {0} /\ Named(c.response) BY <1>1 DEF AInv
  <2>5. QED BY <2>2, <2>3, <2>4, <1>8, BrowserNamed
<1>11. QED BY <1>2, <1>3, <1>7, <1>9, <1>10

(* Every step keeps it. *)
LEMMA StepNamed == IInv /\ AInv /\ [Next]_vars => AInv'
<1> SUFFICES ASSUME IInv, AInv, [Next]_vars PROVE AInv' OBVIOUS
<1>1. ASSUME UNCHANGED <<url, cache, calls>> PROVE AInv'
  <2>1. \A c \in calls' : c.key.page \in Nat \ {0} /\ Named(c.response) BY <1>1 DEF AInv
  <2>2. TextsIn(url') BY <1>1 DEF AInv
  <2>3. QED BY <1>1, <2>1, <2>2, BrowserNamed
<1>2. CASE Publish BY <1>1, <1>2 DEF Publish
<1>3. CASE Server BY <1>3, StatementNamed DEF Server
<1>4. CASE Ask \/ AskAgain \/ Network \/ \E c \in calls : Lost(c) BY <1>4, NetworkNamed
<1>5. CASE SyncCanonicalPage BY <1>5, SyncMeans
<1>6. CASE ChangeFilter \/ RemoveCriterion \/ ClearAll \/ TurnPage \/ OpenView BY <1>6, ClickNamed
<1>7. CASE UNCHANGED vars BY <1>1, <1>7 DEF vars
<1>8. QED BY <1>2, <1>3, <1>4, <1>5, <1>6, <1>7 DEF Next

(* Whatever the address was and however the answers came: rewriting it to the page that was
   served changes nothing else in the request it means, and that request has its answer. *)
THEOREM AddressFollowsTheAnswerCorrect == Spec => AddressFollowsTheAnswer
<1>1. IInv /\ AInv /\ [Next]_vars => IInv' /\ AInv' BY NextHeld, StepNamed
<1>2. Init => IInv /\ AInv BY InitHeld, InitNamed
<1>3. IInv /\ AInv => [events' = events /\ SyncCanonicalPage => \E r \in Entry(Key).data :
                         /\ Key' = [Key EXCEPT !.page = r.page]
                         /\ Entry(Key)' = [data |-> {r}, failed |-> FALSE]]_vars
  BY SyncMeans
<1>4. QED BY <1>1, <1>2, <1>3, PTL DEF Spec, AddressFollowsTheAnswer

(* The keys offered of those that are written. *)
LEMMA KeysMeet ==
  ASSUME NEW keys, NEW S, NEW raws, Texts(raws) = {<<x>> : x \in S}
  PROVE  KeyOf(raws, keys) = {x \in S : x \in keys}
<1>1. \A x : Len(<<x>>) = 1 /\ <<x>>[1] = x OBVIOUS
<1>2. \A y : y \in KeyOf(raws, keys) <=> y \in keys /\ \E t \in Texts(raws) : Len(t) = 1 /\ y = t[1] BY DEF KeyOf
<1>3. ASSUME NEW y \in KeyOf(raws, keys) PROVE y \in S /\ y \in keys
  <2>1. PICK t \in Texts(raws) : y = t[1] BY <1>2
  <2>2. PICK x \in S : t = <<x>> BY <2>1
  <2>3. QED BY <1>1, <1>2, <2>1, <2>2
<1>4. ASSUME NEW x \in S, x \in keys PROVE x \in KeyOf(raws, keys)
  <2>1. <<x>> \in Texts(raws) OBVIOUS
  <2>2. QED BY <1>1, <1>2, <1>4, <2>1
<1>5. QED BY <1>3, <1>4

(* The numbers within bounds of those that are written. *)
LEMMA IntegersBack ==
  ASSUME NEW S, S \subseteq Int, NEW raws, Numbers(raws) = {10 * x : x \in S}, NEW low \in Int, NEW high \in Int
  PROVE  BoundedInteger(raws, low, high) = {x \in S : x >= low /\ x =< high}
<1>1. \A x \in S : x \in Int /\ Rounded(10 * x) = x BY RoundedIs
<1>2. \A y : y \in BoundedInteger(raws, low, high) <=>
        \E n \in Numbers(raws) : Rounded(n) >= low /\ Rounded(n) =< high /\ y = Rounded(n)
  BY DEF BoundedInteger
<1>3. \A y : y \in BoundedInteger(raws, low, high) <=>
        \E x \in S : Rounded(10 * x) >= low /\ Rounded(10 * x) =< high /\ y = Rounded(10 * x)
  BY <1>2
<1>4. \A y : y \in BoundedInteger(raws, low, high) <=> \E x \in S : x >= low /\ x =< high /\ y = x BY <1>1, <1>3
<1>5. QED BY <1>4

\* What is too large to be stored, and the fields without it.
TooLarge(f, x) ==
  \/ f \in TextFields /\ Len(x) > TextFilterMax
  \/ f \in {"value_min", "value_max"} /\ x > ASKING_MAX
  \/ f = "playstyle" /\ x \in LongWords
Kept(F) == [f \in DISCOVERY_VIEW_FIELDS |-> {x \in F[f] : ~TooLarge(f, x)}]

(* They are what a saved view holds, and nothing of them is too large. *)
LEMMA KeptIs ==
  ASSUME NEW F, CanonicalFields(F), NEW view, view = Compact(F)
  PROVE  /\ CanonicalFields(Kept(F)) /\ Unstorable(Compact(Kept(F))) = {}
         /\ Unstorable(view) = {f \in DOMAIN view : Kept(F)[f] = {}}
         /\ Restrict(view, DOMAIN view \ Unstorable(view)) = Compact(Kept(F))
         /\ DOMAIN view \subseteq DISCOVERY_VIEW_FIELDS
         /\ Restrict(Compact(Kept(F)), DOMAIN Compact(Kept(F)) \ Unstorable(Compact(Kept(F)))) = Compact(Kept(F))
         /\ \A f \in DISCOVERY_VIEW_FIELDS : Kept(Kept(F))[f] = Kept(F)[f]
<1>1. PICK G : G = Kept(F) OBVIOUS
<1>2. PICK less : less = Compact(G) OBVIOUS
<1>3. DOMAIN G = DISCOVERY_VIEW_FIELDS /\ \A f \in DISCOVERY_VIEW_FIELDS : G[f] = {x \in F[f] : ~TooLarge(f, x)}
  BY <1>1 DEF Kept
<1>4. CanonicalFields(G) BY <1>3, FewerFields
<1>5. /\ \A f \in DISCOVERY_VIEW_FIELDS : Field(view, f) = F[f] /\ Field(less, f) = G[f]
      /\ DOMAIN view \subseteq DISCOVERY_VIEW_FIELDS /\ DOMAIN less \subseteq DISCOVERY_VIEW_FIELDS
  BY <1>2, <1>4, CanonicalField
<1>6. /\ \A f \in DOMAIN view : F[f] = {view[f]}
      /\ \A f \in DOMAIN less : G[f] = {less[f]}
      /\ \A f \in DISCOVERY_VIEW_FIELDS : (F[f] # {} => f \in DOMAIN view) /\ (G[f] # {} => f \in DOMAIN less)
  BY <1>5 DEF Field
<1>7. \A v : Unstorable(v) = {f \in DOMAIN v : TooLarge(f, v[f])} BY DEF Unstorable, TooLarge
<1>8. Unstorable(less) = {} BY <1>3, <1>5, <1>6, <1>7
<1>9. \A f \in DOMAIN view : TooLarge(f, view[f]) <=> G[f] = {} BY <1>3, <1>5, <1>6
<1>10. Unstorable(view) = {f \in DOMAIN view : G[f] = {}} BY <1>7, <1>9
<1>11. DOMAIN less = DOMAIN view \ Unstorable(view)
  <2>1. \A f \in DISCOVERY_VIEW_FIELDS : G[f] # {} => F[f] # {} BY <1>3
  <2>2. \A f : f \in DOMAIN less <=> f \in DISCOVERY_VIEW_FIELDS /\ G[f] # {} BY <1>5, <1>6
  <2>3. \A f : f \in DOMAIN view <=> f \in DISCOVERY_VIEW_FIELDS /\ F[f] # {} BY <1>5, <1>6
  <2>4. QED BY <2>1, <2>2, <2>3, <1>10
<1>12. \A f \in DOMAIN less : less[f] = view[f] BY <1>3, <1>5, <1>6, <1>11
<1>13. less = [f \in DOMAIN less |-> less[f]] BY <1>2 DEF Compact
<1>14. Restrict(view, DOMAIN view \ Unstorable(view)) = less BY <1>11, <1>12, <1>13 DEF Restrict
<1>15. Restrict(less, DOMAIN less \ Unstorable(less)) = less BY <1>8, <1>13 DEF Restrict
<1>16. \A f \in DISCOVERY_VIEW_FIELDS : Kept(G)[f] = G[f] BY <1>3 DEF Kept
<1>17. QED BY <1>1, <1>2, <1>4, <1>5, <1>8, <1>10, <1>14, <1>15, <1>16

\* The fields recovered from storage, before those without a value are left out.
StoredAges(raw) ==
  AgeBounds(IF Field(raw, "age_min") # {} /\ Field(raw, "age_max") # {} THEN AllAges
            ELSE AgeSelectionFromBounds(BoundedInteger(Field(raw, "age_min"), 0, 120),
                                        BoundedInteger(Field(raw, "age_max"), 0, 120)))
StoredRoleFit(raw) ==
  CoherentBounds(BoundedInteger(Field(raw, "rolefit_min"), 0, ROLEFIT_MAX), BoundedInteger(Field(raw, "rolefit_max"), 0, ROLEFIT_MAX), "min")
StoredAsking(raw) ==
  CoherentBounds(BoundedInteger(Field(raw, "value_min"), 0, ASKING_MAX), BoundedInteger(Field(raw, "value_max"), 0, ASKING_MAX), "min")
Short(texts) == {t \in texts : Len(t) =< TextFilterMax}

StoredOf(raw) ==
  [q |-> Short(NormalizeText(Field(raw, "q"))), league |-> Short(NormalizeText(Field(raw, "league"))),
   club |-> Short(NormalizeText(Field(raw, "club"))), nationality |-> Short(NormalizeText(Field(raw, "nationality"))),
   position_group |-> KeyOf(Field(raw, "position_group"), PositionGroups),
   role |-> KeyOf(Field(raw, "role"), Roles), playstyle |-> KeyOf(Field(raw, "playstyle"), Slugs \ LongWords),
   sort |-> KeyOf(Field(raw, "sort"), SortOptions) \ {DEFAULT_SORT},
   age_min |-> StoredAges(raw).age_min, age_max |-> StoredAges(raw).age_max,
   min_minutes |-> BoundedInteger(Field(raw, "min_minutes"), 0, MINUTES_MAX),
   rolefit_min |-> StoredRoleFit(raw).min, rolefit_max |-> StoredRoleFit(raw).max,
   value_min |-> StoredAsking(raw).min, value_max |-> StoredAsking(raw).max,
   page_size |-> BoundedInteger(Field(raw, "page_size"), 1, PAGE_SIZE_CEILING) \ {DEFAULT_PAGE_SIZE}]

LostOf(raw) == {f \in DOMAIN raw \intersect DISCOVERY_VIEW_FIELDS : StoredOf(raw)[f] = {}}

(* They are those of the view that is recovered. *)
LEMMA StoredAre ==
  ASSUME NEW raw
  PROVE  /\ RecoverDiscoveryView(raw).view = Compact(StoredOf(raw))
         /\ RecoverDiscoveryView(raw).dropped =
              {f \in LostOf(raw) : /\ ~(f = "age_max" /\ "age_min" \in LostOf(raw))
                                  /\ ~(f = "page_size" /\ BoundedInteger(Field(raw, "page_size"), 1, PAGE_SIZE_CEILING) # {})}
         /\ RecoverDiscoveryView(raw) = [view |-> RecoverDiscoveryView(raw).view, dropped |-> RecoverDiscoveryView(raw).dropped]
         /\ DOMAIN StoredOf(raw) = DISCOVERY_VIEW_FIELDS
<1>1. RecoverDiscoveryView(raw) =
        [view |-> Compact(StoredOf(raw)),
         dropped |-> {f \in LostOf(raw) : /\ ~(f = "age_max" /\ "age_min" \in LostOf(raw))
                                         /\ ~(f = "page_size" /\ BoundedInteger(Field(raw, "page_size"), 1, PAGE_SIZE_CEILING) # {})}]
  BY DEF RecoverDiscoveryView, StoredOf, StoredAges, StoredRoleFit, StoredAsking, Short, LostOf
<1>2. DOMAIN StoredOf(raw) = DISCOVERY_VIEW_FIELDS
  BY DEF StoredOf, DISCOVERY_VIEW_FIELDS, TextFields, NumberFields
<1>3. QED BY <1>1, <1>2

(* What a view is written as holds its numbers and texts. *)
LEMMA HoldsIs ==
  ASSUME NEW F, CanonicalFields(F), NEW p, p = DiscoveryViewToParams(Compact(F)), NEW f \in DISCOVERY_VIEW_FIELDS
  PROVE  /\ f \in NumberFields => Numbers(Field(p, f)) = {10 * x : x \in F[f]}
         /\ f \in TextFields => Texts(Field(p, f)) = F[f]
         /\ f \notin NumberFields \union TextFields => Texts(Field(p, f)) = {<<x>> : x \in F[f]}
         /\ Field(p, f) = {} <=> F[f] = {}
<1>1. PICK S, raws : S = F[f] /\ raws = Field(p, f) OBVIOUS
<1>2. Field(Compact(F), f) = S BY <1>1, CanonicalField
<1>3. raws = {Written(f, x) : x \in S} BY <1>1, <1>2, WrittenIs
<1>4. raws = {} <=> S = {} BY <1>3
<1>5. /\ f \in NumberFields => Numbers(raws) = {10 * x : x \in S}
      /\ f \in TextFields => Texts(raws) = S
      /\ f \notin NumberFields \union TextFields => Texts(raws) = {<<x>> : x \in S}
  BY <1>3, ReadBack
<1>6. QED BY <1>1, <1>4, <1>5

(* A view read back from storage is what of it can be stored. *)
LEMMA RecoveredIs ==
  ASSUME NEW F, CanonicalFields(F), NEW raw, raw = DiscoveryViewToParams(Compact(F))
  PROVE  RecoverDiscoveryView(raw) = [view |-> Compact(Kept(F)), dropped |-> Unstorable(Compact(F))]
<1>1. PICK H, G : H = StoredOf(raw) /\ G = Kept(F) OBVIOUS
<1>2. /\ H.q = Short(NormalizeText(Field(raw, "q"))) /\ H.league = Short(NormalizeText(Field(raw, "league")))
      /\ H.club = Short(NormalizeText(Field(raw, "club"))) /\ H.nationality = Short(NormalizeText(Field(raw, "nationality")))
      /\ H.position_group = KeyOf(Field(raw, "position_group"), PositionGroups)
      /\ H.role = KeyOf(Field(raw, "role"), Roles) /\ H.playstyle = KeyOf(Field(raw, "playstyle"), Slugs \ LongWords)
      /\ H.sort = KeyOf(Field(raw, "sort"), SortOptions) \ {DEFAULT_SORT}
      /\ H.age_min = StoredAges(raw).age_min /\ H.age_max = StoredAges(raw).age_max
      /\ H.min_minutes = BoundedInteger(Field(raw, "min_minutes"), 0, MINUTES_MAX)
      /\ H.rolefit_min = StoredRoleFit(raw).min /\ H.rolefit_max = StoredRoleFit(raw).max
      /\ H.value_min = StoredAsking(raw).min /\ H.value_max = StoredAsking(raw).max
      /\ H.page_size = BoundedInteger(Field(raw, "page_size"), 1, PAGE_SIZE_CEILING) \ {DEFAULT_PAGE_SIZE}
  BY <1>1 DEF StoredOf
<1>3. DOMAIN G = DISCOVERY_VIEW_FIELDS /\ \A f \in DISCOVERY_VIEW_FIELDS : G[f] = {x \in F[f] : ~TooLarge(f, x)}
  BY <1>1 DEF Kept
<1>4. \A f \in NumberFields : Numbers(Field(raw, f)) = {10 * x : x \in F[f]}
  BY HoldsIs DEF DISCOVERY_VIEW_FIELDS
<1>5. \A f \in {"position_group", "role", "playstyle", "sort"} : Texts(Field(raw, f)) = {<<x>> : x \in F[f]}
  BY HoldsIs DEF NumberFields, TextFields, DISCOVERY_VIEW_FIELDS
<1>6. ASSUME NEW f \in TextFields PROVE H[f] = G[f]
  <2>1. PICK S : S = F[f] OBVIOUS
  <2>2. \A t \in S : Normal(t) BY <2>1 DEF CanonicalFields
  <2>3. Texts(Field(raw, f)) = S BY <2>1, HoldsIs DEF DISCOVERY_VIEW_FIELDS
  <2>4. NormalizeText(Field(raw, f)) = S BY <2>2, <2>3, TextsBack
  <2>5. H[f] = Short(S) BY <1>2, <2>4 DEF TextFields
  <2>6. \A t \in S : Len(t) \in Nat BY <2>2, ListIs DEF Normal, Edged
  <2>7. \A t \in S : TooLarge(f, t) <=> ~(Len(t) =< TextFilterMax)
    <3>1. TextFilterMax \in Nat BY RailAssumption
    <3>2. f \notin {"value_min", "value_max", "playstyle"} BY DEF TextFields
    <3>3. QED BY <2>6, <3>1, <3>2 DEF TooLarge
  <2>8. G[f] = {t \in S : ~TooLarge(f, t)} BY <1>3, <2>1 DEF DISCOVERY_VIEW_FIELDS
  <2>9. QED BY <2>5, <2>7, <2>8 DEF Short
<1>7. \A f \in DISCOVERY_VIEW_FIELDS : f \notin TextFields \union {"value_min", "value_max", "playstyle"} => G[f] = F[f]
  BY <1>3 DEF TooLarge
<1>8. H.position_group = G.position_group /\ H.role = G.role /\ H.sort = G.sort
  <2>1. PICK S, T, U : S = F["position_group"] /\ T = F["role"] /\ U = F["sort"] OBVIOUS
  <2>2. S \subseteq PositionGroups /\ T \subseteq Roles /\ U \subseteq SortOptions \ {DEFAULT_SORT}
    BY <2>1 DEF CanonicalFields
  <2>3. /\ Texts(Field(raw, "position_group")) = {<<x>> : x \in S} /\ Texts(Field(raw, "role")) = {<<x>> : x \in T}
        /\ Texts(Field(raw, "sort")) = {<<x>> : x \in U}
    BY <1>5, <2>1
  <2>4. KeyOf(Field(raw, "position_group"), PositionGroups) = S BY <2>2, <2>3, KeysBack
  <2>5. KeyOf(Field(raw, "role"), Roles) = T BY <2>2, <2>3, KeysBack
  <2>6. KeyOf(Field(raw, "sort"), SortOptions) = U BY <2>2, <2>3, KeysBack
  <2>7. G.position_group = S /\ G.role = T /\ G.sort = U BY <1>7, <2>1 DEF DISCOVERY_VIEW_FIELDS, TextFields
  <2>8. QED BY <2>2, <2>4, <2>5, <2>6, <2>7, <1>2
<1>9. H.playstyle = G.playstyle
  <2>1. PICK S, keys : S = F["playstyle"] /\ keys = Slugs \ LongWords OBVIOUS
  <2>2. Texts(Field(raw, "playstyle")) = {<<x>> : x \in S} BY <1>5, <2>1
  <2>3. KeyOf(Field(raw, "playstyle"), keys) = {x \in S : x \in keys} BY <2>2, KeysMeet
  <2>4. G.playstyle = {x \in S : ~TooLarge("playstyle", x)} BY <1>3, <2>1 DEF DISCOVERY_VIEW_FIELDS
  <2>5. \A x : TooLarge("playstyle", x) <=> x \in LongWords BY DEF TooLarge, TextFields
  <2>6. S \subseteq Slugs BY <2>1 DEF CanonicalFields
  <2>7. QED BY <1>2, <2>1, <2>3, <2>4, <2>5, <2>6
<1>10. ASSUME NEW f \in NumberFields, F[f] \subseteq Int, NEW low \in Int, NEW high \in Int
       PROVE  BoundedInteger(Field(raw, f), low, high) = {x \in F[f] : x >= low /\ x =< high}
  <2>1. PICK S, raws : S = F[f] /\ raws = Field(raw, f) OBVIOUS
  <2>2. Numbers(raws) = {10 * x : x \in S} BY <1>4, <2>1
  <2>3. BoundedInteger(raws, low, high) = {x \in S : x >= low /\ x =< high} BY <1>10, <2>1, <2>2, IntegersBack
  <2>4. QED BY <2>1, <2>3
<1>11. H.min_minutes = G.min_minutes
  <2>1. G.min_minutes = F["min_minutes"] BY <1>7 DEF DISCOVERY_VIEW_FIELDS, TextFields, NumberFields
  <2>2. F["min_minutes"] \subseteq 0 .. MINUTES_MAX BY DEF CanonicalFields
  <2>3. 0 \in Int /\ MINUTES_MAX \in Int BY DEF MINUTES_MAX
  <2>4. F["min_minutes"] \subseteq Int /\ \A x \in F["min_minutes"] : x >= 0 /\ x =< MINUTES_MAX BY <2>2, <2>3
  <2>5. BoundedInteger(Field(raw, "min_minutes"), 0, MINUTES_MAX) = {x \in F["min_minutes"] : x >= 0 /\ x =< MINUTES_MAX}
    BY <1>10, <2>3, <2>4 DEF NumberFields
  <2>6. QED BY <1>2, <2>1, <2>4, <2>5
<1>12. H.page_size = G.page_size
  <2>1. G.page_size = F["page_size"] BY <1>7 DEF DISCOVERY_VIEW_FIELDS, TextFields, NumberFields
  <2>2. F["page_size"] \subseteq (1 .. PAGE_SIZE_CEILING) \ {DEFAULT_PAGE_SIZE} BY DEF CanonicalFields
  <2>3. 1 \in Int /\ PAGE_SIZE_CEILING \in Int BY DEF PAGE_SIZE_CEILING
  <2>4. F["page_size"] \subseteq Int /\ \A x \in F["page_size"] : x >= 1 /\ x =< PAGE_SIZE_CEILING BY <2>2, <2>3
  <2>5. BoundedInteger(Field(raw, "page_size"), 1, PAGE_SIZE_CEILING) = {x \in F["page_size"] : x >= 1 /\ x =< PAGE_SIZE_CEILING}
    BY <1>10, <2>3, <2>4 DEF NumberFields
  <2>6. QED BY <1>2, <2>1, <2>2, <2>4, <2>5
<1>13. H.rolefit_min = G.rolefit_min /\ H.rolefit_max = G.rolefit_max
  <2>1. PICK a, b : a = F.rolefit_min /\ b = F.rolefit_max OBVIOUS
  <2>2. G.rolefit_min = a /\ G.rolefit_max = b BY <1>7, <2>1 DEF DISCOVERY_VIEW_FIELDS, TextFields, NumberFields
  <2>3. a \subseteq 0 .. ROLEFIT_MAX /\ b \subseteq 0 .. ROLEFIT_MAX /\ \A x \in a, y \in b : x =< y
    BY <2>1 DEF CanonicalFields
  <2>4. 0 \in Int /\ ROLEFIT_MAX \in Int BY DEF ROLEFIT_MAX
  <2>5. a \subseteq Int /\ b \subseteq Int /\ (\A x \in a : x >= 0 /\ x =< ROLEFIT_MAX) /\ \A x \in b : x >= 0 /\ x =< ROLEFIT_MAX
    BY <2>3, <2>4
  <2>6. /\ BoundedInteger(Field(raw, "rolefit_min"), 0, ROLEFIT_MAX) = {x \in F["rolefit_min"] : x >= 0 /\ x =< ROLEFIT_MAX}
        /\ BoundedInteger(Field(raw, "rolefit_max"), 0, ROLEFIT_MAX) = {x \in F["rolefit_max"] : x >= 0 /\ x =< ROLEFIT_MAX}
    BY <1>10, <2>1, <2>4, <2>5 DEF NumberFields
  <2>7. /\ BoundedInteger(Field(raw, "rolefit_min"), 0, ROLEFIT_MAX) = a
        /\ BoundedInteger(Field(raw, "rolefit_max"), 0, ROLEFIT_MAX) = b
    BY <2>1, <2>5, <2>6
  <2>8. StoredRoleFit(raw) = CoherentBounds(a, b, "min") BY <2>7 DEF StoredRoleFit
  <2>9. StoredRoleFit(raw) = [min |-> a, max |-> b] BY <2>3, <2>8 DEF CoherentBounds
  <2>10. QED BY <1>2, <2>2, <2>9
<1>14. H.value_min = G.value_min /\ H.value_max = G.value_max
  <2>1. PICK a, b : a = G.value_min /\ b = G.value_max OBVIOUS
  <2>2. /\ F.value_min \subseteq Nat /\ F.value_max \subseteq Nat /\ \A x \in F.value_min, y \in F.value_max : x =< y
    BY DEF CanonicalFields
  <2>3. 0 \in Int /\ ASKING_MAX \in Int BY DEF ASKING_MAX
  <2>4. F["value_min"] \subseteq Int /\ F["value_max"] \subseteq Int BY <2>2
  <2>5. \A f \in {"value_min", "value_max"} : \A x : TooLarge(f, x) <=> x > ASKING_MAX BY DEF TooLarge, TextFields
  <2>6. \A f \in {"value_min", "value_max"} : G[f] = {x \in F[f] : ~(x > ASKING_MAX)}
    BY <1>3, <2>5 DEF DISCOVERY_VIEW_FIELDS, NumberFields
  <2>7. a \subseteq F.value_min /\ b \subseteq F.value_max BY <2>1, <2>6
  <2>8. /\ BoundedInteger(Field(raw, "value_min"), 0, ASKING_MAX) = {x \in F["value_min"] : x >= 0 /\ x =< ASKING_MAX}
        /\ BoundedInteger(Field(raw, "value_max"), 0, ASKING_MAX) = {x \in F["value_max"] : x >= 0 /\ x =< ASKING_MAX}
    BY <1>10, <2>3, <2>4 DEF NumberFields
  <2>9. \A x \in F["value_min"] \union F["value_max"] : ~(x > ASKING_MAX) <=> x >= 0 /\ x =< ASKING_MAX BY <2>2, <2>3
  <2>10. /\ BoundedInteger(Field(raw, "value_min"), 0, ASKING_MAX) = a
         /\ BoundedInteger(Field(raw, "value_max"), 0, ASKING_MAX) = b
    BY <2>1, <2>6, <2>8, <2>9
  <2>11. \A x \in a, y \in b : x =< y BY <2>2, <2>7
  <2>12. StoredAsking(raw) = CoherentBounds(a, b, "min") BY <2>10 DEF StoredAsking
  <2>13. StoredAsking(raw) = [min |-> a, max |-> b] BY <2>11, <2>12 DEF CoherentBounds
  <2>14. QED BY <1>2, <2>1, <2>13
<1>15. H.age_min = G.age_min /\ H.age_max = G.age_max
  <2>1. PICK a, b : a = F.age_min /\ b = F.age_max OBVIOUS
  <2>2. G.age_min = a /\ G.age_max = b BY <1>7, <2>1 DEF DISCOVERY_VIEW_FIELDS, TextFields, NumberFields
  <2>3. a \subseteq AGE_STOPS /\ b \subseteq AGE_STOPS /\ (a = {} \/ b = {}) BY <2>1 DEF CanonicalFields
  <2>4. PICK age : age = [age_min |-> a, age_max |-> b] OBVIOUS
  <2>5. age.age_min = a /\ age.age_max = b /\ Selected(age)
    BY <2>1, <2>3, <2>4 DEF CanonicalFields, Selected, DISCOVERY_VIEW_FIELDS, NumberFields
  <2>6. ~(Field(raw, "age_min") # {} /\ Field(raw, "age_max") # {})
    <3>1. "age_min" \in DISCOVERY_VIEW_FIELDS /\ "age_max" \in DISCOVERY_VIEW_FIELDS
      BY DEF DISCOVERY_VIEW_FIELDS, NumberFields
    <3>2. (Field(raw, "age_min") = {} <=> a = {}) /\ (Field(raw, "age_max") = {} <=> b = {}) BY <2>1, <3>1, HoldsIs
    <3>3. QED BY <2>3, <3>2
  <2>7. \A x \in AGE_STOPS : x \in Int /\ x >= 0 /\ x =< 120 BY DEF AGE_STOPS
  <2>8. /\ BoundedInteger(Field(raw, "age_min"), 0, 120) = {x \in F["age_min"] : x >= 0 /\ x =< 120}
        /\ BoundedInteger(Field(raw, "age_max"), 0, 120) = {x \in F["age_max"] : x >= 0 /\ x =< 120}
    <3>1. 0 \in Int /\ 120 \in Int OBVIOUS
    <3>2. F["age_min"] \subseteq Int /\ F["age_max"] \subseteq Int BY <2>1, <2>3, <2>7
    <3>3. QED BY <3>1, <3>2, <1>10 DEF NumberFields
  <2>9. BoundedInteger(Field(raw, "age_min"), 0, 120) = a /\ BoundedInteger(Field(raw, "age_max"), 0, 120) = b
    BY <2>1, <2>3, <2>7, <2>8
  <2>10. PICK e : e = AgeSelectionFromBounds(a, b) OBVIOUS
  <2>11. StoredAges(raw) = AgeBounds(e) BY <2>6, <2>9, <2>10 DEF StoredAges
  <2>12. AgeBounds(e).age_min = a /\ AgeBounds(e).age_max = b BY <2>5, <2>10, AgesBack
  <2>13. QED BY <1>2, <2>2, <2>11, <2>12
<1>16. \A f \in DISCOVERY_VIEW_FIELDS : H[f] = G[f]
  BY <1>6, <1>8, <1>9, <1>11, <1>12, <1>13, <1>14, <1>15 DEF DISCOVERY_VIEW_FIELDS, NumberFields
<1>17. RecoverDiscoveryView(raw).view = Compact(G)
  <2>1. CanonicalFields(G) BY <1>1, KeptIs
  <2>2. DOMAIN H = DISCOVERY_VIEW_FIELDS BY <1>1, StoredAre
  <2>3. Compact(H) = Compact(G) BY <1>16, <2>1, <2>2, CanonicalField
  <2>4. QED BY <1>1, <2>3, StoredAre
<1>18. LostOf(raw) = Unstorable(Compact(F))
  <2>1. PICK view : view = Compact(F) OBVIOUS
  <2>2. /\ Unstorable(view) = {f \in DOMAIN view : Kept(F)[f] = {}}
        /\ DOMAIN view \subseteq DISCOVERY_VIEW_FIELDS
    BY <2>1, KeptIs
  <2>3. DOMAIN raw = DOMAIN view BY <2>1, <2>2 DEF DiscoveryViewToParams
  <2>4. LostOf(raw) = {f \in DOMAIN view : H[f] = {}} BY <1>1, <2>2, <2>3 DEF LostOf
  <2>5. QED BY <1>1, <1>16, <2>1, <2>2, <2>4
<1>19. "age_max" \notin LostOf(raw) /\ "page_size" \notin LostOf(raw)
  <2>1. \A f \in LostOf(raw) : H[f] = {} /\ f \in DOMAIN raw BY <1>1 DEF LostOf
  <2>2. \A f \in {"age_max", "page_size"} : H[f] = F[f]
    BY <1>7, <1>16 DEF DISCOVERY_VIEW_FIELDS, TextFields, NumberFields
  <2>3. \A f \in {"age_max", "page_size"} : Field(raw, f) = {} <=> F[f] = {}
    BY HoldsIs DEF DISCOVERY_VIEW_FIELDS, NumberFields
  <2>4. QED BY <2>1, <2>2, <2>3 DEF Field
<1>20. RecoverDiscoveryView(raw).dropped = LostOf(raw) BY <1>19, StoredAre
<1>21. QED BY <1>1, <1>17, <1>18, <1>20, StoredAre

(* The whole numbers of those that are written are the numbers within the limits. *)
LEMMA WholeBack ==
  ASSUME NEW S, S \subseteq Int, NEW raws, Numbers(raws) = {10 * x : x \in S}
  PROVE  \A within : Whole(raws, within) = {x \in S : x \in within}
<1> TAKE within
<1>1. \A x \in S : (10 * x) % 10 = 0 /\ (10 * x) \div 10 = x
  <2> TAKE x \in S
  <2>1. x \in Int OBVIOUS
  <2>2. QED BY <2>1
<1>2. \A y : y \in Whole(raws, within) <=> \E n \in Numbers(raws) : n % 10 = 0 /\ n \div 10 \in within /\ y = n \div 10
  BY DEF Whole
<1>3. \A y : y \in Whole(raws, within) <=> \E x \in S : (10 * x) % 10 = 0 /\ (10 * x) \div 10 \in within /\ y = (10 * x) \div 10
  BY <1>2
<1>4. \A y : y \in Whole(raws, within) <=> \E x \in S : x \in within /\ y = x BY <1>1, <1>3
<1>5. QED BY <1>4

\* Fields of a view of which nothing is too large to be stored.
Storable(F) == CanonicalFields(F) /\ \A f \in DISCOVERY_VIEW_FIELDS : \A x \in F[f] : ~TooLarge(f, x)

\* A value the schema refuses.
Uncontrolled(f, x) == f \in TextFields => \A i \in DOMAIN x : x[i] \notin ControlWords

(* The numbers of such fields are within the limits of the schema. *)
LEMMA LimitsHold ==
  ASSUME NEW F, Storable(F), NEW f \in NumberFields
  PROVE  F[f] \subseteq Int /\ F[f] \subseteq Limits[f]
<1>1. /\ Limits["min_minutes"] = 0 .. MINUTES_MAX
      /\ Limits["rolefit_min"] = 0 .. ROLEFIT_MAX /\ Limits["rolefit_max"] = 0 .. ROLEFIT_MAX
      /\ Limits["value_min"] = 0 .. ASKING_MAX /\ Limits["value_max"] = 0 .. ASKING_MAX
      /\ Limits["page_size"] = 1 .. PAGE_SIZE_CEILING
      /\ Limits["age_min"] = AGE_STOPS /\ Limits["age_max"] = AGE_STOPS
  BY DEF Limits
<1>2. /\ F["age_min"] \subseteq AGE_STOPS /\ F["age_max"] \subseteq AGE_STOPS
      /\ F["min_minutes"] \subseteq 0 .. MINUTES_MAX
      /\ F["rolefit_min"] \subseteq 0 .. ROLEFIT_MAX /\ F["rolefit_max"] \subseteq 0 .. ROLEFIT_MAX
      /\ F["value_min"] \subseteq Nat /\ F["value_max"] \subseteq Nat
      /\ F["page_size"] \subseteq 1 .. PAGE_SIZE_CEILING
  BY DEF Storable, CanonicalFields
<1>3. AGE_STOPS \subseteq Int BY DEF AGE_STOPS
<1>4. ASKING_MAX \in Int BY DEF ASKING_MAX
<1>5. \A g \in {"value_min", "value_max"} : \A x \in F[g] : ~(x > ASKING_MAX)
  <2>1. \A g \in {"value_min", "value_max"} : g \in DISCOVERY_VIEW_FIELDS BY DEF DISCOVERY_VIEW_FIELDS, NumberFields
  <2>2. \A g \in {"value_min", "value_max"} : \A x : x > ASKING_MAX => TooLarge(g, x) BY DEF TooLarge
  <2>3. QED BY <2>1, <2>2 DEF Storable
<1>6. \A g \in {"value_min", "value_max"} : F[g] \subseteq 0 .. ASKING_MAX BY <1>2, <1>4, <1>5
<1>7. MINUTES_MAX \in Int /\ ROLEFIT_MAX \in Int /\ PAGE_SIZE_CEILING \in Int BY DEF MINUTES_MAX, ROLEFIT_MAX, PAGE_SIZE_CEILING
<1>8. CASE f \in {"age_min", "age_max"} BY <1>1, <1>2, <1>3, <1>8
<1>9. CASE f \in {"value_min", "value_max"} BY <1>1, <1>4, <1>6, <1>9
<1>10. CASE f \in {"min_minutes", "rolefit_min", "rolefit_max", "page_size"} BY <1>1, <1>2, <1>7, <1>10
<1>11. QED BY <1>8, <1>9, <1>10 DEF NumberFields

(* A number is stored as it is. *)
LEMMA NumberStored ==
  ASSUME NEW F, Storable(F), NEW sent, sent = DiscoveryViewToParams(Compact(F)), NEW f \in NumberFields
  PROVE  Whole(Field(sent, f), Limits[f]) = F[f]
<1>1. F[f] \subseteq Int /\ F[f] \subseteq Limits[f] BY LimitsHold
<1>2. Numbers(Field(sent, f)) = {10 * x : x \in F[f]} BY HoldsIs DEF Storable, DISCOVERY_VIEW_FIELDS
<1>3. Whole(Field(sent, f), Limits[f]) = {x \in F[f] : x \in Limits[f]} BY <1>1, <1>2, WholeBack
<1>4. QED BY <1>1, <1>3

(* What the schema makes of a field. *)
LEMMA FieldValueCases ==
  ASSUME NEW f, NEW raws
  PROVE  /\ f \in TextFields => FieldValue(f, raws) = {t \in NormalizeText(raws) : PlainText(t, TextFilterMax)}
         /\ f \in NumberFields => FieldValue(f, raws) = Whole(raws, Limits[f])
<1>1. PICK A, B, C, D :
        /\ A = {t \in NormalizeText(raws) : PlainText(t, TextFilterMax)} /\ B = Whole(raws, Limits[f])
        /\ C = KeyOf(raws, PositionGroups) /\ D = KeyOf(raws, Keys)
  OBVIOUS
<1>2. FieldValue(f, raws) =
        CASE f \in TextFields -> A [] f \in NumberFields -> B [] f = "position_group" -> C [] OTHER -> D
  BY <1>1, Zenon DEF FieldValue
<1>3. f \in NumberFields => f \notin TextFields BY DEF NumberFields, TextFields
<1>4. "position_group" \notin TextFields \union NumberFields BY DEF NumberFields, TextFields
<1>5. (f \in TextFields => FieldValue(f, raws) = A) /\ (f \in NumberFields => FieldValue(f, raws) = B)
  BY <1>2, <1>3, <1>4
<1>6. QED BY <1>1, <1>5

(* A field is stored with its value, unless that has a control character. *)
LEMMA FieldValueIs ==
  ASSUME NEW F, Storable(F), NEW sent, sent = DiscoveryViewToParams(Compact(F)), NEW f \in DISCOVERY_VIEW_FIELDS
  PROVE  /\ FieldValue(f, Field(sent, f)) = {x \in F[f] : Uncontrolled(f, x)}
         /\ F[f] # {} => ~BlankText(f, Field(sent, f))
<1>1. PICK S, raws : S = F[f] /\ raws = Field(sent, f) OBVIOUS
<1>2. CanonicalFields(F) BY DEF Storable
<1>3. /\ f \in NumberFields => Numbers(raws) = {10 * x : x \in S}
      /\ f \in TextFields => Texts(raws) = S
      /\ f \notin NumberFields \union TextFields => Texts(raws) = {<<x>> : x \in S}
  BY <1>1, <1>2, HoldsIs
<1>4. CASE f \in TextFields
  <2>1. \A t \in S : Normal(t) BY <1>1, <1>2, <1>4 DEF CanonicalFields
  <2>2. NormalizeText(raws) = S BY <1>3, <1>4, <2>1, TextsBack
  <2>3. FieldValue(f, raws) = {t \in S : PlainText(t, TextFilterMax)} BY <1>4, <2>2, FieldValueCases
  <2>4. \A t \in S : Len(t) =< TextFilterMax
    <3>1. \A t \in S : Len(t) \in Nat BY <2>1, ListIs DEF Normal, Edged
    <3>2. TextFilterMax \in Nat BY RailAssumption
    <3>3. \A t \in S : ~(Len(t) > TextFilterMax) BY <1>1, <1>4 DEF Storable, TooLarge
    <3>4. QED BY <3>1, <3>2, <3>3
  <2>5. \A t \in S : PlainText(t, TextFilterMax) <=> Uncontrolled(f, t) BY <1>4, <2>4 DEF PlainText, Uncontrolled
  <2>6. QED BY <1>1, <2>2, <2>3, <2>5 DEF BlankText
<1>5. CASE f \in NumberFields
  <2>1. f \notin TextFields BY <1>5 DEF NumberFields, TextFields
  <2>2. FieldValue(f, raws) = S BY <1>1, <1>5, NumberStored, FieldValueCases
  <2>3. QED BY <1>1, <2>1, <2>2 DEF BlankText, Uncontrolled
<1>6. CASE f \notin TextFields \union NumberFields
  <2>1. Texts(raws) = {<<x>> : x \in S} BY <1>3, <1>6
  <2>2. f \in {"position_group", "role", "playstyle", "sort"} BY <1>6 DEF DISCOVERY_VIEW_FIELDS
  <2>3. PICK keys : keys = IF f = "position_group" THEN PositionGroups ELSE Keys OBVIOUS
  <2>4. FieldValue(f, raws) = KeyOf(raws, keys) BY <1>6, <2>2, <2>3 DEF FieldValue
  <2>5. S \subseteq keys
    <3>1. CASE f = "position_group" BY <1>1, <1>2, <2>3, <3>1 DEF CanonicalFields
    <3>2. CASE f = "role"
      <4>1. S \subseteq Roles /\ keys = Keys BY <1>1, <1>2, <2>3, <3>2 DEF CanonicalFields
      <4>2. QED BY <4>1, RailAssumption
    <3>3. CASE f = "sort"
      <4>1. S \subseteq SortOptions /\ keys = Keys BY <1>1, <1>2, <2>3, <3>3 DEF CanonicalFields
      <4>2. QED BY <4>1, RailAssumption
    <3>4. CASE f = "playstyle"
      <4>1. S \subseteq Slugs /\ keys = Keys BY <1>1, <1>2, <2>3, <3>4 DEF CanonicalFields
      <4>2. \A x \in S : x \notin LongWords BY <1>1, <3>4 DEF Storable, TooLarge
      <4>3. QED BY <4>1, <4>2, RailAssumption
    <3>5. QED BY <2>2, <3>1, <3>2, <3>3, <3>4
  <2>6. KeyOf(raws, keys) = S BY <2>1, <2>5, KeysBack
  <2>7. QED BY <1>1, <1>6, <2>4, <2>6 DEF BlankText, Uncontrolled
<1>7. QED BY <1>4, <1>5, <1>6

(* The schema takes the view as it is, or refuses a text with a control character. *)
LEMMA ValidIs ==
  ASSUME NEW F, Storable(F), NEW view, view = Compact(F)
  PROVE  ValidFilters(DiscoveryViewToParams(view)) = IF HasControl(view) THEN {} ELSE {view}
<1>1. PICK sent : sent = DiscoveryViewToParams(view) OBVIOUS
<1>2. CanonicalFields(F) BY DEF Storable
<1>3. /\ \A f \in DISCOVERY_VIEW_FIELDS : Field(view, f) = F[f]
      /\ DOMAIN view \subseteq DISCOVERY_VIEW_FIELDS
  BY <1>2, CanonicalField
<1>4. DOMAIN sent = DOMAIN view BY <1>1, <1>3 DEF DiscoveryViewToParams
<1>5. \A f \in DOMAIN view : {sent[f]} = Field(sent, f) /\ F[f] = {view[f]} BY <1>3, <1>4 DEF Field
<1>6. PICK present : present = {f \in DOMAIN sent : ~BlankText(f, {sent[f]})} OBVIOUS
<1>7. present = DOMAIN view
  <2>1. \A f \in DOMAIN view : ~BlankText(f, {sent[f]}) BY <1>1, <1>3, <1>5, FieldValueIs
  <2>2. QED BY <2>1, <1>4, <1>6
<1>8. PICK values : values = [f \in present |-> IF f \in DISCOVERY_VIEW_FIELDS THEN FieldValue(f, {sent[f]}) ELSE {}] OBVIOUS
<1>9. ValidFilters(sent) = IF (\E f \in present : values[f] = {}) \/ ~CanonicalForm(Compact(values)) THEN {} ELSE {Compact(values)}
  BY <1>6, <1>8 DEF ValidFilters
<1>10. DOMAIN values = DOMAIN view /\ \A f \in DOMAIN view : values[f] = {x \in {view[f]} : Uncontrolled(f, x)}
  <2>1. DOMAIN values = DOMAIN view BY <1>7, <1>8
  <2>2. ASSUME NEW f \in DOMAIN view PROVE values[f] = {x \in {view[f]} : Uncontrolled(f, x)}
    <3>1. values[f] = FieldValue(f, Field(sent, f)) BY <1>3, <1>5, <1>7, <1>8
    <3>2. F[f] = {view[f]} /\ f \in DISCOVERY_VIEW_FIELDS BY <1>3, <1>5
    <3>3. QED BY <1>1, <3>1, <3>2, FieldValueIs
  <2>3. QED BY <2>1, <2>2
<1>11. HasControl(view) <=> \E f \in present : values[f] = {}
  <2>1. HasControl(view) <=> \E f \in DOMAIN view : ~Uncontrolled(f, view[f]) BY DEF HasControl, Uncontrolled
  <2>2. QED BY <2>1, <1>7, <1>10
<1>12. ASSUME ~HasControl(view) PROVE Compact(values) = view
  <2>1. \A f \in DOMAIN view : values[f] = {view[f]} BY <1>7, <1>10, <1>11, <1>12
  <2>2. {f \in DOMAIN values : values[f] # {}} = DOMAIN view BY <1>10, <2>1
  <2>3. Compact(values) = [f \in DOMAIN view |-> Value({view[f]})]
    <3>1. Compact(values) = [f \in DOMAIN view |-> Value(values[f])] BY <2>2 DEF Compact
    <3>2. QED BY <2>1, <3>1
  <2>4. \A x : Value({x}) = x BY DEF Value
  <2>5. view = [f \in DOMAIN view |-> view[f]] BY DEF Compact
  <2>6. QED BY <2>3, <2>4, <2>5
<1>13. CanonicalForm(view)
  <2>1. /\ F.age_min = {} \/ F.age_max = {}
        /\ \A x \in F.rolefit_min, y \in F.rolefit_max : x =< y
        /\ \A x \in F.value_min, y \in F.value_max : x =< y
    BY <1>2 DEF CanonicalFields
  <2>2. /\ Field(view, "age_min") = F.age_min /\ Field(view, "age_max") = F.age_max
        /\ Field(view, "rolefit_min") = F.rolefit_min /\ Field(view, "rolefit_max") = F.rolefit_max
        /\ Field(view, "value_min") = F.value_min /\ Field(view, "value_max") = F.value_max
    BY <1>3 DEF DISCOVERY_VIEW_FIELDS, NumberFields
  <2>3. ~{"age_min", "age_max"} \subseteq DOMAIN view BY <2>1, <2>2 DEF Field
  <2>4. QED BY <2>1, <2>2, <2>3 DEF CanonicalForm
<1>14. QED BY <1>1, <1>9, <1>11, <1>12, <1>13

(* Of what it takes, the service refuses only a playstyle it does not know. *)
LEMMA MembershipIs ==
  ASSUME NEW F, CanonicalFields(F), NEW view, view = Compact(F)
  PROVE  ValidateViewFilters(view) = IF Field(view, "playstyle") \subseteq KnownPlaystyles THEN {} ELSE {"unknown playstyle"}
<1>1. /\ Field(view, "role") = F.role /\ Field(view, "position_group") = F.position_group /\ Field(view, "sort") = F.sort
  BY CanonicalField DEF DISCOVERY_VIEW_FIELDS
<1>2. F.role \subseteq Roles /\ F.position_group \subseteq PositionGroups /\ F.sort \subseteq SortOptions BY DEF CanonicalFields
<1>3. /\ Field(view, "role") \subseteq Range(RoleKeys) /\ Field(view, "position_group") \subseteq DISCOVERABLE_POSITION_GROUPS
      /\ Field(view, "sort") \subseteq SEARCH_SORTS
  BY <1>1, <1>2, RailAssumption
<1>4. QED BY <1>3 DEF ValidateViewFilters

(* The server keeps such a view as it is. *)
LEMMA KeepsStorable ==
  ASSUME NEW F, Storable(F), NEW view, view = Compact(F)
  PROVE  ServerKeeps(view)
<1>1. PICK sent : sent = DiscoveryViewToParams(view) OBVIOUS
<1>2. CanonicalFields(F) BY DEF Storable
<1>3. ValidFilters(sent) = IF HasControl(view) THEN {} ELSE {view} BY <1>1, ValidIs
<1>4. ValidFilters(sent) = {} <=> HasControl(view) BY <1>3
<1>5. Compact(ViewRow(view).filters) = view
  <2>1. PICK row : row = [f \in DISCOVERY_VIEW_FIELDS |-> Field(view, f)] OBVIOUS
  <2>2. DOMAIN row = DISCOVERY_VIEW_FIELDS /\ \A f \in DISCOVERY_VIEW_FIELDS : row[f] = F[f] BY <1>2, <2>1, CanonicalField
  <2>3. Compact(row) = view BY <1>2, <2>2, CanonicalField
  <2>4. QED BY <2>1, <2>3 DEF ViewRow
<1>6. ViewRow(view).fingerprint = ViewFingerprint(view) BY DEF ViewRow
<1>7. ~HasControl(view) => ViewRecord(ViewRow(view)) = {[filters |-> view, fingerprint |-> ViewFingerprint(view)]}
  BY <1>1, <1>3, <1>5, <1>6 DEF ViewRecord
<1>8. RecoverDiscoveryView(sent) = [view |-> view, dropped |-> {}]
  <2>1. PICK G : G = Kept(F) OBVIOUS
  <2>2. \A f \in DISCOVERY_VIEW_FIELDS : G[f] = F[f] BY <2>1 DEF Kept, Storable
  <2>3. DOMAIN G = DISCOVERY_VIEW_FIELDS BY <2>1 DEF Kept
  <2>4. Compact(G) = view BY <1>2, <2>2, <2>3, CanonicalField
  <2>5. Unstorable(view) = {} BY <1>2, <2>1, <2>4, KeptIs
  <2>6. QED BY <1>1, <1>2, <2>1, <2>4, <2>5, RecoveredIs
<1>9. ValidateViewFilters(view) = IF Field(view, "playstyle") \subseteq KnownPlaystyles THEN {} ELSE {"unknown playstyle"}
  BY <1>2, MembershipIs
<1>10. QED BY <1>1, <1>3, <1>4, <1>7, <1>8, <1>9 DEF ServerKeeps

(* The API accepts the request any address means. *)
LEMMA RequestAccepted ==
  ASSUME NEW q, NumbersIn(q), TextsIn(q)
  PROVE  Accepted(Filters(q))
<1>1. PICK k, F : k = Filters(q) /\ F = FieldsOf(q) OBVIOUS
<1>2. PICK view : view = View(q) OBVIOUS
<1>3. CanonicalFields(F) /\ view = Compact(F) BY <1>1, <1>2, FieldsHold, FieldsAre DEF View
<1>4. /\ \A f \in DISCOVERY_VIEW_FIELDS : Field(view, f) = F[f]
      /\ DOMAIN k = DOMAIN view \union {"scope", "sort", "page", "page_size"}
      /\ \A f \in DISCOVERY_VIEW_FIELDS \ {"sort", "page_size"} : Field(k, f) = Field(view, f)
      /\ Field(k, "sort") = IF "sort" \in DOMAIN view THEN {view["sort"]} ELSE {DEFAULT_SORT}
      /\ Field(k, "page_size") = IF "page_size" \in DOMAIN view THEN {view["page_size"]} ELSE {DEFAULT_PAGE_SIZE}
  BY <1>1, <1>2, <1>3, CanonicalField, RequestIs
<1>5. "sort" \in DISCOVERY_VIEW_FIELDS /\ "page_size" \in DISCOVERY_VIEW_FIELDS BY DEF DISCOVERY_VIEW_FIELDS, NumberFields
<1>6. k.sort \in SEARCH_SORTS
  <2>1. DEFAULT_SORT \in SEARCH_SORTS BY DEF DEFAULT_SORT, SEARCH_SORTS
  <2>2. F.sort \subseteq SortOptions BY <1>3 DEF CanonicalFields
  <2>3. F.sort \subseteq SEARCH_SORTS BY <2>2, RailAssumption
  <2>4. Field(view, "sort") = F.sort BY <1>4, <1>5
  <2>5. {k.sort} = Field(k, "sort") BY <1>4 DEF Field
  <2>6. QED BY <1>4, <2>1, <2>3, <2>4, <2>5 DEF Field
<1>7. k.page_size \in 1 .. PAGE_SIZE_CEILING
  <2>1. DEFAULT_PAGE_SIZE \in 1 .. PAGE_SIZE_CEILING BY RailAssumption
  <2>2. F.page_size \subseteq 1 .. PAGE_SIZE_CEILING BY <1>3 DEF CanonicalFields
  <2>3. Field(view, "page_size") = F.page_size BY <1>4, <1>5
  <2>4. {k.page_size} = Field(k, "page_size") BY <1>4 DEF Field
  <2>5. QED BY <1>4, <2>1, <2>2, <2>3, <2>4 DEF Field
<1>8. k.page \in Nat \ {0} BY <1>1, PageNamed
<1>9. /\ Field(k, "min_minutes") = F.min_minutes
      /\ Field(k, "rolefit_min") = F.rolefit_min /\ Field(k, "rolefit_max") = F.rolefit_max
      /\ Field(k, "value_min") = F.value_min /\ Field(k, "value_max") = F.value_max
      /\ Field(k, "position_group") = F.position_group /\ Field(k, "role") = F.role
  BY <1>4 DEF DISCOVERY_VIEW_FIELDS, NumberFields
<1>10. /\ F.min_minutes \subseteq 0 .. MINUTES_MAX
       /\ F.rolefit_min \subseteq 0 .. ROLEFIT_MAX /\ F.rolefit_max \subseteq 0 .. ROLEFIT_MAX
       /\ F.value_min \subseteq Nat /\ F.value_max \subseteq Nat
       /\ \A x \in F.value_min, y \in F.value_max : x =< y
       /\ F.position_group \subseteq PositionGroups /\ F.role \subseteq Roles
  BY <1>3 DEF CanonicalFields
<1>11. WithinLimits(k)
  <2>1. k.page >= 1 BY <1>8
  <2>2. \A n \in Nat : n >= 0 OBVIOUS
  <2>3. QED BY <1>7, <1>9, <1>10, <2>1, <2>2 DEF WithinLimits
<1>12. Field(k, "position_group") \subseteq {"ATT", "MID", "DEF", "GK"}
  BY <1>9, <1>10, RailAssumption DEF DISCOVERABLE_POSITION_GROUPS
<1>13. Field(k, "role") \subseteq Range(RoleKeys) BY <1>9, <1>10, RailAssumption
<1>14. QED BY <1>1, <1>6, <1>9, <1>10, <1>11, <1>12, <1>13 DEF Accepted

\* The criteria of a view by name, the two bounds of age being one.
Narrowing == CriteriaFields \ {"age_min"}
NamesOf(F) == {f \in Narrowing : F[f] # {}} \union (IF F.age_min \union F.age_max # {} THEN {"age"} ELSE {})
CriterionOf(n) ==
  IF n = "age" THEN [key |-> "age", params |-> {"age_min", "age_max", "age_band"}] ELSE [key |-> n, params |-> {n}]

(* A criterion is told by its name. *)
LEMMA CriterionIs ==
  ASSUME NEW n
  PROVE  /\ CriterionOf(n).key = n
         /\ CriterionOf(n).params = IF n = "age" THEN {"age_min", "age_max", "age_band"} ELSE {n}
BY DEF CriterionOf

(* The criteria of a view are those it has names of. *)
LEMMA CriteriaAre ==
  ASSUME NEW F, CanonicalFields(F), NEW view, view = Compact(F)
  PROVE  ActiveCriteria(view) = {CriterionOf(n) : n \in NamesOf(F)}
<1>1. /\ \A f \in DISCOVERY_VIEW_FIELDS : Field(view, f) = F[f]
      /\ DOMAIN view \subseteq DISCOVERY_VIEW_FIELDS
  BY CanonicalField
<1>2. PICK own : own = DOMAIN view \intersect Narrowing OBVIOUS
<1>3. own = {f \in Narrowing : F[f] # {}} BY <1>1, <1>2 DEF Field, Narrowing, CriteriaFields
<1>4. "age" \notin Narrowing BY DEF Narrowing, CriteriaFields, DISCOVERY_VIEW_FIELDS, TextFields, NumberFields
<1>5. PICK e : e = AgeSelectionFromBounds(Field(view, "age_min"), Field(view, "age_max")) OBVIOUS
<1>6. e.direction # "all" <=> F.age_min \union F.age_max # {}
  <2>1. PICK age : age = [age_min |-> F.age_min, age_max |-> F.age_max] OBVIOUS
  <2>2. Selected(age) BY <2>1 DEF CanonicalFields, Selected, DISCOVERY_VIEW_FIELDS, NumberFields
  <2>3. age.age_min = Field(view, "age_min") /\ age.age_max = Field(view, "age_max")
    BY <1>1, <2>1 DEF DISCOVERY_VIEW_FIELDS, NumberFields
  <2>4. e = AgeSelectionFromBounds(age.age_min, age.age_max) BY <1>5, <2>3
  <2>5. e.direction # "all" <=> age.age_min \union age.age_max # {} BY <2>2, <2>4, AgesBack
  <2>6. QED BY <2>1, <2>5
<1>7. PICK plain, aged :
        /\ plain = {[key |-> f, params |-> {f}] : f \in own}
        /\ aged = IF e.direction # "all" THEN {[key |-> "age", params |-> {"age_min", "age_max", "age_band"}]} ELSE {}
  OBVIOUS
<1>8. ActiveCriteria(view) = plain \union aged BY <1>2, <1>5, <1>7 DEF ActiveCriteria, Narrowing
<1>9. \A f \in own : CriterionOf(f) = [key |-> f, params |-> {f}] BY <1>2, <1>4 DEF CriterionOf
<1>10. CriterionOf("age") = [key |-> "age", params |-> {"age_min", "age_max", "age_band"}] BY DEF CriterionOf
<1>11. NamesOf(F) = own \union (IF e.direction # "all" THEN {"age"} ELSE {}) BY <1>3, <1>6 DEF NamesOf
<1>12. \A c : c \in plain <=> \E f \in own : c = CriterionOf(f) BY <1>7, <1>9
<1>13. \A c : c \in aged <=> e.direction # "all" /\ c = CriterionOf("age") BY <1>7, <1>10
<1>14. QED BY <1>8, <1>11, <1>12, <1>13

(* The fields of a view are finitely many. *)
LEMMA FieldsFinite == IsFiniteSet(DISCOVERY_VIEW_FIELDS)
<1>1. \A S, x : IsFiniteSet(S) => IsFiniteSet(S \union {x}) BY FS_AddElement
<1>2. IsFiniteSet({}) BY FS_EmptySet
<1>3. IsFiniteSet({} \union {"q"} \union {"league"} \union {"club"} \union {"nationality"}) BY <1>1, <1>2
<1>4. PICK texts : texts = {} \union {"q"} \union {"league"} \union {"club"} \union {"nationality"} OBVIOUS
<1>5. IsFiniteSet(texts \union {"age_min"} \union {"age_max"} \union {"min_minutes"} \union {"page_size"})
  BY <1>1, <1>3, <1>4
<1>6. PICK more : more = texts \union {"age_min"} \union {"age_max"} \union {"min_minutes"} \union {"page_size"} OBVIOUS
<1>7. IsFiniteSet(more \union {"rolefit_min"} \union {"rolefit_max"} \union {"value_min"} \union {"value_max"})
  BY <1>1, <1>5, <1>6
<1>8. PICK most : most = more \union {"rolefit_min"} \union {"rolefit_max"} \union {"value_min"} \union {"value_max"} OBVIOUS
<1>9. PICK all : all = most \union {"position_group"} \union {"role"} \union {"playstyle"} \union {"sort"} OBVIOUS
<1>10. IsFiniteSet(all) BY <1>1, <1>7, <1>8, <1>9
<1>11. all = DISCOVERY_VIEW_FIELDS BY <1>4, <1>6, <1>8, <1>9 DEF DISCOVERY_VIEW_FIELDS, TextFields, NumberFields
<1>12. QED BY <1>10, <1>11

(* As many as the rail counts. *)
LEMMA CriteriaCounted ==
  ASSUME NEW F, CanonicalFields(F), NEW view, view = Compact(F)
  PROVE  Cardinality(ActiveCriteria(view)) = DiscoveryViewCriteriaCount(view)
<1>1. /\ \A f \in DISCOVERY_VIEW_FIELDS : Field(view, f) = F[f]
      /\ DOMAIN view \subseteq DISCOVERY_VIEW_FIELDS
  BY CanonicalField
<1>2. PICK own : own = {f \in Narrowing : F[f] # {}} OBVIOUS
<1>3. IsFiniteSet(own)
  <2>1. own \subseteq DISCOVERY_VIEW_FIELDS BY <1>2 DEF Narrowing, CriteriaFields
  <2>2. QED BY <2>1, FieldsFinite, FS_Subset
<1>4. "age" \notin own /\ "age_min" \notin own
  BY <1>2 DEF Narrowing, CriteriaFields, DISCOVERY_VIEW_FIELDS, TextFields, NumberFields
<1>5. PICK n : n = Cardinality(own) OBVIOUS
<1>6. n \in Nat /\ Cardinality(own \union {"age"}) = n + 1 /\ Cardinality(own \union {"age_min"}) = n + 1
      /\ IsFiniteSet(own \union {"age"})
  BY <1>3, <1>4, <1>5, FS_CardinalityType, FS_AddElement
<1>7. \A f \in DISCOVERY_VIEW_FIELDS : f \in DOMAIN view <=> F[f] # {} BY <1>1 DEF Field
<1>8. DOMAIN view \intersect CriteriaFields = own \union (IF F.age_min # {} THEN {"age_min"} ELSE {})
  BY <1>1, <1>2, <1>7 DEF Narrowing, CriteriaFields, DISCOVERY_VIEW_FIELDS, NumberFields
<1>9. /\ "age_min" \in DOMAIN view <=> F.age_min # {}
      /\ "age_max" \in DOMAIN view <=> F.age_max # {}
  BY <1>7 DEF DISCOVERY_VIEW_FIELDS, NumberFields
<1>10. PICK names : names = NamesOf(F) OBVIOUS
<1>11. names = own \union (IF F.age_min \union F.age_max # {} THEN {"age"} ELSE {}) BY <1>2, <1>10 DEF NamesOf
<1>12. IsFiniteSet(names) /\ Cardinality(names) = DiscoveryViewCriteriaCount(view)
  <2>1. DiscoveryViewCriteriaCount(view) =
          Cardinality(own \union (IF F.age_min # {} THEN {"age_min"} ELSE {})) + (IF F.age_max # {} /\ F.age_min = {} THEN 1 ELSE 0)
    BY <1>8, <1>9 DEF DiscoveryViewCriteriaCount
  <2>2. CASE F.age_min # {}
    <3>1. names = own \union {"age"} BY <1>11, <2>2
    <3>2. DiscoveryViewCriteriaCount(view) = n + 1 BY <1>6, <2>1, <2>2
    <3>3. QED BY <1>6, <3>1, <3>2
  <2>3. CASE F.age_min = {} /\ F.age_max # {}
    <3>1. names = own \union {"age"} BY <1>11, <2>3
    <3>2. own \union {} = own OBVIOUS
    <3>3. DiscoveryViewCriteriaCount(view) = n + 1 BY <1>5, <2>1, <2>3, <3>2
    <3>4. QED BY <1>6, <3>1, <3>3
  <2>4. CASE F.age_min = {} /\ F.age_max = {}
    <3>1. names = own BY <1>11, <2>4
    <3>2. own \union {} = own OBVIOUS
    <3>3. DiscoveryViewCriteriaCount(view) = n BY <1>5, <1>6, <2>1, <2>4, <3>2
    <3>4. QED BY <1>3, <1>5, <3>1, <3>3
  <2>5. QED BY <2>2, <2>3, <2>4
<1>13. PICK criteria : criteria = {CriterionOf(m) : m \in names} OBVIOUS
<1>14. Cardinality(criteria) = Cardinality(names)
  <2>1. PICK g : g = [m \in names |-> CriterionOf(m)] OBVIOUS
  <2>2. \A m \in names : g[m] = CriterionOf(m) /\ g[m].key = m BY <2>1, CriterionIs
  <2>3. g \in [names -> criteria] BY <1>13, <2>1
  <2>4. \A a, b \in names : g[a] = g[b] => a = b BY <2>2
  <2>5. \A c \in criteria : \E m \in names : g[m] = c BY <1>13, <2>2
  <2>6. g \in Bijection(names, criteria)
    <3>1. g \in Injection(names, criteria) BY <2>1, <2>3, <2>4 DEF Injection, IsInjective
    <3>2. g \in Surjection(names, criteria) BY <2>3, <2>5 DEF Surjection
    <3>3. QED BY <3>1, <3>2 DEF Bijection
  <2>7. ExistsBijection(names, criteria) BY <2>6 DEF ExistsBijection
  <2>8. QED BY <1>12, <2>7, FS_Bijection
<1>15. ActiveCriteria(view) = criteria BY <1>10, <1>13, CriteriaAre
<1>16. Cardinality(ActiveCriteria(view)) = Cardinality(names) BY <1>14, <1>15
<1>17. QED BY <1>12, <1>16

(* The request without a criterion is a request for the view without it, which has all the others. *)
LEMMA RemovalIs ==
  ASSUME NEW q, NumbersIn(q), TextsIn(q), NEW view, view = View(q), NEW c \in ActiveCriteria(view)
  PROVE  ActiveCriteria(View(SetFilters(Patched(Filters(q), RemovalPatch(c))))) = ActiveCriteria(view) \ {c}
<1>1. PICK k, F : k = Filters(q) /\ F = FieldsOf(q) OBVIOUS
<1>2. CanonicalFields(F) /\ view = Compact(F) BY <1>1, FieldsHold, FieldsAre DEF View
<1>3. PICK n \in NamesOf(F) : c = CriterionOf(n) BY <1>2, CriteriaAre
<1>4. PICK params : params = c.params OBVIOUS
<1>5. params = IF n = "age" THEN {"age_min", "age_max", "age_band"} ELSE {n} BY <1>3, <1>4, CriterionIs
<1>6. n = "age" \/ n \in Narrowing BY <1>3 DEF NamesOf
<1>7. "sort" \notin params /\ "page_size" \notin params
  BY <1>5, <1>6 DEF Narrowing, CriteriaFields
<1>8. PICK G : G = [f \in DISCOVERY_VIEW_FIELDS |-> IF f \in params THEN {} ELSE F[f]] OBVIOUS
<1>9. DOMAIN G = DISCOVERY_VIEW_FIELDS /\ \A f \in DISCOVERY_VIEW_FIELDS : G[f] = IF f \in params THEN {} ELSE F[f] BY <1>8
<1>10. CanonicalFields(G) BY <1>2, <1>9, FewerFields
<1>11. PICK next : next = Patched(k, RemovalPatch(c)) OBVIOUS
<1>12. \A f : Field(next, f) = IF f \in params THEN {} ELSE Field(k, f)
  <2>1. PICK patch : patch = RemovalPatch(c) OBVIOUS
  <2>2. DOMAIN patch = params /\ \A f \in params : patch[f] = {} BY <1>4, <2>1 DEF RemovalPatch
  <2>3. PICK fields : fields = [f \in DOMAIN k \union DOMAIN patch |-> IF f \in DOMAIN patch THEN patch[f] ELSE {k[f]}] OBVIOUS
  <2>4. next = Compact(fields) BY <1>11, <2>1, <2>3 DEF Patched
  <2>5. DOMAIN fields = DOMAIN k \union params BY <2>2, <2>3
  <2>6. \A f \in params : fields[f] = {} BY <2>2, <2>3
  <2>7. \A f \in DOMAIN k \ params : fields[f] = {k[f]} BY <2>2, <2>3
  <2>8. \A x : Value({x}) = x BY DEF Value
  <2>9. ASSUME NEW f PROVE Field(next, f) = IF f \in params THEN {} ELSE Field(k, f)
    <3>1. CASE f \in params
      <4>1. Field(next, f) \subseteq {} BY <2>4, <2>5, <2>6, <3>1, CompactIs
      <4>2. QED BY <3>1, <4>1
    <3>2. CASE f \in DOMAIN k \ params
      <4>1. Field(next, f) = {Value({k[f]})} BY <2>4, <2>5, <2>7, <3>2, CompactIs
      <4>2. QED BY <2>8, <3>2, <4>1 DEF Field
    <3>3. CASE f \notin DOMAIN k /\ f \notin params
      <4>1. Field(next, f) = {} BY <2>4, <2>5, <3>3, CompactIs
      <4>2. QED BY <3>3, <4>1 DEF Field
    <3>4. QED BY <3>1, <3>2, <3>3
  <2>10. QED BY <2>9
<1>13. Says(DiscoveryViewToParams(next), Compact(G))
  <2>1. \A f \in DISCOVERY_VIEW_FIELDS : Field(Compact(G), f) = G[f] /\ Field(view, f) = F[f]
    BY <1>2, <1>10, CanonicalField
  <2>2. /\ \A f \in DISCOVERY_VIEW_FIELDS \ {"sort", "page_size"} : Field(k, f) = Field(view, f)
        /\ Field(k, "sort") = IF "sort" \in DOMAIN view THEN {view["sort"]} ELSE {DEFAULT_SORT}
        /\ Field(k, "page_size") = IF "page_size" \in DOMAIN view THEN {view["page_size"]} ELSE {DEFAULT_PAGE_SIZE}
    BY <1>1, RequestIs
  <2>3. ASSUME NEW f \in DISCOVERY_VIEW_FIELDS
        PROVE  \/ Field(next, f) = Field(Compact(G), f)
               \/ f = "sort" /\ Field(Compact(G), f) = {} /\ Field(next, f) = {DEFAULT_SORT}
               \/ f = "page_size" /\ Field(Compact(G), f) = {} /\ Field(next, f) = {DEFAULT_PAGE_SIZE}
    <3>1. CASE f \in params BY <1>9, <1>12, <2>1, <3>1
    <3>2. CASE f \notin params
      <4>1. Field(next, f) = Field(k, f) /\ Field(Compact(G), f) = Field(view, f) BY <1>9, <1>12, <2>1, <3>2
      <4>2. \/ Field(k, f) = Field(view, f)
            \/ f = "sort" /\ Field(view, f) = {} /\ Field(k, f) = {DEFAULT_SORT}
            \/ f = "page_size" /\ Field(view, f) = {} /\ Field(k, f) = {DEFAULT_PAGE_SIZE}
        BY <2>2 DEF Field
      <4>3. QED BY <4>1, <4>2
    <3>3. QED BY <3>1, <3>2
  <2>4. QED BY <2>3, RequestSays
<1>14. View(SetFilters(next)) = Compact(G) BY <1>10, <1>13, AddressMeans
<1>15. NamesOf(G) = NamesOf(F) \ {n}
  <2>1. Narrowing \subseteq DISCOVERY_VIEW_FIELDS /\ "age_min" \in DISCOVERY_VIEW_FIELDS /\ "age_max" \in DISCOVERY_VIEW_FIELDS
        /\ "age_min" \notin Narrowing /\ "age_max" \notin Narrowing /\ "age_band" \notin Narrowing /\ "age" \notin Narrowing
    BY DEF Narrowing, CriteriaFields, DISCOVERY_VIEW_FIELDS, TextFields, NumberFields
  <2>2. CASE n = "age"
    <3>1. \A f \in Narrowing : G[f] = F[f] BY <1>5, <1>9, <2>1, <2>2
    <3>2. G.age_min = {} /\ G.age_max = {} BY <1>5, <1>9, <2>1, <2>2
    <3>3. NamesOf(G) = {f \in Narrowing : F[f] # {}} BY <3>1, <3>2 DEF NamesOf
    <3>4. QED BY <2>1, <2>2, <3>3 DEF NamesOf
  <2>3. CASE n # "age"
    <3>1. n \in Narrowing /\ params = {n} BY <1>5, <1>6, <2>3
    <3>2. G.age_min = F.age_min /\ G.age_max = F.age_max BY <1>9, <2>1, <3>1
    <3>3. \A f \in Narrowing : G[f] # {} <=> F[f] # {} /\ f # n BY <1>9, <2>1, <3>1
    <3>4. {f \in Narrowing : G[f] # {}} = {f \in Narrowing : F[f] # {}} \ {n} BY <3>3
    <3>5. QED BY <2>3, <3>2, <3>4 DEF NamesOf
  <2>4. QED BY <2>2, <2>3
<1>16. ActiveCriteria(Compact(G)) = {CriterionOf(m) : m \in NamesOf(G)} /\ ActiveCriteria(view) = {CriterionOf(m) : m \in NamesOf(F)}
  BY <1>2, <1>10, CriteriaAre
<1>17. ActiveCriteria(Compact(G)) = ActiveCriteria(view) \ {c}
  <2>1. PICK N, M : N = NamesOf(F) /\ M = NamesOf(G) OBVIOUS
  <2>2. M = N \ {n} BY <1>15, <2>1
  <2>3. \A m : CriterionOf(m) = c => m = n BY <1>3, CriterionIs
  <2>4. \A x : x \in ActiveCriteria(Compact(G)) <=> \E m \in M : x = CriterionOf(m) BY <1>16, <2>1
  <2>5. \A x : x \in ActiveCriteria(view) <=> \E m \in N : x = CriterionOf(m) BY <1>16, <2>1
  <2>6. \A x : x \in ActiveCriteria(Compact(G)) <=> x \in ActiveCriteria(view) /\ x # c BY <1>3, <2>2, <2>3, <2>4, <2>5
  <2>7. QED BY <2>6
<1>18. QED BY <1>1, <1>11, <1>14, <1>17

(* What any address means is canonical. *)
LEMMA ViewHeld ==
  ASSUME NEW q, NumbersIn(q), TextsIn(q)
  PROVE  Canonical(Filters(q), View(q))
<1>1. PICK k, view, F : k = Filters(q) /\ view = View(q) /\ F = FieldsOf(q) OBVIOUS
<1>2. CanonicalFields(F) /\ view = Compact(F) BY <1>1, FieldsHold, FieldsAre DEF View
<1>3. PICK w : w = DiscoveryViewToParams(view) OBVIOUS
<1>4. PICK less : less = Restrict(view, DOMAIN view \ Unstorable(view)) OBVIOUS
<1>5. PICK written : written = SetFilters(k) OBVIOUS
<1>6. Filters(written) = k /\ View(written) = view
  <2>1. k.page \in Nat \ {0} BY <1>1, PageNamed
  <2>2. k = [k EXCEPT !.page = k.page]
    <3>1. PICK old, rest : /\ k = Overlaid(old, rest)
                           /\ old = [scope |-> ScopeFromParams(q), page |-> Or(ParsePage(Field(q, "page")), DEFAULT_PAGE)]
      BY <1>1 DEF Filters
    <3>2. "page" \in DOMAIN k BY <3>1 DEF Overlaid
    <3>3. k = [f \in DOMAIN k |-> k[f]] BY <3>1 DEF Overlaid
    <3>4. QED BY <3>2, <3>3
  <2>3. QED BY <1>1, <1>5, <2>1, <2>2, AddressBack
<1>7. View(w) = view
  <2>1. \A f \in DISCOVERY_VIEW_FIELDS : Field(view, f) = Field(view, f) OBVIOUS
  <2>2. Says(DiscoveryViewToParams(view), view) BY <2>1, RequestSays
  <2>3. QED BY <1>2, <1>3, <2>2, AddressMeans
<1>8. less = Compact(Kept(F)) /\ CanonicalFields(Kept(F)) BY <1>2, <1>4, KeptIs
<1>9. RecoverDiscoveryView(w) = [view |-> less, dropped |-> Unstorable(view)]
  BY <1>2, <1>3, <1>8, RecoveredIs
<1>10. ServerKeeps(less)
  <2>1. \A f \in DISCOVERY_VIEW_FIELDS : \A x \in Kept(F)[f] : ~TooLarge(f, x) BY DEF Kept
  <2>2. Storable(Kept(F)) BY <1>8, <2>1 DEF Storable
  <2>3. QED BY <1>8, <2>2, KeepsStorable
<1>11. Accepted(k) BY <1>1, RequestAccepted
<1>12. Cardinality(ActiveCriteria(view)) = DiscoveryViewCriteriaCount(view) BY <1>2, CriteriaCounted
<1>13. \A c \in ActiveCriteria(view) :
         ActiveCriteria(View(SetFilters(Patched(k, RemovalPatch(c))))) = ActiveCriteria(view) \ {c}
  BY <1>1, RemovalIs
<1>14. Canonical(k, view)
  BY <1>3, <1>4, <1>5, <1>6, <1>7, <1>9, <1>10, <1>11, <1>12, <1>13 DEF Canonical
<1>15. QED BY <1>1, <1>14

\* Whatever address is opened or arrived at, the view it means survives being written to an
\* address, to storage and to the server, the API accepts its request, and each of its
\* criteria can be removed without another (canonical.ts:169-177, 330-420, criteria.ts:52-57,
\* saved_work.py:43-50, 141-154).
THEOREM ViewIsCanonicalCorrect == Spec => []ViewIsCanonical
<1>1. IInv /\ AInv /\ [Next]_vars => IInv' /\ AInv' BY NextHeld, StepNamed
<1>2. Init => IInv /\ AInv BY InitHeld, InitNamed
<1>3. IInv /\ AInv => ViewIsCanonical
  <2>1. SUFFICES ASSUME IInv, AInv PROVE ViewIsCanonical OBVIOUS
  <2>2. NumbersIn(url) /\ TextsIn(url) BY <2>1 DEF IInv, AInv
  <2>3. Canonical(Key, View(url)) BY <2>2, ViewHeld DEF Key
  <2>4. QED BY <2>3 DEF ViewIsCanonical
<1>4. QED BY <1>1, <1>2, <1>3, PTL DEF Spec
===============================================================================
