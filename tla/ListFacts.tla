------------------------------ MODULE ListFacts ------------------------------
(* Induction on numbers, and what it shows of filtered lists.  The library's  *)
(* induction theorems quantify over an operator, which no prover here can     *)
(* instantiate; a least element of a set says the same.                       *)
EXTENDS Lists, SequencesExt, SequenceTheorems, WellFoundedInduction, TLAPS

(* A set of natural numbers that is not empty has a least element. *)
LEMMA LeastNumber ==
  ASSUME NEW T, T \subseteq Nat, T # {}
  PROVE  \E n \in T : \A m \in T : n <= m
<1> DEFINE below == {ss \in Nat \X Nat : ss[1] < ss[2]}
<1>1. IsWellFoundedOn(below, Nat) BY NatLessThanWellFounded DEF OpToRel
<1> HIDE DEF below
<1>2. PICK n \in T : \A m \in T : ~(<<m, n>> \in below) BY <1>1, WFMin
<1>3. \A m \in T : n <= m
  <2> TAKE m \in T
  <2>1. m \in Nat /\ n \in Nat OBVIOUS
  <2>2. m < n => <<m, n>> \in below BY <2>1 DEF below
  <2>3. QED BY <1>2, <2>1, <2>2
<1>4. QED BY <1>2, <1>3

(* Induction on the natural numbers, with a set for the predicate. *)
LEMMA Inductive ==
  ASSUME NEW T, 0 \in T, \A n \in Nat : n \in T => n + 1 \in T
  PROVE  Nat \subseteq T
<1> SUFFICES ASSUME Nat \ T # {} PROVE FALSE OBVIOUS
<1>1. PICK n \in Nat \ T : \A m \in Nat \ T : n <= m BY LeastNumber, Nat \ T \subseteq Nat
<1>2. n - 1 \in Nat /\ n - 1 \in T /\ n = (n - 1) + 1 BY <1>1
<1>3. QED BY <1>1, <1>2

(* The recursive function of a filtered list exists, and is the list of its prefixes. *)
UpTo(f, s, keep) ==
  f = [n \in 0..Len(s) |->
         IF n = 0 THEN <<>> ELSE IF s[n] \in keep THEN Append(f[n - 1], s[n]) ELSE f[n - 1]]

(* Every prefix of a list has its filtered list. *)
LEMMA UpToExists == ASSUME NEW s, NEW keep, Len(s) \in Nat PROVE \E f : UpTo(f, s, keep)
<1> DEFINE grown(f, i) == IF s[i] \in keep THEN Append(f[i - 1], s[i]) ELSE f[i - 1]
           is(f, n) == f = [i \in 0..n |-> IF i = 0 THEN <<>> ELSE grown(f, i)]
           T == {n \in Nat : \E f : is(f, n)}
<1>1. 0 \in T
  <2>1. is([i \in 0..0 |-> <<>>], 0) OBVIOUS
  <2>2. QED BY <2>1
<1>2. ASSUME NEW n \in Nat, n \in T PROVE n + 1 \in T
  <2>1. PICK f : is(f, n) BY <1>2
  <2> DEFINE h == [i \in 0..(n + 1) |-> IF i <= n THEN f[i] ELSE grown(f, n + 1)]
  <2>2. \A i \in 0..(n + 1) : h[i] = IF i = 0 THEN <<>> ELSE grown(h, i)
    <3> TAKE i \in 0..(n + 1)
    <3>1. CASE i <= n
      <4>1. i \in 0..n /\ (i # 0 => i - 1 \in 0..n /\ i - 1 \in 0..(n + 1)) BY <3>1
      <4>2. f[i] = IF i = 0 THEN <<>> ELSE grown(f, i) BY <2>1, <4>1
      <4>3. h[i] = f[i] /\ (i # 0 => h[i - 1] = f[i - 1]) BY <3>1, <4>1
      <4> HIDE DEF h
      <4>4. QED BY <4>2, <4>3
    <3>2. CASE i = n + 1
      <4>1. h[i] = grown(f, n + 1) /\ h[i - 1] = f[i - 1] BY <3>2
      <4> HIDE DEF h
      <4>2. QED BY <3>2, <4>1
    <3>3. QED BY <3>1, <3>2
  <2>3. is(h, n + 1)
    <3>1. h = [i \in 0..(n + 1) |-> h[i]] OBVIOUS
    <3> HIDE DEF h
    <3>2. QED BY <2>2, <3>1
  <2>4. \E g : is(g, n + 1) BY <2>3
  <2> HIDE DEF is
  <2>5. QED BY <2>4
<1> HIDE DEF T
<1>3. Len(s) \in T BY <1>1, <1>2, Inductive
<1>4. PICK f : is(f, Len(s)) BY <1>3 DEF T
<1>5. QED BY <1>4 DEF UpTo

(* Sublist is the last of the filtered prefixes. *)
LEMMA SublistUnfolds ==
  ASSUME NEW s, NEW keep, Len(s) \in Nat
  PROVE  \E f : UpTo(f, s, keep) /\ Sublist(s, keep) = f[Len(s)]
<1> DEFINE g == CHOOSE f : UpTo(f, s, keep)
<1>1. UpTo(g, s, keep) BY UpToExists
<1>2. Sublist(s, keep) = g[Len(s)] BY Zenon DEF Sublist, UpTo
<1> HIDE DEF g
<1>3. QED BY <1>1, <1>2

(* t is what is left of the first n elements of s: some of them, in their order,
   and all of those that are in keep. *)
Leaves(t, s, n, keep) ==
  /\ \E at \in [1..Len(t) -> 1..n] :
       /\ \A i, j \in 1..Len(t) : i < j => at[i] < at[j]
       /\ \A i \in 1..Len(t) : t[i] = s[at[i]]
  /\ \A i \in 1..Len(t) : t[i] \in keep
  /\ \A i \in 1..n : s[i] \in keep => \E j \in 1..Len(t) : t[j] = s[i]

(* A sublist keeps the order of the list, has its members that are kept, and is the
   list itself when all are. *)
LEMMA SublistFacts ==
  ASSUME NEW S, NEW s \in Seq(S), NEW keep
  PROVE  /\ Sublist(s, keep) \in Seq(S)
         /\ Leaves(Sublist(s, keep), s, Len(s), keep)
         /\ ToSet(Sublist(s, keep)) = ToSet(s) \cap keep
         /\ ToSet(s) \subseteq keep => Sublist(s, keep) = s
<1>1. PICK f : UpTo(f, s, keep) /\ Sublist(s, keep) = f[Len(s)] BY SublistUnfolds
<1> DEFINE T == {n \in Nat : n <= Len(s) =>
                   /\ f[n] \in Seq(S) /\ Leaves(f[n], s, n, keep)
                   /\ ToSet(s) \subseteq keep => f[n] = SubSeq(s, 1, n)}
<1>2. 0 \in T
  <2>1. f[0] = <<>> BY <1>1 DEF UpTo
  <2>2. \E at \in [1..0 -> 1..0] : TRUE
    <3>1. [i \in 1..0 |-> i] \in [1..0 -> 1..0] OBVIOUS
    <3>2. QED BY <3>1
  <2>3. Leaves(f[0], s, 0, keep)
    <3>1. Len(f[0]) = 0 /\ 1..0 = {} BY <2>1
    <3>2. QED BY <2>2, <3>1 DEF Leaves
  <2>4. SubSeq(s, 1, 0) = <<>> /\ f[0] \in Seq(S) BY <2>1
  <2>5. QED BY <2>1, <2>3, <2>4
<1>3. ASSUME NEW n \in Nat, n \in T PROVE n + 1 \in T
  <2> SUFFICES ASSUME n + 1 <= Len(s)
               PROVE  /\ f[n + 1] \in Seq(S) /\ Leaves(f[n + 1], s, n + 1, keep)
                      /\ ToSet(s) \subseteq keep => f[n + 1] = SubSeq(s, 1, n + 1)
    OBVIOUS
  <2>1. f[n] \in Seq(S) /\ Leaves(f[n], s, n, keep) /\ s[n + 1] \in S
        /\ (ToSet(s) \subseteq keep => f[n] = SubSeq(s, 1, n))
    BY <1>3
  <2>2. f[n + 1] = IF s[n + 1] \in keep THEN Append(f[n], s[n + 1]) ELSE f[n]
    <3>1. n + 1 \in 0..Len(s) /\ n + 1 # 0 /\ (n + 1) - 1 = n BY <1>3
    <3>2. QED BY <1>1, <3>1 DEF UpTo
  <2>3. PICK at \in [1..Len(f[n]) -> 1..n] :
          /\ \A i, j \in 1..Len(f[n]) : i < j => at[i] < at[j]
          /\ \A i \in 1..Len(f[n]) : f[n][i] = s[at[i]]
    BY <2>1 DEF Leaves
  <2>4. ToSet(s) \subseteq keep => f[n + 1] = SubSeq(s, 1, n + 1)
    <3> SUFFICES ASSUME ToSet(s) \subseteq keep PROVE f[n + 1] = SubSeq(s, 1, n + 1) OBVIOUS
    <3>1. s[n + 1] \in keep BY DEF ToSet
    <3>2. SubSeq(s, 1, n + 1) = Append(SubSeq(s, 1, n), s[n + 1]) OBVIOUS
    <3>3. QED BY <2>1, <2>2, <3>1, <3>2
  <2>5. CASE s[n + 1] \in keep
    <3> DEFINE t == f[n + 1]
               to == [i \in 1..Len(t) |-> IF i <= Len(f[n]) THEN at[i] ELSE n + 1]
    <3>1. t \in Seq(S) /\ Len(t) = Len(f[n]) + 1 /\ t[Len(t)] = s[n + 1]
          /\ \A i \in 1..Len(f[n]) : t[i] = f[n][i]
      BY <2>1, <2>2, <2>5
    <3> HIDE DEF t
    <3>2. to \in [1..Len(t) -> 1..(n + 1)] BY <3>1, <2>3
    <3>3. /\ \A i, j \in 1..Len(t) : i < j => to[i] < to[j]
          /\ \A i \in 1..Len(t) : t[i] = s[to[i]]
      <4>1. Len(f[n]) \in Nat BY <2>1
      <4>2. ASSUME NEW i \in 1..Len(t), NEW j \in 1..Len(t), i < j PROVE to[i] < to[j]
        <5>0. i \in 1..Len(f[n]) BY <4>1, <4>2, <3>1
        <5>1. i \in 1..Len(f[n]) /\ at[i] \in 1..n BY <5>0, <2>3
        <5>2. CASE j \in 1..Len(f[n]) BY <4>2, <5>1, <5>2, <2>3
        <5>3. CASE j = Len(f[n]) + 1 BY <4>1, <4>2, <5>1, <5>3
        <5>4. QED BY <4>1, <3>1, <5>2, <5>3
      <4>3. ASSUME NEW i \in 1..Len(t) PROVE t[i] = s[to[i]]
        <5>1. CASE i \in 1..Len(f[n]) BY <4>1, <5>1, <3>1, <2>3
        <5>2. CASE i = Len(f[n]) + 1 BY <4>1, <5>2, <3>1
        <5>3. QED BY <4>1, <3>1, <5>1, <5>2
      <4> HIDE DEF to
      <4>4. QED BY <4>2, <4>3
    <3>4. \A i \in 1..Len(t) : t[i] \in keep
      <4> SUFFICES ASSUME NEW i \in 1..Len(t) PROVE t[i] \in keep OBVIOUS
      <4>1. i \in 1..Len(f[n]) => f[n][i] \in keep BY <2>1 DEF Leaves
      <4>2. Len(f[n]) \in Nat BY <2>1
      <4>3. CASE i \in 1..Len(f[n]) BY <4>1, <4>3, <3>1
      <4>4. CASE i = Len(f[n]) + 1 BY <4>4, <2>5, <3>1
      <4>5. QED BY <4>2, <4>3, <4>4, <3>1
    <3>5. \A i \in 1..(n + 1) : s[i] \in keep => \E j \in 1..Len(t) : t[j] = s[i]
      <4> SUFFICES ASSUME NEW i \in 1..(n + 1), s[i] \in keep PROVE \E j \in 1..Len(t) : t[j] = s[i] OBVIOUS
      <4>1. CASE i = n + 1 BY <4>1, <3>1, <2>1
      <4>2. CASE i \in 1..n
        <5>1. PICK j \in 1..Len(f[n]) : f[n][j] = s[i] BY <4>2, <2>1 DEF Leaves
        <5>2. QED BY <5>1, <3>1, <2>1
      <4>3. QED BY <4>1, <4>2
    <3> HIDE DEF to
    <3>6. Leaves(t, s, n + 1, keep) BY <3>2, <3>3, <3>4, <3>5 DEF Leaves
    <3>7. QED BY <3>1, <3>6, <2>4 DEF t
  <2>6. CASE s[n + 1] \notin keep
    <3>1. f[n + 1] = f[n] BY <2>2, <2>6
    <3>2. at \in [1..Len(f[n]) -> 1..(n + 1)] BY <2>3
    <3>3. Leaves(f[n], s, n + 1, keep)
      <4>1. \A i \in 1..(n + 1) : s[i] \in keep => i \in 1..n BY <2>6
      <4>2. QED BY <2>1, <2>3, <3>2, <4>1 DEF Leaves
    <3>4. QED BY <3>1, <3>3, <2>1, <2>4
  <2>7. QED BY <2>5, <2>6
<1> HIDE DEF T
<1>4. Len(s) \in T BY <1>2, <1>3, Inductive
<1>5. f[Len(s)] \in Seq(S) /\ Leaves(f[Len(s)], s, Len(s), keep)
      /\ (ToSet(s) \subseteq keep => f[Len(s)] = SubSeq(s, 1, Len(s)))
  BY <1>4 DEF T
<1>6. ToSet(Sublist(s, keep)) = ToSet(s) \cap keep
  <2> DEFINE t == Sublist(s, keep)
  <2>1. t \in Seq(S) /\ Leaves(t, s, Len(s), keep) BY <1>1, <1>5
  <2> HIDE DEF t
  <2>2. ASSUME NEW x \in ToSet(t) PROVE x \in ToSet(s) \cap keep
    <3>1. PICK i \in 1..Len(t) : x = t[i] BY <2>1, <2>2 DEF ToSet
    <3>2. PICK k \in 1..Len(s) : t[i] = s[k] BY <2>1 DEF Leaves
    <3>3. x \in keep BY <2>1, <3>1 DEF Leaves
    <3>4. QED BY <3>1, <3>2, <3>3 DEF ToSet
  <2>3. ASSUME NEW x \in ToSet(s) \cap keep PROVE x \in ToSet(t)
    <3>1. PICK i \in 1..Len(s) : x = s[i] BY DEF ToSet
    <3>2. PICK j \in 1..Len(t) : t[j] = s[i] BY <2>1, <3>1 DEF Leaves
    <3>3. QED BY <2>1, <3>1, <3>2 DEF ToSet
  <2>4. QED BY <2>2, <2>3 DEF t
<1>7. ToSet(s) \subseteq keep => f[Len(s)] = s BY <1>5, SubSeqFull
<1>8. QED BY <1>1, <1>5, <1>6, <1>7

(* The members of lists: appended to, joined, inserted into. *)
LEMMA Members ==
  ASSUME NEW S, NEW s \in Seq(S)
  PROVE  /\ ToSet(s) \subseteq S
         /\ ToSet(s) = {s[i] : i \in 1..Len(s)}
         /\ (ToSet(s) = {} <=> s = <<>>)
<1>1. ToSet(s) \subseteq S /\ ToSet(s) = {s[i] : i \in 1..Len(s)} BY DEF ToSet
<1>2. s = <<>> => ToSet(s) = {} BY DEF ToSet
<1>3. s # <<>> => s[1] \in ToSet(s) BY DEF ToSet
<1>4. QED BY <1>1, <1>2, <1>3

(* The members of a concatenation. *)
LEMMA MembersJoined ==
  ASSUME NEW S, NEW s \in Seq(S), NEW t \in Seq(S)
  PROVE  s \o t \in Seq(S) /\ ToSet(s \o t) = ToSet(s) \cup ToSet(t)
<1> DEFINE u == s \o t
           m == Len(s)
           n == Len(t)
<1>1. /\ u \in Seq(S) /\ Len(u) = m + n /\ m \in Nat /\ n \in Nat
      /\ \A i \in 1..m : u[i] = s[i]
      /\ \A i \in 1..n : u[m + i] = t[i]
  OBVIOUS
<1>2. /\ ToSet(s) = {s[i] : i \in 1..m} /\ ToSet(t) = {t[i] : i \in 1..n}
      /\ ToSet(u) = {u[i] : i \in 1..Len(u)}
  BY <1>1, Members
<1> HIDE DEF u, m, n
<1>3. ASSUME NEW i \in 1..(m + n) PROVE u[i] \in ToSet(s) \cup ToSet(t)
  <2>1. CASE i \in 1..m BY <2>1, <1>1, <1>2
  <2>2. CASE i \notin 1..m
    <3>1. i - m \in 1..n /\ m + (i - m) = i BY <2>2, <1>1
    <3>2. u[i] = t[i - m] BY <3>1, <1>1
    <3>3. QED BY <3>1, <3>2, <1>2
  <2>3. QED BY <2>1, <2>2
<1>4. ASSUME NEW i \in 1..m PROVE s[i] \in ToSet(u) BY <1>1, <1>2
<1>5. ASSUME NEW i \in 1..n PROVE t[i] \in ToSet(u)
  <2>1. m + i \in 1..(m + n) BY <1>1
  <2>2. QED BY <2>1, <1>1, <1>2
<1>6. ToSet(u) \subseteq ToSet(s) \cup ToSet(t) BY <1>1, <1>2, <1>3
<1>7. ToSet(s) \cup ToSet(t) \subseteq ToSet(u) BY <1>2, <1>4, <1>5
<1>8. QED BY <1>1, <1>6, <1>7 DEF u

(* The members of a list with one more. *)
LEMMA MembersAppended ==
  ASSUME NEW S, NEW s \in Seq(S), NEW x \in S
  PROVE  Append(s, x) \in Seq(S) /\ ToSet(Append(s, x)) = ToSet(s) \cup {x}
<1> DEFINE one == <<x>>
<1>1. Append(s, x) = s \o one /\ one \in Seq(S) OBVIOUS
<1>2. ToSet(one) = {x} BY DEF ToSet
<1> HIDE DEF one
<1>3. QED BY <1>1, <1>2, MembersJoined

(* The members of a list with one put in. *)
LEMMA InsertAtFacts ==
  ASSUME NEW S, NEW s \in Seq(S), NEW i \in 1..(Len(s) + 1), NEW x \in S
  PROVE  InsertAt(s, i, x) \in Seq(S) /\ ToSet(InsertAt(s, i, x)) = ToSet(s) \cup {x}
<1> DEFINE a == SubSeq(s, 1, i - 1)
           b == SubSeq(s, i, Len(s))
           one == <<x>>
<1>1. a \in Seq(S) /\ b \in Seq(S) /\ one \in Seq(S) OBVIOUS
<1>2. ToSet(one) = {x} BY DEF ToSet
<1>3. a \o b = s
  <2>1. Len(a) = i - 1 /\ Len(b) = Len(s) - (i - 1) OBVIOUS
  <2>2. /\ \A j \in 1..(i - 1) : a[j] = s[j]
        /\ \A j \in 1..(Len(s) - (i - 1)) : b[j] = s[(i - 1) + j]
    OBVIOUS
  <2> HIDE DEF a, b
  <2>6. ASSUME NEW j \in 1..Len(s) PROVE (a \o b)[j] = s[j]
    <3>1. CASE j =< i - 1
      <4>1. j \in 1..Len(a) BY <2>1, <3>1
      <4>2. (a \o b)[j] = a[j] BY <1>1, <4>1, ConcatProperties
      <4>3. QED BY <2>2, <4>2, <3>1
    <3>2. CASE j > i - 1
      <4>1. j - (i - 1) \in 1..Len(b) /\ j = Len(a) + (j - (i - 1)) BY <2>1, <3>2
      <4>2. (a \o b)[j] = b[j - (i - 1)] BY <1>1, <2>1, <3>2, ConcatProperties
      <4>3. b[j - (i - 1)] = s[j] BY <2>1, <2>2, <4>1
      <4>4. QED BY <4>2, <4>3
    <3>3. i \in Int /\ j \in Int OBVIOUS
    <3>4. j =< i - 1 \/ j > i - 1 BY <3>3
    <3>5. QED BY <3>1, <3>2, <3>4, Zenon
  <2>3. a \o b \in Seq(S) /\ Len(a \o b) = Len(a) + Len(b) BY <1>1, ConcatProperties
  <2>4. Len(a \o b) = Len(s) BY <2>1, <2>3
  <2>5. QED BY <2>3, <2>4, <2>6, SeqEqual
<1>4. InsertAt(s, i, x) = (a \o one) \o b BY DEF InsertAt
<1> HIDE DEF a, b, one
<1> DEFINE c == a \o one
<1>5. c \in Seq(S) /\ ToSet(c) = ToSet(a) \cup {x} BY <1>1, <1>2, MembersJoined
<1> HIDE DEF c
<1>6. c \o b \in Seq(S) /\ ToSet(c \o b) = ToSet(c) \cup ToSet(b) BY <1>1, <1>5, MembersJoined
<1>7. ToSet(s) = ToSet(a) \cup ToSet(b)
  <2>1. ToSet(a \o b) = ToSet(a) \cup ToSet(b) BY <1>1, MembersJoined
  <2>2. QED BY <2>1, <1>3
<1>8. QED BY <1>4, <1>5, <1>6, <1>7 DEF c

(* A list with the k-th taken out. *)
LEMMA RemoveAtFacts ==
  ASSUME NEW S, NEW s \in Seq(S), NEW k \in 1..Len(s)
  PROVE  /\ RemoveAt(s, k) \in Seq(S) /\ Len(RemoveAt(s, k)) = Len(s) - 1
         /\ \A i \in 1..(Len(s) - 1) : RemoveAt(s, k)[i] = IF i < k THEN s[i] ELSE s[i + 1]
<1> DEFINE a == SubSeq(s, 1, k - 1)
           b == SubSeq(s, k + 1, Len(s))
<1>1. /\ a \in Seq(S) /\ Len(a) = k - 1
      /\ \A j \in 1..(k - 1) : a[j] = s[j]
  OBVIOUS
<1>2. b \in Seq(S) /\ Len(b) = Len(s) - k
  OBVIOUS
<1>3. \A j \in 1..(Len(s) - k) : b[j] = s[k + j]
  OBVIOUS
<1>4. RemoveAt(s, k) = a \o b BY DEF RemoveAt
<1> HIDE DEF a, b
<1>5. a \o b \in Seq(S) /\ Len(a \o b) = Len(s) - 1
  <2>1. Len(a \o b) = Len(a) + Len(b) /\ a \o b \in Seq(S) BY <1>1, <1>2, ConcatProperties
  <2>2. QED BY <1>1, <1>2, <2>1
<1>6. ASSUME NEW i \in 1..(Len(s) - 1) PROVE (a \o b)[i] = IF i < k THEN s[i] ELSE s[i + 1]
  <2>1. CASE i < k BY <2>1, <1>1, <1>2
  <2>2. CASE i >= k
    <3>1. i - (k - 1) \in 1..(Len(s) - k) /\ k + (i - (k - 1)) = i + 1 BY <2>2
    <3>2. (a \o b)[i] = b[i - (k - 1)] BY <2>2, <1>1, <1>2
    <3>3. b[i - (k - 1)] = s[k + (i - (k - 1))] BY <3>1, <1>3
    <3>4. ~(i < k) BY <2>2
    <3>5. QED BY <3>1, <3>2, <3>3, <3>4
  <2>3. i < k \/ i >= k OBVIOUS
  <2>4. QED BY <2>1, <2>2, <2>3
<1>7. QED BY <1>4, <1>5, <1>6

(* Lists of unnamed kinds of members. *)
LEMMA ListOf ==
  ASSUME NEW n \in Nat, NEW s, s = [i \in 1..n |-> s[i]]
  PROVE  IsList(s) /\ Len(s) = n /\ DOMAIN s = 1..n
BY DEF IsList

(* Such a list is the function of its places. *)
LEMMA ListIs ==
  ASSUME NEW s, IsList(s)
  PROVE  Len(s) \in Nat /\ DOMAIN s = 1..Len(s) /\ s = [i \in 1..Len(s) |-> s[i]]
BY DEF IsList

(* Two of them joined. *)
LEMMA JoinedLists ==
  ASSUME NEW s, IsList(s), NEW t, IsList(t)
  PROVE  /\ IsList(s \o t)
         /\ \A i \in DOMAIN s : i \in DOMAIN (s \o t) /\ (s \o t)[i] = s[i]
         /\ \A k \in DOMAIN t : \E i \in DOMAIN (s \o t) : (s \o t)[i] = t[k]
         /\ \A i \in DOMAIN (s \o t) : i \in DOMAIN s \/ \E k \in DOMAIN t : (s \o t)[i] = t[k]
<1> DEFINE S == {s[i] : i \in DOMAIN s} \cup {t[i] : i \in DOMAIN t}
           u == s \o t
<1>1. /\ Len(s) \in Nat /\ DOMAIN s = 1..Len(s) /\ s = [i \in 1..Len(s) |-> s[i]]
      /\ Len(t) \in Nat /\ DOMAIN t = 1..Len(t) /\ t = [i \in 1..Len(t) |-> t[i]]
  BY ListIs
<1>2. s \in Seq(S) /\ t \in Seq(S) BY <1>1
<1> HIDE DEF S
<1>3. /\ u \in Seq(S) /\ Len(u) = Len(s) + Len(t)
      /\ \A i \in 1..Len(s) : u[i] = s[i]
      /\ \A i \in 1..Len(t) : u[Len(s) + i] = t[i]
  BY <1>2
<1> HIDE DEF u
<1>4. DOMAIN u = 1..(Len(s) + Len(t)) BY <1>3
<1>5. IsList(u)
  <2>1. u = [i \in 1..Len(u) |-> u[i]] /\ Len(u) \in Nat BY <1>3
  <2>2. QED BY <2>1, ListOf
<1>6. ASSUME NEW k \in DOMAIN t PROVE \E i \in DOMAIN u : u[i] = t[k]
  <2>1. Len(s) + k \in DOMAIN u BY <1>1, <1>4
  <2>2. QED BY <1>1, <1>3, <2>1
<1>7. ASSUME NEW i \in DOMAIN u PROVE i \in DOMAIN s \/ \E k \in DOMAIN t : u[i] = t[k]
  <2>1. CASE i <= Len(s) BY <1>1, <1>4, <2>1
  <2>2. CASE ~(i <= Len(s))
    <3>1. i - Len(s) \in 1..Len(t) /\ Len(s) + (i - Len(s)) = i BY <1>1, <1>4, <2>2
    <3>2. QED BY <1>1, <1>3, <3>1
  <2>3. QED BY <2>1, <2>2
<1>8. \A i \in DOMAIN s : i \in DOMAIN u /\ u[i] = s[i] BY <1>1, <1>3, <1>4
<1>9. QED BY <1>5, <1>6, <1>7, <1>8 DEF u

(* And one with a member more. *)
LEMMA Appended ==
  ASSUME NEW s, IsList(s), NEW x
  PROVE  /\ IsList(Append(s, x)) /\ Len(s) \in Nat /\ Len(s) + 1 \notin DOMAIN s
         /\ DOMAIN Append(s, x) = DOMAIN s \cup {Len(s) + 1}
         /\ \A i \in DOMAIN s : Append(s, x)[i] = s[i]
         /\ Append(s, x)[Len(s) + 1] = x
<1> DEFINE S == {s[i] : i \in DOMAIN s} \cup {x}
           u == Append(s, x)
<1>1. s \in Seq(S) /\ x \in S
  <2>1. Len(s) \in Nat /\ DOMAIN s = 1..Len(s) /\ s = [i \in 1..Len(s) |-> s[i]] BY ListIs
  <2>2. QED BY <2>1
<1> HIDE DEF S
<1>2. /\ u \in Seq(S) /\ Len(u) = Len(s) + 1 /\ Len(s) \in Nat /\ DOMAIN s = 1..Len(s)
      /\ \A i \in 1..Len(s) : u[i] = s[i]
      /\ u[Len(s) + 1] = x
  BY <1>1
<1> HIDE DEF u
<1>3. Len(u) \in Nat /\ u = [i \in 1..Len(u) |-> u[i]] /\ DOMAIN u = 1..(Len(s) + 1) BY <1>2
<1>4. IsList(u) BY <1>3, ListOf
<1>5. QED BY <1>2, <1>3, <1>4 DEF u

(* The places of a list that are in a set, in the order of the list. *)
LEMMA PlacesFacts ==
  ASSUME NEW s, IsList(s), NEW at
  PROVE  /\ Places(s, at) \in Seq(Nat)
         /\ \A k \in DOMAIN Places(s, at) : Places(s, at)[k] \in at \cap DOMAIN s
         /\ \A i \in at \cap DOMAIN s : \E k \in DOMAIN Places(s, at) : Places(s, at)[k] = i
<1> DEFINE all == [i \in DOMAIN s |-> i]
<1>1. Len(s) \in Nat /\ DOMAIN s = 1..Len(s) BY ListIs
<1>2. all \in Seq(Nat) /\ ToSet(all) = DOMAIN s BY <1>1 DEF ToSet
<1> HIDE DEF all
<1>3. Sublist(all, at) \in Seq(Nat) /\ ToSet(Sublist(all, at)) = ToSet(all) \cap at
  BY <1>2, SublistFacts
<1>4. ToSet(Sublist(all, at)) = at \cap DOMAIN s BY <1>2, <1>3
<1>5. Places(s, at) = Sublist(all, at) BY DEF Places, all
<1> DEFINE p == Places(s, at)
<1>6. p \in Seq(Nat) /\ ToSet(p) = at \cap DOMAIN s BY <1>3, <1>4, <1>5
<1> HIDE DEF p
<1>7. ToSet(p) = {p[k] : k \in 1..Len(p)} /\ DOMAIN p = 1..Len(p) BY <1>6, Members
<1>8. QED BY <1>6, <1>7 DEF p
=============================================================================
