------------------------- MODULE SavedWorkWeb_proofs -------------------------
(* Proofs about SavedWorkWeb, for every set of accounts, contents and labels, *)
(* every collection at the start and every bound: its types, that what is on  *)
(* screen is what the server confirmed, that the device keeps what it has     *)
(* acknowledged, and that what a caller was told has succeeded is held.       *)
EXTENDS SavedWorkWeb, ListFacts, FiniteSetTheorems, TLAPS

\* No two items of one content, and no two of one id.
OneOfEach(list) == \A i, k \in DOMAIN list : list[i].content = list[k].content => i = k
OneOfId(items) == \A x, y \in items : x.id = y.id => x = y

-----------------------------------------------------------------------------
(* The inductive invariant.                                                *)

\* A request is of a generation there has been; one that is still to start has sent nothing.
TokensFresh ==
  /\ \A r \in sent : r.token[2] <= epoch /\ r.token[3] <= attempt
  /\ live # Nothing => live[2] <= epoch /\ live[3] <= attempt
  /\ EffectsPending => \A r \in sent : r.token # Token

\* The account state is that of the generation that is live, and intents are recorded in one only.
GenerationAtWork ==
  /\ live # Nothing => acc # Nothing /\ acc.token = live /\ acc.account = live[1]
  /\ live = Nothing => book.intents = <<>>

InFlight == { r \in sent : Live(r) } \cup { a.request : a \in answers }

\* Of an item there is one request of the live generation on its way, or one response; and of
\* the load, which has no id.
OneInFlight ==
  /\ \A a \in answers : Live(a.request)
  /\ \A r, q \in sent : Live(r) /\ Live(q) /\ r.id = q.id => r = q
  /\ \A a, b \in answers : a.request.id = b.request.id => a = b
  /\ \A r \in sent, a \in answers : Live(r) => r.id # a.request.id

\* A write on its way has an intent, if not its own any more.
WritesAreBooked ==
  \A r \in InFlight : r.kind \notin {"load", "merge"} => IntentOf(book.intents, r.id) # {}

OneIntentEach(intents) == \A i, k \in ToSet(intents) : i.id = k.id => i = k
WellFormed(i) == i.item.id = i.id /\ (i.kind = "remove" => i.at >= 1)

\* One intent an item, which rolls back to what the account was last seen to hold of it, or, when
\* the account has not been seen, to what it was queued against.
RollsBack(i, b) ==
  IF b.adopted THEN {i.baseline} \ {Nothing} = { x \in b.canonical : x.id = i.id }
               ELSE i.baseline = IF i.kind = "create" THEN Nothing ELSE i.item
IntentsSound ==
  /\ OneIntentEach(book.intents)
  /\ \A i \in ToSet(book.intents) : WellFormed(i) /\ RollsBack(i, book)

\* The items there are, whose ids and contents a new item has to agree with.
OnServers == UNION { ToSet(server[a]) : a \in Account }
Offered == UNION { ToSet(r.list) : r \in sent }
Creating == { r.item : r \in { q \in sent : q.kind = "create" } }
Intended == { i.item : i \in { k \in ToSet(book.intents) : k.kind = "create" } }
Known == ToSet(device) \cup ToSet(stored.items) \cup OnServers \cup Offered \cup Creating \cup Intended
Names(items) == { <<x.id, x.content>> : x \in items }

\* A client id names one content, and the next one is new.
Unambiguous(names) == \A p, q \in names : p[1] = q[1] => p[2] = q[2]
Minted(names, n) == \A p \in names : p[1] <= n \/ p[1] > MaxWrites
IdsSound == Unambiguous(Names(Known)) /\ Minted(Names(Known), writes)

\* A collection holds a content and an id once, on the server, in a response and in the book.
ListsSound ==
  /\ \A a \in Account : OneOfEach(server[a])
  /\ \A r \in sent : OneOfEach(r.list)
  /\ \A a \in answers : a.list # Unknown => OneOfId(ToSet(a.list))
  /\ OneOfId(book.canonical)

Untouched(items, id) == Find(items, id) = { x \in book.canonical : x.id = id }
Confirmed ==
  acc # Nothing /\ acc.origin = "server" =>
    /\ acc.items # Unknown
    /\ Current => /\ book.adopted
                  /\ \A id \in Nat : IntentOf(book.intents, id) = {} => Untouched(acc.items, id)

Inv == /\ TypeOK /\ TokensFresh /\ GenerationAtWork /\ OneInFlight /\ WritesAreBooked
       /\ IntentsSound /\ IdsSound /\ ListsSound /\ Confirmed

\* What is on the device, and what a merge on its way would take from it.
DeviceSound ==
  /\ ReadDevice.items = device /\ OneOfEach(device)
  /\ \A i \in DOMAIN device : ValidItem(device[i])
MergesSound ==
  /\ \A r \in InFlight : r.kind \in {"load", "merge"} =>
       acc.loading /\ (r.kind = "merge" => r.list = device)
  /\ \A a \in answers : a.request.kind = "merge" /\ a.list # Unknown =>
       \A c \in Contents(device) \cap saved \cap Storable : \E b \in Account : c \in Contents(server[b])
DeviceInv == Inv /\ DeviceSound /\ MergesSound /\ DeviceKept

-----------------------------------------------------------------------------
(* The operators on collections.                                           *)

(* The items of one id are members of the list. *)
LEMMA FoundFacts ==
  ASSUME NEW list \in Collection, NEW id
  PROVE  /\ ToSet(list) \subseteq ItemType
         /\ Find(list, id) \subseteq ToSet(list) /\ \A x \in Find(list, id) : x.id = id
         /\ Contents(list) = { x.content : x \in ToSet(list) }
<1>1. ToSet(list) \subseteq ItemType /\ ToSet(list) = {list[i] : i \in 1..Len(list)} /\ DOMAIN list = 1..Len(list)
  BY Members DEF Collection
<1>2. QED BY <1>1 DEF Find, Contents

(* Some of the items of a list, in their order. *)
LEMMA SomeItemsFacts ==
  ASSUME NEW list \in Collection, NEW keep
  PROVE  /\ Sublist(list, keep) \in Collection
         /\ ToSet(Sublist(list, keep)) = ToSet(list) \cap keep
         /\ OneOfEach(list) => OneOfEach(Sublist(list, keep))
         /\ ToSet(list) \subseteq keep => Sublist(list, keep) = list
<1> DEFINE t == Sublist(list, keep)
<1>1. /\ t \in Seq(ItemType) /\ ToSet(t) = ToSet(list) \cap keep /\ Leaves(t, list, Len(list), keep)
      /\ ToSet(list) \subseteq keep => t = list
  BY SublistFacts DEF Collection
<1> HIDE DEF t
<1>2. ASSUME OneOfEach(list) PROVE OneOfEach(t)
  <2>1. PICK at \in [1..Len(t) -> 1..Len(list)] :
          /\ \A i, j \in 1..Len(t) : i < j => at[i] < at[j]
          /\ \A i \in 1..Len(t) : t[i] = list[at[i]]
    BY <1>1 DEF Leaves
  <2>2. DOMAIN t = 1..Len(t) /\ DOMAIN list = 1..Len(list) /\ Len(t) \in Nat /\ Len(list) \in Nat BY <1>1 DEF Collection
  <2>3. ASSUME NEW i \in DOMAIN t, NEW k \in DOMAIN t, t[i].content = t[k].content PROVE i = k
    <3>1. at[i] = at[k] BY <2>1, <2>2, <2>3, <1>2 DEF OneOfEach
    <3>2. at[i] \in Nat /\ at[k] \in Nat /\ i \in Nat /\ k \in Nat BY <2>1, <2>2
    <3>3. ~(i < k) /\ ~(k < i) BY <2>1, <2>2, <3>1, <3>2
    <3>4. QED BY <3>2, <3>3
  <2>4. QED BY <2>3 DEF OneOfEach
<1>3. QED BY <1>1, <1>2 DEF Collection, t

(* A list without an id has no item of it, and those of the other ids. *)
LEMMA WithoutItemFacts ==
  ASSUME NEW list \in Collection, NEW id \in Nat
  PROVE  /\ WithoutItem(list, id) \in Collection
         /\ ToSet(WithoutItem(list, id)) = { x \in ToSet(list) : x.id # id }
         /\ Find(WithoutItem(list, id), id) = {}
         /\ \A k \in Nat \ {id} : Find(WithoutItem(list, id), k) = Find(list, k)
         /\ OneOfEach(list) => OneOfEach(WithoutItem(list, id))
<1> DEFINE keep == { x \in ToSet(list) : x.id # id }
           t == Sublist(list, keep)
<1>1. WithoutItem(list, id) = t BY DEF WithoutItem
<1>2. keep \subseteq ToSet(list) /\ \A x \in ToSet(list) : x \in keep <=> x.id # id OBVIOUS
<1> HIDE DEF keep
<1>3. t \in Collection /\ ToSet(t) = ToSet(list) \cap keep /\ (OneOfEach(list) => OneOfEach(t)) BY SomeItemsFacts
<1> HIDE DEF t
<1>4. ToSet(t) = { x \in ToSet(list) : x.id # id } BY <1>2, <1>3
<1>5. Find(t, id) = {} /\ \A k \in Nat \ {id} : Find(t, k) = Find(list, k) BY <1>4 DEF Find
<1>6. QED BY <1>1, <1>3, <1>4, <1>5

(* A new label changes no id, no content and no other item. *)
LEMMA RelabelledFacts ==
  ASSUME NEW list \in Collection, NEW id \in Nat, NEW label \in Label \cup {Nothing}
  PROVE  /\ Relabelled(list, id, label) \in Collection
         /\ DOMAIN Relabelled(list, id, label) = DOMAIN list
         /\ \A i \in DOMAIN list : /\ Relabelled(list, id, label)[i].id = list[i].id
                                   /\ Relabelled(list, id, label)[i].content = list[i].content
                                   /\ Relabelled(list, id, label)[i].label \in {list[i].label, label}
         /\ Names(ToSet(Relabelled(list, id, label))) = Names(ToSet(list))
         /\ Contents(Relabelled(list, id, label)) = Contents(list)
         /\ \A k \in Nat \ {id} : Find(Relabelled(list, id, label), k) = Find(list, k)
         /\ OneOfEach(list) => OneOfEach(Relabelled(list, id, label))
<1> DEFINE t == Relabelled(list, id, label)
           n == Len(list)
<1>1. n \in Nat /\ DOMAIN list = 1..n /\ \A i \in 1..n : list[i] \in ItemType BY DEF Collection
<1>2. t = [i \in 1..n |-> IF list[i].id = id THEN [list[i] EXCEPT !.label = label] ELSE list[i]]
  BY <1>1 DEF Relabelled
<1> HIDE DEF t, n
<1>3. \A i \in 1..n : /\ t[i] \in ItemType /\ t[i].id = list[i].id /\ t[i].content = list[i].content
                      /\ t[i].label \in {list[i].label, label} /\ (list[i].id # id => t[i] = list[i])
  BY <1>1, <1>2 DEF ItemType
<1>4. t \in Seq(ItemType) /\ Len(t) = n /\ DOMAIN t = 1..n BY <1>1, <1>2, <1>3
<1>5. ToSet(t) = {t[i] : i \in 1..n} /\ ToSet(list) = {list[i] : i \in 1..n} BY <1>1, <1>4 DEF ToSet
<1>6. Names(ToSet(t)) = Names(ToSet(list)) BY <1>3, <1>5 DEF Names
<1>7. Contents(t) = Contents(list) BY <1>1, <1>3, <1>4 DEF Contents
<1>8. ASSUME NEW k \in Nat \ {id} PROVE Find(t, k) = Find(list, k) BY <1>3, <1>5 DEF Find
<1>9. OneOfEach(list) => OneOfEach(t) BY <1>1, <1>3, <1>4 DEF OneOfEach
<1>10. QED BY <1>1, <1>3, <1>4, <1>6, <1>7, <1>8, <1>9 DEF t, Collection

(* The first place of a content, or none. *)
LEMMA PlaceOfContent ==
  ASSUME NEW list \in Collection, NEW c
  PROVE  LET at == IndexOf(list, LAMBDA i : i.content = c)
         IN  \/ at = 0 /\ \A i \in DOMAIN list : list[i].content # c
             \/ at \in DOMAIN list /\ list[at].content = c
<1> DEFINE T == { i \in DOMAIN list : list[i].content = c }
<1>1. IndexOf(list, LAMBDA i : i.content = c) = IF T = {} THEN 0 ELSE CHOOSE i \in T : \A j \in T : i <= j
  BY DEF IndexOf
<1>2. T \subseteq Nat BY DEF Collection
<1>3. T # {} => \E i \in T : \A j \in T : i <= j
  <2> HIDE DEF T
  <2>1. QED BY <1>2, LeastNumber
<1>4. QED BY <1>1, <1>3

(* A list with one item more. *)
LEMMA AppendedFacts ==
  ASSUME NEW list \in Collection, NEW x \in ItemType
  PROVE  /\ Append(list, x) \in Collection
         /\ ToSet(Append(list, x)) = ToSet(list) \cup {x}
         /\ \A k \in Nat : k # x.id => Find(Append(list, x), k) = Find(list, k)
         /\ OneOfEach(list) /\ x.content \notin Contents(list) => OneOfEach(Append(list, x))
<1> DEFINE t == Append(list, x)
           n == Len(list)
<1>1. t \in Seq(ItemType) /\ ToSet(t) = ToSet(list) \cup {x} BY MembersAppended DEF Collection
<1>2. n \in Nat /\ DOMAIN list = 1..n /\ DOMAIN t = 1..(n + 1) /\ t[n + 1] = x /\ \A i \in 1..n : t[i] = list[i]
  BY DEF Collection
<1>3. \A k \in Nat : k # x.id => Find(t, k) = Find(list, k)
  <2> HIDE DEF t
  <2>1. QED BY <1>1 DEF Find
<1>4. ASSUME OneOfEach(list), x.content \notin Contents(list) PROVE OneOfEach(t)
  <2>1. \A i \in 1..n : t[i].content # x.content BY <1>2, <1>4 DEF Contents
  <2> HIDE DEF t, n
  <2>2. ASSUME NEW i \in DOMAIN t, NEW k \in DOMAIN t, t[i].content = t[k].content PROVE i = k
    <3>1. CASE i \in 1..n /\ k \in 1..n BY <3>1, <2>2, <1>2, <1>4 DEF OneOfEach
    <3>2. CASE i \notin 1..n \/ k \notin 1..n BY <3>2, <2>1, <2>2, <1>2
    <3>3. QED BY <3>1, <3>2
  <2>3. QED BY <2>2 DEF OneOfEach
<1>5. QED BY <1>1, <1>3, <1>4 DEF Collection

(* One place gets a new label. *)
LEMMA LabelAtFacts ==
  ASSUME NEW list \in Collection, NEW at \in DOMAIN list, NEW label \in Label \cup {Nothing}
  PROVE  LET t == [list EXCEPT ![at].label = label]
         IN  /\ t \in Collection /\ DOMAIN t = DOMAIN list
             /\ \A i \in DOMAIN list : /\ t[i].id = list[i].id /\ t[i].content = list[i].content
                                       /\ t[i].label \in {list[i].label, label}
             /\ Names(ToSet(t)) = Names(ToSet(list)) /\ Contents(t) = Contents(list)
             /\ OneOfEach(list) => OneOfEach(t)
<1> DEFINE t == [list EXCEPT ![at].label = label]
           n == Len(list)
<1>1. n \in Nat /\ DOMAIN list = 1..n /\ \A i \in 1..n : list[i] \in ItemType BY DEF Collection
<1>2. t = [i \in 1..n |-> IF i = at THEN [list[at] EXCEPT !.label = label] ELSE list[i]] BY <1>1
<1> HIDE DEF t, n
<1>3. \A i \in 1..n : /\ t[i] \in ItemType /\ t[i].id = list[i].id /\ t[i].content = list[i].content
                      /\ t[i].label \in {list[i].label, label}
  BY <1>1, <1>2 DEF ItemType
<1>4. t \in Seq(ItemType) /\ Len(t) = n /\ DOMAIN t = 1..n BY <1>1, <1>2, <1>3
<1>5. ToSet(t) = {t[i] : i \in 1..n} /\ ToSet(list) = {list[i] : i \in 1..n} BY <1>1, <1>4 DEF ToSet
<1>6. Names(ToSet(t)) = Names(ToSet(list)) BY <1>3, <1>5 DEF Names
<1>7. Contents(t) = Contents(list) BY <1>1, <1>3, <1>4 DEF Contents
<1>8. OneOfEach(list) => OneOfEach(t) BY <1>1, <1>3, <1>4 DEF OneOfEach
<1>9. QED BY <1>1, <1>3, <1>4, <1>6, <1>7, <1>8 DEF t, Collection

(* Putting an item in by its content: the names are those there were, and perhaps its own. *)
LEMMA UpsertFacts ==
  ASSUME NEW list \in Collection, NEW x \in ItemType
  PROVE  LET up == UpsertByIdentity(list, x, Identity)
         IN  /\ up.items \in Collection
             /\ Names(ToSet(up.items)) \subseteq Names(ToSet(list)) \cup Names({x})
             /\ Contents(up.items) = Contents(list) \cup {x.content}
             /\ OneOfEach(list) => OneOfEach(up.items)
             /\ \A y \in ToSet(up.items) : y.label = x.label \/ \E z \in ToSet(list) : y.label = z.label
             /\ up.disposition \in {"created", "unchanged", "updated"}
             /\ up.disposition = "unchanged" => up.items = list
<1> DEFINE at == IndexOf(list, LAMBDA i : i.content = x.content)
           up == UpsertByIdentity(list, x, Identity)
<1>1. up = IF at = 0 THEN [items |-> Append(list, x), disposition |-> "created"]
           ELSE IF list[at].label = x.label THEN [items |-> list, disposition |-> "unchanged"]
           ELSE [items |-> [list EXCEPT ![at].label = x.label], disposition |-> "updated"]
  BY DEF UpsertByIdentity, Identity
<1>2. \/ at = 0 /\ \A i \in DOMAIN list : list[i].content # x.content
      \/ at \in DOMAIN list /\ list[at].content = x.content
  BY PlaceOfContent
<1>3. 0 \notin DOMAIN list /\ DOMAIN list = 1..Len(list) /\ Len(list) \in Nat BY DEF Collection
<1>4. x.label \in Label \cup {Nothing} BY DEF ItemType
<1> HIDE DEF at, up
<1>5. CASE at = 0
  <2>1. up.items = Append(list, x) /\ up.disposition = "created" BY <1>1, <1>5
  <2>2. x.content \notin Contents(list) BY <1>2, <1>3, <1>5 DEF Contents
  <2>3. Append(list, x) \in Collection /\ ToSet(Append(list, x)) = ToSet(list) \cup {x}
        /\ (OneOfEach(list) => OneOfEach(Append(list, x)))
    BY AppendedFacts, <2>2
  <2>4. Contents(Append(list, x)) = {y.content : y \in ToSet(Append(list, x))} /\ Contents(list) = {y.content : y \in ToSet(list)}
    BY <2>3, FoundFacts
  <2>5. Names(ToSet(up.items)) = Names(ToSet(list)) \cup Names({x}) BY <2>1, <2>3 DEF Names
  <2>6. Contents(up.items) = Contents(list) \cup {x.content} BY <2>1, <2>3, <2>4
  <2>7. QED BY <2>1, <2>3, <2>5, <2>6 DEF up
<1>6. CASE at # 0 /\ list[at].label = x.label
  <2>1. up.items = list /\ up.disposition = "unchanged" BY <1>1, <1>6
  <2>2. x.content \in Contents(list) BY <1>2, <1>6 DEF Contents
  <2>3. QED BY <2>1, <2>2 DEF up
<1>7. CASE at # 0 /\ list[at].label # x.label
  <2> DEFINE t == [list EXCEPT ![at].label = x.label]
  <2>1. up.items = t /\ up.disposition = "updated" BY <1>1, <1>7
  <2>2. at \in DOMAIN list /\ x.content \in Contents(list) BY <1>2, <1>7 DEF Contents
  <2>3. /\ t \in Collection /\ DOMAIN t = DOMAIN list
        /\ \A i \in DOMAIN list : t[i].label \in {list[i].label, x.label}
        /\ Names(ToSet(t)) = Names(ToSet(list)) /\ Contents(t) = Contents(list)
        /\ OneOfEach(list) => OneOfEach(t)
    BY <1>4, <2>2, LabelAtFacts
  <2> HIDE DEF t
  <2>4. ToSet(t) = {t[i] : i \in DOMAIN t} /\ ToSet(list) = {list[i] : i \in DOMAIN list} BY DEF ToSet
  <2>5. \A y \in ToSet(t) : y.label = x.label \/ \E z \in ToSet(list) : y.label = z.label BY <2>3, <2>4
  <2>6. QED BY <2>1, <2>2, <2>3, <2>5 DEF up
<1>8. QED BY <1>5, <1>6, <1>7

(* Putting a write's change on screen leaves every other item as it was. *)
LEMMA AppliedFacts ==
  ASSUME NEW list \in Collection, NEW d, d.kind \in {"create", "rename", "remove"}, d.id \in Nat,
         d.item \in ItemType, d.label \in Label \cup {Nothing}, d.kind = "create" => d.item.id = d.id
  PROVE  /\ ApplyOptimistically(list, d) \in Collection
         /\ \A k \in Nat : k # d.id => Find(ApplyOptimistically(list, d), k) = Find(list, k)
<1>1. CASE d.kind = "create"
  <2>1. ApplyOptimistically(list, d) = Append(list, d.item) BY <1>1 DEF ApplyOptimistically
  <2>2. d.item.id = d.id BY <1>1
  <2>3. QED BY <2>1, <2>2, AppendedFacts
<1>2. CASE d.kind = "remove"
  <2>1. ApplyOptimistically(list, d) = WithoutItem(list, d.id) BY <1>2 DEF ApplyOptimistically
  <2>2. QED BY <2>1, WithoutItemFacts
<1>3. CASE d.kind = "rename"
  <2>1. ApplyOptimistically(list, d) = Relabelled(list, d.id, d.label) BY <1>3 DEF ApplyOptimistically
  <2>2. QED BY <2>1, RelabelledFacts
<1>4. QED BY <1>1, <1>2, <1>3

(* The lists a replay goes through, one intent at a time. *)
Replayed(f, n, base, intents) ==
  f = [i \in 0..n |-> IF i = 0 THEN base ELSE ApplyOptimistically(f[i - 1], intents[i])]

(* There is a function that replays a sequence of intents, one after the other. *)
LEMMA ReplayExists ==
  ASSUME NEW base, NEW intents, Len(intents) \in Nat
  PROVE  \E f : Replayed(f, Len(intents), base, intents)
<1> DEFINE is(f, n) == f = [i \in 0..n |-> IF i = 0 THEN base ELSE ApplyOptimistically(f[i - 1], intents[i])]
           T == {n \in Nat : \E f : is(f, n)}
<1>1. 0 \in T
  <2>1. is([i \in 0..0 |-> base], 0) OBVIOUS
  <2>2. \E f : is(f, 0) BY <2>1
  <2>3. QED BY <2>2
<1>2. ASSUME NEW n \in Nat, n \in T PROVE n + 1 \in T
  <2>1. PICK f : is(f, n) BY <1>2
  <2> DEFINE g == [i \in 0..(n + 1) |-> IF i <= n THEN f[i] ELSE ApplyOptimistically(f[n], intents[n + 1])]
  <2>2. \A i \in 0..n : g[i] = f[i] OBVIOUS
  <2>3. g[n + 1] = ApplyOptimistically(g[n], intents[n + 1]) OBVIOUS
  <2>4. f[0] = base /\ \A i \in 1..n : f[i] = ApplyOptimistically(f[i - 1], intents[i]) BY <2>1
  <2>5. \A i \in 1..n : i - 1 \in 0..n OBVIOUS
  <2>6. g = [i \in 0..(n + 1) |-> g[i]] OBVIOUS
  <2> HIDE DEF g
  <2>7. \A i \in 0..(n + 1) : g[i] = IF i = 0 THEN base ELSE ApplyOptimistically(g[i - 1], intents[i])
    BY <2>2, <2>3, <2>4, <2>5
  <2>8. is(g, n + 1) BY <2>6, <2>7
  <2>9. \E h : is(h, n + 1) BY <2>8
  <2>10. QED BY <2>9
<1> HIDE DEF T
<1>3. Len(intents) \in T BY <1>1, <1>2, Inductive
<1>4. QED BY <1>3 DEF T, Replayed

(* And ReplayIntents is its last value. *)
LEMMA ReplayUnfolds ==
  ASSUME NEW base, NEW intents, Len(intents) \in Nat
  PROVE  \E f : Replayed(f, Len(intents), base, intents) /\ ReplayIntents(base, intents) = f[Len(intents)]
<1> DEFINE g == CHOOSE f : Replayed(f, Len(intents), base, intents)
<1>1. Replayed(g, Len(intents), base, intents) BY ReplayExists
<1>2. ReplayIntents(base, intents) = g[Len(intents)] BY Zenon DEF ReplayIntents, Replayed
<1> HIDE DEF g
<1>3. QED BY <1>1, <1>2

(* A replay leaves every item it has no intent for as it was. *)
LEMMA ReplayFacts ==
  ASSUME NEW base \in Collection, NEW intents \in Seq(IntentType), \A i \in ToSet(intents) : WellFormed(i)
  PROVE  /\ ReplayIntents(base, intents) \in Collection
         /\ \A k \in Nat : IntentOf(intents, k) = {} => Find(ReplayIntents(base, intents), k) = Find(base, k)
<1>1. Len(intents) \in Nat /\ ToSet(intents) = {intents[i] : i \in 1..Len(intents)} BY Members
<1>2. PICK f : Replayed(f, Len(intents), base, intents) /\ ReplayIntents(base, intents) = f[Len(intents)]
  BY <1>1, ReplayUnfolds
<1> DEFINE T == {n \in Nat : n <= Len(intents) =>
                   /\ f[n] \in Collection
                   /\ \A k \in Nat : IntentOf(intents, k) = {} => Find(f[n], k) = Find(base, k)}
<1>3. f[0] = base /\ \A i \in 1..Len(intents) : f[i] = ApplyOptimistically(f[i - 1], intents[i])
  BY <1>1, <1>2 DEF Replayed
<1>4. 0 \in T BY <1>1, <1>3
<1>5. ASSUME NEW n \in Nat, n \in T PROVE n + 1 \in T
  <2> SUFFICES ASSUME n + 1 <= Len(intents)
               PROVE  /\ f[n + 1] \in Collection
                      /\ \A k \in Nat : IntentOf(intents, k) = {} => Find(f[n + 1], k) = Find(base, k)
    OBVIOUS
  <2>1. f[n] \in Collection /\ \A k \in Nat : IntentOf(intents, k) = {} => Find(f[n], k) = Find(base, k)
    BY <1>1, <1>5
  <2> DEFINE d == intents[n + 1]
  <2>2. n + 1 \in 1..Len(intents) /\ (n + 1) - 1 = n BY <1>1
  <2>3. d \in IntentType /\ d \in ToSet(intents) BY <1>1, <2>2
  <2>4. d.kind \in {"create", "rename", "remove"} /\ d.id \in Nat /\ d.item \in ItemType
        /\ d.label \in Label \cup {Nothing} /\ (d.kind = "create" => d.item.id = d.id)
    BY <2>3 DEF IntentType, WellFormed
  <2>5. f[n + 1] = ApplyOptimistically(f[n], d) BY <1>3, <2>2
  <2>6. \A k \in Nat : IntentOf(intents, k) = {} => k # d.id BY <2>3 DEF IntentOf
  <2> HIDE DEF d
  <2>7. /\ ApplyOptimistically(f[n], d) \in Collection
        /\ \A k \in Nat : k # d.id => Find(ApplyOptimistically(f[n], d), k) = Find(f[n], k)
    BY <2>1, <2>4, AppliedFacts
  <2>8. QED BY <2>1, <2>5, <2>6, <2>7
<1> HIDE DEF T
<1>6. Len(intents) \in T BY <1>1, <1>4, <1>5, Inductive
<1>7. QED BY <1>1, <1>2, <1>6 DEF T

(* A rollback puts one item back as the server has confirmed it, and touches nothing else. *)
LEMMA RollbackFacts ==
  ASSUME NEW list \in Collection, NEW i \in IntentType, WellFormed(i),
         i.baseline # Nothing => i.baseline.id = i.id
  PROVE  /\ Rollback(list, i) \in Collection
         /\ Find(Rollback(list, i), i.id) = {i.baseline} \ {Nothing}
         /\ \A k \in Nat : k # i.id => Find(Rollback(list, i), k) = Find(list, k)
<1> DEFINE at == IF i.kind = "remove" /\ i.at < Len(list) + 1 THEN i.at ELSE Len(list) + 1
<1>1. i.id \in Nat /\ i.at \in Nat /\ Len(list) \in Nat BY DEF IntentType, Collection
<1>2. CASE i.baseline = Nothing
  <2> DEFINE t == WithoutItem(list, i.id)
  <2>1. Rollback(list, i) = t BY <1>2 DEF Rollback
  <2>2. t \in Collection /\ Find(t, i.id) = {} /\ \A k \in Nat \ {i.id} : Find(t, k) = Find(list, k)
    BY <1>1, WithoutItemFacts
  <2>3. {i.baseline} \ {Nothing} = {} BY <1>2
  <2> HIDE DEF t
  <2>4. QED BY <2>1, <2>2, <2>3
<1>3. CASE i.baseline # Nothing /\ Find(list, i.id) # {}
  <2> DEFINE t == [k \in DOMAIN list |-> IF list[k].id = i.id THEN i.baseline ELSE list[k]]
             n == Len(list)
  <2>1. Rollback(list, i) = t BY <1>3 DEF Rollback
  <2>2. i.baseline \in ItemType /\ i.baseline.id = i.id BY <1>3 DEF IntentType
  <2>3. DOMAIN list = 1..n /\ \A k \in 1..n : list[k] \in ItemType BY DEF Collection
  <2>4. t = [k \in 1..n |-> IF list[k].id = i.id THEN i.baseline ELSE list[k]] BY <2>3
  <2> HIDE DEF t, n
  <2>5. t \in Seq(ItemType) /\ Len(t) = n /\ DOMAIN t = 1..n
    <3>1. n \in Nat BY <1>1 DEF n
    <3>2. QED BY <2>2, <2>3, <2>4, <3>1
  <2>6. ToSet(t) = {t[k] : k \in 1..n} /\ ToSet(list) = {list[k] : k \in 1..n} BY <2>3, <2>5 DEF ToSet
  <2>7. PICK m \in 1..n : list[m].id = i.id BY <1>3, <2>6 DEF Find
  <2>8. Find(t, i.id) = {i.baseline}
    <3>1. t[m] = i.baseline BY <2>4, <2>7
    <3>2. \A k \in 1..n : t[k].id = i.id => t[k] = i.baseline BY <2>4
    <3>3. QED BY <2>2, <2>6, <3>1, <3>2 DEF Find
  <2>9. ASSUME NEW k \in Nat, k # i.id PROVE Find(t, k) = Find(list, k)
    <3>1. \A j \in 1..n : t[j].id = k => t[j] = list[j] BY <2>2, <2>4, <2>9
    <3>2. \A j \in 1..n : list[j].id = k => t[j] = list[j] BY <2>4, <2>9
    <3>3. QED BY <2>6, <3>1, <3>2 DEF Find
  <2>10. QED BY <1>3, <2>1, <2>5, <2>8, <2>9 DEF Collection
<1>4. CASE i.baseline # Nothing /\ Find(list, i.id) = {}
  <2>1. Rollback(list, i) = InsertAt(list, at, i.baseline) BY <1>4 DEF Rollback
  <2>2. i.baseline \in ItemType /\ i.baseline.id = i.id BY <1>4 DEF IntentType
  <2>3. at \in 1..(Len(list) + 1) BY <1>1 DEF WellFormed
  <2> HIDE DEF at
  <2> DEFINE t == InsertAt(list, at, i.baseline)
  <2>4. list \in Seq(ItemType) BY DEF Collection
  <2>5. t \in Seq(ItemType) /\ ToSet(t) = ToSet(list) \cup {i.baseline} BY <2>2, <2>3, <2>4, InsertAtFacts
  <2> HIDE DEF t
  <2>6. Find(t, i.id) = {i.baseline} BY <1>4, <2>2, <2>5 DEF Find
  <2>7. \A k \in Nat : k # i.id => Find(t, k) = Find(list, k) BY <2>2, <2>5 DEF Find
  <2>8. QED BY <1>4, <2>1, <2>5, <2>6, <2>7 DEF Collection, t
<1>5. QED BY <1>2, <1>3, <1>4

-----------------------------------------------------------------------------
(* The intents on the book.                                                *)

(* Recording an intent leaves one intent an item, the new one for its own. *)
LEMMA SetIntentFacts ==
  ASSUME NEW intents \in Seq(IntentType), OneIntentEach(intents), NEW i \in IntentType
  PROVE  /\ SetIntent(intents, i) \in Seq(IntentType)
         /\ ToSet(SetIntent(intents, i)) = { j \in ToSet(intents) : j.id # i.id } \cup {i}
         /\ OneIntentEach(SetIntent(intents, i))
<1> DEFINE t == SetIntent(intents, i)
<1>1. CASE IntentOf(intents, i.id) = {}
  <2>1. t = Append(intents, i) BY <1>1 DEF SetIntent
  <2>2. t \in Seq(IntentType) /\ ToSet(t) = ToSet(intents) \cup {i} BY <2>1, MembersAppended
  <2>3. \A j \in ToSet(intents) : j.id # i.id BY <1>1 DEF IntentOf
  <2> HIDE DEF t
  <2>4. OneIntentEach(t) BY <2>2, <2>3 DEF OneIntentEach
  <2>5. QED BY <2>2, <2>3, <2>4 DEF t
<1>2. CASE IntentOf(intents, i.id) # {}
  <2>1. t = [k \in 1..Len(intents) |-> IF intents[k].id = i.id THEN i ELSE intents[k]] BY <1>2 DEF SetIntent
  <2> HIDE DEF t
  <2>2. t \in Seq(IntentType) /\ Len(t) = Len(intents) BY <2>1
  <2>3. ToSet(intents) = {intents[k] : k \in 1..Len(intents)} /\ ToSet(t) = {t[k] : k \in 1..Len(intents)}
    BY <2>2, Members
  <2>4. \A j \in ToSet(t) : j \in {m \in ToSet(intents) : m.id # i.id} \cup {i} BY <2>1, <2>3
  <2>5. \A j \in ToSet(intents) : j.id # i.id => j \in ToSet(t) BY <2>1, <2>3
  <2>6. i \in ToSet(t)
    <3>1. PICK k \in 1..Len(intents) : intents[k].id = i.id BY <1>2, <2>3 DEF IntentOf
    <3>2. t[k] = i BY <3>1, <2>1
    <3>3. QED BY <3>2, <2>3
  <2>7. ToSet(t) = {j \in ToSet(intents) : j.id # i.id} \cup {i} BY <2>4, <2>5, <2>6
  <2>8. OneIntentEach(t) BY <2>7 DEF OneIntentEach
  <2>9. QED BY <2>2, <2>7, <2>8 DEF t
<1>3. QED BY <1>1, <1>2

(* Retiring an item's intent leaves those of the others. *)
LEMMA RetireFacts ==
  ASSUME NEW intents \in Seq(IntentType), NEW id
  PROVE  /\ Retire(intents, id) \in Seq(IntentType)
         /\ ToSet(Retire(intents, id)) = { j \in ToSet(intents) : j.id # id }
<1> DEFINE keep == { j \in ToSet(intents) : j.id # id }
<1>1. keep \subseteq ToSet(intents) OBVIOUS
<1> HIDE DEF keep
<1>2. Sublist(intents, keep) \in Seq(IntentType) /\ ToSet(Sublist(intents, keep)) = ToSet(intents) \cap keep
  BY SublistFacts
<1>3. Retire(intents, id) = Sublist(intents, keep) BY DEF Retire, keep
<1>4. QED BY <1>1, <1>2, <1>3 DEF keep

(* A new collection is what every intent rolls back to; the intents are the same otherwise. *)
LEMMA RebasedFacts ==
  ASSUME NEW b, b.intents \in Seq(IntentType), NEW items \in Collection, OneOfId(ToSet(items)),
         OneIntentEach(b.intents), \A i \in ToSet(b.intents) : WellFormed(i)
  PROVE  LET new == Rebased(b, items) IN
         /\ new \in [intents : Seq(IntentType), canonical : SUBSET ItemType, adopted : BOOLEAN]
         /\ new.canonical = ToSet(items) /\ new.adopted
         /\ OneIntentEach(new.intents)
         /\ \A i \in ToSet(new.intents) :
              WellFormed(i) /\ {i.baseline} \ {Nothing} = { x \in ToSet(items) : x.id = i.id }
         /\ \A id : IntentOf(new.intents, id) = {} <=> IntentOf(b.intents, id) = {}
         /\ { i.item : i \in { k \in ToSet(new.intents) : k.kind = "create" } }
              \subseteq { i.item : i \in { k \in ToSet(b.intents) : k.kind = "create" } }
<1> DEFINE base(id) == LET held == Find(items, id) IN IF held = {} THEN Nothing ELSE CHOOSE i \in held : TRUE
           s == b.intents
           n == Len(s)
           t == [k \in DOMAIN s |-> [s[k] EXCEPT !.baseline = base(s[k].id)]]
<1>1. Rebased(b, items) = [intents |-> t, canonical |-> ToSet(items), adopted |-> TRUE] BY DEF Rebased
<1>2. s \in Seq(IntentType) /\ n \in Nat /\ DOMAIN s = 1..n /\ ToSet(s) = {s[k] : k \in 1..n}
      /\ \A k \in 1..n : s[k] \in IntentType
  BY DEF ToSet
<1>3. ToSet(items) \subseteq ItemType BY FoundFacts
<1>4. \A id : base(id) \in ItemType \cup {Nothing} /\ {base(id)} \ {Nothing} = { x \in ToSet(items) : x.id = id }
  <2> SUFFICES ASSUME NEW id PROVE base(id) \in ItemType \cup {Nothing}
                 /\ {base(id)} \ {Nothing} = { x \in ToSet(items) : x.id = id }
    OBVIOUS
  <2>1. Find(items, id) = { x \in ToSet(items) : x.id = id } BY DEF Find
  <2>2. CASE Find(items, id) = {} BY <2>1, <2>2
  <2>3. CASE Find(items, id) # {}
    <3>1. PICK x \in Find(items, id) : TRUE BY <2>3
    <3>2. Find(items, id) = {x} BY <2>1, <3>1 DEF OneOfId
    <3>3. base(id) = x BY <3>2
    <3>4. x \in ItemType BY <2>1, <3>1, <1>3
    <3>5. x # Nothing BY <3>4, NullsAssumption
    <3>6. QED BY <2>1, <3>2, <3>3, <3>4, <3>5
  <2>4. QED BY <2>2, <2>3
<1> HIDE DEF base, s, n
<1>5. \A k \in 1..n : /\ t[k] \in IntentType /\ t[k].kind = s[k].kind /\ t[k].id = s[k].id /\ t[k].item = s[k].item
                      /\ t[k].at = s[k].at /\ t[k].label = s[k].label /\ t[k].write = s[k].write
                      /\ t[k].baseline = base(s[k].id)
  BY <1>2, <1>4 DEF IntentType
<1>6. t \in Seq(IntentType) /\ Len(t) = n /\ DOMAIN t = 1..n
  <2>1. t = [k \in 1..n |-> t[k]] BY <1>2
  <2> HIDE DEF t
  <2>2. QED BY <1>2, <1>5, <2>1
<1>7. ToSet(t) = {t[k] : k \in 1..n} BY <1>6 DEF ToSet
<1> HIDE DEF t
<1>8. OneIntentEach(t)
  <2>1. ASSUME NEW j \in 1..n, NEW k \in 1..n, t[j].id = t[k].id PROVE t[j] = t[k]
    <3>1. s[j] = s[k] BY <1>2, <1>5, <2>1 DEF OneIntentEach, s
    <3>2. t[j] = [s[j] EXCEPT !.baseline = base(s[j].id)] /\ t[k] = [s[k] EXCEPT !.baseline = base(s[k].id)]
      BY <1>2 DEF t
    <3>3. QED BY <3>1, <3>2
  <2>2. QED BY <1>7, <2>1 DEF OneIntentEach
<1>9. \A i \in ToSet(t) : WellFormed(i) /\ {i.baseline} \ {Nothing} = { x \in ToSet(items) : x.id = i.id }
  <2>1. \A k \in 1..n : WellFormed(s[k]) BY <1>2 DEF s
  <2>2. \A k \in 1..n : WellFormed(t[k]) BY <1>5, <2>1 DEF WellFormed
  <2>3. \A k \in 1..n : {t[k].baseline} \ {Nothing} = { x \in ToSet(items) : x.id = t[k].id } BY <1>4, <1>5
  <2>4. QED BY <1>7, <2>2, <2>3
<1>10. \A id : IntentOf(t, id) = {} <=> IntentOf(s, id) = {} BY <1>2, <1>5, <1>7 DEF IntentOf
<1>11. { i.item : i \in { k \in ToSet(t) : k.kind = "create" } }
         \subseteq { i.item : i \in { k \in ToSet(s) : k.kind = "create" } }
  BY <1>2, <1>5, <1>7
<1> DEFINE new == Rebased(b, items)
<1>12. /\ new \in [intents : Seq(IntentType), canonical : SUBSET ItemType, adopted : BOOLEAN]
       /\ new.intents = t /\ new.canonical = ToSet(items) /\ new.adopted
  BY <1>1, <1>3, <1>6
<1> HIDE DEF new
<1>13. QED BY <1>8, <1>9, <1>10, <1>11, <1>12 DEF s, new

-----------------------------------------------------------------------------
(* The server.                                                             *)

(* Where ids name contents, a list with a content once has an id once. *)
LEMMA OneOfIdFacts ==
  ASSUME NEW list \in Collection, OneOfEach(list), NEW names, Unambiguous(names), Names(ToSet(list)) \subseteq names
  PROVE  OneOfId(ToSet(list))
<1>1. ToSet(list) = {list[i] : i \in DOMAIN list} BY DEF ToSet
<1>2. ASSUME NEW x \in ToSet(list), NEW y \in ToSet(list), x.id = y.id PROVE x = y
  <2>1. <<x.id, x.content>> \in names /\ <<y.id, y.content>> \in names BY DEF Names
  <2>2. x.content = y.content BY <1>2, <2>1 DEF Unambiguous
  <2>3. QED BY <1>1, <2>2 DEF OneOfEach
<1>3. QED BY <1>2 DEF OneOfId

(* Two lists that share no content, joined. *)
LEMMA JoinedFacts ==
  ASSUME NEW s \in Collection, NEW t \in Collection
  PROVE  /\ s \o t \in Collection
         /\ ToSet(s \o t) = ToSet(s) \cup ToSet(t)
         /\ Contents(s \o t) = Contents(s) \cup Contents(t)
         /\ OneOfEach(s) /\ OneOfEach(t) /\ Contents(s) \cap Contents(t) = {} => OneOfEach(s \o t)
<1> DEFINE u == s \o t
           m == Len(s)
           n == Len(t)
<1>1. u \in Seq(ItemType) /\ ToSet(u) = ToSet(s) \cup ToSet(t) BY MembersJoined DEF Collection
<1>2. /\ m \in Nat /\ n \in Nat /\ DOMAIN s = 1..m /\ DOMAIN t = 1..n /\ DOMAIN u = 1..(m + n)
      /\ \A i \in 1..m : u[i] = s[i]
      /\ \A i \in (m + 1)..(m + n) : i - m \in 1..n /\ u[i] = t[i - m]
  BY DEF Collection
<1> HIDE DEF u, m, n
<1>3. Contents(u) = {x.content : x \in ToSet(u)} /\ Contents(s) = {x.content : x \in ToSet(s)}
      /\ Contents(t) = {x.content : x \in ToSet(t)}
  BY <1>1, FoundFacts DEF Collection
<1>4. Contents(u) = Contents(s) \cup Contents(t) BY <1>1, <1>3
<1>5. ASSUME OneOfEach(s), OneOfEach(t), Contents(s) \cap Contents(t) = {} PROVE OneOfEach(u)
  <2>1. \A i \in 1..m : s[i].content \in Contents(s) BY <1>2 DEF Contents
  <2>2. \A i \in 1..n : t[i].content \in Contents(t) BY <1>2 DEF Contents
  <2>3. ASSUME NEW i \in 1..(m + n), NEW k \in 1..(m + n), u[i].content = u[k].content PROVE i = k
    <3>1. CASE i \in 1..m /\ k \in 1..m BY <1>2, <1>5, <2>3, <3>1 DEF OneOfEach
    <3>2. CASE i \notin 1..m /\ k \notin 1..m
      <4>1. i \in (m + 1)..(m + n) /\ k \in (m + 1)..(m + n) BY <1>2, <3>2
      <4>2. i - m = k - m BY <1>2, <1>5, <2>3, <4>1 DEF OneOfEach
      <4>3. QED BY <1>2, <4>1, <4>2
    <3>3. CASE i \in 1..m /\ k \notin 1..m
      <4>1. k \in (m + 1)..(m + n) BY <1>2, <3>3
      <4>2. QED BY <1>2, <1>5, <2>1, <2>2, <2>3, <3>3, <4>1
    <3>4. CASE i \notin 1..m /\ k \in 1..m
      <4>1. i \in (m + 1)..(m + n) BY <1>2, <3>4
      <4>2. QED BY <1>2, <1>5, <2>1, <2>2, <2>3, <3>4, <4>1
    <3>5. QED BY <3>1, <3>2, <3>3, <3>4
  <2>4. QED BY <1>2, <2>3 DEF OneOfEach
<1>6. QED BY <1>1, <1>4, <1>5 DEF u, Collection

\* What a request may add to the names there are.
Brings(r) == Names(ToSet(r.list)) \cup (IF r.kind = "create" THEN Names({r.item}) ELSE {})

(* What the server makes of a request: a collection or a refusal, with no name but those of the
   collection and the request, and no content lost but what a removal names. *)
LEMMA HandledFacts ==
  ASSUME NEW r \in Request, server \in [Account -> Collection]
  PROVE  LET list == server[r.account]
             after == Handled(r)
         IN  /\ after \in Collection \cup {Unknown}
             /\ after # Unknown =>
                  /\ OneOfEach(list) /\ OneOfEach(r.list) => OneOfEach(after)
                  /\ Names(ToSet(after)) \subseteq Names(ToSet(list)) \cup Brings(r)
                  /\ r.kind # "remove" => Contents(list) \subseteq Contents(after)
                  /\ r.kind = "remove" =>
                       Contents(list) \ { i.content : i \in Find(list, r.id) } \subseteq Contents(after)
                  /\ r.kind = "merge" => Contents(r.list) \cap Storable \subseteq Contents(after)
<1> DEFINE list == server[r.account]
           after == Handled(r)
<1>1. r \in LoadRequest \/ r \in WriteRequest BY DEF Request
<1>2. r.account \in Account /\ r.kind \in {"load", "merge", "create", "rename", "remove"}
  BY <1>1 DEF LoadRequest, WriteRequest
<1>3. list \in Collection BY <1>2
<1>4. r.list \in Collection
  <2>1. CASE r \in LoadRequest BY <2>1 DEF LoadRequest
  <2>2. CASE r \in WriteRequest
    <3>1. r.list = <<>> BY <2>2 DEF WriteRequest
    <3>2. QED BY <3>1 DEF Collection
  <2>3. QED BY <1>1, <2>1, <2>2
<1>5. r.kind \notin {"load", "merge"} => r.id \in Nat /\ r.item \in ItemType /\ r.label \in Label \cup {Nothing}
  BY <1>1 DEF LoadRequest, WriteRequest
<1>6. Contents(list) = {x.content : x \in ToSet(list)} /\ Contents(r.list) = {x.content : x \in ToSet(r.list)}
  BY <1>3, <1>4, FoundFacts
<1> HIDE DEF list, after
<1>7. CASE r.kind = "load"
  <2>1. after = list BY <1>7 DEF Handled, after, list
  <2>2. QED BY <1>3, <1>7, <2>1 DEF list, after
<1>8. CASE r.kind = "merge"
  <2> DEFINE held == { Identity(i) : i \in ToSet(list) }
             keep == { i \in ToSet(r.list) : i.content \in Storable \ held }
             missing == Sublist(r.list, keep)
             joined == list \o missing
  <2>1. after = IF Len(list) + Len(missing) > Limit THEN Unknown ELSE joined
    BY <1>8 DEF Handled, after, list
  <2>2. held = Contents(list) BY <1>6 DEF Identity
  <2>3. ToSet(r.list) \cap keep = keep /\ \A i \in ToSet(r.list) : i \in keep <=> i.content \in Storable \ Contents(list)
    BY <2>2
  <2> HIDE DEF keep, held
  <2>4. missing \in Collection /\ ToSet(missing) = keep /\ (OneOfEach(r.list) => OneOfEach(missing))
    BY <1>4, <2>3, SomeItemsFacts
  <2> HIDE DEF missing
  <2>5. Contents(missing) = {x.content : x \in ToSet(missing)} BY <2>4, FoundFacts
  <2>6. /\ joined \in Collection
        /\ ToSet(joined) = ToSet(list) \cup ToSet(missing)
        /\ Contents(joined) = Contents(list) \cup Contents(missing)
        /\ OneOfEach(list) /\ OneOfEach(missing) /\ Contents(list) \cap Contents(missing) = {} => OneOfEach(joined)
    BY <1>3, <2>4, JoinedFacts
  <2> HIDE DEF joined
  <2>7. keep \subseteq ToSet(r.list) BY <2>3
  <2>8. Contents(list) \cap Contents(missing) = {} BY <2>3, <2>4, <2>5, <2>7
  <2>9. Contents(r.list) \cap Storable \subseteq Contents(joined) BY <1>6, <2>3, <2>4, <2>5, <2>6
  <2>10. Names(ToSet(joined)) \subseteq Names(ToSet(list)) \cup Brings(r) BY <2>4, <2>6, <2>7 DEF Names, Brings
  <2>11. QED BY <1>8, <2>1, <2>4, <2>6, <2>8, <2>9, <2>10 DEF list, after
<1>9. CASE r.kind = "create"
  <2> DEFINE up == UpsertByIdentity(list, r.item, Identity)
  <2>1. after = Unknown \/ after = up.items BY <1>9 DEF Handled, after, list
  <2>2. r.item \in ItemType BY <1>5, <1>9
  <2>3. /\ up.items \in Collection
        /\ Names(ToSet(up.items)) \subseteq Names(ToSet(list)) \cup Names({r.item})
        /\ Contents(up.items) = Contents(list) \cup {r.item.content}
        /\ OneOfEach(list) => OneOfEach(up.items)
    BY <1>3, <2>2, UpsertFacts
  <2> HIDE DEF up
  <2>4. QED BY <1>9, <2>1, <2>3 DEF Brings, list, after
<1>10. CASE r.kind = "rename"
  <2> DEFINE new == Relabelled(list, r.id, r.label)
  <2>1. after = Unknown \/ after = new BY <1>10 DEF Handled, after, list
  <2>2. r.id \in Nat /\ r.label \in Label \cup {Nothing} BY <1>5, <1>10
  <2>3. /\ new \in Collection /\ Names(ToSet(new)) = Names(ToSet(list)) /\ Contents(new) = Contents(list)
        /\ OneOfEach(list) => OneOfEach(new)
    BY <1>3, <2>2, RelabelledFacts
  <2> HIDE DEF new
  <2>4. QED BY <1>10, <2>1, <2>3 DEF list, after
<1>11. CASE r.kind = "remove"
  <2> DEFINE new == WithoutItem(list, r.id)
  <2>1. after = new BY <1>11 DEF Handled, after, list
  <2>2. r.id \in Nat BY <1>5, <1>11
  <2>3. /\ new \in Collection /\ ToSet(new) = { x \in ToSet(list) : x.id # r.id }
        /\ OneOfEach(list) => OneOfEach(new)
    BY <1>3, <2>2, WithoutItemFacts
  <2> HIDE DEF new
  <2>4. Contents(new) = {x.content : x \in ToSet(new)} BY <2>3, FoundFacts
  <2>5. Contents(list) \ { i.content : i \in Find(list, r.id) } \subseteq Contents(new)
    BY <1>6, <2>3, <2>4 DEF Find
  <2>6. Names(ToSet(new)) \subseteq Names(ToSet(list)) BY <2>3 DEF Names
  <2>7. QED BY <1>11, <2>1, <2>3, <2>5, <2>6 DEF list, after
<1>12. QED BY <1>2, <1>7, <1>8, <1>9, <1>10, <1>11

-----------------------------------------------------------------------------
(* The device.                                                             *)

(* The first item of each content, in the order of the list. *)
LEMMA FirstOfEachFacts ==
  ASSUME NEW list \in Collection
  PROVE  LET t == FirstOfEach(list, Identity) IN
         /\ t \in Collection /\ ToSet(t) \subseteq ToSet(list) /\ OneOfEach(t)
         /\ OneOfEach(list) => t = list
<1> DEFINE first == { i \in DOMAIN list : \A j \in 1..(i - 1) : Identity(list[j]) # Identity(list[i]) }
           all == [i \in DOMAIN list |-> i]
           at == Sublist(all, first)
           t == [k \in DOMAIN at |-> list[at[k]]]
           n == Len(list)
<1>1. FirstOfEach(list, Identity) = t BY DEF FirstOfEach, Places
<1>2. n \in Nat /\ DOMAIN list = 1..n /\ list = [i \in 1..n |-> list[i]] /\ \A i \in 1..n : list[i] \in ItemType
  BY DEF Collection
<1>3. all \in Seq(Nat) /\ Len(all) = n /\ ToSet(all) = 1..n /\ \A i \in 1..n : all[i] = i BY <1>2 DEF ToSet
<1>4. first \subseteq 1..n /\ \A i, k \in first : list[i].content = list[k].content => i = k
  <2>1. ASSUME NEW i \in first, NEW k \in first, list[i].content = list[k].content PROVE i = k
    <3>1. i \in Nat /\ k \in Nat /\ i >= 1 /\ k >= 1 BY <1>2
    <3>2. i < k => i \in 1..(k - 1) BY <3>1
    <3>3. k < i => k \in 1..(i - 1) BY <3>1
    <3>4. ~(i < k) /\ ~(k < i) BY <2>1, <3>2, <3>3 DEF Identity
    <3>5. QED BY <3>1, <3>4
  <2>2. QED BY <1>2, <2>1
<1>5. OneOfEach(list) => first = 1..n
  <2>1. ASSUME OneOfEach(list), NEW i \in 1..n, NEW j \in 1..(i - 1) PROVE list[j].content # list[i].content
    <3>1. j \in 1..n /\ j # i BY <1>2, <2>1
    <3>2. QED BY <1>2, <2>1, <3>1 DEF OneOfEach
  <2>2. QED BY <1>2, <2>1 DEF Identity
<1> HIDE DEF first, all
<1>6. /\ at \in Seq(Nat) /\ ToSet(at) = ToSet(all) \cap first /\ Leaves(at, all, Len(all), first)
      /\ ToSet(all) \subseteq first => at = all
  BY <1>3, SublistFacts
<1> HIDE DEF at, n
<1> DEFINE m == Len(at)
<1>7. m \in Nat /\ DOMAIN at = 1..m /\ ToSet(at) = {at[k] : k \in 1..m} BY <1>6, Members
<1>8. PICK to \in [1..m -> 1..n] :
        /\ \A i, j \in 1..m : i < j => to[i] < to[j]
        /\ \A i \in 1..m : at[i] = all[to[i]]
  BY <1>3, <1>6 DEF Leaves
<1>9. ASSUME NEW i \in 1..m PROVE at[i] = to[i] /\ at[i] \in 1..n /\ at[i] \in first
  <2>1. to[i] \in 1..n /\ at[i] = all[to[i]] BY <1>8
  <2>2. at[i] = to[i] BY <1>3, <2>1
  <2>3. at[i] \in ToSet(at) BY <1>7
  <2>4. QED BY <1>6, <2>1, <2>2, <2>3
<1>10. t \in Seq(ItemType) /\ t = [k \in 1..m |-> t[k]] /\ DOMAIN t = 1..m /\ \A k \in 1..m : t[k] = list[at[k]]
  BY <1>2, <1>7, <1>9
<1> HIDE DEF t, m
<1>11. ToSet(t) \subseteq ToSet(list)
  <2>1. ToSet(t) = {t[k] : k \in 1..m} /\ ToSet(list) = {list[i] : i \in 1..n} BY <1>2, <1>10 DEF ToSet
  <2>2. QED BY <1>9, <1>10, <2>1
<1>12. OneOfEach(t)
  <2>1. ASSUME NEW i \in 1..m, NEW k \in 1..m, t[i].content = t[k].content PROVE i = k
    <3>1. at[i] = at[k] BY <1>4, <1>9, <1>10, <2>1
    <3>2. to[i] = to[k] /\ to[i] \in Nat /\ to[k] \in Nat BY <1>2, <1>8, <1>9, <3>1
    <3>3. ~(i < k) /\ ~(k < i) BY <1>8, <3>2
    <3>4. QED BY <1>7, <3>3 DEF m
  <2>2. QED BY <1>10, <2>1 DEF OneOfEach
<1>13. ASSUME OneOfEach(list) PROVE t = list
  <2>1. at = all BY <1>3, <1>5, <1>6, <1>13
  <2>2. DOMAIN all = 1..n BY <1>2 DEF all
  <2>3. 1..m = 1..n BY <1>7, <2>1, <2>2
  <2>4. \A k \in 1..n : t[k] = list[k] BY <1>3, <1>10, <2>1, <2>3
  <2>5. QED BY <1>2, <1>10, <2>3, <2>4
<1>14. QED BY <1>1, <1>10, <1>11, <1>12, <1>13 DEF Collection

(* What is read of an envelope: readable items of it, a content once, no more than the limit; and
   all of them when it is such already. *)
LEMMA ReadFacts ==
  ASSUME NEW s \in EnvelopeType
  PROVE  LET read == ReadCollection(s, ValidItem, Identity, Limit) IN
         /\ read.items \in Collection /\ OneOfEach(read.items)
         /\ ToSet(read.items) \subseteq ToSet(s.items)
         /\ \A x \in ToSet(read.items) : ValidItem(x)
         /\ Len(read.items) <= Limit
         /\ /\ s = Envelope(COLLECTION_VERSION, s.items) /\ OneOfEach(s.items)
            /\ \A x \in ToSet(s.items) : ValidItem(x)
            /\ Len(s.items) <= Limit
            => read.items = s.items
<1> DEFINE list == s.items
           readable == Sublist(list, { item \in ToSet(list) : ValidItem(item) })
           unique == FirstOfEach(readable, Identity)
           kept == IF Len(unique) > Limit THEN SubSeq(unique, 1, Limit) ELSE unique
           read == ReadCollection(s, ValidItem, Identity, Limit)
<1>1. \/ s.is = "envelope" /\ s.version = COLLECTION_VERSION /\ read.items = kept
      \/ ~(s.is = "envelope" /\ s.version = COLLECTION_VERSION) /\ read.items = <<>>
  BY DEF ReadCollection
<1>2. list \in Collection BY DEF EnvelopeType
<1> HIDE DEF list, read
<1>3. /\ readable \in Collection /\ ToSet(readable) \subseteq ToSet(list)
      /\ \A x \in ToSet(readable) : ValidItem(x)
      /\ OneOfEach(list) => OneOfEach(readable)
      /\ (\A x \in ToSet(list) : ValidItem(x)) => readable = list
  <2> DEFINE keep == { item \in ToSet(list) : ValidItem(item) }
  <2>1. keep \subseteq ToSet(list) /\ (\A x \in keep : ValidItem(x)) /\ ((\A x \in ToSet(list) : ValidItem(x)) => ToSet(list) \subseteq keep)
    OBVIOUS
  <2> HIDE DEF keep
  <2>2. /\ Sublist(list, keep) \in Collection /\ ToSet(Sublist(list, keep)) = ToSet(list) \cap keep
        /\ OneOfEach(list) => OneOfEach(Sublist(list, keep))
        /\ ToSet(list) \subseteq keep => Sublist(list, keep) = list
    BY <1>2, SomeItemsFacts
  <2>3. readable = Sublist(list, keep) BY DEF keep
  <2> HIDE DEF readable
  <2>4. QED BY <2>1, <2>2, <2>3
<1> HIDE DEF readable
<1>4. /\ unique \in Collection /\ ToSet(unique) \subseteq ToSet(readable) /\ OneOfEach(unique)
      /\ OneOfEach(readable) => unique = readable
  BY <1>3, FirstOfEachFacts
<1> HIDE DEF unique
<1>5. kept \in Collection /\ ToSet(kept) \subseteq ToSet(unique) /\ OneOfEach(kept) /\ Len(kept) <= Limit
  <2>1. CASE Len(unique) <= Limit
    <3>1. kept = unique BY <2>1, <1>4, BoundsAssumption DEF Collection
    <3>2. QED BY <1>4, <2>1, <3>1
  <2>2. CASE Len(unique) > Limit
    <3>1. kept = SubSeq(unique, 1, Limit) BY <2>2
    <3>2. kept \in Seq(ItemType) /\ Len(kept) = Limit /\ \A i \in 1..Limit : kept[i] = unique[i]
      BY <1>4, <2>2, <3>1, BoundsAssumption DEF Collection
    <3> HIDE DEF kept
    <3>3. DOMAIN kept = 1..Limit /\ DOMAIN unique = 1..Len(unique) /\ 1..Limit \subseteq 1..Len(unique) /\ Limit \in Nat
      BY <1>4, <2>2, <3>2, BoundsAssumption DEF Collection
    <3>4. ToSet(kept) \subseteq ToSet(unique) BY <3>2, <3>3 DEF ToSet
    <3>5. OneOfEach(kept) BY <1>4, <3>2, <3>3 DEF OneOfEach
    <3>6. QED BY <3>2, <3>3, <3>4, <3>5 DEF Collection
  <2>3. Len(unique) \in Nat /\ Limit \in Nat BY <1>4, BoundsAssumption DEF Collection
  <2>4. QED BY <2>1, <2>2, <2>3
<1>6. Len(list) <= Limit /\ unique = list => kept = list BY <1>2, BoundsAssumption DEF Collection
<1> HIDE DEF kept
<1>7. <<>> \in Collection /\ ToSet(<<>>) = {} /\ OneOfEach(<<>>) /\ Len(<<>>) = 0 BY DEF Collection, ToSet, OneOfEach
<1>8. /\ read.items \in Collection /\ OneOfEach(read.items)
      /\ ToSet(read.items) \subseteq ToSet(list)
      /\ \A x \in ToSet(read.items) : ValidItem(x)
      /\ Len(read.items) <= Limit
  <2>1. CASE read.items = kept BY <2>1, <1>3, <1>4, <1>5
  <2>2. CASE read.items = <<>> BY <2>2, <1>7, BoundsAssumption
  <2>3. QED BY <1>1, <2>1, <2>2
<1>9. ASSUME s = Envelope(COLLECTION_VERSION, list), OneOfEach(list), \A x \in ToSet(list) : ValidItem(x), Len(list) <= Limit
      PROVE  read.items = list
  <2>1. s.is = "envelope" /\ s.version = COLLECTION_VERSION BY <1>9 DEF Envelope
  <2>2. read.items = kept BY <1>1, <2>1
  <2>3. QED BY <1>3, <1>4, <1>6, <1>9, <2>2
<1>10. QED BY <1>8, <1>9 DEF list, read

-----------------------------------------------------------------------------
(* The start.                                                              *)

(* The empty list and the empty book. *)
LEMMA EmptyFacts ==
  /\ <<>> \in Collection /\ ToSet(<<>>) = {} /\ OneOfEach(<<>>) /\ Contents(<<>>) = {}
  /\ <<>> \in Seq(IntentType) /\ OneIntentEach(<<>>) /\ \A id : IntentOf(<<>>, id) = {}
  /\ EmptyBook \in [intents : Seq(IntentType), canonical : SUBSET ItemType, adopted : BOOLEAN]
  /\ EmptyBook.intents = <<>> /\ EmptyBook.canonical = {}
BY DEF Collection, ToSet, OneOfEach, Contents, OneIntentEach, IntentOf, EmptyBook

(* The start is of the types. *)
LEMMA InitType == Init => TypeOK
<1> SUFFICES ASSUME Init PROVE TypeOK OBVIOUS
<1>1. PICK s \in Stored :
        LET read == ReadCollection(s, ValidItem, Identity, Limit) IN
          device = read.items /\ stored = (IF read.recovered THEN Envelope(COLLECTION_VERSION, read.items) ELSE s)
  BY DEF Init
<1>2. s \in EnvelopeType BY StartAssumption
<1>3. device \in Collection BY <1>1, <1>2, ReadFacts
<1>4. stored \in EnvelopeType BY <1>1, <1>2, <1>3 DEF Envelope, EnvelopeType, COLLECTION_VERSION
<1>5. saved \subseteq Content
  <2>1. PICK z \in Stored : saved = { ReadCollection(z, ValidItem, Identity, Limit).items[k].content :
                                        k \in DOMAIN ReadCollection(z, ValidItem, Identity, Limit).items }
    BY DEF Init
  <2>2. ReadCollection(z, ValidItem, Identity, Limit).items \in Collection BY StartAssumption, ReadFacts
  <2> DEFINE list == ReadCollection(z, ValidItem, Identity, Limit).items
  <2>3. list \in Collection /\ saved = { list[k].content : k \in DOMAIN list } BY <2>1, <2>2
  <2> HIDE DEF list
  <2>4. \A k \in DOMAIN list : list[k] \in ItemType BY <2>3 DEF Collection
  <2>5. QED BY <2>3, <2>4 DEF ItemType
<1>6. server \in [Account -> Collection] BY StartAssumption DEF Init
<1>7. told \in Seq(Outcome) /\ Len(told) = writes /\ writes = 0 BY DEF Init
<1>8. status \in Account \cup {"resolving", "anonymous"} /\ expired \in BOOLEAN BY DEF Init, Auth!Init
<1>9. /\ epoch = 0 /\ attempt = 0 /\ live = Nothing /\ acc = Nothing /\ book = EmptyBook /\ orphans = {}
      /\ queued = <<>> /\ sent = {} /\ answers = {} /\ refused = 0 /\ last = <<>> /\ stray = {}
  BY DEF Init
<1>10. QED BY <1>3, <1>4, <1>5, <1>6, <1>7, <1>8, <1>9, EmptyFacts DEF TypeOK

(* What the parts of Known say of it. *)
LEMMA KnownType == ASSUME TypeOK PROVE Known \subseteq ItemType /\ Names(Known) \subseteq Nat \X Content
<1>1. ToSet(device) \subseteq ItemType /\ ToSet(stored.items) \subseteq ItemType BY FoundFacts DEF TypeOK, EnvelopeType
<1>2. \A a \in Account : ToSet(server[a]) \subseteq ItemType BY FoundFacts DEF TypeOK
<1>3. ASSUME NEW r \in Request PROVE ToSet(r.list) \subseteq ItemType /\ (r.kind = "create" => r.item \in ItemType)
  <2>1. CASE r \in LoadRequest BY <2>1, FoundFacts DEF LoadRequest
  <2>2. CASE r \in WriteRequest BY <2>2, EmptyFacts DEF WriteRequest
  <2>3. QED BY <2>1, <2>2 DEF Request
<1>4. \A r \in sent : ToSet(r.list) \subseteq ItemType /\ (r.kind = "create" => r.item \in ItemType)
  BY <1>3 DEF TypeOK
<1>5. \A i \in ToSet(book.intents) : i.item \in ItemType
  <2>1. ToSet(book.intents) \subseteq IntentType BY Members DEF TypeOK
  <2>2. QED BY <2>1 DEF IntentType
<1>6. Known \subseteq ItemType
  <2>1. OnServers \subseteq ItemType BY <1>2 DEF OnServers
  <2>2. Offered \subseteq ItemType BY <1>4 DEF Offered
  <2>3. Creating \subseteq ItemType BY <1>4 DEF Creating
  <2>4. Intended \subseteq ItemType BY <1>5 DEF Intended
  <2>5. QED BY <1>1, <2>1, <2>2, <2>3, <2>4 DEF Known
<1>7. QED BY <1>6 DEF Names, ItemType

(* Nothing new is named, or one new id is. *)
LEMMA NamesKept ==
  ASSUME NEW A, NEW B, A \subseteq B, B \subseteq Nat \X Content, Unambiguous(B),
         NEW n \in Nat, NEW m \in Nat, n <= m, Minted(B, n)
  PROVE  Unambiguous(A) /\ Minted(A, m)
<1>1. \A p \in B : p[1] \in Nat OBVIOUS
<1>2. QED BY <1>1, BoundsAssumption DEF Unambiguous, Minted

(* One new id is named, which no other item has. *)
LEMMA NamesMinted ==
  ASSUME NEW A, NEW B, NEW c, NEW n \in Nat, A \subseteq B \cup {<<n + 1, c>>}, B \subseteq Nat \X Content,
         Unambiguous(B), Minted(B, n), n < MaxWrites
  PROVE  Unambiguous(A) /\ Minted(A, n + 1)
<1> DEFINE new == <<n + 1, c>>
<1>1. \A p \in B : p[1] \in Nat OBVIOUS
<1>2. new[1] = n + 1 OBVIOUS
<1>3. \A p \in B : p[1] # n + 1 BY <1>1, BoundsAssumption DEF Minted
<1>4. A \subseteq B \cup {new} OBVIOUS
<1> HIDE DEF new
<1>5. Unambiguous(A) BY <1>2, <1>3, <1>4 DEF Unambiguous
<1>6. Minted(A, n + 1) BY <1>1, <1>2, <1>4, BoundsAssumption DEF Minted
<1>7. QED BY <1>5, <1>6

(* The start is sound: nothing is outstanding, and the items there are name what they name. *)
LEMMA InitInv == Init => Inv
<1> SUFFICES ASSUME Init PROVE Inv OBVIOUS
<1>1. TypeOK BY InitType
<1>2. /\ epoch = 0 /\ attempt = 0 /\ live = Nothing /\ acc = Nothing /\ book = EmptyBook
      /\ sent = {} /\ answers = {} /\ server = AccountItems /\ writes = 0
  BY DEF Init
<1>3. TokensFresh /\ GenerationAtWork /\ OneInFlight /\ WritesAreBooked /\ Confirmed
  BY <1>2, EmptyFacts DEF TokensFresh, GenerationAtWork, OneInFlight, WritesAreBooked, InFlight, Confirmed
<1>4. IntentsSound BY <1>2, EmptyFacts DEF IntentsSound
<1>5. ListsSound BY <1>2, EmptyFacts, StartAssumption DEF ListsSound, OneOfEach, OneOfId
<1>6. IdsSound
  <2>1. PICK s \in Stored :
          LET read == ReadCollection(s, ValidItem, Identity, Limit) IN
            device = read.items /\ stored = (IF read.recovered THEN Envelope(COLLECTION_VERSION, read.items) ELSE s)
    BY DEF Init
  <2>2. ToSet(device) \subseteq ToSet(s.items) BY <2>1, StartAssumption, ReadFacts
  <2>3. stored.items = device \/ stored = s BY <2>1 DEF Envelope
  <2>4. Known \subseteq AtStart
    <3>1. ToSet(book.intents) = {} BY <1>2, EmptyFacts
    <3>2. Offered = {} /\ Creating = {} /\ Intended = {} BY <1>2, <3>1 DEF Offered, Creating, Intended
    <3>3. ASSUME NEW x \in OnServers PROVE x \in AtStart
      <4>1. PICK a \in Account : x \in ToSet(server[a]) BY DEF OnServers
      <4>2. x \in ToSet(AccountItems[a]) BY <1>2, <4>1
      <4>3. QED BY <4>2 DEF AtStart
    <3>4. ToSet(s.items) \subseteq AtStart BY <2>1 DEF AtStart
    <3>5. ToSet(stored.items) \subseteq ToSet(s.items) BY <2>2, <2>3
    <3>6. QED BY <2>2, <3>2, <3>3, <3>4, <3>5 DEF Known
  <2>5. Known \subseteq ItemType BY <1>1, KnownType
  <2>6. \A x, y \in Known : x.id = y.id => x.content = y.content BY <2>4, StartAssumption
  <2>7. Unambiguous(Names(Known)) BY <2>6 DEF Unambiguous, Names
  <2>8. Minted(Names(Known), writes) BY <2>4, StartAssumption DEF Minted, Names
  <2>9. QED BY <2>7, <2>8 DEF IdsSound
<1>7. QED BY <1>1, <1>3, <1>4, <1>5, <1>6 DEF Inv

-----------------------------------------------------------------------------
(* Renders, and the clicks that change nothing of an account.              *)

(* The token a render computes. *)
LEMMA TokenFacts ==
  ASSUME TypeOK
  PROVE  /\ Authenticated => /\ Token \in Generation /\ Token # Nothing
                             /\ Token[1] = Auth!Effective /\ Token[2] = epoch /\ Token[3] = attempt
         /\ ~Authenticated => Token = Nothing
         /\ ~EffectsPending => live = Token
         /\ Nothing \notin Generation
<1>1. epoch \in Nat /\ attempt \in Nat BY DEF TypeOK
<1>2. Nothing \notin Generation BY NullsAssumption
<1>3. Authenticated => Token = <<Auth!Effective, epoch, attempt>> /\ Auth!Effective \in Account
  BY DEF Token, Authenticated
<1>4. Authenticated => Token \in Generation BY <1>1, <1>3 DEF Generation
<1>5. QED BY <1>2, <1>3, <1>4 DEF Token, EffectsPending

(* The parts of Inv that only depend on what a step leaves alone. *)
LEMMA QuietInv ==
  ASSUME Inv, TypeOK', UNCHANGED <<ui, live, stored, device, acc, book, net, server>>, writes <= writes'
  PROVE  Inv'
<1>1. /\ status' = status /\ expired' = expired /\ epoch' = epoch /\ attempt' = attempt /\ live' = live
      /\ stored' = stored /\ device' = device /\ acc' = acc /\ book' = book /\ sent' = sent /\ answers' = answers
      /\ server' = server
  BY DEF ui, session, net
<1>2. Token' = Token /\ EffectsPending' = EffectsPending /\ Current' = Current /\ InFlight' = InFlight /\ Known' = Known
  BY <1>1 DEF Token, Authenticated, EffectsPending, Current, InFlight, Known, Live, OnServers, Offered, Creating, Intended, Auth!Effective
<1>3. TokensFresh' BY <1>1, <1>2 DEF Inv, TokensFresh
<1>4. GenerationAtWork' /\ OneInFlight' BY <1>1 DEF Inv, GenerationAtWork, OneInFlight, Live
<1>5. WritesAreBooked' /\ IntentsSound' BY <1>1, <1>2 DEF Inv, WritesAreBooked, IntentsSound
<1>6. IdsSound'
  <2>1. Names(Known)' = Names(Known) BY <1>2 DEF Names
  <2>2. writes \in Nat /\ writes' \in Nat BY DEF Inv, TypeOK
  <2>3. Names(Known) \subseteq Nat \X Content BY KnownType DEF Inv
  <2>4. Unambiguous(Names(Known)) /\ Minted(Names(Known), writes) BY DEF Inv, IdsSound
  <2> DEFINE N == Names(Known)
  <2> HIDE DEF N
  <2>5. N \subseteq Nat \X Content /\ Unambiguous(N) /\ Minted(N, writes) BY <2>3, <2>4 DEF N
  <2>6. Unambiguous(N) /\ Minted(N, writes') BY <2>2, <2>5, NamesKept
  <2>7. QED BY <2>1, <2>6 DEF N, IdsSound
<1>7. ListsSound' BY <1>1 DEF Inv, ListsSound
<1>8. Confirmed' BY <1>1, <1>2 DEF Inv, Confirmed, Untouched
<1>9. QED BY <1>3, <1>4, <1>5, <1>6, <1>7, <1>8 DEF Inv

(* The session moves on, or the scout retries: the generation that comes has sent nothing. *)
LEMMA SessionInv ==
  ASSUME Inv, SessionChange \/ Retry
  PROVE  Inv'
<1> USE DEF Inv
<1>1. /\ live' = live /\ stored' = stored /\ device' = device /\ acc' = acc /\ book' = book /\ sent' = sent
      /\ answers' = answers /\ server' = server /\ writes' = writes /\ orphans' = orphans /\ queued' = queued
      /\ refused' = refused /\ told' = told /\ saved' = saved /\ last' = last /\ stray' = stray
  BY DEF SessionChange, Retry, net, history
<1>2. ~EffectsPending /\ live = Token BY DEF SessionChange, Retry, EffectsPending
<1>3. /\ status' \in Account \cup {"resolving", "anonymous"} /\ expired' \in BOOLEAN
      /\ epoch' \in Nat /\ attempt' \in Nat
  <2>1. CASE SessionChange
    <3>1. status' \in Account \cup {"resolving", "anonymous"} /\ expired' \in BOOLEAN
      BY <2>1 DEF SessionChange, Auth!Next, Auth!ResolveTimeout, Auth!ProviderSays, Auth!AuthStatus, TypeOK
    <3>2. epoch' \in Nat /\ attempt' \in Nat BY <2>1 DEF SessionChange, TypeOK
    <3>3. QED BY <3>1, <3>2
  <2>2. CASE Retry BY <2>2 DEF Retry, session, TypeOK
  <2>3. QED BY <2>1, <2>2
<1>4. TypeOK' BY <1>1, <1>3 DEF TypeOK
<1>5. TokensFresh'
  <2>1. /\ epoch \in Nat /\ attempt \in Nat /\ epoch <= epoch' /\ attempt <= attempt'
        /\ \/ epoch' = epoch + 1 \/ attempt' = attempt + 1
           \/ epoch' = epoch /\ attempt' = attempt /\ Auth!Effective' = Auth!Effective
    <3>1. epoch \in Nat /\ attempt \in Nat BY DEF TypeOK
    <3>2. CASE SessionChange BY <3>1, <3>2 DEF SessionChange
    <3>3. CASE Retry BY <3>1, <3>3 DEF Retry
    <3>4. QED BY <3>1, <3>2, <3>3
  <2>2. \A r \in sent : r.token \in Generation /\ r.token[2] <= epoch /\ r.token[3] <= attempt
                          /\ r.token[2] \in Nat /\ r.token[3] \in Nat
    <3>1. \A r \in sent : r.token \in Generation BY DEF TypeOK, Request, LoadRequest, WriteRequest
    <3>2. QED BY <3>1 DEF TokensFresh, Generation
  <2>3. live # Nothing => live[2] <= epoch /\ live[3] <= attempt /\ live[2] \in Nat /\ live[3] \in Nat
    BY DEF TypeOK, TokensFresh, Generation
  <2>4. \A r \in sent' : r.token[2] <= epoch' /\ r.token[3] <= attempt' BY <1>1, <1>3, <2>1, <2>2
  <2>5. live' # Nothing => live'[2] <= epoch' /\ live'[3] <= attempt' BY <1>1, <1>3, <2>1, <2>3
  <2>6. ASSUME EffectsPending', NEW r \in sent' PROVE r.token # Token'
    <3>1. CASE epoch' = epoch /\ attempt' = attempt /\ Auth!Effective' = Auth!Effective
      <4>1. Token' = Token BY <3>1 DEF Token, Authenticated
      <4>2. QED BY <1>1, <1>2, <2>6, <4>1 DEF EffectsPending
    <3>2. CASE epoch' = epoch + 1 \/ attempt' = attempt + 1
      <4>1. r.token \in Generation /\ r.token[2] <= epoch /\ r.token[3] <= attempt /\ r.token[2] \in Nat /\ r.token[3] \in Nat
        BY <1>1, <2>2
      <4>2. r.token # Nothing BY <4>1, NullsAssumption
      <4>3. Token' = Nothing \/ (Token'[2] = epoch' /\ Token'[3] = attempt') BY DEF Token
      <4>4. QED BY <2>1, <3>2, <4>1, <4>2, <4>3
    <3>3. QED BY <2>1, <3>1, <3>2
  <2>7. QED BY <2>4, <2>5, <2>6 DEF TokensFresh
<1>6. Current' = Current /\ InFlight' = InFlight /\ Known' = Known
  BY <1>1 DEF Current, InFlight, Known, Live, OnServers, Offered, Creating, Intended
<1>7. GenerationAtWork' /\ OneInFlight' BY <1>1 DEF GenerationAtWork, OneInFlight, Live
<1>8. WritesAreBooked' /\ IntentsSound' BY <1>1, <1>6 DEF WritesAreBooked, IntentsSound
<1>9. IdsSound' BY <1>1, <1>6 DEF IdsSound, Names, Unambiguous, Minted
<1>10. ListsSound' BY <1>1 DEF ListsSound
<1>11. Confirmed' BY <1>1, <1>6 DEF Confirmed, Untouched
<1>12. QED BY <1>4, <1>5, <1>7, <1>8, <1>9, <1>10, <1>11

(* What callers are told. *)
LEMMA ToldFacts ==
  ASSUME told \in Seq(Outcome), NEW ws, NEW what \in Outcome
  PROVE  /\ Tell(ws, what) \in Seq(Outcome) /\ Len(Tell(ws, what)) = Len(told)
         /\ Append(told, what) \in Seq(Outcome) /\ Len(Append(told, what)) = Len(told) + 1
<1> DEFINE t == Tell(ws, what)
           n == Len(told)
<1>1. n \in Nat /\ DOMAIN told = 1..n /\ \A w \in 1..n : told[w] \in Outcome OBVIOUS
<1>2. t = [w \in 1..n |-> IF w \in ws /\ told[w] = "awaited" THEN what ELSE told[w]] BY <1>1 DEF Tell
<1> HIDE DEF t, n
<1>3. t \in Seq(Outcome) /\ Len(t) = n BY <1>1, <1>2
<1>4. QED BY <1>3 DEF t, n

(* A click that leaves the collections alone. *)
LEMMA QuietClickInv ==
  ASSUME Inv, Click, QuietClick, NEW what \in Outcome, Answered(what),
         UNCHANGED <<stored, device, acc, saved>>, refused' \in Nat
  PROVE  Inv'
<1>1. writes \in Nat /\ told \in Seq(Outcome) /\ Len(told) = writes BY DEF Inv, TypeOK
<1>2. told' \in Seq(Outcome) /\ Len(told') = writes' /\ writes' \in Nat /\ writes <= writes'
  <2>1. told' = Append(told, what) /\ writes' = writes + 1 BY DEF Answered, Click
  <2>2. Append(told, what) \in Seq(Outcome) /\ Len(Append(told, what)) = Len(told) + 1 BY <1>1, ToldFacts
  <2>3. QED BY <1>1, <2>1, <2>2
<1>3. UNCHANGED <<ui, live, stored, device, acc, book, orphans, queued, net, server, saved, last, stray>>
  BY DEF QuietClick
<1>4. TypeOK' BY <1>2, <1>3 DEF Inv, TypeOK, ui, session, net
<1>5. UNCHANGED <<ui, live, stored, device, acc, book, net, server>> BY <1>3
<1>6. QED BY <1>2, <1>4, <1>5, QuietInv

(* A click that writes the device collection: it names what it named, and one new id perhaps. *)
LEMMA WriteDeviceInv ==
  ASSUME Inv, Click, QuietClick, OnDevice, NEW next \in Collection, NEW contents \in SUBSET Content, NEW what \in Outcome,
         NEW c, Names(ToSet(next)) \subseteq Names(ToSet(device)) \cup {<<writes + 1, c>>},
         WriteDevice(next, contents, what)
  PROVE  Inv'
<1>1. CASE /\ refused < MaxRefused /\ refused' = refused + 1 /\ Answered("failed")
           /\ UNCHANGED <<stored, device, acc, saved>>
  <2>1. refused' \in Nat BY <1>1 DEF Inv, TypeOK
  <2>2. "failed" \in Outcome BY DEF Outcome
  <2>3. QED BY <1>1, <2>1, <2>2, QuietClickInv
<1>2. CASE /\ stored' = Envelope(COLLECTION_VERSION, next) /\ device' = next
           /\ acc' = (IF Authenticated THEN [acc EXCEPT !.items = next] ELSE acc)
           /\ saved' = contents /\ Answered(what) /\ UNCHANGED refused
  <2> USE DEF Inv
  <2>1. writes \in Nat /\ told \in Seq(Outcome) /\ Len(told) = writes BY DEF TypeOK
  <2>2. told' \in Seq(Outcome) /\ Len(told') = writes' /\ writes' \in Nat
    <3>1. told' = Append(told, what) /\ writes' = writes + 1 BY <1>2 DEF Answered, Click
    <3>2. Append(told, what) \in Seq(Outcome) /\ Len(Append(told, what)) = Len(told) + 1 BY <2>1, ToldFacts
    <3>3. QED BY <2>1, <3>1, <3>2
  <2>3. /\ status' = status /\ expired' = expired /\ epoch' = epoch /\ attempt' = attempt /\ live' = live
        /\ book' = book /\ orphans' = orphans /\ queued' = queued /\ sent' = sent /\ answers' = answers
        /\ server' = server /\ last' = last /\ stray' = stray
    BY DEF QuietClick, ui, session, net
  <2>4. stored' \in EnvelopeType /\ stored'.items = next BY <1>2 DEF Envelope, EnvelopeType, COLLECTION_VERSION
  <2>5. acc' \in AccountState \cup {Nothing} /\ (acc = Nothing <=> acc' = Nothing)
        /\ (acc # Nothing => acc'.token = acc.token /\ acc'.account = acc.account /\ acc'.origin = acc.origin)
        /\ (acc'.origin # "server" \/ acc' = acc)
    <3>1. CASE ~Authenticated BY <1>2, <3>1 DEF TypeOK
    <3>2. CASE Authenticated
      <4>1. acc # Nothing /\ acc.origin = "device" BY <3>2 DEF OnDevice, Visible
      <4>2. acc \in AccountState BY <4>1 DEF TypeOK
      <4>3. acc' = [acc EXCEPT !.items = next] BY <1>2, <3>2
      <4>4. acc' \in AccountState /\ acc'.token = acc.token /\ acc'.account = acc.account /\ acc'.origin = acc.origin
        BY <4>2, <4>3 DEF AccountState
      <4>5. acc' # Nothing BY <4>4, NullsAssumption
      <4>6. QED BY <4>1, <4>4, <4>5
    <3>3. QED BY <3>1, <3>2
  <2>6. TypeOK' BY <1>2, <2>2, <2>3, <2>4, <2>5 DEF TypeOK
  <2>7. Token' = Token /\ EffectsPending' = EffectsPending /\ InFlight' = InFlight
    BY <2>3 DEF Token, Authenticated, EffectsPending, InFlight, Live, Auth!Effective
  <2>8. TokensFresh' BY <2>3, <2>7 DEF TokensFresh
  <2>9. GenerationAtWork' BY <2>3, <2>5 DEF GenerationAtWork
  <2>10. OneInFlight' BY <2>3 DEF OneInFlight, Live
  <2>11. WritesAreBooked' /\ IntentsSound' BY <2>3, <2>7 DEF WritesAreBooked, IntentsSound
  <2>12. ListsSound' BY <2>3 DEF ListsSound
  <2>13. Confirmed'
    <3>1. CASE acc' = acc
      <4>1. Current' = Current BY <2>3, <3>1 DEF Current
      <4>2. QED BY <2>3, <3>1, <4>1 DEF Confirmed, Untouched
    <3>2. CASE acc'.origin # "server" BY <3>2 DEF Confirmed
    <3>3. QED BY <2>5, <3>1, <3>2
  <2>14. IdsSound'
    <3>1. Known' = ToSet(next) \cup (OnServers \cup Offered \cup Creating \cup Intended)
      BY <1>2, <2>3, <2>4 DEF Known, OnServers, Offered, Creating, Intended
    <3>2. Names(Known') = Names(ToSet(next)) \cup Names(OnServers \cup Offered \cup Creating \cup Intended)
      BY <3>1 DEF Names
    <3>3. Names(ToSet(device)) \subseteq Names(Known) /\ Names(OnServers \cup Offered \cup Creating \cup Intended) \subseteq Names(Known)
      BY DEF Names, Known
    <3> DEFINE N == Names(Known)
               M == Names(Known')
    <3>4. M \subseteq N \cup {<<writes + 1, c>>} BY <3>2, <3>3
    <3>5. N \subseteq Nat \X Content BY KnownType
    <3>6. Unambiguous(N) /\ Minted(N, writes) BY DEF IdsSound
    <3>7. writes < MaxWrites /\ writes' = writes + 1 BY DEF Click
    <3>8. IdsSound' <=> Unambiguous(M) /\ Minted(M, writes') BY DEF IdsSound
    <3> HIDE DEF N, M
    <3>9. Unambiguous(M) /\ Minted(M, writes + 1) BY <2>1, <3>4, <3>5, <3>6, <3>7, NamesMinted
    <3>10. QED BY <3>7, <3>8, <3>9
  <2>15. QED BY <2>6, <2>8, <2>9, <2>10, <2>11, <2>12, <2>13, <2>14
<1>3. QED BY <1>1, <1>2 DEF WriteDevice

(* The labels a scout types are labels. *)
LEMMA SaveOnDeviceInv ==
  ASSUME Inv, NEW c \in Content, NEW l \in Label, SaveOnDevice(c, l)
  PROVE  Inv'
<1> DEFINE x == Item(writes + 1, c, l)
           up == UpsertByIdentity(device, x, Identity)
           what == up.disposition
           next == up.items
           contents == saved \cup {c}
<1>1. writes \in Nat /\ device \in Collection /\ refused \in Nat /\ saved \subseteq Content BY DEF Inv, TypeOK
<1>2. x \in ItemType /\ Names({x}) = {<<writes + 1, c>>} BY <1>1 DEF Item, ItemType, Names
<1>3. Click /\ OnDevice /\ QuietClick
      /\ IF up.disposition = "unchanged" THEN NoDeviceChange("unchanged") ELSE WriteDevice(next, contents, what)
  BY DEF SaveOnDevice
<1> HIDE DEF x
<1>4. /\ next \in Collection
      /\ Names(ToSet(next)) \subseteq Names(ToSet(device)) \cup Names({x})
      /\ what \in {"created", "unchanged", "updated"}
  BY <1>1, <1>2, UpsertFacts
<1> HIDE DEF up
<1>5. CASE what = "unchanged"
  <2>1. NoDeviceChange("unchanged") BY <1>3, <1>5
  <2>2. "unchanged" \in Outcome /\ refused' \in Nat BY <1>1, <2>1 DEF Outcome, NoDeviceChange
  <2>3. Answered("unchanged") /\ UNCHANGED <<stored, device, acc, saved>> BY <2>1 DEF NoDeviceChange
  <2>4. QED BY <1>3, <2>2, <2>3, QuietClickInv
<1>6. CASE what # "unchanged"
  <2>1. WriteDevice(next, contents, what) BY <1>3, <1>6
  <2>2. what \in Outcome /\ contents \in SUBSET Content BY <1>1, <1>4 DEF Outcome
  <2> HIDE DEF what, next, contents
  <2>3. Names(ToSet(next)) \subseteq Names(ToSet(device)) \cup {<<writes + 1, c>>} BY <1>2, <1>4
  <2>4. QED BY <1>3, <1>4, <2>1, <2>2, <2>3, WriteDeviceInv
<1>7. QED BY <1>5, <1>6

(* A rename on the device names no other item. *)
LEMMA RenameOnDeviceInv ==
  ASSUME Inv, NEW id \in Nat, NEW l \in Label, RenameOnDevice(id, l)
  PROVE  Inv'
<1> DEFINE next == Relabelled(device, id, l)
<1>1. writes \in Nat /\ device \in Collection /\ refused \in Nat /\ saved \in SUBSET Content BY DEF Inv, TypeOK
<1>2. Click /\ OnDevice /\ QuietClick
      /\ IF next = device THEN NoDeviceChange("unchanged") ELSE WriteDevice(next, saved, "updated")
  BY DEF RenameOnDevice
<1>3. next \in Collection /\ Names(ToSet(next)) = Names(ToSet(device)) BY <1>1, RelabelledFacts
<1> HIDE DEF next
<1>4. "unchanged" \in Outcome /\ "updated" \in Outcome BY DEF Outcome
<1>5. CASE next = device
  <2>1. NoDeviceChange("unchanged") BY <1>2, <1>5
  <2>2. refused' \in Nat BY <1>1, <2>1 DEF NoDeviceChange
  <2>3. Answered("unchanged") /\ UNCHANGED <<stored, device, acc, saved>> BY <2>1 DEF NoDeviceChange
  <2>4. QED BY <1>2, <1>4, <2>2, <2>3, QuietClickInv
<1>6. CASE next # device
  <2>1. WriteDevice(next, saved, "updated") BY <1>2, <1>6
  <2>2. Names(ToSet(next)) \subseteq Names(ToSet(device)) \cup {<<writes + 1, 0>>} BY <1>3
  <2>3. QED BY <1>1, <1>2, <1>3, <1>4, <2>1, <2>2, WriteDeviceInv
<1>7. QED BY <1>5, <1>6

(* Nor does a removal. *)
LEMMA RemoveOnDeviceInv ==
  ASSUME Inv, NEW id \in Nat, RemoveOnDevice(id)
  PROVE  Inv'
<1> DEFINE next == WithoutItem(device, id)
           contents == saved \ { i.content : i \in Find(device, id) }
<1>1. writes \in Nat /\ device \in Collection /\ saved \in SUBSET Content BY DEF Inv, TypeOK
<1>2. Click /\ OnDevice /\ QuietClick /\ WriteDevice(next, contents, "removed") BY DEF RemoveOnDevice
<1>3. next \in Collection /\ ToSet(next) = { x \in ToSet(device) : x.id # id } BY <1>1, WithoutItemFacts
<1>4. contents \in SUBSET Content /\ "removed" \in Outcome BY <1>1 DEF Outcome
<1> HIDE DEF next, contents
<1>5. Names(ToSet(next)) \subseteq Names(ToSet(device)) \cup {<<writes + 1, 0>>} BY <1>3 DEF Names
<1>6. QED BY <1>2, <1>3, <1>4, <1>5, WriteDeviceInv

(* A click while the account is loading fails, and changes nothing. *)
LEMMA WhileSyncingInv == ASSUME Inv, WhileSyncing PROVE Inv'
<1>1. Click /\ QuietClick /\ Answered("failed") /\ UNCHANGED <<stored, device, acc, saved>> /\ refused' = refused
  BY DEF WhileSyncing, NoDeviceChange
<1>2. refused' \in Nat /\ "failed" \in Outcome BY <1>1 DEF Inv, TypeOK, Outcome
<1>3. QED BY <1>1, <1>2, QuietClickInv

(* A write of a replaced book is told so. *)
LEMMA AbandonInv == ASSUME Inv, NEW w \in orphans, Abandon(w) PROVE Inv'
<1>1. /\ UNCHANGED <<ui, live, stored, device, acc, book, queued, net, server, writes, refused, history>>
      /\ orphans' = orphans \ {w} /\ told' = Tell({w}, "superseded")
  BY DEF Abandon
<1>2. told' \in Seq(Outcome) /\ Len(told') = Len(told)
  <2>1. told \in Seq(Outcome) /\ "superseded" \in Outcome BY DEF Inv, TypeOK, Outcome
  <2>2. Tell({w}, "superseded") \in Seq(Outcome) /\ Len(Tell({w}, "superseded")) = Len(told) BY <2>1, ToldFacts
  <2>3. QED BY <1>1, <2>2
<1>3. TypeOK' BY <1>1, <1>2 DEF Inv, TypeOK, ui, session, net, history
<1>4. writes <= writes' BY <1>1 DEF Inv, TypeOK
<1>5. UNCHANGED <<ui, live, stored, device, acc, book, net, server>> BY <1>1
<1>6. QED BY <1>3, <1>4, <1>5, QuietInv

-----------------------------------------------------------------------------
(* Clicks on the account collection.                                       *)

(* What an account click is made on. *)
LEMMA AtWorkFacts ==
  ASSUME Inv, Click, OnAccount
  PROVE  /\ live = Token /\ live # Nothing /\ live \in Generation
         /\ acc # Nothing /\ acc \in AccountState /\ acc.token = live
         /\ writes \in Nat /\ writes < MaxWrites /\ writes' = writes + 1
         /\ Shown \in Collection
<1>1. Authenticated /\ acc # Nothing BY DEF OnAccount, Visible
<1>2. live = Token /\ Token # Nothing /\ Token \in Generation BY <1>1, TokenFacts DEF Click, EffectsPending, Inv
<1>3. acc \in AccountState BY <1>1 DEF Inv, TypeOK
<1>4. Shown \in Collection BY <1>3, EmptyFacts DEF Shown, AccountState
<1>5. acc.token = live BY <1>2 DEF Inv, GenerationAtWork
<1>6. QED BY <1>1, <1>2, <1>3, <1>4, <1>5 DEF Click, Inv, TypeOK

(* A write of an item: one intent for it, and no other item on screen is touched. *)
LEMMA AccountWriteInv ==
  ASSUME Inv, Click, OnAccount, NEW d \in DraftType, WellFormed(d), AccountWrite(d),
         d.kind = "create" => d.id = writes + 1
  PROVE  Inv'
<1> USE DEF Inv
<1> DEFINE w == writes + 1
           held == { i \in book.canonical : i.id = d.id }
           base == RollbackBaseline(d)
           intent == [kind |-> d.kind, id |-> d.id, item |-> d.item, label |-> d.label, at |-> d.at, write |-> w,
                      baseline |-> base]
           replaced == { i.write : i \in IntentOf(book.intents, d.id) }
           shown == IF acc.items = Unknown THEN <<>> ELSE acc.items
           applied == ApplyOptimistically(shown, d)
           intents == SetIntent(book.intents, intent)
<1>1. /\ live = Token /\ live # Nothing /\ live \in Generation
      /\ acc # Nothing /\ acc \in AccountState /\ acc.token = live
      /\ writes \in Nat /\ writes < MaxWrites /\ writes' = writes + 1
      /\ Shown \in Collection
  BY AtWorkFacts
<1>2. /\ book' = [book EXCEPT !.intents = intents]
      /\ told' = Append(Tell(replaced, "superseded"), "awaited")
      /\ acc' = [acc EXCEPT !.items = applied, !.pending = @ \cup {d.id}, !.error = FALSE]
      /\ queued' = With(queued, d.id, IF d.id \in DOMAIN queued THEN queued[d.id] + 1 ELSE 1)
      /\ last' = With(last, d.id, [d EXCEPT !.at = w])
  BY DEF AccountWrite
<1>3. /\ status' = status /\ expired' = expired /\ epoch' = epoch /\ attempt' = attempt /\ live' = live
      /\ stored' = stored /\ device' = device /\ orphans' = orphans /\ sent' = sent /\ answers' = answers
      /\ server' = server /\ refused' = refused /\ saved' = saved /\ stray' = stray
  BY DEF AccountWrite, ui, session, net
<1>4. /\ d.kind \in {"create", "rename", "remove"} /\ d.id \in Nat /\ d.item \in ItemType
      /\ d.label \in Label \cup {Nothing} /\ d.at \in Nat
  BY DEF DraftType
<1>5. book.canonical \subseteq ItemType /\ OneOfId(book.canonical) /\ book.intents \in Seq(IntentType)
      /\ OneIntentEach(book.intents)
  BY DEF TypeOK, ListsSound, IntentsSound
<1>6. /\ base \in ItemType \cup {Nothing}
      /\ book.adopted => {base} \ {Nothing} = held
      /\ ~book.adopted => base = IF d.kind = "create" THEN Nothing ELSE d.item
  <2>1. CASE ~book.adopted BY <1>4, <2>1 DEF RollbackBaseline, QueuedAgainst
  <2>2. CASE book.adopted /\ held = {} BY <2>2 DEF RollbackBaseline
  <2>3. CASE book.adopted /\ held # {}
    <3>1. PICK x \in held : TRUE BY <2>3
    <3>2. held = {x} BY <1>5, <3>1 DEF OneOfId
    <3>3. base = CHOOSE i \in held : TRUE BY <2>3 DEF RollbackBaseline
    <3>4. base = x BY <3>2, <3>3
    <3>5. x \in ItemType /\ x # Nothing BY <1>5, <3>1, NullsAssumption
    <3> HIDE DEF base, held
    <3>6. QED BY <2>3, <3>2, <3>4, <3>5
  <2>4. QED BY <2>1, <2>2, <2>3
<1> HIDE DEF base
<1>7. /\ intent \in IntentType /\ intent.id = d.id /\ WellFormed(intent) /\ intent.baseline = base
      /\ intent.kind = d.kind /\ intent.item = d.item
  BY <1>1, <1>4, <1>6 DEF IntentType, WellFormed
<1> HIDE DEF intent
<1>8. /\ intents \in Seq(IntentType)
      /\ ToSet(intents) = { j \in ToSet(book.intents) : j.id # d.id } \cup {intent}
      /\ OneIntentEach(intents)
  BY <1>5, <1>7, SetIntentFacts
<1>9. shown \in Collection /\ (acc.items # Unknown => shown = acc.items) BY <1>1 DEF Shown
<1> HIDE DEF shown, intents
<1>10. applied \in Collection /\ \A k \in Nat : k # d.id => Find(applied, k) = Find(shown, k)
  BY <1>4, <1>9, AppliedFacts DEF WellFormed
<1> HIDE DEF applied
<1>11. /\ acc' \in AccountState /\ acc'.items = applied /\ acc'.token = acc.token /\ acc'.account = acc.account
       /\ acc'.origin = acc.origin /\ acc' # Nothing /\ applied # Unknown
  <2>1. acc' \in AccountState /\ acc'.items = applied /\ acc'.token = acc.token /\ acc'.account = acc.account
        /\ acc'.origin = acc.origin
    BY <1>1, <1>2, <1>4, <1>10 DEF AccountState
  <2>2. QED BY <2>1, <1>10, NullsAssumption
<1>12. book' \in [intents : Seq(IntentType), canonical : SUBSET ItemType, adopted : BOOLEAN]
       /\ book'.intents = intents /\ book'.canonical = book.canonical /\ book'.adopted = book.adopted
  BY <1>2, <1>8 DEF TypeOK
<1>13. told' \in Seq(Outcome) /\ Len(told') = writes'
  <2>1. told \in Seq(Outcome) /\ Len(told) = writes /\ "superseded" \in Outcome /\ "awaited" \in Outcome BY DEF TypeOK, Outcome
  <2>2. Tell(replaced, "superseded") \in Seq(Outcome) /\ Len(Tell(replaced, "superseded")) = writes BY <2>1, ToldFacts
  <2> DEFINE t == Tell(replaced, "superseded")
  <2> HIDE DEF t
  <2>3. t \in Seq(Outcome) /\ Len(t) = writes /\ told' = Append(t, "awaited") BY <1>2, <2>2 DEF t
  <2>4. QED BY <1>1, <2>1, <2>3
<1>14. DOMAIN queued' \subseteq Nat /\ \A id \in DOMAIN queued' : queued'[id] \in Nat
  BY <1>2, <1>4 DEF TypeOK, With
<1>15. DOMAIN last' \subseteq Nat /\ \A id \in DOMAIN last' : last'[id] \in DraftType
  <2>1. [d EXCEPT !.at = w] \in DraftType BY <1>1 DEF DraftType
  <2>2. QED BY <1>2, <1>4, <2>1 DEF TypeOK, With
<1>16. TypeOK' BY <1>1, <1>3, <1>11, <1>12, <1>13, <1>14, <1>15 DEF TypeOK
<1>17. Token' = Token /\ EffectsPending' = EffectsPending /\ InFlight' = InFlight
  BY <1>3 DEF Token, Authenticated, EffectsPending, InFlight, Live, Auth!Effective
<1>18. TokensFresh' BY <1>3, <1>17 DEF TokensFresh
<1>19. GenerationAtWork' BY <1>1, <1>3, <1>11 DEF GenerationAtWork
<1>20. OneInFlight' BY <1>3 DEF OneInFlight, Live
<1>21. \A id : IntentOf(intents, id) = {} => id # d.id /\ IntentOf(book.intents, id) = {}
  BY <1>7, <1>8 DEF IntentOf
<1>22. WritesAreBooked' BY <1>12, <1>17, <1>21 DEF WritesAreBooked
<1>23. IntentsSound'
  <2>1. RollsBack(intent, book) BY <1>6, <1>7 DEF RollsBack
  <2>2. \A i : RollsBack(i, book') <=> RollsBack(i, book) BY <1>12 DEF RollsBack
  <2>3. QED BY <1>7, <1>8, <1>12, <2>1, <2>2 DEF IntentsSound
<1>24. ListsSound' BY <1>3, <1>12 DEF ListsSound
<1>25. Confirmed'
  <2>1. Current' = Current BY <1>1, <1>3, <1>11 DEF Current
  <2>2. ASSUME acc.origin = "server", Current, NEW id \in Nat, IntentOf(intents, id) = {}
        PROVE  Find(applied, id) = { x \in book.canonical : x.id = id }
    <3>1. acc.items # Unknown /\ Untouched(acc.items, id) BY <1>1, <1>21, <2>2 DEF Confirmed
    <3>2. QED BY <1>9, <1>10, <1>21, <2>2, <3>1 DEF Untouched
  <2>3. acc.origin = "server" /\ Current => book.adopted BY <1>1 DEF Confirmed
  <2>4. QED BY <1>11, <1>12, <2>1, <2>2, <2>3 DEF Confirmed, Untouched
<1>26. IdsSound'
  <2>1. OnServers' = OnServers /\ Offered' = Offered /\ Creating' = Creating BY <1>3 DEF OnServers, Offered, Creating
  <2>2. Intended' \subseteq Intended \cup { x \in {d.item} : d.kind = "create" } BY <1>7, <1>8, <1>12 DEF Intended
  <2>3. d.kind = "create" => Names({d.item}) = {<<writes + 1, d.item.content>>} BY DEF Names, WellFormed
  <2> DEFINE N == Names(Known)
             M == Names(Known')
             c == d.item.content
  <2>4. Known' \subseteq Known \cup { x \in {d.item} : d.kind = "create" } BY <1>3, <2>1, <2>2 DEF Known
  <2>5. M \subseteq N \cup {<<writes + 1, c>>} BY <2>3, <2>4 DEF Names
  <2>6. N \subseteq Nat \X Content BY KnownType
  <2>7. Unambiguous(N) /\ Minted(N, writes) BY DEF IdsSound
  <2>8. IdsSound' <=> Unambiguous(M) /\ Minted(M, writes') BY DEF IdsSound
  <2> HIDE DEF N, M, c
  <2>9. Unambiguous(M) /\ Minted(M, writes + 1) BY <1>1, <2>5, <2>6, <2>7, NamesMinted
  <2>10. QED BY <1>1, <2>8, <2>9
<1>27. QED BY <1>16, <1>18, <1>19, <1>20, <1>22, <1>23, <1>24, <1>25, <1>26

(* A click that finds the account as it wants it. *)
LEMMA AccountUnchangedInv == ASSUME Inv, Click, AccountUnchanged PROVE Inv'
<1>1. QuietClick /\ Answered("unchanged") /\ UNCHANGED <<stored, device, acc, saved>> /\ refused' = refused
  BY DEF AccountUnchanged
<1>2. refused' \in Nat /\ "unchanged" \in Outcome BY <1>1 DEF Inv, TypeOK, Outcome
<1>3. QED BY <1>1, <1>2, QuietClickInv

(* A save of a new content has an id of its own; of one on screen, it is a rename of that item. *)
LEMMA SaveToAccountInv ==
  ASSUME Inv, NEW c \in Content, NEW l \in Label, SaveToAccount(c, l)
  PROVE  Inv'
<1> DEFINE at == IndexOf(Shown, LAMBDA i : Identity(i) = c)
           new == Item(writes + 1, c, l)
           create == Draft("create", new.id, new, l, 0)
           rename == Draft("rename", Shown[at].id, Shown[at], l, 0)
<1>1. /\ Click /\ OnAccount
      /\ IF at = 0 THEN AccountWrite(create) ELSE IF Shown[at].label = l THEN AccountUnchanged ELSE AccountWrite(rename)
  BY DEF SaveToAccount
<1>2. writes \in Nat /\ Shown \in Collection BY <1>1, AtWorkFacts
<1>3. at = 0 \/ at \in DOMAIN Shown
  <2> DEFINE T == { i \in DOMAIN Shown : Identity(Shown[i]) = c }
  <2>1. at = IF T = {} THEN 0 ELSE CHOOSE i \in T : \A j \in T : i <= j BY DEF IndexOf
  <2>2. T \subseteq DOMAIN Shown /\ T \subseteq Nat BY <1>2 DEF Collection
  <2> HIDE DEF T
  <2>3. T # {} => \E i \in T : \A j \in T : i <= j BY <2>2, LeastNumber
  <2>4. QED BY <1>1, <2>1, <2>2, <2>3
<1> HIDE DEF at
<1>4. new \in ItemType /\ new.id = writes + 1 BY <1>2 DEF Item, ItemType
<1> HIDE DEF new
<1>5. CASE at = 0
  <2>1. create \in DraftType BY <1>2, <1>4 DEF Draft, DraftType
  <2>2. WellFormed(create) /\ create.id = writes + 1 BY <1>4 DEF Draft, WellFormed
  <2>3. AccountWrite(create) BY <1>1, <1>5
  <2> HIDE DEF create
  <2>4. QED BY <1>1, <2>1, <2>2, <2>3, AccountWriteInv
<1>6. CASE at # 0 /\ Shown[at].label = l
  <2>1. AccountUnchanged BY <1>1, <1>6
  <2>2. QED BY <1>1, <2>1, AccountUnchangedInv
<1>7. CASE at # 0 /\ Shown[at].label # l
  <2>1. Shown[at] \in ItemType BY <1>2, <1>3, <1>7 DEF Collection
  <2>2. rename \in DraftType BY <2>1 DEF Draft, DraftType, ItemType
  <2>3. WellFormed(rename) /\ rename.kind # "create" BY DEF Draft, WellFormed
  <2>4. AccountWrite(rename) BY <1>1, <1>7
  <2> HIDE DEF rename
  <2>5. QED BY <1>1, <2>2, <2>3, <2>4, AccountWriteInv
<1>8. QED BY <1>5, <1>6, <1>7

(* A rename of an item on screen. *)
LEMMA RenameInAccountInv ==
  ASSUME Inv, NEW id \in Nat, NEW l \in Label, RenameInAccount(id, l)
  PROVE  Inv'
<1>1. Click /\ OnAccount BY DEF RenameInAccount
<1>2. Shown \in Collection BY <1>1, AtWorkFacts
<1>3. PICK i \in Find(Shown, id) :
        IF i.label = l THEN AccountUnchanged ELSE AccountWrite(Draft("rename", id, i, l, 0))
  BY DEF RenameInAccount
<1>4. i \in ItemType /\ i.id = id BY <1>2, FoundFacts
<1> DEFINE rename == Draft("rename", id, i, l, 0)
<1>5. rename \in DraftType BY <1>4 DEF Draft, DraftType
<1>6. WellFormed(rename) /\ rename.kind # "create" BY <1>4 DEF Draft, WellFormed
<1>7. AccountUnchanged \/ AccountWrite(rename) BY <1>3
<1> HIDE DEF rename
<1>8. CASE AccountUnchanged BY <1>1, <1>8, AccountUnchangedInv
<1>9. CASE AccountWrite(rename) BY <1>1, <1>5, <1>6, <1>9, AccountWriteInv
<1>10. QED BY <1>7, <1>8, <1>9

(* A removal remembers a place that is on the list. *)
LEMMA RemoveFromAccountInv ==
  ASSUME Inv, NEW id \in Nat, RemoveFromAccount(id)
  PROVE  Inv'
<1> DEFINE at == IndexOf(Shown, LAMBDA i : i.id = id)
           remove == Draft("remove", id, Shown[at], Nothing, at)
<1>1. Click /\ OnAccount /\ at # 0 /\ AccountWrite(remove) BY DEF RemoveFromAccount
<1>2. Shown \in Collection BY <1>1, AtWorkFacts
<1>3. at \in DOMAIN Shown /\ Shown[at].id = id
  <2> DEFINE T == { i \in DOMAIN Shown : Shown[i].id = id }
  <2>1. at = IF T = {} THEN 0 ELSE CHOOSE i \in T : \A j \in T : i <= j BY DEF IndexOf
  <2>2. T \subseteq DOMAIN Shown /\ T \subseteq Nat BY <1>2 DEF Collection
  <2>5. \A i \in T : i \in DOMAIN Shown /\ Shown[i].id = id OBVIOUS
  <2> HIDE DEF T
  <2>3. T # {} => \E i \in T : \A j \in T : i <= j BY <2>2, LeastNumber
  <2>4. QED BY <1>1, <2>1, <2>3, <2>5
<1> HIDE DEF at
<1>4. Shown[at] \in ItemType /\ at \in Nat /\ at >= 1 BY <1>2, <1>3 DEF Collection
<1>5. remove \in DraftType BY <1>4 DEF Draft, DraftType
<1>6. WellFormed(remove) /\ remove.kind # "create" BY <1>3, <1>4 DEF Draft, WellFormed
<1> HIDE DEF remove
<1>7. QED BY <1>1, <1>5, <1>6, AccountWriteInv

-----------------------------------------------------------------------------
(* Effects, hops, and the server.                                          *)

(* A step that names nothing new. *)
LEMMA IdsKept ==
  ASSUME Inv, writes' = writes, Names(Known)' \subseteq Names(Known)
  PROVE  IdsSound'
<1> DEFINE N == Names(Known)
           M == Names(Known')
<1>1. writes \in Nat /\ N \subseteq Nat \X Content BY KnownType DEF Inv, TypeOK
<1>2. Unambiguous(N) /\ Minted(N, writes) BY DEF Inv, IdsSound
<1>3. M \subseteq N BY DEF Names
<1>4. IdsSound' <=> Unambiguous(M) /\ Minted(M, writes') BY DEF IdsSound
<1> HIDE DEF N, M
<1>5. Unambiguous(M) /\ Minted(M, writes) BY <1>1, <1>2, <1>3, NamesKept
<1>6. QED BY <1>4, <1>5

(* The requests there are. *)
LEMMA RequestFacts ==
  ASSUME NEW r \in Request
  PROVE  /\ r.token \in Generation /\ r.account \in Account /\ r.list \in Collection
         /\ r.token[2] \in Nat /\ r.token[3] \in Nat /\ r.token # Nothing
         /\ r.kind \in {"load", "merge", "create", "rename", "remove"}
         /\ r.kind \in {"load", "merge"} => r.id = Nothing
         /\ r.kind \notin {"load", "merge"} => r.id \in Nat /\ r.id # Nothing /\ r.item \in ItemType /\ r.write \in Nat
<1>1. CASE r \in LoadRequest BY <1>1, NullsAssumption DEF LoadRequest, Generation
<1>2. CASE r \in WriteRequest
  <2>1. r.list = <<>> BY <1>2 DEF WriteRequest
  <2>2. QED BY <1>2, <2>1, EmptyFacts, NullsAssumption DEF WriteRequest, Generation
<1>3. QED BY <1>1, <1>2 DEF Request

(* The effects of a render: the load of the new generation is all that is on its way. *)
LEMMA RunEffectsInv == ASSUME Inv, RunEffects PROVE Inv'
<1> USE DEF Inv
<1> DEFINE retained == ReadDevice.items
           load == [kind |-> IF retained # <<>> THEN "merge" ELSE "load", account |-> Token[1],
                    token |-> Token, id |-> Nothing, item |-> Nothing, label |-> Nothing,
                    list |-> retained, write |-> 0]
           outstanding == { i.write : i \in ToSet(book.intents) }
<1>1. /\ EffectsPending /\ live' = Token /\ book' = EmptyBook /\ queued' = <<>> /\ answers' = {}
      /\ \/ told' = Tell(outstanding \cup orphans, "superseded") /\ orphans' = {}
         \/ orphans' = orphans \cup outstanding /\ told' = told
      /\ Authenticated => acc' = [account |-> Token[1], token |-> Token,
                           items |-> IF retained # <<>> THEN retained ELSE Unknown,
                           origin |-> IF retained # <<>> THEN "device" ELSE "unknown",
                           loading |-> TRUE, pending |-> {}, error |-> FALSE]
                          /\ sent' = sent \cup {load}
      /\ ~Authenticated => acc' = acc /\ sent' = sent
      /\ last' = <<>> /\ stray' = {}
  BY DEF RunEffects
<1>2. /\ status' = status /\ expired' = expired /\ epoch' = epoch /\ attempt' = attempt
      /\ stored' = stored /\ device' = device /\ server' = server /\ writes' = writes /\ refused' = refused /\ saved' = saved
  BY DEF RunEffects, ui, session
<1>3. stored \in EnvelopeType BY DEF TypeOK
<1>4. retained \in Collection /\ OneOfEach(retained) /\ ToSet(retained) \subseteq ToSet(stored.items)
  BY <1>3, ReadFacts DEF ReadDevice
<1> HIDE DEF retained
<1>5. /\ Authenticated => /\ Token \in Generation /\ Token # Nothing /\ Token[1] \in Account
                          /\ Token[2] = epoch /\ Token[3] = attempt
      /\ ~Authenticated => Token = Nothing
  BY TokenFacts DEF Authenticated
<1>6. Authenticated => /\ load \in Request /\ load.token = Token /\ load.kind \in {"load", "merge"}
                       /\ load.list = retained /\ load.id = Nothing
  BY <1>4, <1>5 DEF Request, LoadRequest
<1>7. /\ Authenticated => acc' \in AccountState /\ acc' # Nothing /\ acc'.token = Token /\ acc'.account = Token[1]
                          /\ acc'.origin # "server" /\ acc'.loading = TRUE
      /\ ~Authenticated => acc' \in AccountState \cup {Nothing} /\ acc' = acc
  <2>1. CASE Authenticated
    <3> DEFINE items == IF retained # <<>> THEN retained ELSE Unknown
               origin == IF retained # <<>> THEN "device" ELSE "unknown"
    <3>1. items \in Collection \cup {Unknown} /\ origin \in {"server", "device", "unknown"} /\ origin # "server"
      BY <1>4
    <3>2. acc' = [account |-> Token[1], token |-> Token, items |-> items, origin |-> origin,
                  loading |-> TRUE, pending |-> {}, error |-> FALSE]
      BY <1>1, <2>1
    <3> HIDE DEF items, origin
    <3>3. acc' \in AccountState /\ acc'.token = Token /\ acc'.account = Token[1] /\ acc'.origin # "server" /\ acc'.loading = TRUE
      BY <1>5, <2>1, <3>1, <3>2 DEF AccountState
    <3>4. QED BY <2>1, <3>3, NullsAssumption
  <2>2. CASE ~Authenticated BY <1>1, <2>2 DEF TypeOK
  <2>3. QED BY <2>1, <2>2
<1> HIDE DEF load
<1>8. TypeOK'
  <2>1. \A i \in ToSet(book.intents) : i.write \in Nat
    <3>1. ToSet(book.intents) \subseteq IntentType BY Members DEF TypeOK
    <3>2. QED BY <3>1 DEF IntentType
  <2>2. outstanding \subseteq Nat BY <2>1
  <2>3. told' \in Seq(Outcome) /\ Len(told') = writes' /\ orphans' \subseteq Nat
    <3>1. told \in Seq(Outcome) /\ Len(told) = writes /\ "superseded" \in Outcome /\ orphans \subseteq Nat BY DEF TypeOK, Outcome
    <3> DEFINE ws == outstanding \cup orphans
    <3>2. \A s : Tell(s, "superseded") \in Seq(Outcome) /\ Len(Tell(s, "superseded")) = Len(told) BY <3>1, ToldFacts
    <3>3. QED BY <1>1, <1>2, <2>2, <3>1, <3>2
  <2>4. sent' \subseteq Request /\ answers' \subseteq Answer BY <1>1, <1>6 DEF TypeOK
  <2>5. live' \in Generation \cup {Nothing} BY <1>1, <1>5
  <2>6. book' \in [intents : Seq(IntentType), canonical : SUBSET ItemType, adopted : BOOLEAN] BY <1>1, EmptyFacts
  <2>7. acc' \in AccountState \cup {Nothing} BY <1>7
  <2>8. QED BY <1>1, <1>2, <2>3, <2>4, <2>5, <2>6, <2>7 DEF TypeOK
<1>9. Token' = Token BY <1>2 DEF Token, Authenticated, Auth!Effective
<1>10. \A r \in sent : r \in Request /\ r.token # Token /\ r.token # Nothing BY <1>1, RequestFacts DEF TokensFresh, TypeOK
<1>11. TokensFresh'
  <2>1. \A r \in sent' : r.token[2] <= epoch' /\ r.token[3] <= attempt'
    <3>1. epoch \in Nat /\ attempt \in Nat BY DEF TypeOK
    <3>2. QED BY <1>1, <1>2, <1>5, <1>6, <3>1 DEF TokensFresh
  <2>2. live' # Nothing => live'[2] <= epoch' /\ live'[3] <= attempt'
    <3>1. epoch \in Nat /\ attempt \in Nat BY DEF TypeOK
    <3>2. QED BY <1>1, <1>2, <1>5, <3>1
  <2>3. ~EffectsPending' BY <1>1, <1>9 DEF EffectsPending
  <2>4. QED BY <2>1, <2>2, <2>3 DEF TokensFresh
<1>12. GenerationAtWork' BY <1>1, <1>5, <1>7, EmptyFacts DEF GenerationAtWork
<1>13. \A r \in sent' : Live(r)' => r = load /\ Authenticated
  BY <1>1, <1>5, <1>10 DEF Live
<1>14. OneInFlight' BY <1>1, <1>13 DEF OneInFlight
<1>15. WritesAreBooked' BY <1>1, <1>6, <1>13 DEF WritesAreBooked, InFlight
<1>16. IntentsSound' BY <1>1, EmptyFacts DEF IntentsSound
<1>17. ListsSound'
  <2>1. \A r \in sent' : OneOfEach(r.list) BY <1>1, <1>4, <1>6 DEF ListsSound
  <2>2. OneOfId(book'.canonical) BY <1>1, EmptyFacts DEF OneOfId
  <2>3. QED BY <1>1, <1>2, <2>1, <2>2 DEF ListsSound
<1>18. Confirmed'
  <2>1. CASE Authenticated BY <1>7, <2>1 DEF Confirmed
  <2>2. CASE ~Authenticated
    <3>1. ~Current' BY <1>1, <1>5, <2>2 DEF Current
    <3>2. QED BY <1>7, <2>2, <3>1 DEF Confirmed
  <2>3. QED BY <2>1, <2>2
<1>19. IdsSound'
  <2>1. OnServers' = OnServers BY <1>2 DEF OnServers
  <2>2. Offered' \subseteq Offered \cup ToSet(stored.items) BY <1>1, <1>4, <1>6 DEF Offered
  <2>3. Creating' = Creating BY <1>1, <1>6 DEF Creating
  <2>4. Intended' = {} BY <1>1, EmptyFacts DEF Intended
  <2>5. Known' \subseteq Known BY <1>2, <2>1, <2>2, <2>3, <2>4 DEF Known
  <2>6. Names(Known)' \subseteq Names(Known) BY <2>5 DEF Names
  <2>7. QED BY <1>2, <2>6, IdsKept
<1>20. QED BY <1>8, <1>11, <1>12, <1>14, <1>15, <1>16, <1>17, <1>18, <1>19

(* A hop sends the one intent of its item, when nothing of the item is on its way. *)
LEMMA StartHopInv == ASSUME Inv, NEW id \in DOMAIN queued, StartHop(id) PROVE Inv'
<1> USE DEF Inv
<1> DEFINE hop(i) == [kind |-> i.kind, account |-> acc.account, token |-> live, id |-> id,
                      item |-> i.item, label |-> i.label, list |-> <<>>, write |-> i.write]
           mine == IntentOf(book.intents, id)
<1>1. /\ ~OnTheWay(id) /\ queued[id] > 0
      /\ queued' = [queued EXCEPT ![id] = @ - 1]
      /\ sent' = sent \cup { hop(i) : i \in mine }
  BY DEF StartHop
<1>2. /\ status' = status /\ expired' = expired /\ epoch' = epoch /\ attempt' = attempt /\ live' = live
      /\ stored' = stored /\ device' = device /\ acc' = acc /\ book' = book /\ orphans' = orphans /\ answers' = answers
      /\ server' = server /\ writes' = writes /\ refused' = refused /\ told' = told /\ saved' = saved
      /\ last' = last /\ stray' = stray
  BY DEF StartHop, ui, session, history
<1>3. id \in Nat /\ book.intents \in Seq(IntentType) BY DEF TypeOK
<1>4. mine \subseteq ToSet(book.intents) /\ ToSet(book.intents) \subseteq IntentType /\ \A i \in mine : i.id = id
  BY <1>3, Members DEF IntentOf
<1>5. \A i, k \in mine : i = k BY <1>4 DEF IntentsSound, OneIntentEach
<1>6. mine # {} => live # Nothing /\ live \in Generation /\ acc # Nothing /\ acc.account \in Account
  <2>1. mine # {} => book.intents # <<>> BY <1>4, EmptyFacts
  <2>2. mine # {} => live # Nothing BY <2>1 DEF GenerationAtWork
  <2>3. QED BY <2>2 DEF GenerationAtWork, TypeOK, AccountState
<1>7. \A i \in mine : /\ hop(i) \in Request /\ hop(i).token = live /\ hop(i).id = id /\ hop(i).list = <<>>
                      /\ hop(i).kind = i.kind /\ hop(i).item = i.item
  BY <1>3, <1>4, <1>6 DEF Request, WriteRequest, IntentType
<1>8. DOMAIN queued' \subseteq Nat /\ \A k \in DOMAIN queued' : queued'[k] \in Nat
  BY <1>1 DEF TypeOK
<1> HIDE DEF hop, mine
<1>9. TypeOK' BY <1>1, <1>2, <1>7, <1>8 DEF TypeOK
<1>10. Token' = Token /\ EffectsPending' = EffectsPending BY <1>2 DEF Token, Authenticated, EffectsPending, Auth!Effective
<1>11. TokensFresh'
  <2>1. \A r \in sent' : r.token[2] <= epoch' /\ r.token[3] <= attempt' BY <1>1, <1>2, <1>6, <1>7 DEF TokensFresh
  <2>2. EffectsPending' => \A r \in sent' : r.token # Token' BY <1>1, <1>7, <1>10 DEF TokensFresh, EffectsPending
  <2>3. QED BY <1>2, <2>1, <2>2 DEF TokensFresh
<1>12. GenerationAtWork' BY <1>2 DEF GenerationAtWork
<1>13. (\A r \in sent : Live(r) => r.id # id) /\ \A a \in answers : a.request.id # id
  BY <1>1 DEF OnTheWay, OneInFlight
<1>14. \A r \in sent' : r \in sent \/ \E i \in mine : r = hop(i) BY <1>1
<1>15. OneInFlight'
  <2>1. ASSUME NEW r \in sent', NEW q \in sent', r.token = live, q.token = live, r.id = q.id PROVE r = q
    <3>1. CASE r \in sent /\ q \in sent BY <2>1, <3>1 DEF OneInFlight, Live
    <3>2. CASE r \notin sent /\ q \notin sent BY <1>5, <1>14, <3>2
    <3>3. CASE r \in sent /\ q \notin sent BY <1>7, <1>13, <1>14, <2>1, <3>3 DEF Live
    <3>4. CASE r \notin sent /\ q \in sent BY <1>7, <1>13, <1>14, <2>1, <3>4 DEF Live
    <3>5. QED BY <3>1, <3>2, <3>3, <3>4
  <2>2. ASSUME NEW r \in sent', NEW a \in answers, r.token = live PROVE r.id # a.request.id
    <3>1. CASE r \in sent BY <2>2, <3>1 DEF OneInFlight, Live
    <3>2. CASE r \notin sent BY <1>7, <1>13, <1>14, <3>2
    <3>3. QED BY <3>1, <3>2
  <2>3. QED BY <1>2, <2>1, <2>2 DEF OneInFlight, Live
<1>16. WritesAreBooked'
  <2>1. ASSUME NEW r \in InFlight' PROVE r \in InFlight \/ (r.id = id /\ mine # {})
    BY <1>2, <1>7, <1>14, <2>1 DEF InFlight, Live
  <2>2. QED BY <1>2, <2>1 DEF WritesAreBooked, mine
<1>17. IntentsSound' BY <1>2 DEF IntentsSound
<1>18. ListsSound' BY <1>2, <1>7, <1>14, EmptyFacts DEF ListsSound
<1>19. Confirmed'
  <2>1. Current' = Current BY <1>2 DEF Current
  <2>2. QED BY <1>2, <2>1 DEF Confirmed, Untouched
<1>20. IdsSound'
  <2>1. OnServers' = OnServers /\ Intended' = Intended BY <1>2 DEF OnServers, Intended
  <2>2. Offered' \subseteq Offered BY <1>7, <1>14, EmptyFacts DEF Offered
  <2>3. Creating' \subseteq Creating \cup Intended BY <1>4, <1>7, <1>14 DEF Creating, Intended
  <2>4. Known' \subseteq Known BY <1>2, <2>1, <2>2, <2>3 DEF Known
  <2>5. Names(Known)' \subseteq Names(Known) BY <2>4 DEF Names
  <2>6. QED BY <1>2, <2>5, IdsKept
<1>21. QED BY <1>9, <1>11, <1>12, <1>15, <1>16, <1>17, <1>18, <1>19, <1>20

(* A response: the request is not on its way any more, an answer of the live generation is. *)
LEMMA RespondInv ==
  ASSUME Inv, NEW r \in sent, NEW list \in Collection \cup {Unknown}, list # Unknown => OneOfId(ToSet(list)),
         Respond(r, list), UNCHANGED <<ui, live, acc, book>>
  PROVE  /\ sent' \subseteq Request /\ answers' \subseteq Answer
         /\ TokensFresh' /\ GenerationAtWork' /\ OneInFlight' /\ WritesAreBooked' /\ IntentsSound' /\ Confirmed'
         /\ \A q \in sent' : OneOfEach(q.list)
         /\ \A a \in answers' : a.list # Unknown => OneOfId(ToSet(a.list))
         /\ InFlight' \subseteq InFlight
<1> USE DEF Inv
<1> DEFINE new == [request |-> r, list |-> list]
<1>1. /\ status' = status /\ expired' = expired /\ epoch' = epoch /\ attempt' = attempt /\ live' = live
      /\ acc' = acc /\ book' = book
  BY DEF ui, session
<1>2. sent' = sent \ {r} /\ answers' = (IF Live(r) THEN answers \cup {new} ELSE answers) BY DEF Respond
<1>3. new \in Answer /\ new.request = r /\ new.list = list BY DEF TypeOK, Answer
<1> HIDE DEF new
<1>4. sent' \subseteq Request /\ answers' \subseteq Answer BY <1>2, <1>3 DEF TypeOK
<1>5. Token' = Token /\ EffectsPending' = EffectsPending BY <1>1 DEF Token, Authenticated, EffectsPending, Auth!Effective
<1>6. TokensFresh' BY <1>1, <1>2, <1>5 DEF TokensFresh
<1>7. GenerationAtWork' BY <1>1 DEF GenerationAtWork
<1>8. \A a \in answers' : a \in answers \/ (a = new /\ Live(r)) BY <1>2
<1>9. OneInFlight'
  <2>1. \A a \in answers' : Live(a.request) BY <1>3, <1>8 DEF OneInFlight
  <2>2. \A q, p \in sent' : Live(q) /\ Live(p) /\ q.id = p.id => q = p BY <1>2 DEF OneInFlight
  <2>3. \A a, b \in answers' : a.request.id = b.request.id => a = b BY <1>3, <1>8 DEF OneInFlight
  <2>4. \A q \in sent', a \in answers' : Live(q) => q.id # a.request.id BY <1>2, <1>3, <1>8 DEF OneInFlight
  <2>5. QED BY <1>1, <2>1, <2>2, <2>3, <2>4 DEF OneInFlight, Live
<1>10. InFlight' \subseteq InFlight BY <1>1, <1>2, <1>3, <1>8 DEF InFlight, Live
<1>11. WritesAreBooked' BY <1>1, <1>10 DEF WritesAreBooked
<1>12. IntentsSound' BY <1>1 DEF IntentsSound
<1>13. Confirmed'
  <2>1. Current' = Current BY <1>1 DEF Current
  <2>2. QED BY <1>1, <2>1 DEF Confirmed, Untouched
<1>14. \A q \in sent' : OneOfEach(q.list) BY <1>2 DEF ListsSound
<1>15. \A a \in answers' : a.list # Unknown => OneOfId(ToSet(a.list)) BY <1>3, <1>8 DEF ListsSound
<1>16. QED BY <1>4, <1>6, <1>7, <1>9, <1>10, <1>11, <1>12, <1>13, <1>14, <1>15

(* A request that is lost changes no collection. *)
LEMMA LostInv == ASSUME Inv, NEW r \in sent, Lost(r) PROVE Inv'
<1> USE DEF Inv
<1>1. Respond(r, Unknown) /\ UNCHANGED <<ui, live, acc, book>> BY DEF Lost
<1>2. /\ status' = status /\ expired' = expired /\ epoch' = epoch /\ attempt' = attempt /\ live' = live
      /\ stored' = stored /\ device' = device /\ acc' = acc /\ book' = book /\ orphans' = orphans /\ queued' = queued
      /\ server' = server /\ writes' = writes /\ refused' = refused /\ told' = told /\ saved' = saved
      /\ last' = last /\ stray' = stray
  BY DEF Lost, ui, session, history
<1>3. /\ sent' \subseteq Request /\ answers' \subseteq Answer
      /\ TokensFresh' /\ GenerationAtWork' /\ OneInFlight' /\ WritesAreBooked' /\ IntentsSound' /\ Confirmed'
      /\ \A q \in sent' : OneOfEach(q.list)
      /\ \A a \in answers' : a.list # Unknown => OneOfId(ToSet(a.list))
  BY <1>1, RespondInv
<1>4. TypeOK' BY <1>2, <1>3 DEF TypeOK
<1>5. ListsSound' BY <1>2, <1>3 DEF ListsSound
<1>6. IdsSound'
  <2>1. OnServers' = OnServers /\ Intended' = Intended BY <1>2 DEF OnServers, Intended
  <2>2. sent' \subseteq sent BY <1>1 DEF Respond
  <2>3. Offered' \subseteq Offered /\ Creating' \subseteq Creating BY <2>2 DEF Offered, Creating
  <2>4. Known' \subseteq Known BY <1>2, <2>1, <2>3 DEF Known
  <2>5. Names(Known)' \subseteq Names(Known) BY <2>4 DEF Names
  <2>6. QED BY <1>2, <2>5, IdsKept
<1>7. QED BY <1>3, <1>4, <1>5, <1>6

(* The server changes one collection, by a request of what there was. *)
LEMMA ServeInv == ASSUME Inv, NEW r \in sent, Serve(r) PROVE Inv'
<1> USE DEF Inv
<1> DEFINE answer == Handled(r)
           before == server[r.account]
           after == IF answer = Unknown THEN before ELSE answer
<1>1. /\ Respond(r, answer) /\ server' = [server EXCEPT ![r.account] = after]
      /\ stray' = stray \/ stray' = stray \cup Contents(after) \cup Contents(before)
      /\ saved' \subseteq saved
      /\ UNCHANGED <<ui, live, acc, book>>
  BY DEF Serve
<1>2. /\ status' = status /\ expired' = expired /\ epoch' = epoch /\ attempt' = attempt /\ live' = live
      /\ stored' = stored /\ device' = device /\ acc' = acc /\ book' = book /\ orphans' = orphans /\ queued' = queued
      /\ writes' = writes /\ refused' = refused /\ told' = told /\ last' = last
  BY DEF Serve, ui, session
<1>3. r \in Request /\ server \in [Account -> Collection] BY DEF TypeOK
<1>4. r.account \in Account /\ r.list \in Collection /\ before \in Collection BY <1>3, RequestFacts
<1>5. OneOfEach(before) /\ OneOfEach(r.list) BY <1>4 DEF ListsSound
<1>6. /\ answer \in Collection \cup {Unknown}
      /\ answer # Unknown => /\ OneOfEach(before) /\ OneOfEach(r.list) => OneOfEach(answer)
                             /\ Names(ToSet(answer)) \subseteq Names(ToSet(before)) \cup Brings(r)
  BY <1>3, HandledFacts
<1>7. Names(ToSet(before)) \subseteq Names(Known) /\ Brings(r) \subseteq Names(Known)
  <2>1. ToSet(before) \subseteq Known BY <1>4 DEF Known, OnServers
  <2>2. ToSet(r.list) \subseteq Known BY DEF Known, Offered
  <2>3. r.kind = "create" => r.item \in Known BY DEF Known, Creating
  <2> HIDE DEF before
  <2>4. QED BY <2>1, <2>2, <2>3 DEF Names, Brings
<1> HIDE DEF answer, before
<1>8. after \in Collection /\ OneOfEach(after) /\ Names(ToSet(after)) \subseteq Names(Known) BY <1>4, <1>5, <1>6, <1>7
<1>9. answer # Unknown => OneOfId(ToSet(answer))
  <2>1. ASSUME answer # Unknown PROVE OneOfId(ToSet(answer))
    <3>1. answer \in Collection /\ OneOfEach(answer) /\ Names(ToSet(answer)) \subseteq Names(Known)
      BY <1>5, <1>6, <1>7, <2>1
    <3>2. Unambiguous(Names(Known)) BY DEF IdsSound
    <3>3. QED BY <3>1, <3>2, OneOfIdFacts
  <2>2. QED BY <2>1
<1> HIDE DEF after
<1>10. /\ sent' \subseteq Request /\ answers' \subseteq Answer
       /\ TokensFresh' /\ GenerationAtWork' /\ OneInFlight' /\ WritesAreBooked' /\ IntentsSound' /\ Confirmed'
       /\ \A q \in sent' : OneOfEach(q.list)
       /\ \A a \in answers' : a.list # Unknown => OneOfId(ToSet(a.list))
  BY <1>1, <1>6, <1>9, RespondInv
<1>11. server' \in [Account -> Collection] /\ \A a \in Account : server'[a] = IF a = r.account THEN after ELSE server[a]
  BY <1>1, <1>3, <1>8
<1>12. Contents(after) \subseteq Content /\ Contents(before) \subseteq Content
  <2>1. ASSUME NEW list \in Collection PROVE Contents(list) \subseteq Content
    <3>1. ToSet(list) \subseteq ItemType /\ Contents(list) = {x.content : x \in ToSet(list)} BY FoundFacts
    <3>2. QED BY <3>1 DEF ItemType
  <2>2. QED BY <1>4, <1>8, <2>1
<1>13. saved' \subseteq Content /\ stray' \subseteq Content BY <1>1, <1>12 DEF TypeOK
<1>14. TypeOK' BY <1>2, <1>10, <1>11, <1>13 DEF TypeOK
<1>15. ListsSound' BY <1>2, <1>8, <1>10, <1>11 DEF ListsSound
<1>16. IdsSound'
  <2>1. Intended' = Intended BY <1>2 DEF Intended
  <2>2. sent' \subseteq sent BY <1>1 DEF Respond
  <2>3. Offered' \subseteq Offered /\ Creating' \subseteq Creating BY <2>2 DEF Offered, Creating
  <2>4. \A x \in OnServers' : x \in OnServers \/ x \in ToSet(after) BY <1>11 DEF OnServers
  <2>5. \A x \in Known' : x \in Known \/ x \in ToSet(after) BY <1>2, <2>1, <2>3, <2>4 DEF Known
  <2>6. \A x \in Known' : <<x.id, x.content>> \in Names(Known) BY <1>8, <2>5 DEF Names
  <2>7. Names(Known)' \subseteq Names(Known) BY <2>6 DEF Names
  <2>8. QED BY <1>2, <2>7, IdsKept
<1>17. QED BY <1>10, <1>14, <1>15, <1>16

(* A response that is lost is a response that failed. *)
LEMMA ResponseLostInv == ASSUME Inv, NEW a \in answers, ResponseLost(a) PROVE Inv'
<1> USE DEF Inv
<1> DEFINE lost == [a EXCEPT !.list = Unknown]
<1>1. answers' = (answers \ {a}) \cup {lost} BY DEF ResponseLost
<1>2. /\ status' = status /\ expired' = expired /\ epoch' = epoch /\ attempt' = attempt /\ live' = live
      /\ stored' = stored /\ device' = device /\ acc' = acc /\ book' = book /\ orphans' = orphans /\ queued' = queued
      /\ sent' = sent /\ server' = server /\ writes' = writes /\ refused' = refused /\ told' = told /\ saved' = saved
      /\ last' = last /\ stray' = stray
  BY DEF ResponseLost, ui, session, history
<1>3. a \in Answer /\ lost \in Answer /\ lost.request = a.request /\ lost.list = Unknown BY DEF TypeOK, Answer
<1> HIDE DEF lost
<1>4. TypeOK' BY <1>1, <1>2, <1>3 DEF TypeOK
<1>5. Token' = Token /\ EffectsPending' = EffectsPending BY <1>2 DEF Token, Authenticated, EffectsPending, Auth!Effective
<1>6. TokensFresh' /\ GenerationAtWork' BY <1>2, <1>5 DEF TokensFresh, GenerationAtWork
<1>7. \A b \in answers' : b \in answers \ {a} \/ b = lost BY <1>1
<1>8. OneInFlight'
  <2>1. \A b \in answers' : Live(b.request) BY <1>3, <1>7 DEF OneInFlight
  <2>2. \A b, c \in answers' : b.request.id = c.request.id => b = c BY <1>3, <1>7 DEF OneInFlight
  <2>3. \A q \in sent, b \in answers' : Live(q) => q.id # b.request.id BY <1>3, <1>7 DEF OneInFlight
  <2>4. QED BY <1>2, <2>1, <2>2, <2>3 DEF OneInFlight, Live
<1>9. InFlight' \subseteq InFlight BY <1>2, <1>3, <1>7 DEF InFlight, Live
<1>10. WritesAreBooked' /\ IntentsSound' BY <1>2, <1>9 DEF WritesAreBooked, IntentsSound
<1>11. ListsSound' BY <1>2, <1>3, <1>7 DEF ListsSound
<1>12. Confirmed'
  <2>1. Current' = Current BY <1>2 DEF Current
  <2>2. QED BY <1>2, <2>1 DEF Confirmed, Untouched
<1>13. IdsSound'
  <2>1. Known' = Known BY <1>2 DEF Known, OnServers, Offered, Creating, Intended
  <2>2. Names(Known)' \subseteq Names(Known) BY <2>1 DEF Names
  <2>3. QED BY <1>2, <2>2, IdsKept
<1>14. QED BY <1>4, <1>6, <1>8, <1>10, <1>11, <1>12, <1>13

-----------------------------------------------------------------------------
(* Responses.                                                              *)

(* An answer comes to the generation that asked. *)
LEMMA AnswerFacts ==
  ASSUME Inv, NEW a \in answers
  PROVE  /\ a.request \in Request /\ a.list \in Collection \cup {Unknown} /\ a.request \in InFlight
         /\ live # Nothing /\ live \in Generation /\ acc # Nothing /\ acc \in AccountState
         /\ acc.token = live /\ Current
         /\ a.list # Unknown => a.list \in Collection /\ OneOfId(ToSet(a.list))
<1>1. a.request \in Request /\ a.list \in Collection \cup {Unknown} BY DEF Inv, TypeOK, Answer
<1>2. a.request.token = live /\ a.request.token \in Generation BY <1>1, RequestFacts DEF Inv, OneInFlight, Live
<1>3. live # Nothing BY <1>2, NullsAssumption
<1>4. acc # Nothing /\ acc.token = live /\ acc \in AccountState BY <1>3 DEF Inv, GenerationAtWork, TypeOK
<1>5. QED BY <1>1, <1>2, <1>3, <1>4 DEF InFlight, Current, Inv, ListsSound

(* What an arrival leaves of the requests. *)
LEMMA ArrivesInv ==
  ASSUME Inv, NEW a \in answers, answers' = answers \ {a}, sent' = sent, UNCHANGED <<ui, live>>
  PROVE  TokensFresh' /\ OneInFlight' /\ InFlight' \subseteq InFlight /\ \A r \in InFlight' : r.id # a.request.id
<1>1. status' = status /\ expired' = expired /\ epoch' = epoch /\ attempt' = attempt /\ live' = live BY DEF ui, session
<1>2. Token' = Token /\ EffectsPending' = EffectsPending BY <1>1 DEF Token, Authenticated, EffectsPending, Auth!Effective
<1>3. TokensFresh' BY <1>1, <1>2 DEF Inv, TokensFresh
<1>4. OneInFlight' BY <1>1 DEF Inv, OneInFlight, Live
<1>5. InFlight' \subseteq InFlight BY <1>1 DEF InFlight, Live
<1>6. ASSUME NEW r \in InFlight' PROVE r.id # a.request.id
  <2>1. CASE r \in sent /\ Live(r) BY <2>1 DEF Inv, OneInFlight
  <2>2. CASE \E b \in answers \ {a} : r = b.request BY <2>2 DEF Inv, OneInFlight
  <2>3. QED BY <1>1, <1>6, <2>1, <2>2 DEF InFlight, Live
<1>7. QED BY <1>3, <1>4, <1>5, <1>6

(* A load or a merge comes back. *)
LEMMA LoadedInv == ASSUME Inv, NEW a \in answers, Loaded(a) PROVE Inv'
<1> USE DEF Inv
<1>1. /\ IsLoad(a) /\ answers' = answers \ {a} /\ sent' = sent
      /\ a.list # Unknown =>
           /\ book' = Rebased(book, a.list)
           /\ acc' = [acc EXCEPT !.items = a.list, !.origin = "server", !.loading = FALSE, !.error = FALSE]
      /\ a.list = Unknown =>
           /\ book' = book
           /\ acc' = [acc EXCEPT !.items = IF a.request.list # <<>> THEN a.request.list ELSE @,
                                 !.origin = IF a.request.list # <<>> THEN "device" ELSE @,
                                 !.loading = FALSE, !.error = TRUE]
      /\ \/ device' = <<>> /\ stored' = Envelope(COLLECTION_VERSION, <<>>)
         \/ device' = device /\ stored' = stored
      /\ UNCHANGED <<ui, live>>
  BY DEF Loaded, Arrives
<1>2. /\ status' = status /\ expired' = expired /\ epoch' = epoch /\ attempt' = attempt /\ live' = live
      /\ orphans' = orphans /\ queued' = queued /\ server' = server /\ writes' = writes /\ refused' = refused
      /\ told' = told /\ saved' = saved /\ last' = last /\ stray' = stray
  BY DEF Loaded, ui, session, history
<1>3. /\ a.request \in Request /\ a.list \in Collection \cup {Unknown} /\ a.request \in InFlight
      /\ live # Nothing /\ live \in Generation /\ acc # Nothing /\ acc \in AccountState
      /\ acc.token = live /\ Current
      /\ a.list # Unknown => a.list \in Collection /\ OneOfId(ToSet(a.list))
  BY AnswerFacts
<1>4. a.request.list \in Collection BY <1>3, RequestFacts
<1>5. TokensFresh' /\ OneInFlight' /\ InFlight' \subseteq InFlight BY <1>1, ArrivesInv
<1>6. book.intents \in Seq(IntentType) /\ OneIntentEach(book.intents) /\ \A i \in ToSet(book.intents) : WellFormed(i)
  BY DEF TypeOK, IntentsSound
<1> DEFINE new == Rebased(book, a.list)
<1>7. a.list # Unknown =>
        /\ new \in [intents : Seq(IntentType), canonical : SUBSET ItemType, adopted : BOOLEAN]
        /\ new.canonical = ToSet(a.list) /\ new.adopted
        /\ OneIntentEach(new.intents)
        /\ \A i \in ToSet(new.intents) :
             WellFormed(i) /\ {i.baseline} \ {Nothing} = { x \in ToSet(a.list) : x.id = i.id }
        /\ \A id : IntentOf(new.intents, id) = {} <=> IntentOf(book.intents, id) = {}
        /\ { i.item : i \in { k \in ToSet(new.intents) : k.kind = "create" } }
             \subseteq { i.item : i \in { k \in ToSet(book.intents) : k.kind = "create" } }
  BY <1>3, <1>6, RebasedFacts
<1> HIDE DEF new
<1>8. a.list # Unknown => book' = new BY <1>1 DEF new
<1>9. /\ acc' \in AccountState /\ acc'.token = acc.token /\ acc'.account = acc.account /\ acc' # Nothing
      /\ a.list # Unknown => acc'.items = a.list /\ acc'.origin = "server"
      /\ a.list = Unknown => acc'.origin # "server" \/ (acc'.items = acc.items /\ acc'.origin = acc.origin)
  <2>1. CASE a.list # Unknown
    <3>1. acc' \in AccountState /\ acc'.token = acc.token /\ acc'.account = acc.account
          /\ acc'.items = a.list /\ acc'.origin = "server"
      BY <1>1, <1>3, <2>1 DEF AccountState
    <3>2. QED BY <2>1, <3>1, NullsAssumption
  <2>2. CASE a.list = Unknown
    <3>1. acc' \in AccountState /\ acc'.token = acc.token /\ acc'.account = acc.account
          /\ (acc'.origin # "server" \/ (acc'.items = acc.items /\ acc'.origin = acc.origin))
      BY <1>1, <1>3, <1>4, <2>2 DEF AccountState
    <3>2. QED BY <2>2, <3>1, NullsAssumption
  <2>3. QED BY <2>1, <2>2
<1>10. device' \in Collection /\ stored' \in EnvelopeType /\ ToSet(device') \subseteq ToSet(device)
       /\ ToSet(stored'.items) \subseteq ToSet(stored.items)
  BY <1>1, EmptyFacts DEF TypeOK, Envelope, EnvelopeType, COLLECTION_VERSION
<1>11. TypeOK' BY <1>1, <1>2, <1>7, <1>8, <1>9, <1>10 DEF TypeOK
<1>12. GenerationAtWork' BY <1>2, <1>3, <1>9 DEF GenerationAtWork
<1>13. WritesAreBooked'
  <2>1. \A id : IntentOf(book'.intents, id) = {} => IntentOf(book.intents, id) = {} BY <1>1, <1>7, <1>8
  <2>2. QED BY <1>5, <2>1 DEF WritesAreBooked
<1>14. IntentsSound'
  <2>1. CASE a.list # Unknown BY <1>7, <1>8, <2>1 DEF IntentsSound, RollsBack
  <2>2. CASE a.list = Unknown BY <1>1, <2>2 DEF IntentsSound
  <2>3. QED BY <2>1, <2>2
<1>15. ListsSound'
  <2>1. OneOfId(book'.canonical) BY <1>1, <1>3, <1>7, <1>8 DEF ListsSound
  <2>2. QED BY <1>1, <1>2, <2>1 DEF ListsSound
<1>16. Confirmed'
  <2>1. CASE a.list # Unknown
    <3>1. book'.canonical = ToSet(acc'.items) /\ acc'.items # Unknown /\ book'.adopted BY <1>7, <1>8, <1>9, <2>1
    <3> DEFINE items == acc'.items
               canonical == book'.canonical
    <3>2. \A k \in Nat : Find(items, k) = { x \in canonical : x.id = k } BY <3>1 DEF Find
    <3>3. QED BY <3>1, <3>2 DEF Confirmed, Untouched
  <2>2. CASE a.list = Unknown
    <3>1. Current' = Current /\ book' = book BY <1>1, <1>2, <1>3, <1>9, <2>2 DEF Current
    <3>2. QED BY <1>3, <1>9, <2>2, <3>1 DEF Confirmed, Untouched
  <2>3. QED BY <2>1, <2>2
<1>17. IdsSound'
  <2>1. OnServers' = OnServers /\ Offered' = Offered /\ Creating' = Creating BY <1>1, <1>2 DEF OnServers, Offered, Creating
  <2>2. Intended' \subseteq Intended BY <1>1, <1>7, <1>8 DEF Intended
  <2>3. Known' \subseteq Known BY <1>10, <2>1, <2>2 DEF Known
  <2>4. Names(Known)' \subseteq Names(Known) BY <2>3 DEF Names
  <2>5. QED BY <1>2, <2>4, IdsKept
<1>18. QED BY <1>5, <1>11, <1>12, <1>13, <1>14, <1>15, <1>16, <1>17

(* A write comes back: what is on screen is the new collection with the intents there still are,
   or what it was with this item as the server confirmed it. *)
LEMMA WroteInv == ASSUME Inv, NEW a \in answers, Wrote(a) PROVE Inv'
<1> USE DEF Inv
<1> DEFINE id == a.request.id
           left == IF Superseded(a) THEN book.intents ELSE Retire(book.intents, id)
           mine == [book EXCEPT !.intents = left]
           intent == CHOOSE i \in IntentOf(book.intents, id) : TRUE
           outcome == IF Superseded(a) THEN "superseded"
                      ELSE IF a.list # Unknown THEN ConfirmedDisposition(a.request.kind) ELSE "failed"
<1>1. /\ ~IsLoad(a) /\ answers' = answers \ {a} /\ sent' = sent
      /\ book' = IF a.list # Unknown THEN Rebased(mine, a.list) ELSE mine
      /\ told' = Tell({a.request.write}, outcome)
      /\ queued' = [queued EXCEPT ![id] = @ + 1] \/ queued' = queued
      /\ UNCHANGED <<ui, live>>
  BY DEF Wrote, Arrives
<1>2. /\ status' = status /\ expired' = expired /\ epoch' = epoch /\ attempt' = attempt /\ live' = live
      /\ stored' = stored /\ device' = device /\ orphans' = orphans /\ server' = server /\ writes' = writes
      /\ refused' = refused /\ saved' = saved /\ last' = last /\ stray' = stray
  BY DEF Wrote, ui, session, history
<1>3. /\ a.list # Unknown =>
           acc' = [acc EXCEPT !.items = ReplayIntents(a.list, book'.intents), !.origin = "server",
                              !.pending = IF Superseded(a) THEN @ ELSE @ \ {id},
                              !.error = IF Superseded(a) THEN @ ELSE FALSE]
      /\ a.list = Unknown /\ Superseded(a) => acc' = acc
      /\ a.list = Unknown /\ ~Superseded(a) =>
           acc' = [acc EXCEPT !.items = IF @ = Unknown THEN @ ELSE Rollback(@, intent),
                              !.pending = @ \ {id}, !.error = TRUE]
  BY DEF Wrote
<1>4. /\ a.request \in Request /\ a.list \in Collection \cup {Unknown} /\ a.request \in InFlight
      /\ live # Nothing /\ live \in Generation /\ acc # Nothing /\ acc \in AccountState
      /\ acc.token = live /\ Current
      /\ a.list # Unknown => a.list \in Collection /\ OneOfId(ToSet(a.list))
  BY AnswerFacts
<1>5. a.request.kind \notin {"load", "merge"} /\ id \in Nat /\ a.request.kind \in {"create", "rename", "remove"}
  BY <1>1, <1>4, RequestFacts DEF IsLoad
<1>6. IntentOf(book.intents, id) # {} BY <1>4, <1>5 DEF WritesAreBooked
<1>7. TokensFresh' /\ OneInFlight' /\ InFlight' \subseteq InFlight /\ \A r \in InFlight' : r.id # id
  BY <1>1, ArrivesInv
<1>8. /\ book.intents \in Seq(IntentType) /\ OneIntentEach(book.intents) /\ ToSet(book.intents) \subseteq IntentType
      /\ \A i \in ToSet(book.intents) : WellFormed(i) /\ RollsBack(i, book)
  BY Members DEF TypeOK, IntentsSound
<1>9. /\ left \in Seq(IntentType) /\ ToSet(left) \subseteq ToSet(book.intents)
      /\ \A k : k # id => IntentOf(left, k) = IntentOf(book.intents, k)
      /\ Superseded(a) => left = book.intents
  <2>1. CASE Superseded(a) BY <1>8, <2>1
  <2>2. CASE ~Superseded(a)
    <3>1. left \in Seq(IntentType) /\ ToSet(left) = { j \in ToSet(book.intents) : j.id # id } BY <1>8, <2>2, RetireFacts
    <3>2. QED BY <2>2, <3>1 DEF IntentOf
  <2>3. QED BY <2>1, <2>2
<1> HIDE DEF left
<1>10. /\ mine \in [intents : Seq(IntentType), canonical : SUBSET ItemType, adopted : BOOLEAN]
       /\ mine.intents = left /\ mine.canonical = book.canonical /\ mine.adopted = book.adopted
  BY <1>9 DEF TypeOK
<1>11. OneIntentEach(mine.intents) /\ \A i \in ToSet(mine.intents) : WellFormed(i) /\ RollsBack(i, mine)
  <2>1. \A i : RollsBack(i, mine) <=> RollsBack(i, book) BY <1>10 DEF RollsBack
  <2>2. QED BY <1>8, <1>9, <1>10, <2>1 DEF OneIntentEach
<1> HIDE DEF mine
<1> DEFINE new == Rebased(mine, a.list)
<1>12. a.list # Unknown =>
        /\ new \in [intents : Seq(IntentType), canonical : SUBSET ItemType, adopted : BOOLEAN]
        /\ new.canonical = ToSet(a.list) /\ new.adopted
        /\ OneIntentEach(new.intents)
        /\ \A i \in ToSet(new.intents) :
             WellFormed(i) /\ {i.baseline} \ {Nothing} = { x \in ToSet(a.list) : x.id = i.id }
        /\ \A k : IntentOf(new.intents, k) = {} <=> IntentOf(mine.intents, k) = {}
        /\ { i.item : i \in { k \in ToSet(new.intents) : k.kind = "create" } }
             \subseteq { i.item : i \in { k \in ToSet(mine.intents) : k.kind = "create" } }
  BY <1>4, <1>10, <1>11, RebasedFacts
<1> HIDE DEF new
<1>13. /\ a.list # Unknown => book' = new
       /\ a.list = Unknown => book' = mine
  BY <1>1 DEF new
<1>14. /\ book' \in [intents : Seq(IntentType), canonical : SUBSET ItemType, adopted : BOOLEAN]
       /\ OneIntentEach(book'.intents)
       /\ \A i \in ToSet(book'.intents) : WellFormed(i) /\ RollsBack(i, book')
       /\ \A k : k # id => (IntentOf(book'.intents, k) = {} <=> IntentOf(book.intents, k) = {})
       /\ Superseded(a) => \A k : IntentOf(book'.intents, k) = {} <=> IntentOf(book.intents, k) = {}
       /\ a.list # Unknown => book'.canonical = ToSet(a.list) /\ book'.adopted
       /\ a.list = Unknown => book'.canonical = book.canonical /\ book'.adopted = book.adopted
  <2> DEFINE s == book'.intents
  <2>1. CASE a.list # Unknown
    <3>1. book' = new BY <1>13, <2>1
    <3>2. \A k : IntentOf(s, k) = {} <=> IntentOf(left, k) = {} BY <1>10, <1>12, <2>1, <3>1
    <3>3. /\ book' \in [intents : Seq(IntentType), canonical : SUBSET ItemType, adopted : BOOLEAN]
          /\ OneIntentEach(s) /\ book'.canonical = ToSet(a.list) /\ book'.adopted
          /\ \A i \in ToSet(s) : WellFormed(i) /\ RollsBack(i, book')
      BY <1>12, <2>1, <3>1 DEF RollsBack
    <3> HIDE DEF s
    <3>4. QED BY <1>9, <2>1, <3>2, <3>3 DEF s
  <2>2. CASE a.list = Unknown
    <3>1. book' = mine BY <1>13, <2>2
    <3>2. s = left /\ book'.canonical = book.canonical /\ book'.adopted = book.adopted BY <1>10, <3>1
    <3>3. QED BY <1>9, <1>10, <1>11, <2>2, <3>1, <3>2
  <2>3. QED BY <2>1, <2>2
<1>15. ASSUME a.list # Unknown
       PROVE  /\ ReplayIntents(a.list, book'.intents) \in Collection
              /\ \A k \in Nat : IntentOf(book'.intents, k) = {} =>
                   Find(ReplayIntents(a.list, book'.intents), k) = Find(a.list, k)
  <2> DEFINE s == book'.intents
  <2>1. s \in Seq(IntentType) /\ \A i \in ToSet(s) : WellFormed(i) BY <1>14
  <2> HIDE DEF s
  <2>2. a.list \in Collection BY <1>4, <1>15
  <2>3. /\ ReplayIntents(a.list, s) \in Collection
        /\ \A k \in Nat : IntentOf(s, k) = {} => Find(ReplayIntents(a.list, s), k) = Find(a.list, k)
    BY <2>1, <2>2, ReplayFacts
  <2>4. QED BY <2>3 DEF s
<1>16. intent \in ToSet(book.intents) /\ intent.id = id /\ intent \in IntentType /\ WellFormed(intent)
       /\ (book.adopted => {intent.baseline} \ {Nothing} = { x \in book.canonical : x.id = id })
       /\ (intent.baseline # Nothing => intent.baseline.id = id)
  <2>1. intent \in IntentOf(book.intents, id) BY <1>6
  <2> HIDE DEF intent
  <2>2. intent \in ToSet(book.intents) /\ intent.id = id BY <2>1 DEF IntentOf
  <2>3. book.adopted => {intent.baseline} \ {Nothing} = { x \in book.canonical : x.id = id }
    BY <1>8, <2>2 DEF RollsBack
  <2>4. intent.baseline # Nothing => intent.baseline.id = id
    <3>1. CASE book.adopted BY <2>3, <3>1
    <3>2. CASE ~book.adopted BY <1>8, <2>2, <3>2 DEF RollsBack, WellFormed
    <3>3. QED BY <3>1, <3>2
  <2>5. QED BY <1>8, <2>2, <2>3, <2>4
<1> HIDE DEF intent
<1>17. ASSUME acc.items # Unknown
       PROVE  /\ Rollback(acc.items, intent) \in Collection
              /\ Find(Rollback(acc.items, intent), id) = {intent.baseline} \ {Nothing}
              /\ \A k \in Nat : k # id => Find(Rollback(acc.items, intent), k) = Find(acc.items, k)
  <2>1. acc.items \in Collection BY <1>4, <1>17 DEF AccountState
  <2>2. /\ Rollback(acc.items, intent) \in Collection
        /\ Find(Rollback(acc.items, intent), intent.id) = {intent.baseline} \ {Nothing}
        /\ \A k \in Nat : k # intent.id => Find(Rollback(acc.items, intent), k) = Find(acc.items, k)
    <3>1. intent \in IntentType /\ WellFormed(intent) /\ (intent.baseline # Nothing => intent.baseline.id = intent.id)
      BY <1>16
    <3>2. QED BY <2>1, <3>1, RollbackFacts
  <2>3. intent.id = id BY <1>16
  <2>4. QED BY <2>2, <2>3
<1>18. /\ acc' \in AccountState /\ acc'.token = acc.token /\ acc'.account = acc.account /\ acc' # Nothing
       /\ a.list # Unknown => acc'.items = ReplayIntents(a.list, book'.intents) /\ acc'.origin = "server"
       /\ a.list = Unknown => acc'.origin = acc.origin
       /\ a.list = Unknown /\ (Superseded(a) \/ acc.items = Unknown) => acc'.items = acc.items
       /\ a.list = Unknown /\ ~Superseded(a) /\ acc.items # Unknown => acc'.items = Rollback(acc.items, intent)
  <2>1. acc' \in AccountState /\ acc'.token = acc.token /\ acc'.account = acc.account
    <3>1. CASE a.list # Unknown
      <4> DEFINE items == ReplayIntents(a.list, book'.intents)
                 pending == IF Superseded(a) THEN acc.pending ELSE acc.pending \ {id}
                 error == IF Superseded(a) THEN acc.error ELSE FALSE
      <4>1. items \in Collection BY <1>15, <3>1
      <4>2. pending \subseteq Nat /\ error \in BOOLEAN BY <1>4 DEF AccountState
      <4>3. acc' = [acc EXCEPT !.items = items, !.origin = "server", !.pending = pending, !.error = error]
        BY <1>3, <3>1
      <4> HIDE DEF items, pending, error
      <4>4. QED BY <1>4, <4>1, <4>2, <4>3 DEF AccountState
    <3>2. CASE a.list = Unknown /\ Superseded(a) BY <1>3, <1>4, <3>2
    <3>3. CASE a.list = Unknown /\ ~Superseded(a)
      <4> DEFINE items == IF acc.items = Unknown THEN acc.items ELSE Rollback(acc.items, intent)
      <4>1. items \in Collection \cup {Unknown} BY <1>17
      <4>2. acc' = [acc EXCEPT !.items = items, !.pending = @ \ {id}, !.error = TRUE] BY <1>3, <3>3
      <4> HIDE DEF items
      <4>3. QED BY <1>4, <4>1, <4>2 DEF AccountState
    <3>4. QED BY <3>1, <3>2, <3>3
  <2>2. acc' # Nothing BY <2>1, NullsAssumption
  <2>3. QED BY <1>3, <1>4, <2>1, <2>2 DEF AccountState
<1>19. told' \in Seq(Outcome) /\ Len(told') = writes'
  <2>1. told \in Seq(Outcome) /\ Len(told) = writes BY DEF TypeOK
  <2>2. outcome \in Outcome BY <1>5 DEF Outcome, ConfirmedDisposition
  <2> HIDE DEF outcome
  <2>3. Tell({a.request.write}, outcome) \in Seq(Outcome) /\ Len(Tell({a.request.write}, outcome)) = Len(told)
    BY <2>1, <2>2, ToldFacts
  <2>4. QED BY <1>1, <1>2, <2>1, <2>3
<1>20. DOMAIN queued' \subseteq Nat /\ \A k \in DOMAIN queued' : queued'[k] \in Nat BY <1>1 DEF TypeOK
<1>21. TypeOK' BY <1>1, <1>2, <1>14, <1>18, <1>19, <1>20 DEF TypeOK
<1>22. GenerationAtWork' BY <1>2, <1>4, <1>18 DEF GenerationAtWork
<1>23. WritesAreBooked' BY <1>7, <1>14 DEF WritesAreBooked
<1>24. IntentsSound' BY <1>14 DEF IntentsSound
<1>25. ListsSound'
  <2>1. OneOfId(book'.canonical) BY <1>4, <1>14 DEF ListsSound
  <2>2. QED BY <1>1, <1>2, <2>1 DEF ListsSound
<1>26. Confirmed'
  <2>1. Current' = Current BY <1>2, <1>4, <1>18 DEF Current
  <2> DEFINE items == acc'.items
             canonical == book'.canonical
  <2>2. CASE a.list # Unknown
    <3>1. items \in Collection /\ items # Unknown /\ canonical = ToSet(a.list) /\ book'.adopted
      BY <1>14, <1>15, <1>18, <2>2, NullsAssumption
    <3>2. \A k \in Nat : IntentOf(book'.intents, k) = {} => Find(items, k) = { x \in canonical : x.id = k }
      BY <1>15, <1>18, <2>2, <3>1 DEF Find
    <3>3. QED BY <3>1, <3>2 DEF Confirmed, Untouched
  <2>3. CASE a.list = Unknown /\ Superseded(a)
    <3>1. items = acc.items /\ canonical = book.canonical /\ acc'.origin = acc.origin /\ book'.adopted = book.adopted
      BY <1>14, <1>18, <2>3
    <3>2. \A k : IntentOf(book'.intents, k) = {} <=> IntentOf(book.intents, k) = {} BY <1>14, <2>3
    <3>3. QED BY <1>4, <2>1, <3>1, <3>2 DEF Confirmed, Untouched
  <2>4. CASE a.list = Unknown /\ ~Superseded(a)
    <3>1. canonical = book.canonical /\ acc'.origin = acc.origin /\ book'.adopted = book.adopted
      BY <1>14, <1>18, <2>4
    <3>2. SUFFICES ASSUME acc.origin = "server"
                   PROVE  /\ items # Unknown /\ book.adopted
                          /\ \A k \in Nat : IntentOf(book'.intents, k) = {} => Find(items, k) = { x \in canonical : x.id = k }
      BY <3>1 DEF Confirmed, Untouched
    <3>3. /\ acc.items # Unknown /\ book.adopted
          /\ \A k \in Nat : IntentOf(book.intents, k) = {} => Find(acc.items, k) = { x \in book.canonical : x.id = k }
      BY <1>4, <3>2 DEF Confirmed, Untouched
    <3>4. items = Rollback(acc.items, intent) /\ items \in Collection BY <1>17, <1>18, <2>4, <3>3
    <3>5. items # Unknown BY <3>4, NullsAssumption
    <3>6. ASSUME NEW k \in Nat, IntentOf(book'.intents, k) = {} PROVE Find(items, k) = { x \in canonical : x.id = k }
      <4>1. CASE k = id BY <1>16, <1>17, <3>1, <3>3, <3>4, <4>1
      <4>2. CASE k # id
        <5>1. IntentOf(book.intents, k) = {} BY <1>14, <3>6, <4>2
        <5>2. Find(items, k) = Find(acc.items, k) BY <1>17, <3>3, <3>4, <4>2
        <5>3. QED BY <3>1, <3>3, <5>1, <5>2
      <4>3. QED BY <4>1, <4>2
    <3>7. QED BY <3>3, <3>5, <3>6
  <2>5. QED BY <2>2, <2>3, <2>4
<1>27. IdsSound'
  <2>1. OnServers' = OnServers /\ Offered' = Offered /\ Creating' = Creating BY <1>1, <1>2 DEF OnServers, Offered, Creating
  <2>2. Intended' \subseteq Intended
    <3>1. ToSet(mine.intents) \subseteq ToSet(book.intents) BY <1>9, <1>10
    <3> DEFINE items(intents) == { i.item : i \in { k \in ToSet(intents) : k.kind = "create" } }
    <3>2. items(mine.intents) \subseteq items(book.intents) BY <3>1
    <3>3. items(book'.intents) \subseteq items(mine.intents)
      <4>1. CASE a.list # Unknown BY <1>12, <1>13, <4>1
      <4>2. CASE a.list = Unknown BY <1>13, <4>2
      <4>3. QED BY <4>1, <4>2
    <3>4. Intended = items(book.intents) /\ Intended' = items(book'.intents) BY DEF Intended
    <3> HIDE DEF items
    <3>5. QED BY <3>2, <3>3, <3>4
  <2>3. Known' \subseteq Known BY <1>2, <2>1, <2>2 DEF Known
  <2>4. Names(Known)' \subseteq Names(Known) BY <2>3 DEF Names
  <2>5. QED BY <1>2, <2>4, IdsKept
<1>28. QED BY <1>7, <1>21, <1>22, <1>23, <1>24, <1>25, <1>26, <1>27

(* The ids the scout can click on are those of the items on screen. *)
LEMMA IdsFacts == ASSUME TypeOK PROVE Ids \subseteq Nat
<1> DEFINE list == IF Items = Unknown THEN <<>> ELSE Items
<1>1. Items \in Collection \cup {Unknown}
  <2>1. device \in Collection /\ (acc # Nothing => acc.items \in Collection \cup {Unknown})
    BY DEF TypeOK, AccountState
  <2>2. QED BY <2>1 DEF Items, Visible
<1>2. list \in Collection BY <1>1, EmptyFacts
<1> HIDE DEF list
<1>3. ToSet(list) \subseteq ItemType BY <1>2, FoundFacts
<1>4. \A i \in ToSet(list) : i.id \in Nat BY <1>3 DEF ItemType
<1>5. Ids = { i.id : i \in ToSet(list) } BY DEF Ids, list
<1>6. QED BY <1>4, <1>5

(* Whatever the scout does next. *)
LEMMA ScoutInv == ASSUME Inv, Scout PROVE Inv'
<1>1. Ids \subseteq Nat BY IdsFacts DEF Inv
<1>2. CASE SessionChange \/ Retry BY <1>2, SessionInv
<1>3. CASE WhileSyncing BY <1>3, WhileSyncingInv
<1>4. ASSUME NEW c \in Content, NEW l \in Label, SaveOnDevice(c, l) PROVE Inv' BY <1>4, SaveOnDeviceInv
<1>5. ASSUME NEW c \in Content, NEW l \in Label, SaveToAccount(c, l) PROVE Inv' BY <1>5, SaveToAccountInv
<1>6. ASSUME NEW id \in Nat, RemoveOnDevice(id) PROVE Inv' BY <1>6, RemoveOnDeviceInv
<1>7. ASSUME NEW id \in Nat, RemoveFromAccount(id) PROVE Inv' BY <1>7, RemoveFromAccountInv
<1>8. ASSUME NEW id \in Nat, NEW l \in Label, RenameOnDevice(id, l) PROVE Inv' BY <1>8, RenameOnDeviceInv
<1>9. ASSUME NEW id \in Nat, NEW l \in Label, RenameInAccount(id, l) PROVE Inv' BY <1>9, RenameInAccountInv
<1>10. QED BY <1>1, <1>2, <1>3, <1>4, <1>5, <1>6, <1>7, <1>8, <1>9 DEF Scout

(* And whatever else happens next. *)
LEMMA NextInv == Inv /\ [Next]_vars => Inv'
<1> SUFFICES ASSUME Inv, [Next]_vars PROVE Inv' OBVIOUS
<1>1. CASE Scout BY <1>1, ScoutInv
<1>2. CASE Failure BY <1>2, LostInv, ResponseLostInv DEF Failure
<1>3. CASE Progress BY <1>3, RunEffectsInv, AbandonInv, StartHopInv, ServeInv, LoadedInv, WroteInv DEF Progress
<1>4. CASE UNCHANGED vars
  <2>1. UNCHANGED <<ui, live, stored, device, acc, book, net, server>> /\ writes' = writes
        /\ status' = status /\ expired' = expired /\ epoch' = epoch /\ attempt' = attempt
        /\ orphans' = orphans /\ queued' = queued /\ sent' = sent /\ answers' = answers /\ refused' = refused
        /\ told' = told /\ saved' = saved /\ last' = last /\ stray' = stray
    BY <1>4 DEF vars, ui, session, net, history
  <2>2. TypeOK' BY <1>4, <2>1 DEF Inv, TypeOK, vars
  <2>3. writes <= writes' BY <2>1 DEF Inv, TypeOK
  <2>4. QED BY <2>1, <2>2, <2>3, QuietInv
<1>5. QED BY <1>1, <1>2, <1>3, <1>4 DEF Next

(* The invariant holds from the start, and every step keeps it: what is outstanding, on its way
   and on screen agree, in every interleaving of clicks, renders, effects and responses. *)
THEOREM InvInductive == Spec => []Inv
<1>1. Init => Inv BY InitInv
<1>2. Inv /\ [Next]_vars => Inv' BY NextInv
<1>3. QED BY <1>1, <1>2, PTL DEF Spec

(* Every variable of the browser, the network and the server keeps its type. *)
THEOREM TypeCorrect == Spec => []TypeOK
<1>1. Inv => TypeOK BY DEF Inv
<1>2. QED BY <1>1, InvInductive, PTL

-----------------------------------------------------------------------------
(* What the device has acknowledged.  A read keeps no more than Limit items  *)
(* of what a write has put there (the run SavedWorkWeb_limit), so what is    *)
(* proved is of a device that does not outgrow its limit.                    *)

Fits == Len(device) <= Limit

IsLoading(r) == r.kind \in {"load", "merge"}
Merged(a) == a.request.kind = "merge" /\ a.list # Unknown
OnSomeServer(c) == \E b \in Account : c \in Contents(server[b])

(* The device at the start is what is read of it. *)
LEMMA InitDevice == Init => DeviceInv
<1> SUFFICES ASSUME Init PROVE DeviceInv OBVIOUS
<1>1. Inv BY InitInv
<1>2. PICK s \in Stored :
        LET read == ReadCollection(s, ValidItem, Identity, Limit) IN
          /\ device = read.items
          /\ stored = (IF read.recovered THEN Envelope(COLLECTION_VERSION, read.items) ELSE s)
          /\ saved = { read.items[k].content : k \in DOMAIN read.items }
  BY DEF Init
<1>3. s \in EnvelopeType BY StartAssumption
<1>4. /\ device \in Collection /\ OneOfEach(device) /\ Len(device) <= Limit
      /\ \A x \in ToSet(device) : ValidItem(x)
  BY <1>2, <1>3, ReadFacts
<1>5. ReadDevice.items = device
  <2>1. CASE stored = s BY <1>2, <2>1 DEF ReadDevice
  <2>2. CASE stored = Envelope(COLLECTION_VERSION, device)
    <3>1. stored \in EnvelopeType /\ stored.items = device BY <1>4, <2>2 DEF Envelope, EnvelopeType, COLLECTION_VERSION
    <3>2. QED BY <1>4, <2>2, <3>1, ReadFacts DEF ReadDevice
  <2>3. QED BY <1>2, <2>1, <2>2
<1>6. \A i \in DOMAIN device : ValidItem(device[i]) BY <1>4, Members DEF Collection
<1>7. sent = {} /\ answers = {} BY DEF Init
<1>8. saved = Contents(device) BY <1>2 DEF Contents
<1>9. QED BY <1>1, <1>4, <1>5, <1>6, <1>7, <1>8 DEF DeviceInv, DeviceSound, MergesSound, InFlight, DeviceKept

(* A step that leaves the device alone, starts no load, and loses on the servers nothing that is
   acknowledged. *)
LEMMA DeviceFrame ==
  ASSUME DeviceInv, Inv', stored' = stored, device' = device, saved' \subseteq saved,
         \A c \in saved' : OnSomeServer(c) => OnSomeServer(c)',
         \A r \in InFlight' : IsLoading(r) => r \in InFlight /\ acc'.loading = acc.loading,
         \A a \in answers' : Merged(a) => \/ a \in answers
                                          \/ \A c \in Contents(device) \cap saved' \cap Storable : OnSomeServer(c)'
  PROVE  DeviceInv'
<1>1. ReadDevice' = ReadDevice BY DEF ReadDevice
<1>2. DeviceSound' BY <1>1 DEF DeviceInv, DeviceSound
<1>3. MergesSound'
  <2>1. ASSUME NEW r \in InFlight', IsLoading(r)
        PROVE  acc'.loading /\ (r.kind = "merge" => r.list = device')
    BY <2>1 DEF DeviceInv, MergesSound, IsLoading
  <2>2. ASSUME NEW a \in answers', Merged(a), NEW c \in Contents(device) \cap saved' \cap Storable
        PROVE  OnSomeServer(c)'
    <3>1. CASE a \in answers
      <4>1. OnSomeServer(c) BY <2>2, <3>1 DEF DeviceInv, MergesSound, Merged, OnSomeServer
      <4>2. QED BY <4>1
    <3>2. QED BY <2>2, <3>1
  <2>3. Contents(device') = Contents(device) OBVIOUS
  <2>4. QED BY <2>1, <2>2, <2>3 DEF MergesSound, IsLoading, Merged, OnSomeServer
<1>4. DeviceKept'
  <2>1. ASSUME NEW c \in saved' \cap Storable, c \notin Contents(ReadDevice.items) PROVE OnSomeServer(c)'
    <3>1. OnSomeServer(c) BY <2>1 DEF DeviceInv, DeviceKept, OnSomeServer
    <3>2. QED BY <3>1
  <2>2. QED BY <1>1, <2>1 DEF DeviceKept, OnSomeServer
<1>5. QED BY <1>2, <1>3, <1>4 DEF DeviceInv

(* With nothing of the device, the network or the servers changed. *)
LEMMA DeviceUntouched ==
  ASSUME DeviceInv, Inv', UNCHANGED <<live, stored, device, sent, answers, server, saved>>,
         acc' = acc \/ acc'.loading = acc.loading
  PROVE  DeviceInv'
<1>1. InFlight' = InFlight BY DEF InFlight, Live
<1>2. \A c : OnSomeServer(c)' <=> OnSomeServer(c) BY DEF OnSomeServer
<1>3. QED BY <1>1, <1>2, DeviceFrame

(* A click on the device finds no load on its way. *)
LEMMA NoLoadAtClick ==
  ASSUME DeviceInv, Click, OnDevice
  PROVE  \A r \in InFlight : ~IsLoading(r)
<1> USE DEF DeviceInv
<1>1. CASE ~Authenticated
  <2>1. live = Nothing BY <1>1, TokenFacts DEF Click, Inv, TypeOK
  <2>2. ASSUME NEW r \in InFlight PROVE FALSE
    <3>1. r \in Request /\ r.token = live
      BY DEF InFlight, Inv, TypeOK, Answer, OneInFlight, Live
    <3>2. QED BY <2>1, <3>1, RequestFacts
  <2>3. QED BY <2>2
<1>2. CASE Authenticated
  <2>1. ~acc.loading BY <1>2 DEF OnDevice
  <2>2. QED BY <2>1 DEF MergesSound, IsLoading
<1>3. QED BY <1>1, <1>2

(* A click that writes the device: what it acknowledges is what it has written, or was elsewhere. *)
LEMMA WriteDeviceKeeps ==
  ASSUME DeviceInv, Inv', Fits', Click, QuietClick, OnDevice,
         NEW next \in Collection, OneOfEach(next), \A i \in DOMAIN next : ValidItem(next[i]),
         NEW contents, \A c \in contents : c \in Contents(next) \/ (c \in saved /\ c \notin Contents(device)),
         NEW what, WriteDevice(next, contents, what)
  PROVE  DeviceInv'
<1>1. live' = live /\ sent' = sent /\ answers' = answers /\ server' = server BY DEF QuietClick, net
<1>2. CASE UNCHANGED <<stored, device, acc, saved>> BY <1>1, <1>2, DeviceUntouched
<1>3. CASE /\ stored' = Envelope(COLLECTION_VERSION, next) /\ device' = next /\ saved' = contents
  <2>1. DeviceSound'
    <3>1. stored' \in EnvelopeType /\ stored'.items = next BY <1>3 DEF Envelope, EnvelopeType, COLLECTION_VERSION
    <3>2. \A x \in ToSet(next) : ValidItem(x) BY Members DEF Collection, ToSet
    <3>3. Len(next) <= Limit BY <1>3 DEF Fits
    <3>4. ReadCollection(stored', ValidItem, Identity, Limit).items = next BY <1>3, <3>1, <3>2, <3>3, ReadFacts
    <3>5. QED BY <1>3, <3>4 DEF DeviceSound, ReadDevice
  <2>2. \A r \in InFlight' : ~IsLoading(r)
    <3>1. InFlight' = InFlight BY <1>1 DEF InFlight, Live
    <3>2. QED BY <3>1, NoLoadAtClick
  <2>3. MergesSound'
    <3>1. \A a \in answers' : a.request \in InFlight' BY DEF InFlight
    <3>2. QED BY <2>2, <3>1 DEF MergesSound, IsLoading
  <2>4. DeviceKept'
    <3>1. ASSUME NEW c \in contents \cap Storable, c \notin Contents(next) PROVE OnSomeServer(c)'
      <4>1. c \in saved \cap Storable /\ c \notin Contents(device) BY <3>1
      <4>2. ReadDevice.items = device BY DEF DeviceInv, DeviceSound
      <4>3. OnSomeServer(c) BY <4>1, <4>2 DEF DeviceInv, DeviceKept, OnSomeServer
      <4>4. QED BY <1>1, <4>3 DEF OnSomeServer
    <3>2. ReadDevice.items' = next BY <1>3, <2>1 DEF DeviceSound
    <3>3. QED BY <1>3, <3>1, <3>2 DEF DeviceKept, OnSomeServer
  <2>5. QED BY <2>1, <2>3, <2>4 DEF DeviceInv
<1>4. QED BY <1>2, <1>3 DEF WriteDevice

(* A save on the device, if it is told done. *)
LEMMA SaveOnDeviceKeeps ==
  ASSUME DeviceInv, Inv', Fits', NEW c \in Content, NEW l \in Label, SaveOnDevice(c, l)
  PROVE  DeviceInv'
<1> DEFINE x == Item(writes + 1, c, l)
           up == UpsertByIdentity(device, x, Identity)
           next == up.items
           contents == saved \cup {c}
           what == up.disposition
<1>1. writes \in Nat /\ device \in Collection BY DEF DeviceInv, Inv, TypeOK
<1>2. x \in ItemType /\ x.content = c /\ x.label = l BY <1>1 DEF Item, ItemType
<1>3. Click /\ OnDevice /\ QuietClick
      /\ IF what = "unchanged" THEN NoDeviceChange("unchanged") ELSE WriteDevice(next, contents, what)
  BY DEF SaveOnDevice
<1>4. OneOfEach(device) /\ \A i \in DOMAIN device : device[i].label # Nothing
  BY DEF DeviceInv, DeviceSound, ValidItem
<1> HIDE DEF x
<1>5. /\ next \in Collection /\ Contents(next) = Contents(device) \cup {c} /\ OneOfEach(next)
      /\ \A y \in ToSet(next) : y.label = l \/ \E z \in ToSet(device) : y.label = z.label
  BY <1>1, <1>2, <1>4, UpsertFacts
<1> HIDE DEF next, what
<1>6. \A i \in DOMAIN next : ValidItem(next[i])
  <2>1. l # Nothing BY NullsAssumption
  <2>2. \A z \in ToSet(device) : z.label # Nothing BY <1>1, <1>4, Members DEF Collection
  <2>3. \A i \in DOMAIN next : next[i] \in ToSet(next) BY <1>5, Members DEF Collection
  <2>4. QED BY <1>5, <2>1, <2>2, <2>3 DEF ValidItem
<1>7. \A k \in contents : k \in Contents(next) \/ (k \in saved /\ k \notin Contents(device)) BY <1>5
<1> HIDE DEF contents
<1>8. CASE what = "unchanged"
  <2>1. UNCHANGED <<live, stored, device, sent, answers, server, saved, acc>>
    BY <1>3, <1>8 DEF NoDeviceChange, QuietClick, net
  <2>2. QED BY <2>1, DeviceUntouched
<1>9. CASE what # "unchanged" BY <1>3, <1>5, <1>6, <1>7, <1>9, WriteDeviceKeeps
<1>10. QED BY <1>8, <1>9

(* A rename, which says nothing of the contents. *)
LEMMA RenameOnDeviceKeeps ==
  ASSUME DeviceInv, Inv', Fits', NEW id \in Nat, NEW l \in Label, RenameOnDevice(id, l)
  PROVE  DeviceInv'
<1> DEFINE next == Relabelled(device, id, l)
<1>1. device \in Collection BY DEF DeviceInv, Inv, TypeOK
<1>2. Click /\ OnDevice /\ QuietClick
      /\ IF next = device THEN NoDeviceChange("unchanged") ELSE WriteDevice(next, saved, "updated")
  BY DEF RenameOnDevice
<1>3. OneOfEach(device) /\ \A i \in DOMAIN device : device[i].label # Nothing
  BY DEF DeviceInv, DeviceSound, ValidItem
<1>4. /\ next \in Collection /\ Contents(next) = Contents(device) /\ DOMAIN next = DOMAIN device
      /\ \A i \in DOMAIN device : next[i].content = device[i].content /\ next[i].label \in {device[i].label, l}
  BY <1>1, RelabelledFacts
<1> HIDE DEF next
<1>5. OneOfEach(next) BY <1>3, <1>4 DEF OneOfEach
<1>6. \A i \in DOMAIN next : ValidItem(next[i]) BY <1>3, <1>4, NullsAssumption DEF ValidItem
<1>7. \A k \in saved : k \in Contents(next) \/ (k \in saved /\ k \notin Contents(device)) BY <1>4
<1>8. CASE next = device
  <2>1. UNCHANGED <<live, stored, device, sent, answers, server, saved, acc>>
    BY <1>2, <1>8 DEF NoDeviceChange, QuietClick, net
  <2>2. QED BY <2>1, DeviceUntouched
<1>9. CASE next # device BY <1>2, <1>4, <1>5, <1>6, <1>7, <1>9, WriteDeviceKeeps
<1>10. QED BY <1>8, <1>9

(* A removal, which takes back what was acknowledged of the item. *)
LEMMA RemoveOnDeviceKeeps ==
  ASSUME DeviceInv, Inv', Fits', NEW id \in Nat, RemoveOnDevice(id)
  PROVE  DeviceInv'
<1> DEFINE next == WithoutItem(device, id)
           contents == saved \ { i.content : i \in Find(device, id) }
<1>1. device \in Collection BY DEF DeviceInv, Inv, TypeOK
<1>2. Click /\ OnDevice /\ QuietClick /\ WriteDevice(next, contents, "removed") BY DEF RemoveOnDevice
<1>3. OneOfEach(device) /\ \A i \in DOMAIN device : ValidItem(device[i]) BY DEF DeviceInv, DeviceSound
<1>4. next \in Collection /\ ToSet(next) = { x \in ToSet(device) : x.id # id } /\ OneOfEach(next)
  BY <1>1, <1>3, WithoutItemFacts
<1> HIDE DEF next
<1>5. Contents(next) = { x.content : x \in ToSet(next) } /\ Contents(device) = { x.content : x \in ToSet(device) }
  BY <1>1, <1>4, FoundFacts
<1>6. \A i \in DOMAIN next : ValidItem(next[i])
  <2>1. \A z \in ToSet(device) : ValidItem(z) BY <1>1, <1>3, Members DEF Collection
  <2>2. \A i \in DOMAIN next : next[i] \in ToSet(next) BY <1>4, Members DEF Collection
  <2>3. QED BY <1>4, <2>1, <2>2
<1>7. \A k \in contents : k \in Contents(next) \/ (k \in saved /\ k \notin Contents(device))
  BY <1>4, <1>5 DEF Find
<1> HIDE DEF contents
<1>8. QED BY <1>2, <1>4, <1>6, <1>7, WriteDeviceKeeps

(* The steps that neither write the device nor hear of a load. *)
LEMMA QuietStepsKeep ==
  ASSUME DeviceInv, Inv',
         \/ SessionChange \/ Retry \/ WhileSyncing \/ \E w \in orphans : Abandon(w)
         \/ \E c \in Content, l \in Label : SaveToAccount(c, l)
         \/ \E id \in Nat : RemoveFromAccount(id) \/ \E l \in Label : RenameInAccount(id, l)
  PROVE  DeviceInv'
<1> USE DEF DeviceInv
<1>1. ASSUME NEW draft, Click, OnAccount, AccountWrite(draft) PROVE DeviceInv'
  <2>1. acc \in AccountState BY <1>1, AtWorkFacts
  <2>2. acc'.loading = acc.loading BY <1>1, <2>1 DEF AccountWrite, AccountState
  <2>3. UNCHANGED <<live, stored, device, sent, answers, server, saved>> BY <1>1 DEF AccountWrite, net
  <2>4. QED BY <2>2, <2>3, DeviceUntouched
<1>2. ASSUME AccountUnchanged PROVE DeviceInv'
  <2>1. UNCHANGED <<live, stored, device, sent, answers, server, saved, acc>>
    BY <1>2 DEF AccountUnchanged, QuietClick, net
  <2>2. QED BY <2>1, DeviceUntouched
<1>3. CASE SessionChange \/ Retry \/ WhileSyncing \/ \E w \in orphans : Abandon(w)
  <2>1. UNCHANGED <<live, stored, device, sent, answers, server, saved, acc>>
    BY <1>3 DEF SessionChange, Retry, WhileSyncing, NoDeviceChange, QuietClick, Abandon, net, history
  <2>2. QED BY <2>1, DeviceUntouched
<1>4. ASSUME NEW c \in Content, NEW l \in Label, SaveToAccount(c, l) PROVE DeviceInv'
  BY <1>1, <1>2, <1>4 DEF SaveToAccount
<1>5. ASSUME NEW id \in Nat, RemoveFromAccount(id) PROVE DeviceInv'
  BY <1>1, <1>5 DEF RemoveFromAccount
<1>6. ASSUME NEW id \in Nat, NEW l \in Label, RenameInAccount(id, l) PROVE DeviceInv'
  BY <1>1, <1>2, <1>6 DEF RenameInAccount
<1>7. QED BY <1>3, <1>4, <1>5, <1>6

(* A hop of a chain sends a write, never a load. *)
LEMMA StartHopKeeps == ASSUME DeviceInv, Inv', NEW id \in DOMAIN queued, StartHop(id) PROVE DeviceInv'
<1> USE DEF DeviceInv
<1>1. /\ sent' = sent \cup {[kind |-> i.kind, account |-> acc.account, token |-> live, id |-> id,
                             item |-> i.item, label |-> i.label, list |-> <<>>, write |-> i.write]
                            : i \in IntentOf(book.intents, id)}
      /\ UNCHANGED <<live, stored, device, acc, answers, server, saved>>
  BY DEF StartHop, history
<1>2. IntentOf(book.intents, id) \subseteq IntentType
  <2>1. ToSet(book.intents) \subseteq IntentType BY Members DEF Inv, TypeOK
  <2>2. QED BY <2>1 DEF IntentOf
<1>3. \A r \in sent' : r \in sent \/ ~IsLoading(r) BY <1>1, <1>2 DEF IntentType, IsLoading
<1>4. \A r \in InFlight' : IsLoading(r) => r \in InFlight BY <1>1, <1>3 DEF InFlight, Live
<1>5. \A c : OnSomeServer(c)' <=> OnSomeServer(c) BY <1>1 DEF OnSomeServer
<1>6. stored' = stored /\ device' = device /\ saved' = saved /\ acc' = acc /\ answers' = answers BY <1>1
<1>7. QED BY <1>4, <1>5, <1>6, DeviceFrame

(* A request that never arrives, or whose response does not. *)
LEMMA LossKeeps ==
  ASSUME DeviceInv, Inv', (\E r \in sent : Lost(r)) \/ (\E a \in answers : ResponseLost(a))
  PROVE  DeviceInv'
<1> USE DEF DeviceInv
<1>1. stored' = stored /\ device' = device /\ saved' = saved /\ acc' = acc /\ server' = server /\ live' = live
  BY DEF Lost, ResponseLost, history
<1>2. \A c : OnSomeServer(c)' <=> OnSomeServer(c) BY <1>1 DEF OnSomeServer
<1>3. InFlight' \subseteq InFlight /\ \A a \in answers' : Merged(a) => a \in answers
  <2>1. ASSUME NEW r \in sent, Lost(r) PROVE InFlight' \subseteq InFlight /\ \A a \in answers' : Merged(a) => a \in answers
    <3> DEFINE new == [request |-> r, list |-> Unknown]
    <3>1. sent' = sent \ {r} /\ answers' = (IF Live(r) THEN answers \cup {new} ELSE answers)
      BY <2>1 DEF Lost, Respond
    <3>2. new.request = r /\ new.list = Unknown OBVIOUS
    <3> HIDE DEF new
    <3>3. \A a \in answers' : a \in answers \/ (a = new /\ Live(r)) BY <3>1
    <3>4. QED BY <1>1, <3>1, <3>2, <3>3 DEF InFlight, Live, Merged
  <2>2. ASSUME NEW a \in answers, ResponseLost(a)
        PROVE  InFlight' \subseteq InFlight /\ \A b \in answers' : Merged(b) => b \in answers
    <3> DEFINE lost == [a EXCEPT !.list = Unknown]
    <3>1. sent' = sent /\ answers' = (answers \ {a}) \cup {lost} BY <2>2 DEF ResponseLost
    <3>2. a \in Answer BY DEF Inv, TypeOK
    <3>3. lost.request = a.request /\ lost.list = Unknown BY <3>2 DEF Answer
    <3> HIDE DEF lost
    <3>4. QED BY <1>1, <3>1, <3>3 DEF InFlight, Live, Merged
  <2>3. QED BY <2>1, <2>2
<1>4. QED BY <1>1, <1>2, <1>3, DeviceFrame

(* The server handles a request: what it drops is what a removal names, and what a merge brought
   is there when it is answered. *)
LEMMA ServeKeeps == ASSUME DeviceInv, Inv', NEW r \in sent, Serve(r) PROVE DeviceInv'
<1> USE DEF DeviceInv
<1> DEFINE answer == Handled(r)
           before == server[r.account]
           after == IF answer = Unknown THEN before ELSE answer
           new == [request |-> r, list |-> answer]
           gone == { i.content : i \in Find(before, r.id) }
<1>1. /\ sent' = sent \ {r} /\ answers' = (IF Live(r) THEN answers \cup {new} ELSE answers)
      /\ server' = [server EXCEPT ![r.account] = after]
      /\ saved' = (IF r.kind = "remove" THEN saved \ gone ELSE saved)
      /\ stored' = stored /\ device' = device /\ acc' = acc /\ live' = live
  BY DEF Serve, Respond
<1>2. r \in Request /\ server \in [Account -> Collection] BY DEF Inv, TypeOK
<1>3. r.account \in Account BY <1>2, RequestFacts
<1>4. /\ answer # Unknown => /\ r.kind # "remove" => Contents(before) \subseteq Contents(answer)
                             /\ r.kind = "remove" => Contents(before) \ gone \subseteq Contents(answer)
                             /\ r.kind = "merge" => Contents(r.list) \cap Storable \subseteq Contents(answer)
  BY <1>2, HandledFacts
<1>5. new.request = r /\ new.list = answer OBVIOUS
<1> HIDE DEF answer, new, gone
<1>6. Contents(before) \cap saved' \subseteq Contents(after) BY <1>1, <1>4
<1>7. \A b \in Account : server'[b] = IF b = r.account THEN after ELSE server[b] BY <1>1, <1>2
<1>8. \A c \in saved' : OnSomeServer(c) => OnSomeServer(c)'
  <2>1. ASSUME NEW c \in saved', NEW b \in Account, c \in Contents(server[b]) PROVE c \in Contents(server'[b])
    BY <1>6, <1>7, <2>1
  <2>2. QED BY <2>1 DEF OnSomeServer
<1>9. \A a \in answers' : a \in answers \/ (a = new /\ Live(r)) BY <1>1
<1>10. InFlight' \subseteq InFlight BY <1>1, <1>5, <1>9 DEF InFlight, Live
<1>11. ASSUME NEW a \in answers', Merged(a), a \notin answers,
              NEW c \in Contents(device) \cap saved' \cap Storable
       PROVE  OnSomeServer(c)'
  <2>1. a = new /\ Live(r) /\ r.kind = "merge" /\ answer # Unknown BY <1>5, <1>9, <1>11 DEF Merged
  <2>2. r.list = device BY <2>1 DEF MergesSound, InFlight
  <2>3. c \in Contents(after) BY <1>4, <1>11, <2>1, <2>2
  <2>4. c \in Contents(server'[r.account]) BY <1>3, <1>7, <2>3
  <2>5. QED BY <1>3, <2>4 DEF OnSomeServer
<1>12. saved' \subseteq saved BY <1>1
<1>13. QED BY <1>1, <1>8, <1>10, <1>11, <1>12, DeviceFrame

(* A load comes back: the device copy goes only when the merge that took it has been confirmed. *)
LEMMA LoadedKeeps == ASSUME DeviceInv, Inv', NEW a \in answers, Loaded(a) PROVE DeviceInv'
<1> USE DEF DeviceInv
<1>1. /\ IsLoading(a.request) /\ answers' = answers \ {a} /\ sent' = sent
      /\ IF Merged(a) THEN device' = <<>> /\ stored' = Envelope(COLLECTION_VERSION, <<>>)
                      ELSE device' = device /\ stored' = stored
      /\ live' = live /\ server' = server /\ saved' = saved
  BY DEF Loaded, IsLoad, IsLoading, Arrives, RetiresDevice, Merged, history
<1>2. \A r \in InFlight' : ~IsLoading(r)
  <2>1. InFlight' \subseteq InFlight /\ \A r \in InFlight' : r.id # a.request.id
    BY <1>1, ArrivesInv DEF Loaded
  <2>2. a.request \in Request BY AnswerFacts
  <2>3. InFlight \subseteq Request BY DEF InFlight, Inv, TypeOK, Answer
  <2>4. QED BY <1>1, <2>1, <2>2, <2>3, RequestFacts DEF IsLoading
<1>3. \A b \in answers' : ~Merged(b) BY <1>2 DEF InFlight, Merged, IsLoading
<1>4. CASE ~Merged(a)
  <2>1. \A c : OnSomeServer(c)' <=> OnSomeServer(c) BY <1>1 DEF OnSomeServer
  <2>2. QED BY <1>1, <1>2, <1>3, <1>4, <2>1, DeviceFrame
<1>5. CASE Merged(a)
  <2>1. device' = <<>> /\ stored' = Envelope(COLLECTION_VERSION, <<>>) BY <1>1, <1>5
  <2>2. DeviceSound'
    <3>1. stored' \in EnvelopeType /\ stored'.items = <<>>
      BY <2>1, EmptyFacts DEF Envelope, EnvelopeType, COLLECTION_VERSION
    <3> DEFINE s == stored'
    <3>2. s = Envelope(COLLECTION_VERSION, s.items) /\ OneOfEach(s.items) BY <2>1, <3>1, EmptyFacts
    <3>3. \A x \in ToSet(s.items) : ValidItem(x) BY <3>1, EmptyFacts
    <3>4. Len(s.items) <= Limit BY <3>1, BoundsAssumption
    <3> HIDE DEF s
    <3>5. s \in EnvelopeType /\ s.items = <<>> BY <3>1 DEF s
    <3>6. ReadCollection(s, ValidItem, Identity, Limit).items = <<>>
      BY <3>2, <3>3, <3>4, <3>5, ReadFacts
    <3>7. ReadDevice.items' = <<>> BY <3>6 DEF ReadDevice, s
    <3>8. QED BY <2>1, <3>7, EmptyFacts DEF DeviceSound
  <2>3. MergesSound' BY <1>2, <1>3 DEF MergesSound, IsLoading, Merged
  <2>4. DeviceKept'
    <3>1. ASSUME NEW c \in saved \cap Storable PROVE OnSomeServer(c)'
      <4>1. CASE c \in Contents(ReadDevice.items)
        <5>1. c \in Contents(device) BY <4>1 DEF DeviceSound
        <5>2. OnSomeServer(c) BY <1>5, <3>1, <5>1 DEF MergesSound, Merged, OnSomeServer
        <5>3. QED BY <1>1, <5>2 DEF OnSomeServer
      <4>2. CASE c \notin Contents(ReadDevice.items)
        <5>1. OnSomeServer(c) BY <3>1, <4>2 DEF DeviceKept, OnSomeServer
        <5>2. QED BY <1>1, <5>1 DEF OnSomeServer
      <4>3. QED BY <4>1, <4>2
    <3>2. QED BY <1>1, <3>1 DEF DeviceKept, OnSomeServer
  <2>5. QED BY <2>2, <2>3, <2>4
<1>6. QED BY <1>4, <1>5

(* A write comes back. *)
LEMMA WroteKeeps == ASSUME DeviceInv, Inv', NEW a \in answers, Wrote(a) PROVE DeviceInv'
<1> USE DEF DeviceInv
<1>1. /\ answers' = answers \ {a} /\ sent' = sent /\ UNCHANGED <<ui, live>>
      /\ stored' = stored /\ device' = device /\ server' = server /\ saved' = saved
  BY DEF Wrote, Arrives, history
<1>2. InFlight' \subseteq InFlight BY <1>1, ArrivesInv
<1>3. \A c : OnSomeServer(c)' <=> OnSomeServer(c) BY <1>1 DEF OnSomeServer
<1>4. acc'.loading = acc.loading
  <2>1. acc \in AccountState BY AnswerFacts
  <2>2. acc' = acc \/ \E items, origin, pending, error :
          acc' = [acc EXCEPT !.items = items, !.origin = origin, !.pending = pending, !.error = error]
    <3>1. CASE a.list # Unknown
      <4> DEFINE items == ReplayIntents(a.list, book'.intents)
                 pending == IF Superseded(a) THEN acc.pending ELSE acc.pending \ {a.request.id}
                 error == IF Superseded(a) THEN acc.error ELSE FALSE
      <4>1. acc' = [acc EXCEPT !.items = items, !.origin = "server", !.pending = pending, !.error = error]
        BY <3>1 DEF Wrote
      <4> HIDE DEF items, pending, error
      <4>2. QED BY <4>1
    <3>2. CASE a.list = Unknown /\ Superseded(a) BY <3>2 DEF Wrote
    <3>3. CASE a.list = Unknown /\ ~Superseded(a)
      <4> DEFINE intent == CHOOSE i \in IntentOf(book.intents, a.request.id) : TRUE
                 items == IF acc.items = Unknown THEN acc.items ELSE Rollback(acc.items, intent)
                 pending == acc.pending \ {a.request.id}
      <4>1. acc' = [acc EXCEPT !.items = items, !.pending = pending, !.error = TRUE] BY <3>3 DEF Wrote
      <4> HIDE DEF items, pending
      <4>2. acc' = [acc EXCEPT !.items = items, !.origin = acc.origin, !.pending = pending, !.error = TRUE]
        BY <2>1, <4>1 DEF AccountState
      <4>3. QED BY <4>2
    <3>4. QED BY <3>1, <3>2, <3>3
  <2>3. QED BY <2>1, <2>2 DEF AccountState
<1>5. \A b \in answers' : Merged(b) => b \in answers BY <1>1
<1>6. saved' \subseteq saved BY <1>1
<1>7. QED BY <1>1, <1>2, <1>3, <1>4, <1>5, <1>6, DeviceFrame

(* The effects of a render: the one load on its way takes what is on the device. *)
LEMMA RunEffectsKeeps == ASSUME DeviceInv, Inv', RunEffects PROVE DeviceInv'
<1> USE DEF DeviceInv
<1> DEFINE load == [kind |-> IF device # <<>> THEN "merge" ELSE "load", account |-> Token[1],
                    token |-> Token, id |-> Nothing, item |-> Nothing, label |-> Nothing,
                    list |-> device, write |-> 0]
<1>1. ReadDevice.items = device BY DEF DeviceSound
<1>2. /\ EffectsPending /\ live' = Token /\ answers' = {}
      /\ Authenticated => sent' = sent \cup {load} /\ acc'.loading
      /\ ~Authenticated => sent' = sent
      /\ stored' = stored /\ device' = device /\ server' = server /\ saved' = saved
  BY <1>1 DEF RunEffects
<1>3. \A r \in sent : r.token # Token BY <1>2 DEF Inv, TokensFresh
<1>4. load.list = device OBVIOUS
<1> HIDE DEF load
<1>5. \A r \in InFlight' : Authenticated /\ r = load
  <2>1. InFlight' = { r \in sent' : r.token = live' } BY <1>2 DEF InFlight, Live
  <2>2. QED BY <1>2, <1>3, <2>1
<1>6. ReadDevice' = ReadDevice BY <1>2 DEF ReadDevice
<1>7. DeviceSound' BY <1>2, <1>6 DEF DeviceSound
<1>8. MergesSound' BY <1>2, <1>4, <1>5 DEF MergesSound
<1>9. DeviceKept' BY <1>2, <1>6 DEF DeviceKept
<1>10. QED BY <1>7, <1>8, <1>9

(* Every step that leaves the device within its limit. *)
LEMMA DeviceNext == DeviceInv /\ [Next]_vars /\ Fits' => DeviceInv'
<1> SUFFICES ASSUME DeviceInv, [Next]_vars, Fits' PROVE DeviceInv' OBVIOUS
<1>1. Inv' BY NextInv DEF DeviceInv
<1>2. Ids \subseteq Nat BY IdsFacts DEF DeviceInv, Inv
<1>3. ASSUME NEW c \in Content, NEW l \in Label, SaveOnDevice(c, l) PROVE DeviceInv' BY <1>1, <1>3, SaveOnDeviceKeeps
<1>4. ASSUME NEW id \in Nat, RemoveOnDevice(id) PROVE DeviceInv' BY <1>1, <1>4, RemoveOnDeviceKeeps
<1>5. ASSUME NEW id \in Nat, NEW l \in Label, RenameOnDevice(id, l) PROVE DeviceInv'
  BY <1>1, <1>5, RenameOnDeviceKeeps
<1>6. CASE Scout BY <1>1, <1>2, <1>3, <1>4, <1>5, <1>6, QuietStepsKeep DEF Scout
<1>7. CASE Failure BY <1>1, <1>7, LossKeeps DEF Failure
<1>8. CASE Progress
  <2>1. CASE \E w \in orphans : Abandon(w) BY <1>1, <2>1, QuietStepsKeep
  <2>2. CASE RunEffects BY <1>1, <2>2, RunEffectsKeeps
  <2>3. ASSUME NEW id \in DOMAIN queued, StartHop(id) PROVE DeviceInv' BY <1>1, <2>3, StartHopKeeps
  <2>4. ASSUME NEW r \in sent, Serve(r) PROVE DeviceInv' BY <1>1, <2>4, ServeKeeps
  <2>5. ASSUME NEW a \in answers, Loaded(a) \/ Wrote(a) PROVE DeviceInv' BY <1>1, <2>5, LoadedKeeps, WroteKeeps
  <2>6. QED BY <1>8, <2>1, <2>2, <2>3, <2>4, <2>5 DEF Progress
<1>9. CASE UNCHANGED vars
  <2>1. UNCHANGED <<live, stored, device, sent, answers, server, saved, acc>> BY <1>9 DEF vars, net, history
  <2>2. QED BY <1>1, <2>1, DeviceUntouched
<1>10. QED BY <1>6, <1>7, <1>8, <1>9 DEF Next

(* "A partial success cannot lose somebody's saved work": while the device list does not outgrow its
   limit, what the device has acknowledged is on the device or in an account until it is removed,
   whichever responses are lost and whenever the scout signs in, retries or signs out. *)
THEOREM DeviceKeptCorrect == Spec /\ []Fits => []DeviceKept
<1>1. Init => DeviceInv BY InitDevice
<1>2. DeviceInv /\ [Next]_vars /\ Fits' => DeviceInv' BY DeviceNext
<1>3. DeviceInv => DeviceKept BY DEF DeviceInv
<1>4. QED BY <1>1, <1>2, <1>3, PTL DEF Spec

-----------------------------------------------------------------------------
(* What a success means.  The writes of an item reach the server one at a    *)
(* time, in the order asked for; what the last one said is there when its    *)
(* answer comes, and nobody else's request has changed it since.             *)

\* Every item anybody has: with those on screen, in an answer, on the book and in the history,
\* a client id still names one content.
Screen == IF acc = Nothing THEN {} ELSE IF acc.items = Unknown THEN {} ELSE ToSet(acc.items)
Heard == UNION { ToSet(a.request.list) \cup (IF a.list = Unknown THEN {} ELSE ToSet(a.list)) : a \in answers }
Asked == { last[k].item : k \in DOMAIN last }
Drafted == { i.item : i \in ToSet(book.intents) }
Seen == Screen \cup Heard \cup book.canonical \cup Asked \cup Drafted
Named == Known \cup Seen
NamesSound == Unambiguous(Names(Named)) /\ Minted(Names(Named), writes)
NamesInv == Inv /\ NamesSound

(* Items anybody has are items. *)
LEMMA NamedType == ASSUME TypeOK PROVE Named \subseteq ItemType /\ Names(Named) \subseteq Nat \X Content
<1>1. Known \subseteq ItemType BY KnownType
<1>2. Screen \subseteq ItemType
  <2>1. acc # Nothing /\ acc.items # Unknown => acc.items \in Collection BY DEF TypeOK, AccountState
  <2>2. QED BY <2>1, FoundFacts DEF Screen
<1>3. Heard \subseteq ItemType
  <2>1. ASSUME NEW a \in answers
        PROVE  ToSet(a.request.list) \subseteq ItemType /\ (a.list # Unknown => ToSet(a.list) \subseteq ItemType)
    <3>1. a.request \in Request /\ a.list \in Collection \cup {Unknown} BY DEF TypeOK, Answer
    <3>2. a.request.list \in Collection BY <3>1, RequestFacts
    <3>3. QED BY <3>1, <3>2, FoundFacts
  <2>2. QED BY <2>1 DEF Heard
<1>4. book.canonical \subseteq ItemType BY DEF TypeOK
<1>5. Asked \subseteq ItemType BY DEF Asked, TypeOK, DraftType
<1>8. Drafted \subseteq ItemType
  <2>1. ToSet(book.intents) \subseteq IntentType BY Members DEF TypeOK
  <2>2. QED BY <2>1 DEF Drafted, IntentType
<1>6. Named \subseteq ItemType BY <1>1, <1>2, <1>3, <1>4, <1>5, <1>8 DEF Named, Seen
<1>7. QED BY <1>6 DEF Names, ItemType

(* A step that names nothing new. *)
LEMMA NamesUnchanged ==
  ASSUME NamesInv, writes' \in Nat, writes <= writes', Names(Known)' \subseteq Names(Named),
         Names(Seen)' \subseteq Names(Named)
  PROVE  NamesSound'
<1> DEFINE N == Names(Named)
           M == Names(Named')
<1>1. writes \in Nat /\ N \subseteq Nat \X Content BY NamedType DEF NamesInv, Inv, TypeOK
<1>2. Unambiguous(N) /\ Minted(N, writes) BY DEF NamesInv, NamesSound
<1>3. M \subseteq N BY DEF Names, Named
<1>4. NamesSound' <=> Unambiguous(M) /\ Minted(M, writes') BY DEF NamesSound
<1> HIDE DEF N, M
<1>5. Unambiguous(M) /\ Minted(M, writes') BY <1>1, <1>2, <1>3, NamesKept
<1>6. QED BY <1>4, <1>5

(* A click that names one new id. *)
LEMMA NamesNew ==
  ASSUME NamesInv, Click, NEW c, Names(Known)' \subseteq Names(Named) \cup {<<writes + 1, c>>},
         Names(Seen)' \subseteq Names(Named) \cup {<<writes + 1, c>>}
  PROVE  NamesSound'
<1> DEFINE N == Names(Named)
           M == Names(Named')
<1>1. writes \in Nat /\ N \subseteq Nat \X Content BY NamedType DEF NamesInv, Inv, TypeOK
<1>2. Unambiguous(N) /\ Minted(N, writes) BY DEF NamesInv, NamesSound
<1>3. M \subseteq N \cup {<<writes + 1, c>>} BY DEF Names, Named
<1>4. NamesSound' <=> Unambiguous(M) /\ Minted(M, writes') BY DEF NamesSound
<1>5. writes < MaxWrites /\ writes' = writes + 1 BY DEF Click
<1> HIDE DEF N, M
<1>6. Unambiguous(M) /\ Minted(M, writes + 1) BY <1>1, <1>2, <1>3, <1>5, NamesMinted
<1>7. QED BY <1>4, <1>5, <1>6

(* An intent brings the name of its item only when it creates it. *)
LEMMA AppliedNames ==
  ASSUME NEW list \in Collection, NEW d, d.kind \in {"create", "rename", "remove"}, d.id \in Nat,
         d.item \in ItemType, d.label \in Label \cup {Nothing}
  PROVE  Names(ToSet(ApplyOptimistically(list, d)))
           \subseteq Names(ToSet(list)) \cup Names({ x \in {d.item} : d.kind = "create" })
<1>1. CASE d.kind = "create"
  <2>1. ToSet(ApplyOptimistically(list, d)) = ToSet(list) \cup {d.item} BY <1>1, AppendedFacts DEF ApplyOptimistically
  <2>2. QED BY <1>1, <2>1 DEF Names
<1>2. CASE d.kind = "remove"
  <2>1. ToSet(ApplyOptimistically(list, d)) \subseteq ToSet(list) BY <1>2, WithoutItemFacts DEF ApplyOptimistically
  <2>2. QED BY <2>1 DEF Names
<1>3. CASE d.kind = "rename"
  <2>1. Names(ToSet(ApplyOptimistically(list, d))) = Names(ToSet(list)) BY <1>3, RelabelledFacts DEF ApplyOptimistically
  <2>2. QED BY <2>1
<1>4. QED BY <1>1, <1>2, <1>3

(* So does a replay of them all. *)
LEMMA ReplayNames ==
  ASSUME NEW base \in Collection, NEW intents \in Seq(IntentType), \A i \in ToSet(intents) : WellFormed(i)
  PROVE  Names(ToSet(ReplayIntents(base, intents)))
           \subseteq Names(ToSet(base)) \cup Names({ i.item : i \in { k \in ToSet(intents) : k.kind = "create" } })
<1>1. Len(intents) \in Nat /\ ToSet(intents) = {intents[i] : i \in 1..Len(intents)} BY Members
<1>2. PICK f : Replayed(f, Len(intents), base, intents) /\ ReplayIntents(base, intents) = f[Len(intents)]
  BY <1>1, ReplayUnfolds
<1> DEFINE brought == Names({ i.item : i \in { k \in ToSet(intents) : k.kind = "create" } })
           T == {n \in Nat : n <= Len(intents) =>
                   f[n] \in Collection /\ Names(ToSet(f[n])) \subseteq Names(ToSet(base)) \cup brought}
<1>3. f[0] = base /\ \A i \in 1..Len(intents) : f[i] = ApplyOptimistically(f[i - 1], intents[i])
  BY <1>1, <1>2 DEF Replayed
<1>4. 0 \in T BY <1>1, <1>3
<1>5. ASSUME NEW n \in Nat, n \in T PROVE n + 1 \in T
  <2> SUFFICES ASSUME n + 1 <= Len(intents)
               PROVE  f[n + 1] \in Collection /\ Names(ToSet(f[n + 1])) \subseteq Names(ToSet(base)) \cup brought
    OBVIOUS
  <2>1. f[n] \in Collection /\ Names(ToSet(f[n])) \subseteq Names(ToSet(base)) \cup brought BY <1>1, <1>5
  <2> DEFINE d == intents[n + 1]
  <2>2. n + 1 \in 1..Len(intents) /\ (n + 1) - 1 = n BY <1>1
  <2>3. d \in IntentType /\ d \in ToSet(intents) BY <1>1, <2>2
  <2>4. d.kind \in {"create", "rename", "remove"} /\ d.id \in Nat /\ d.item \in ItemType
        /\ d.label \in Label \cup {Nothing} /\ (d.kind = "create" => d.item.id = d.id)
    BY <2>3 DEF IntentType, WellFormed
  <2>5. f[n + 1] = ApplyOptimistically(f[n], d) BY <1>3, <2>2
  <2>6. Names({ x \in {d.item} : d.kind = "create" }) \subseteq brought BY <2>3 DEF Names
  <2> HIDE DEF d, brought
  <2>7. ApplyOptimistically(f[n], d) \in Collection BY <2>1, <2>4, AppliedFacts
  <2>8. Names(ToSet(ApplyOptimistically(f[n], d))) \subseteq Names(ToSet(f[n])) \cup Names({ x \in {d.item} : d.kind = "create" })
    BY <2>1, <2>4, AppliedNames
  <2>9. QED BY <2>1, <2>5, <2>6, <2>7, <2>8
<1> HIDE DEF T, brought
<1>6. Len(intents) \in T BY <1>1, <1>4, <1>5, Inductive
<1>7. QED BY <1>1, <1>2, <1>6 DEF T, brought

(* A rollback brings back what the server has confirmed. *)
LEMMA RollbackNames ==
  ASSUME NEW list \in Collection, NEW i \in IntentType, WellFormed(i)
  PROVE  Names(ToSet(Rollback(list, i))) \subseteq Names(ToSet(list)) \cup Names({i.baseline} \ {Nothing})
<1> DEFINE at == IF i.kind = "remove" /\ i.at < Len(list) + 1 THEN i.at ELSE Len(list) + 1
<1>1. i.id \in Nat /\ i.at \in Nat /\ Len(list) \in Nat BY DEF IntentType, Collection
<1>2. CASE i.baseline = Nothing
  <2>1. Rollback(list, i) = WithoutItem(list, i.id) BY <1>2 DEF Rollback
  <2>2. ToSet(Rollback(list, i)) \subseteq ToSet(list) BY <1>1, <2>1, WithoutItemFacts
  <2>3. QED BY <2>2 DEF Names
<1>3. CASE i.baseline # Nothing /\ Find(list, i.id) # {}
  <2> DEFINE t == [k \in DOMAIN list |-> IF list[k].id = i.id THEN i.baseline ELSE list[k]]
  <2>1. Rollback(list, i) = t BY <1>3 DEF Rollback
  <2>2. ToSet(t) \subseteq ToSet(list) \cup {i.baseline}
    <3>1. DOMAIN t = DOMAIN list OBVIOUS
    <3>2. QED BY <3>1 DEF ToSet
  <2>3. ToSet(t) \subseteq ToSet(list) \cup ({i.baseline} \ {Nothing}) BY <1>3, <2>2
  <2> HIDE DEF t
  <2>4. QED BY <2>1, <2>3 DEF Names
<1>4. CASE i.baseline # Nothing /\ Find(list, i.id) = {}
  <2>1. Rollback(list, i) = InsertAt(list, at, i.baseline) BY <1>4 DEF Rollback
  <2>2. at \in 1..(Len(list) + 1) BY <1>1 DEF WellFormed
  <2>3. i.baseline \in ItemType BY <1>4 DEF IntentType
  <2> HIDE DEF at
  <2>4. ToSet(InsertAt(list, at, i.baseline)) = ToSet(list) \cup {i.baseline}
    BY <2>2, <2>3, InsertAtFacts DEF Collection
  <2>5. ToSet(Rollback(list, i)) \subseteq ToSet(list) \cup ({i.baseline} \ {Nothing}) BY <1>4, <2>1, <2>4
  <2>6. QED BY <2>5 DEF Names
<1>5. QED BY <1>2, <1>3, <1>4

\* What a click on the account collection writes: a new item, or one that is on screen.
Fresh(d) == d.kind = "create" /\ d.id = writes + 1 /\ d.item.label = d.label
OnScreen(d) == d.kind # "create" /\ d.item \in ToSet(Shown)
Asks(d) == d \in DraftType /\ WellFormed(d) /\ d.item.id = d.id /\ (Fresh(d) \/ OnScreen(d))

(* A click on the account collection changes nothing, or writes one such thing. *)
LEMMA AccountClicks ==
  ASSUME Inv,
         \/ \E c \in Content, l \in Label : SaveToAccount(c, l)
         \/ \E id \in Nat, l \in Label : RenameInAccount(id, l)
         \/ \E id \in Nat : RemoveFromAccount(id)
  PROVE  Click /\ OnAccount /\ (AccountUnchanged \/ \E d : Asks(d) /\ AccountWrite(d))
<1>1. ASSUME NEW c \in Content, NEW l \in Label, SaveToAccount(c, l)
      PROVE  Click /\ OnAccount /\ (AccountUnchanged \/ \E d : Asks(d) /\ AccountWrite(d))
  <2> DEFINE at == IndexOf(Shown, LAMBDA i : Identity(i) = c)
             new == Item(writes + 1, c, l)
             create == Draft("create", new.id, new, l, 0)
             rename == Draft("rename", Shown[at].id, Shown[at], l, 0)
  <2>1. /\ Click /\ OnAccount
        /\ IF at = 0 THEN AccountWrite(create)
           ELSE IF Shown[at].label = l THEN AccountUnchanged ELSE AccountWrite(rename)
    BY <1>1 DEF SaveToAccount
  <2>2. writes \in Nat /\ Shown \in Collection BY <2>1, AtWorkFacts
  <2>3. at = 0 \/ at \in DOMAIN Shown
    <3> DEFINE T == { i \in DOMAIN Shown : Identity(Shown[i]) = c }
    <3>1. at = IF T = {} THEN 0 ELSE CHOOSE i \in T : \A j \in T : i <= j BY DEF IndexOf
    <3>2. T \subseteq DOMAIN Shown /\ T \subseteq Nat BY <2>2 DEF Collection
    <3> HIDE DEF T
    <3>3. T # {} => \E i \in T : \A j \in T : i <= j BY <3>2, LeastNumber
    <3>4. QED BY <3>1, <3>2, <3>3
  <2> HIDE DEF at
  <2>4. CASE at = 0
    <3>1. new \in ItemType /\ new.id = writes + 1 /\ new.label = l BY <2>2 DEF Item, ItemType
    <3> HIDE DEF new
    <3>2. create \in DraftType BY <2>2, <3>1 DEF Draft, DraftType
    <3>3. WellFormed(create) /\ create.item.id = create.id /\ Fresh(create) BY <3>1 DEF Draft, WellFormed, Fresh
    <3>4. AccountWrite(create) BY <2>1, <2>4
    <3> HIDE DEF create
    <3>5. QED BY <2>1, <3>2, <3>3, <3>4 DEF Asks
  <2>5. CASE at # 0 /\ Shown[at].label = l BY <2>1, <2>5
  <2>6. CASE at # 0 /\ Shown[at].label # l
    <3>1. Shown[at] \in ItemType /\ Shown[at] \in ToSet(Shown) BY <2>2, <2>3, <2>6 DEF Collection, ToSet
    <3>2. rename \in DraftType BY <3>1 DEF Draft, DraftType, ItemType
    <3>3. WellFormed(rename) /\ rename.item.id = rename.id /\ OnScreen(rename)
      BY <3>1 DEF Draft, WellFormed, OnScreen
    <3>4. AccountWrite(rename) BY <2>1, <2>6
    <3> HIDE DEF rename
    <3>5. QED BY <2>1, <3>2, <3>3, <3>4 DEF Asks
  <2>7. QED BY <2>4, <2>5, <2>6
<1>2. ASSUME NEW id \in Nat, NEW l \in Label, RenameInAccount(id, l)
      PROVE  Click /\ OnAccount /\ (AccountUnchanged \/ \E d : Asks(d) /\ AccountWrite(d))
  <2>1. Click /\ OnAccount BY <1>2 DEF RenameInAccount
  <2>2. Shown \in Collection BY <2>1, AtWorkFacts
  <2>3. PICK i \in Find(Shown, id) :
          IF i.label = l THEN AccountUnchanged ELSE AccountWrite(Draft("rename", id, i, l, 0))
    BY <1>2 DEF RenameInAccount
  <2>4. i \in ItemType /\ i \in ToSet(Shown) /\ i.id = id BY <2>2, FoundFacts
  <2> DEFINE rename == Draft("rename", id, i, l, 0)
  <2>5. rename \in DraftType BY <2>4 DEF Draft, DraftType
  <2>6. WellFormed(rename) /\ rename.item.id = rename.id /\ OnScreen(rename) BY <2>4 DEF Draft, WellFormed, OnScreen
  <2>7. AccountUnchanged \/ AccountWrite(rename) BY <2>3
  <2> HIDE DEF rename
  <2>8. QED BY <2>1, <2>5, <2>6, <2>7 DEF Asks
<1>3. ASSUME NEW id \in Nat, RemoveFromAccount(id)
      PROVE  Click /\ OnAccount /\ (AccountUnchanged \/ \E d : Asks(d) /\ AccountWrite(d))
  <2> DEFINE at == IndexOf(Shown, LAMBDA i : i.id = id)
             remove == Draft("remove", id, Shown[at], Nothing, at)
  <2>1. Click /\ OnAccount /\ at # 0 /\ AccountWrite(remove) BY <1>3 DEF RemoveFromAccount
  <2>2. Shown \in Collection BY <2>1, AtWorkFacts
  <2>3. at \in DOMAIN Shown /\ Shown[at].id = id
    <3> DEFINE T == { i \in DOMAIN Shown : Shown[i].id = id }
    <3>1. at = IF T = {} THEN 0 ELSE CHOOSE i \in T : \A j \in T : i <= j BY DEF IndexOf
    <3>2. T \subseteq DOMAIN Shown /\ T \subseteq Nat BY <2>2 DEF Collection
    <3>3. \A i \in T : i \in DOMAIN Shown /\ Shown[i].id = id OBVIOUS
    <3> HIDE DEF T
    <3>4. T # {} => \E i \in T : \A j \in T : i <= j BY <3>2, LeastNumber
    <3>5. QED BY <2>1, <3>1, <3>3, <3>4
  <2> HIDE DEF at
  <2>4. Shown[at] \in ItemType /\ Shown[at] \in ToSet(Shown) /\ at \in Nat /\ at >= 1
    BY <2>2, <2>3 DEF Collection, ToSet
  <2>5. remove \in DraftType BY <2>4 DEF Draft, DraftType
  <2>6. WellFormed(remove) /\ remove.item.id = remove.id /\ OnScreen(remove)
    BY <2>3, <2>4 DEF Draft, WellFormed, OnScreen
  <2> HIDE DEF remove
  <2>7. QED BY <2>1, <2>5, <2>6 DEF Asks
<1>4. QED BY <1>1, <1>2, <1>3

(* With the items that anybody has unchanged. *)
LEMMA QuietNames ==
  ASSUME NamesInv, UNCHANGED <<stored, device, acc, book, net, server, last>>, writes' \in Nat, writes <= writes'
  PROVE  NamesSound'
<1>1. Known' = Known BY DEF Known, OnServers, Offered, Creating, Intended, net
<1>2. Seen' = Seen BY DEF Seen, Screen, Heard, Asked, Drafted, net
<1>3. QED BY <1>1, <1>2, NamesUnchanged DEF Names, Named

(* A write on the device names one new id at most. *)
LEMMA WriteDeviceNames ==
  ASSUME NamesInv, Click, QuietClick, OnDevice, NEW next \in Collection, NEW contents, NEW what,
         NEW c, Names(ToSet(next)) \subseteq Names(ToSet(device)) \cup {<<writes + 1, c>>},
         WriteDevice(next, contents, what)
  PROVE  NamesSound'
<1>1. writes \in Nat /\ writes' = writes + 1 BY DEF NamesInv, Inv, TypeOK, Click
<1>2. book' = book /\ sent' = sent /\ answers' = answers /\ server' = server /\ last' = last
  BY DEF QuietClick, net
<1>3. CASE stored' = stored /\ device' = device /\ acc' = acc
  BY <1>1, <1>2, <1>3, QuietNames DEF net
<1>4. CASE /\ stored' = Envelope(COLLECTION_VERSION, next) /\ device' = next
           /\ acc' = (IF Authenticated THEN [acc EXCEPT !.items = next] ELSE acc)
  <2> DEFINE N == Names(Named) \cup {<<writes + 1, c>>}
  <2>1. \A x \in ToSet(next) : <<x.id, x.content>> \in N
    <3>1. Names(ToSet(device)) \subseteq Names(Named) BY DEF Names, Named, Known
    <3>2. QED BY <3>1 DEF Names
  <2>2. \A x \in Named : <<x.id, x.content>> \in N BY DEF Names
  <2>3. Screen' \subseteq Screen \cup ToSet(next)
    <3>1. CASE Authenticated
      <4>1. acc \in AccountState BY <3>1, NullsAssumption DEF NamesInv, Inv, TypeOK, OnDevice, Visible
      <4>2. acc'.items = next BY <1>4, <3>1, <4>1 DEF AccountState
      <4>3. QED BY <4>2 DEF Screen
    <3>2. CASE ~Authenticated BY <1>4, <3>2 DEF Screen
    <3>3. QED BY <3>1, <3>2
  <2>4. Seen' \subseteq Named \cup ToSet(next) BY <1>2, <2>3 DEF Seen, Named, Heard, Asked, Drafted
  <2>5. Known' \subseteq Named \cup ToSet(next)
    BY <1>2, <1>4 DEF Known, Named, OnServers, Offered, Creating, Intended, Envelope
  <2>6. Names(Known)' \subseteq N /\ Names(Seen)' \subseteq N
    <3> HIDE DEF N
    <3>1. QED BY <2>1, <2>2, <2>4, <2>5 DEF Names
  <2>7. QED BY <2>6, NamesNew
<1>5. QED BY <1>3, <1>4 DEF WriteDevice

(* The clicks on the device. *)
LEMMA DeviceNames ==
  ASSUME NamesInv,
         \/ \E c \in Content, l \in Label : SaveOnDevice(c, l)
         \/ \E id \in Nat, l \in Label : RenameOnDevice(id, l)
         \/ \E id \in Nat : RemoveOnDevice(id)
  PROVE  NamesSound'
<1>1. device \in Collection /\ writes \in Nat /\ (Click => writes' = writes + 1)
  BY DEF NamesInv, Inv, TypeOK, Click
<1>2. ASSUME Click, QuietClick, NEW what, NoDeviceChange(what) PROVE NamesSound'
  <2>1. UNCHANGED <<stored, device, acc, book, net, server, last>> BY <1>2 DEF QuietClick, NoDeviceChange
  <2>2. writes' \in Nat /\ writes <= writes' BY <1>1, <1>2
  <2>3. QED BY <2>1, <2>2, QuietNames
<1>3. ASSUME NEW c \in Content, NEW l \in Label, SaveOnDevice(c, l) PROVE NamesSound'
  <2> DEFINE x == Item(writes + 1, c, l)
             up == UpsertByIdentity(device, x, Identity)
  <2>1. /\ Click /\ OnDevice /\ QuietClick
        /\ IF up.disposition = "unchanged" THEN NoDeviceChange("unchanged")
           ELSE WriteDevice(up.items, saved \cup {c}, up.disposition)
    BY <1>3 DEF SaveOnDevice
  <2>2. x \in ItemType BY <1>1 DEF Item, ItemType
  <2>3. Names({x}) = {<<writes + 1, c>>} BY DEF Names, Item
  <2> HIDE DEF x
  <2>4. up.items \in Collection /\ Names(ToSet(up.items)) \subseteq Names(ToSet(device)) \cup {<<writes + 1, c>>}
    BY <1>1, <2>2, <2>3, UpsertFacts
  <2> HIDE DEF up
  <2>5. QED BY <1>2, <2>1, <2>4, WriteDeviceNames
<1>4. ASSUME NEW id \in Nat, NEW l \in Label, RenameOnDevice(id, l) PROVE NamesSound'
  <2> DEFINE next == Relabelled(device, id, l)
  <2>1. Click /\ OnDevice /\ QuietClick /\ (NoDeviceChange("unchanged") \/ WriteDevice(next, saved, "updated"))
    BY <1>4 DEF RenameOnDevice
  <2>2. next \in Collection /\ Names(ToSet(next)) = Names(ToSet(device)) BY <1>1, RelabelledFacts
  <2> HIDE DEF next
  <2>3. Names(ToSet(next)) \subseteq Names(ToSet(device)) \cup {<<writes + 1, Nothing>>} BY <2>2
  <2>4. QED BY <1>2, <2>1, <2>2, <2>3, WriteDeviceNames
<1>5. ASSUME NEW id \in Nat, RemoveOnDevice(id) PROVE NamesSound'
  <2> DEFINE next == WithoutItem(device, id)
             contents == saved \ { i.content : i \in Find(device, id) }
  <2>1. Click /\ OnDevice /\ QuietClick /\ WriteDevice(next, contents, "removed") BY <1>5 DEF RemoveOnDevice
  <2>2. next \in Collection /\ ToSet(next) \subseteq ToSet(device) BY <1>1, WithoutItemFacts
  <2> HIDE DEF next, contents
  <2>3. Names(ToSet(next)) \subseteq Names(ToSet(device)) \cup {<<writes + 1, Nothing>>} BY <2>2 DEF Names
  <2>4. QED BY <2>1, <2>2, <2>3, WriteDeviceNames
<1>6. QED BY <1>3, <1>4, <1>5

(* A write to the account: what changes of the book, the screen and the history. *)
LEMMA AccountWriteFacts ==
  ASSUME Inv, Click, OnAccount, NEW d, Asks(d), AccountWrite(d)
  PROVE  LET t == book'.intents IN
         /\ d.kind \in {"create", "rename", "remove"} /\ d.id \in Nat /\ d.item \in ItemType
         /\ d.label \in Label \cup {Nothing} /\ acc # Nothing /\ ~acc.loading /\ live # Nothing
         /\ Shown \in Collection /\ ToSet(Shown) = Screen
         /\ acc' = [acc EXCEPT !.items = ApplyOptimistically(Shown, d), !.pending = @ \cup {d.id}, !.error = FALSE]
         /\ acc'.items = ApplyOptimistically(Shown, d) /\ acc'.loading = acc.loading /\ acc'.account = acc.account
         /\ book'.canonical = book.canonical /\ book'.adopted = book.adopted /\ IntentOf(t, d.id) # {}
         /\ \A i \in ToSet(t) :
              \/ i \in ToSet(book.intents) /\ i.id # d.id
              \/ i.kind = d.kind /\ i.id = d.id /\ i.item = d.item /\ i.label = d.label /\ i.write = writes + 1
         /\ \A id : id # d.id => (IntentOf(t, id) = {} <=> IntentOf(book.intents, id) = {})
         /\ last' = With(last, d.id, [d EXCEPT !.at = writes + 1])
         /\ UNCHANGED <<live, stored, device, server, sent, answers, stray>>
<1> USE DEF Inv
<1> DEFINE held == { i \in book.canonical : i.id = d.id }
           base == RollbackBaseline(d)
           intent == [kind |-> d.kind, id |-> d.id, item |-> d.item, label |-> d.label, at |-> d.at,
                      write |-> writes + 1, baseline |-> base]
           intents == SetIntent(book.intents, intent)
<1>1. /\ live = Token /\ live # Nothing /\ acc # Nothing /\ acc \in AccountState /\ writes \in Nat
      /\ Shown \in Collection
  BY AtWorkFacts
<1>2. /\ book' = [book EXCEPT !.intents = intents]
      /\ acc' = [acc EXCEPT !.items = ApplyOptimistically(Shown, d), !.pending = @ \cup {d.id}, !.error = FALSE]
      /\ last' = With(last, d.id, [d EXCEPT !.at = writes + 1])
      /\ UNCHANGED <<live, stored, device, server, sent, answers, stray>>
  BY DEF AccountWrite, Shown, net
<1>3. d.kind \in {"create", "rename", "remove"} /\ d.id \in Nat /\ d.item \in ItemType
      /\ d.label \in Label \cup {Nothing} /\ d.at \in Nat
  BY DEF Asks, DraftType
<1>4. ~acc.loading BY DEF OnAccount
<1>5. ToSet(Shown) = Screen BY <1>1, EmptyFacts DEF Shown, Screen
<1>6. acc'.items = ApplyOptimistically(Shown, d) /\ acc'.loading = acc.loading /\ acc'.account = acc.account
  BY <1>1, <1>2 DEF AccountState
<1>7. base \in ItemType \cup {Nothing}
  <2>1. book.canonical \subseteq ItemType BY DEF TypeOK
  <2>2. held # {} => (CHOOSE i \in held : TRUE) \in held OBVIOUS
  <2>3. base = QueuedAgainst(d) \/ base = Nothing \/ (held # {} /\ base = CHOOSE i \in held : TRUE)
    BY DEF RollbackBaseline
  <2>4. QED BY <1>3, <2>1, <2>2, <2>3 DEF QueuedAgainst
<1> HIDE DEF base
<1>8. intent \in IntentType /\ intent.id = d.id /\ intent.kind = d.kind /\ intent.item = d.item
      /\ intent.label = d.label /\ intent.write = writes + 1
  BY <1>1, <1>3, <1>7 DEF IntentType
<1> HIDE DEF intent
<1>9. ToSet(intents) = { j \in ToSet(book.intents) : j.id # d.id } \cup {intent}
  BY <1>8, SetIntentFacts DEF TypeOK, IntentsSound
<1> HIDE DEF intents
<1>10. book'.intents = intents /\ book'.canonical = book.canonical /\ book'.adopted = book.adopted BY <1>2 DEF TypeOK
<1>13. IntentOf(intents, d.id) # {} BY <1>8, <1>9 DEF IntentOf
<1>11. \A id : id # d.id => (IntentOf(intents, id) = {} <=> IntentOf(book.intents, id) = {})
  BY <1>8, <1>9 DEF IntentOf
<1>12. QED BY <1>1, <1>2, <1>3, <1>4, <1>5, <1>6, <1>8, <1>9, <1>10, <1>11, <1>13

(* The write names an item that is on screen, or one new id. *)
LEMMA AccountWriteNames ==
  ASSUME NamesInv, Click, OnAccount, NEW d, Asks(d), AccountWrite(d)
  PROVE  NamesSound'
<1> DEFINE t == book'.intents
           N == Names(Named) \cup {<<writes + 1, d.item.content>>}
<1>1. /\ d.kind \in {"create", "rename", "remove"} /\ d.id \in Nat /\ d.item \in ItemType
      /\ d.label \in Label \cup {Nothing} /\ acc # Nothing
      /\ Shown \in Collection /\ ToSet(Shown) = Screen
      /\ acc'.items = ApplyOptimistically(Shown, d)
      /\ book'.canonical = book.canonical
      /\ \A i \in ToSet(t) :
           \/ i \in ToSet(book.intents) /\ i.id # d.id
           \/ i.kind = d.kind /\ i.id = d.id /\ i.item = d.item /\ i.label = d.label /\ i.write = writes + 1
      /\ last' = With(last, d.id, [d EXCEPT !.at = writes + 1])
      /\ stored' = stored /\ device' = device /\ server' = server /\ sent' = sent /\ answers' = answers
  BY AccountWriteFacts DEF NamesInv
<1>2. <<d.item.id, d.item.content>> \in N
  <2>1. CASE Fresh(d) BY <2>1 DEF Fresh, Asks
  <2>2. CASE OnScreen(d) BY <1>1, <2>2 DEF OnScreen, Names, Named, Seen
  <2>3. QED BY <2>1, <2>2 DEF Asks
<1>3. Names({d.item}) \subseteq N BY <1>2 DEF Names
<1>4. Names(Named) \subseteq N OBVIOUS
<1> HIDE DEF N
<1>5. Names(Screen)' \subseteq N
  <2>1. Names(ToSet(ApplyOptimistically(Shown, d))) \subseteq Names(ToSet(Shown)) \cup Names({ x \in {d.item} : d.kind = "create" })
    BY <1>1, AppliedNames
  <2>2. Names(ToSet(Shown)) \subseteq Names(Named) BY <1>1 DEF Names, Named, Seen
  <2>3. Names({ x \in {d.item} : d.kind = "create" }) \subseteq N BY <1>3 DEF Names
  <2>4. Names(ToSet(acc'.items)) \subseteq N BY <1>1, <1>4, <2>1, <2>2, <2>3
  <2>5. QED BY <2>4 DEF Names, Screen
<1>6. Heard' = Heard BY <1>1 DEF Heard
<1>7. Asked' \subseteq Asked \cup {d.item}
  <2>1. [d EXCEPT !.at = writes + 1].item = d.item BY DEF Asks, DraftType
  <2>2. QED BY <1>1, <2>1 DEF Asked, With
<1>8. Known' \subseteq Known \cup {d.item}
  <2>1. Intended' \subseteq Intended \cup {d.item} BY <1>1 DEF Intended
  <2>2. QED BY <1>1, <2>1 DEF Known, OnServers, Offered, Creating
<1>12. Drafted' \subseteq Drafted \cup {d.item} BY <1>1 DEF Drafted
<1>9. \A x \in Known' \cup Heard' \cup book'.canonical \cup Asked' \cup Drafted' : <<x.id, x.content>> \in N
  BY <1>1, <1>2, <1>4, <1>6, <1>7, <1>8, <1>12 DEF Names, Named, Seen
<1>10. Names(Known)' \subseteq N /\ Names(Seen)' \subseteq N BY <1>5, <1>9 DEF Names, Seen
<1>11. QED BY <1>10, NamesNew DEF N

(* The effects of a render show what the device holds, and forget the rest. *)
LEMMA RunEffectsNames == ASSUME NamesInv, Inv', RunEffects PROVE NamesSound'
<1> DEFINE retained == ReadDevice.items
<1>1. /\ book' = EmptyBook /\ answers' = {} /\ last' = <<>>
      /\ stored' = stored /\ device' = device /\ server' = server /\ writes' = writes
      /\ Authenticated => /\ acc'.items = (IF retained # <<>> THEN retained ELSE Unknown)
                          /\ \A r \in sent' : r \in sent \/ (r.list = retained /\ r.kind # "create")
      /\ ~Authenticated => acc' = acc /\ sent' = sent
  BY DEF RunEffects
<1>2. retained \in Collection /\ ToSet(retained) \subseteq ToSet(stored.items)
  BY ReadFacts DEF ReadDevice, NamesInv, Inv, TypeOK
<1> HIDE DEF retained
<1>3. ToSet(stored.items) \subseteq Known BY DEF Known
<1>4. Known' \subseteq Known
  <2>1. OnServers' = OnServers BY <1>1 DEF OnServers
  <2>2. Offered' \subseteq Offered \cup ToSet(stored.items) BY <1>1, <1>2 DEF Offered
  <2>3. Creating' \subseteq Creating BY <1>1 DEF Creating
  <2>4. Intended' = {} BY <1>1, EmptyFacts DEF Intended, EmptyBook
  <2>5. QED BY <1>1, <2>1, <2>2, <2>3, <2>4 DEF Known
<1>5. Screen' \subseteq Screen \cup Known
  <2>1. CASE Authenticated BY <1>1, <1>2, <1>3, <2>1 DEF Screen
  <2>2. CASE ~Authenticated BY <1>1, <2>2 DEF Screen
  <2>3. QED BY <2>1, <2>2
<1>6. Heard' = {} /\ book'.canonical = {} /\ Asked' = {} /\ Drafted' = {}
  BY <1>1, EmptyFacts DEF Heard, EmptyBook, Asked, Drafted
<1>7. Seen' \subseteq Named BY <1>5, <1>6 DEF Seen, Named
<1>8. Names(Known)' \subseteq Names(Named) /\ Names(Seen)' \subseteq Names(Named)
  BY <1>4, <1>7 DEF Names, Named
<1>9. writes \in Nat BY DEF NamesInv, Inv, TypeOK
<1>10. QED BY <1>1, <1>8, <1>9, NamesUnchanged

(* What a hop sends was recorded. *)
LEMMA StartHopNames == ASSUME NamesInv, NEW id \in DOMAIN queued, StartHop(id) PROVE NamesSound'
<1> DEFINE hop(i) == [kind |-> i.kind, account |-> acc.account, token |-> live, id |-> id,
                      item |-> i.item, label |-> i.label, list |-> <<>>, write |-> i.write]
<1>1. /\ sent' = sent \cup { hop(i) : i \in IntentOf(book.intents, id) }
      /\ stored' = stored /\ device' = device /\ acc' = acc /\ book' = book /\ answers' = answers
      /\ server' = server /\ writes' = writes /\ last' = last
  BY DEF StartHop, history
<1>2. \A i : hop(i).list = <<>> /\ hop(i).kind = i.kind /\ hop(i).item = i.item OBVIOUS
<1>3. IntentOf(book.intents, id) \subseteq ToSet(book.intents) BY DEF IntentOf
<1> HIDE DEF hop
<1>4. \A r \in sent' : r \in sent \/ \E i \in ToSet(book.intents) : r = hop(i) BY <1>1, <1>3
<1>5. Offered' \subseteq Offered BY <1>2, <1>4, EmptyFacts DEF Offered
<1>6. Creating' \subseteq Creating \cup Intended BY <1>2, <1>4 DEF Creating, Intended
<1>7. OnServers' = OnServers /\ Intended' = Intended BY <1>1 DEF OnServers, Intended
<1>8. Known' \subseteq Known BY <1>1, <1>5, <1>6, <1>7 DEF Known
<1>9. Seen' = Seen BY <1>1 DEF Seen, Screen, Heard, Asked, Drafted
<1>10. Names(Known)' \subseteq Names(Named) /\ Names(Seen)' \subseteq Names(Named)
  BY <1>8, <1>9 DEF Names, Named
<1>11. writes \in Nat BY DEF NamesInv, Inv, TypeOK
<1>12. QED BY <1>1, <1>10, <1>11, NamesUnchanged

(* A response says what its request said and what the collection is after it. *)
LEMMA RespondNames ==
  ASSUME NEW r \in sent, NEW list, Respond(r, list)
  PROVE  Heard' \subseteq Heard \cup Known \cup (IF list = Unknown THEN {} ELSE ToSet(list))
<1> DEFINE said(a) == ToSet(a.request.list) \cup (IF a.list = Unknown THEN {} ELSE ToSet(a.list))
           new == [request |-> r, list |-> list]
<1>1. \A a \in answers' : a \in answers \/ a = new BY DEF Respond
<1>2. said(new) = ToSet(r.list) \cup (IF list = Unknown THEN {} ELSE ToSet(list)) OBVIOUS
<1>3. Heard = UNION { said(a) : a \in answers } /\ Heard' = UNION { said(a) : a \in answers' } BY DEF Heard
<1>4. ToSet(r.list) \subseteq Known BY DEF Known, Offered
<1> HIDE DEF said, new
<1>5. \A a \in answers : said(a) \subseteq Heard BY <1>3
<1>6. \A a \in answers' : said(a) \subseteq Heard \cup said(new) BY <1>1, <1>5
<1>7. QED BY <1>2, <1>3, <1>4, <1>6

(* A request that is lost comes back as one that was not answered. *)
LEMMA LostNames == ASSUME NamesInv, NEW r \in sent, Lost(r) PROVE NamesSound'
<1>1. /\ sent' \subseteq sent /\ Respond(r, Unknown)
      /\ stored' = stored /\ device' = device /\ acc' = acc /\ book' = book
      /\ server' = server /\ writes' = writes /\ last' = last
  BY DEF Lost, Respond, history
<1>2. Heard' \subseteq Heard \cup Known BY <1>1, RespondNames
<1>3. Known' \subseteq Known
  <2>1. OnServers' = OnServers /\ Intended' = Intended BY <1>1 DEF OnServers, Intended
  <2>2. Offered' \subseteq Offered /\ Creating' \subseteq Creating BY <1>1 DEF Offered, Creating
  <2>3. QED BY <1>1, <2>1, <2>2 DEF Known
<1>4. Seen' \subseteq Named BY <1>1, <1>2 DEF Seen, Named, Screen, Asked, Drafted
<1>5. Names(Known)' \subseteq Names(Named) /\ Names(Seen)' \subseteq Names(Named)
  BY <1>3, <1>4 DEF Names, Named
<1>6. writes \in Nat BY DEF NamesInv, Inv, TypeOK
<1>7. QED BY <1>1, <1>5, <1>6, NamesUnchanged

(* The server names what it held and what the request brought. *)
LEMMA ServeNames == ASSUME NamesInv, NEW r \in sent, Serve(r) PROVE NamesSound'
<1> DEFINE answer == Handled(r)
           before == server[r.account]
           after == IF answer = Unknown THEN before ELSE answer
<1>1. /\ Respond(r, answer) /\ sent' \subseteq sent /\ server' = [server EXCEPT ![r.account] = after]
      /\ stored' = stored /\ device' = device /\ acc' = acc /\ book' = book /\ writes' = writes /\ last' = last
  BY DEF Serve, Respond
<1>2. r \in Request /\ server \in [Account -> Collection] /\ r.account \in Account
  BY RequestFacts DEF NamesInv, Inv, TypeOK
<1>3. answer # Unknown => Names(ToSet(answer)) \subseteq Names(ToSet(before)) \cup Brings(r)
  BY <1>2, HandledFacts
<1>4. Names(ToSet(before)) \subseteq Names(Known) /\ Brings(r) \subseteq Names(Known)
  <2>1. ToSet(before) \subseteq Known BY <1>2 DEF Known, OnServers
  <2>2. ToSet(r.list) \subseteq Known BY DEF Known, Offered
  <2>3. r.kind = "create" => r.item \in Known BY DEF Known, Creating
  <2> HIDE DEF before
  <2>4. QED BY <2>1, <2>2, <2>3 DEF Names, Brings
<1> HIDE DEF answer, before
<1>5. Names(ToSet(after)) \subseteq Names(Known) /\ (answer # Unknown => after = answer) BY <1>3, <1>4
<1> HIDE DEF after
<1>6. Heard' \subseteq Heard \cup Known \cup ToSet(after) BY <1>1, <1>5, RespondNames
<1>7. \A b \in Account : server'[b] = after \/ server'[b] = server[b] BY <1>1, <1>2
<1>8. Known' \subseteq Known \cup ToSet(after)
  <2>1. OnServers' \subseteq OnServers \cup ToSet(after) BY <1>7 DEF OnServers
  <2>2. Offered' \subseteq Offered /\ Creating' \subseteq Creating BY <1>1 DEF Offered, Creating
  <2>3. Intended' = Intended BY <1>1 DEF Intended
  <2>4. QED BY <1>1, <2>1, <2>2, <2>3 DEF Known
<1>9. Seen' \subseteq Named \cup ToSet(after) BY <1>1, <1>6 DEF Seen, Named, Screen, Asked, Drafted
<1>10. Names(Known)' \subseteq Names(Named) /\ Names(Seen)' \subseteq Names(Named)
  BY <1>5, <1>8, <1>9 DEF Names, Named
<1>11. writes \in Nat BY DEF NamesInv, Inv, TypeOK
<1>12. QED BY <1>1, <1>10, <1>11, NamesUnchanged

(* A response that is lost names less. *)
LEMMA ResponseLostNames == ASSUME NamesInv, NEW a \in answers, ResponseLost(a) PROVE NamesSound'
<1> DEFINE lost == [a EXCEPT !.list = Unknown]
<1>1. /\ answers' = (answers \ {a}) \cup {lost}
      /\ stored' = stored /\ device' = device /\ acc' = acc /\ book' = book /\ sent' = sent
      /\ server' = server /\ writes' = writes /\ last' = last
  BY DEF ResponseLost, history
<1>2. lost.request = a.request /\ lost.list = Unknown BY DEF NamesInv, Inv, TypeOK, Answer
<1> HIDE DEF lost
<1>3. Heard' \subseteq Heard
  <2>1. \A b \in answers' : b \in answers \/ (b.request = a.request /\ b.list = Unknown) BY <1>1, <1>2
  <2>2. QED BY <2>1 DEF Heard
<1>4. Known' = Known BY <1>1 DEF Known, OnServers, Offered, Creating, Intended
<1>5. Seen' \subseteq Seen BY <1>1, <1>3 DEF Seen, Screen, Asked, Drafted
<1>6. Names(Known)' \subseteq Names(Named) /\ Names(Seen)' \subseteq Names(Named)
  BY <1>4, <1>5 DEF Names, Named
<1>7. writes \in Nat BY DEF NamesInv, Inv, TypeOK
<1>8. QED BY <1>1, <1>6, <1>7, NamesUnchanged

\* Two intents that say the same, whatever each rolls back to.
Same(i, j) == i.kind = j.kind /\ i.id = j.id /\ i.item = j.item /\ i.label = j.label /\ i.write = j.write

(* An intent says the same after the book has been rebased. *)
LEMMA RebasedSays ==
  ASSUME NEW b, b.intents \in Seq(IntentType), NEW items
  PROVE  /\ Rebased(b, items).canonical = ToSet(items)
         /\ \A i \in ToSet(Rebased(b, items).intents) : \E j \in ToSet(b.intents) : Same(i, j)
<1> DEFINE base(id) == LET held == Find(items, id) IN IF held = {} THEN Nothing ELSE CHOOSE i \in held : TRUE
           s == b.intents
           t == [k \in DOMAIN s |-> [s[k] EXCEPT !.baseline = base(s[k].id)]]
<1>1. Rebased(b, items) = [intents |-> t, canonical |-> ToSet(items), adopted |-> TRUE] BY DEF Rebased
<1> HIDE DEF base
<1>2. \A k \in DOMAIN s : s[k] \in IntentType OBVIOUS
<1>3. \A k \in DOMAIN s : Same(t[k], s[k]) BY <1>2 DEF Same, IntentType
<1>4. DOMAIN t = DOMAIN s OBVIOUS
<1> HIDE DEF s, t
<1>5. \A i \in ToSet(t) : \E k \in DOMAIN t : i = t[k] BY DEF ToSet
<1>6. \A k \in DOMAIN s : s[k] \in ToSet(s) BY DEF ToSet
<1>7. \A i \in ToSet(t) : \E j \in ToSet(s) : Same(i, j) BY <1>3, <1>4, <1>5, <1>6
<1>8. QED BY <1>1, <1>7 DEF s

(* The intents a response leaves, and the place of each in the network. *)
LEMMA LoadedFacts ==
  ASSUME Inv, NEW a \in answers, Loaded(a)
  PROVE  /\ IsLoad(a) /\ answers' = answers \ {a} /\ sent' = sent
         /\ \A i \in ToSet(book'.intents) : \E j \in ToSet(book.intents) : Same(i, j)
         /\ book'.canonical = (IF a.list = Unknown THEN book.canonical ELSE ToSet(a.list))
         /\ acc' # Nothing /\ acc # Nothing /\ acc'.account = acc.account /\ ~acc'.loading
         /\ acc'.items = IF a.list # Unknown THEN a.list
                         ELSE IF a.request.list # <<>> THEN a.request.list ELSE acc.items
         /\ ToSet(device') \subseteq ToSet(device) /\ ToSet(stored'.items) \subseteq ToSet(stored.items)
         /\ UNCHANGED <<live, server, writes, told, last, stray>>
<1>1. acc # Nothing /\ acc \in AccountState BY AnswerFacts
<1>2. book.intents \in Seq(IntentType) BY DEF Inv, TypeOK
<1>3. CASE a.list # Unknown
  <2>1. /\ book' = Rebased(book, a.list)
        /\ acc' = [acc EXCEPT !.items = a.list, !.origin = "server", !.loading = FALSE, !.error = FALSE]
    BY <1>3 DEF Loaded
  <2>2. /\ book'.canonical = ToSet(a.list)
        /\ \A i \in ToSet(book'.intents) : \E j \in ToSet(book.intents) : Same(i, j)
    BY <1>2, <2>1, RebasedSays
  <2>3. acc'.items = a.list /\ acc'.account = acc.account /\ ~acc'.loading BY <1>1, <2>1 DEF AccountState
  <2>4. a.list \in Collection BY <1>3, AnswerFacts
  <2>5. acc' # Nothing
    <3>1. acc' \in AccountState BY <1>1, <2>1, <2>4 DEF AccountState
    <3>2. QED BY <3>1, NullsAssumption
  <2>6. QED BY <1>1, <1>3, <2>2, <2>3, <2>5, EmptyFacts DEF Loaded, Arrives, history, Envelope
<1>4. CASE a.list = Unknown
  <2> DEFINE items == IF a.request.list # <<>> THEN a.request.list ELSE acc.items
             origin == IF a.request.list # <<>> THEN "device" ELSE acc.origin
  <2>1. /\ book' = book
        /\ acc' = [acc EXCEPT !.items = items, !.origin = origin, !.loading = FALSE, !.error = TRUE]
    BY <1>4 DEF Loaded
  <2>2. a.request.list \in Collection BY AnswerFacts, RequestFacts
  <2>3. items \in Collection \cup {Unknown} /\ origin \in {"server", "device", "unknown"}
    BY <1>1, <2>2 DEF AccountState
  <2> HIDE DEF items, origin
  <2>4. acc' \in AccountState /\ acc'.items = items /\ acc'.account = acc.account /\ ~acc'.loading
    BY <1>1, <2>1, <2>3 DEF AccountState
  <2>5. acc' # Nothing BY <2>4, NullsAssumption
  <2>6. \A i \in ToSet(book'.intents) : Same(i, i) BY DEF Same
  <2>7. UNCHANGED <<live, server, writes, told, last, stray>> /\ IsLoad(a) /\ answers' = answers \ {a} /\ sent' = sent
    BY DEF Loaded, Arrives, history
  <2>8. ToSet(device') \subseteq ToSet(device) /\ ToSet(stored'.items) \subseteq ToSet(stored.items)
    BY EmptyFacts DEF Loaded, Envelope
  <2>9. QED BY <1>1, <1>4, <2>1, <2>4, <2>5, <2>6, <2>7, <2>8 DEF items
<1>5. QED BY <1>3, <1>4

(* A collection that comes back was heard of. *)
LEMMA LoadedNames == ASSUME NamesInv, NEW a \in answers, Loaded(a) PROVE NamesSound'
<1> DEFINE t == book'.intents
<1>1. /\ answers' = answers \ {a} /\ sent' = sent
      /\ \A i \in ToSet(t) : \E j \in ToSet(book.intents) : Same(i, j)
      /\ book'.canonical = (IF a.list = Unknown THEN book.canonical ELSE ToSet(a.list))
      /\ acc # Nothing
      /\ acc'.items = IF a.list # Unknown THEN a.list
                      ELSE IF a.request.list # <<>> THEN a.request.list ELSE acc.items
      /\ ToSet(device') \subseteq ToSet(device) /\ ToSet(stored'.items) \subseteq ToSet(stored.items)
      /\ server' = server /\ writes' = writes /\ last' = last
  BY LoadedFacts DEF NamesInv
<1>2. (a.list # Unknown => ToSet(a.list) \subseteq Heard) /\ ToSet(a.request.list) \subseteq Heard
  BY DEF Heard
<1>3. Intended' \subseteq Intended BY <1>1 DEF Intended, Same
<1>4. Known' \subseteq Known BY <1>1, <1>3 DEF Known, OnServers, Offered, Creating
<1>5. Screen' \subseteq Screen \cup Heard BY <1>1, <1>2 DEF Screen
<1>6. Heard' \subseteq Heard /\ Asked' = Asked /\ Drafted' \subseteq Drafted BY <1>1 DEF Heard, Asked, Drafted, Same
<1>7. book'.canonical \subseteq book.canonical \cup Heard BY <1>1, <1>2
<1>8. Seen' \subseteq Seen BY <1>5, <1>6, <1>7 DEF Seen
<1>9. Names(Known)' \subseteq Names(Named) /\ Names(Seen)' \subseteq Names(Named)
  BY <1>4, <1>8 DEF Names, Named
<1>10. writes \in Nat BY DEF NamesInv, Inv, TypeOK
<1>11. QED BY <1>1, <1>9, <1>10, NamesUnchanged

(* A write comes back: what is left in the book, what is on screen and what its caller is told. *)
LEMMA WroteFacts ==
  ASSUME Inv, NEW a \in answers, Wrote(a)
  PROVE  LET id == a.request.id
             w == a.request.write
         IN  /\ ~IsLoad(a) /\ answers' = answers \ {a} /\ sent' = sent /\ id \in Nat
             /\ \A i \in ToSet(book'.intents) : \E j \in ToSet(book.intents) : Same(i, j)
             /\ ~Superseded(a) => IntentOf(book'.intents, id) = {}
             /\ book'.canonical = (IF a.list = Unknown THEN book.canonical ELSE ToSet(a.list))
             /\ acc # Nothing /\ acc' # Nothing /\ acc'.account = acc.account /\ acc'.loading = acc.loading
             /\ Names(Screen)' \subseteq Names(Seen) \cup Names(Intended)
             /\ \E what : told' = Tell({w}, what) /\ (what \in {"created", "updated", "removed"} => ~Superseded(a) /\ a.list # Unknown)
             /\ UNCHANGED <<live, stored, device, server, writes, last, stray>>
<1> USE DEF Inv
<1> DEFINE id == a.request.id
           w == a.request.write
           left == IF Superseded(a) THEN book.intents ELSE Retire(book.intents, id)
           mine == [book EXCEPT !.intents = left]
           intent == CHOOSE i \in IntentOf(book.intents, id) : TRUE
           t == book'.intents
<1>1. /\ ~IsLoad(a) /\ answers' = answers \ {a} /\ sent' = sent
      /\ book' = IF a.list # Unknown THEN Rebased(mine, a.list) ELSE mine
      /\ UNCHANGED <<live, stored, device, server, writes, last, stray>>
  BY DEF Wrote, Arrives, history
<1>2. /\ a.list # Unknown =>
           acc' = [acc EXCEPT !.items = ReplayIntents(a.list, t), !.origin = "server",
                              !.pending = IF Superseded(a) THEN @ ELSE @ \ {id},
                              !.error = IF Superseded(a) THEN @ ELSE FALSE]
      /\ a.list = Unknown /\ Superseded(a) => acc' = acc
      /\ a.list = Unknown /\ ~Superseded(a) =>
           acc' = [acc EXCEPT !.items = IF @ = Unknown THEN @ ELSE Rollback(@, intent),
                              !.pending = @ \ {id}, !.error = TRUE]
  BY DEF Wrote
<1>3. /\ a.request \in Request /\ a.list \in Collection \cup {Unknown} /\ a.request \in InFlight
      /\ acc # Nothing /\ acc \in AccountState
      /\ a.list # Unknown => a.list \in Collection
  BY AnswerFacts
<1>4. a.request.kind \notin {"load", "merge"} /\ id \in Nat BY <1>1, <1>3, RequestFacts DEF IsLoad
<1>5. /\ book.intents \in Seq(IntentType) /\ ToSet(book.intents) \subseteq IntentType
      /\ \A i \in ToSet(book.intents) :
           WellFormed(i) /\ {i.baseline} \ {Nothing} \subseteq book.canonical \cup {i.item}
  BY Members DEF TypeOK, IntentsSound, RollsBack
<1>6. /\ left \in Seq(IntentType) /\ ToSet(left) \subseteq ToSet(book.intents)
      /\ ~Superseded(a) => \A i \in ToSet(left) : i.id # id
  BY <1>5, RetireFacts
<1> HIDE DEF left
<1>7. mine.intents = left /\ mine.canonical = book.canonical BY DEF TypeOK
<1> HIDE DEF mine
<1>8. /\ \A i \in ToSet(t) : \E j \in ToSet(left) : Same(i, j)
      /\ book'.canonical = (IF a.list = Unknown THEN book.canonical ELSE ToSet(a.list))
  <2>1. CASE a.list # Unknown
    <3>1. book' = Rebased(mine, a.list) BY <1>1, <2>1
    <3>2. /\ Rebased(mine, a.list).canonical = ToSet(a.list)
          /\ \A i \in ToSet(Rebased(mine, a.list).intents) : \E j \in ToSet(mine.intents) : Same(i, j)
      BY <1>6, <1>7, RebasedSays
    <3>3. QED BY <1>7, <2>1, <3>1, <3>2
  <2>2. CASE a.list = Unknown
    <3>1. book' = mine BY <1>1, <2>2
    <3>2. \A i : Same(i, i) BY DEF Same
    <3>3. QED BY <1>7, <2>2, <3>1, <3>2
  <2>3. QED BY <2>1, <2>2
<1>9. \A i \in ToSet(t) : \E j \in ToSet(book.intents) : Same(i, j) BY <1>6, <1>8
<1>10. ~Superseded(a) => IntentOf(t, id) = {} BY <1>6, <1>8 DEF IntentOf, Same
<1>11. IntentOf(book.intents, id) # {} BY <1>3, <1>4 DEF WritesAreBooked
<1>12. intent \in ToSet(book.intents)
  <2>1. intent \in IntentOf(book.intents, id) BY <1>11
  <2> HIDE DEF intent
  <2>2. QED BY <2>1 DEF IntentOf
<1> HIDE DEF intent
<1>13. \E what : told' = Tell({w}, what) /\ (what \in {"created", "updated", "removed"} => ~Superseded(a) /\ a.list # Unknown)
  <2>1. CASE Superseded(a)
    <3>1. told' = Tell({w}, "superseded") BY <2>1 DEF Wrote
    <3>2. QED BY <3>1
  <2>2. CASE ~Superseded(a) /\ a.list = Unknown
    <3>1. told' = Tell({w}, "failed") BY <2>2 DEF Wrote
    <3>2. QED BY <3>1
  <2>3. CASE ~Superseded(a) /\ a.list # Unknown
    <3>1. told' = Tell({w}, ConfirmedDisposition(a.request.kind)) BY <2>3 DEF Wrote
    <3>2. QED BY <2>3, <3>1
  <2>4. QED BY <2>1, <2>2, <2>3
<1>14. acc'.account = acc.account /\ acc'.loading = acc.loading
       /\ acc'.items = IF a.list # Unknown THEN ReplayIntents(a.list, t)
                       ELSE IF Superseded(a) \/ acc.items = Unknown THEN acc.items ELSE Rollback(acc.items, intent)
  <2>1. CASE a.list # Unknown BY <1>2, <1>3, <2>1 DEF AccountState
  <2>2. CASE a.list = Unknown BY <1>2, <1>3, <2>2 DEF AccountState
  <2>3. QED BY <2>1, <2>2
<1>15. acc' # Nothing
  <2>1. Inv' BY WroteInv
  <2>2. live # Nothing BY AnswerFacts
  <2>3. QED BY <1>1, <2>1, <2>2 DEF GenerationAtWork
<1>16. Names(Screen)' \subseteq Names(Seen) \cup Names(Intended)
  <2>1. /\ Names(Screen) \subseteq Names(Seen) /\ Names(Heard) \subseteq Names(Seen)
        /\ Names(book.canonical) \subseteq Names(Seen) /\ Names(Drafted) \subseteq Names(Seen)
    BY DEF Names, Seen
  <2>2. CASE a.list # Unknown
    <3>1. \A i \in ToSet(t) : WellFormed(i) BY <1>5, <1>9, WroteInv DEF IntentsSound
    <3>2. t \in Seq(IntentType) BY WroteInv DEF TypeOK
    <3> DEFINE s == book'.intents
    <3>3. s = t OBVIOUS
    <3> HIDE DEF s
    <3>4. Names(ToSet(ReplayIntents(a.list, s)))
            \subseteq Names(ToSet(a.list)) \cup Names({ i.item : i \in { k \in ToSet(s) : k.kind = "create" } })
      BY <1>3, <2>2, <3>1, <3>2, <3>3, ReplayNames
    <3>5. { i.item : i \in { k \in ToSet(s) : k.kind = "create" } } \subseteq Intended
      BY <1>9, <3>3 DEF Intended, Same
    <3>6. ToSet(a.list) \subseteq Heard BY <2>2 DEF Heard
    <3>7. Names(ToSet(a.list)) \subseteq Names(Heard) /\ Names({ i.item : i \in { k \in ToSet(s) : k.kind = "create" } }) \subseteq Names(Intended)
      BY <3>5, <3>6 DEF Names
    <3>8. Screen' = ToSet(ReplayIntents(a.list, s)) \/ Screen' = {} BY <1>14, <2>2, <3>3 DEF Screen
    <3>9. QED BY <2>1, <3>4, <3>7, <3>8 DEF Names
  <2>3. CASE a.list = Unknown /\ (Superseded(a) \/ acc.items = Unknown)
    <3>1. Screen' = Screen BY <1>3, <1>14, <1>15, <2>3 DEF Screen
    <3>2. QED BY <2>1, <3>1 DEF Names
  <2>4. CASE a.list = Unknown /\ ~Superseded(a) /\ acc.items # Unknown
    <3>1. acc.items \in Collection BY <1>3, <2>4 DEF AccountState
    <3>2. Names(ToSet(Rollback(acc.items, intent))) \subseteq Names(ToSet(acc.items)) \cup Names({intent.baseline} \ {Nothing})
      BY <1>5, <1>12, <3>1, RollbackNames
    <3>3. {intent.baseline} \ {Nothing} \subseteq book.canonical \cup Drafted BY <1>5, <1>12 DEF Drafted
    <3>4. ToSet(acc.items) = Screen BY <1>3, <2>4 DEF Screen
    <3>5. Names({intent.baseline} \ {Nothing}) \subseteq Names(book.canonical) \cup Names(Drafted) BY <3>3 DEF Names
    <3>6. Screen' = ToSet(Rollback(acc.items, intent)) \/ Screen' = {} BY <1>14, <2>4 DEF Screen
    <3>7. QED BY <2>1, <3>2, <3>4, <3>5, <3>6 DEF Names
  <2>5. QED BY <2>2, <2>3, <2>4
<1>17. QED BY <1>1, <1>3, <1>4, <1>8, <1>9, <1>10, <1>13, <1>14, <1>15, <1>16

(* And what is on screen after it was on screen before it, recorded, confirmed or in the answer. *)
LEMMA WroteNames == ASSUME NamesInv, NEW a \in answers, Wrote(a) PROVE NamesSound'
<1> DEFINE t == book'.intents
<1>1. /\ answers' = answers \ {a} /\ sent' = sent
      /\ \A i \in ToSet(t) : \E j \in ToSet(book.intents) : Same(i, j)
      /\ book'.canonical = (IF a.list = Unknown THEN book.canonical ELSE ToSet(a.list))
      /\ Names(Screen)' \subseteq Names(Seen) \cup Names(Intended)
      /\ stored' = stored /\ device' = device /\ server' = server /\ writes' = writes /\ last' = last
  BY WroteFacts DEF NamesInv
<1>2. a.list # Unknown => ToSet(a.list) \subseteq Heard BY DEF Heard
<1>3. Intended' \subseteq Intended BY <1>1 DEF Intended, Same
<1>4. Known' \subseteq Known BY <1>1, <1>3 DEF Known, OnServers, Offered, Creating
<1>5. Heard' \subseteq Heard /\ Asked' = Asked /\ Drafted' \subseteq Drafted BY <1>1 DEF Heard, Asked, Drafted, Same
<1>6. book'.canonical \subseteq book.canonical \cup Heard BY <1>1, <1>2
<1>7. Seen \subseteq Named /\ Intended \subseteq Named BY DEF Named, Known
<1>8. \A x \in Screen' : <<x.id, x.content>> \in Names(Named)
  <2>1. Names(Seen) \subseteq Names(Named) /\ Names(Intended) \subseteq Names(Named) BY <1>7 DEF Names
  <2>2. QED BY <1>1, <2>1 DEF Names
<1>9. \A x \in Seen' : x \in Screen' \/ x \in Seen BY <1>5, <1>6 DEF Seen
<1>10. Names(Known)' \subseteq Names(Named) BY <1>4 DEF Names, Named
<1>11. Names(Seen)' \subseteq Names(Named) BY <1>7, <1>8, <1>9 DEF Names
<1>12. writes \in Nat BY DEF NamesInv, Inv, TypeOK
<1>13. QED BY <1>1, <1>10, <1>11, <1>12, NamesUnchanged

(* At the start nothing is on screen of an account, and nothing has been heard or asked. *)
LEMMA InitNames == Init => NamesInv
<1> SUFFICES ASSUME Init PROVE NamesInv OBVIOUS
<1>1. Inv BY InitInv
<1>2. Screen = {} /\ Heard = {} /\ book.canonical = {} /\ Asked = {} /\ Drafted = {}
  BY EmptyFacts DEF Init, Screen, Heard, EmptyBook, Asked, Drafted
<1>3. Named = Known BY <1>2 DEF Named, Seen
<1>4. QED BY <1>1, <1>3 DEF NamesInv, NamesSound, Inv, IdsSound

\* The items, the network and the book are left alone.
Still == UNCHANGED <<live, stored, device, acc, book, net, server, last, stray>>

(* The steps that do so tell the caller of a click at once, or of a write that it is superseded. *)
LEMMA StillSteps ==
  ASSUME Inv, \/ SessionChange \/ Retry \/ WhileSyncing \/ (Click /\ AccountUnchanged) \/ UNCHANGED vars
              \/ \E w \in orphans : Abandon(w)
  PROVE  /\ Still /\ writes' \in Nat /\ writes <= writes'
         /\ \/ told' = told \/ \E w : told' = Tell({w}, "superseded")
            \/ writes' = writes + 1 /\ \E what : told' = Append(told, what)
<1>1. writes \in Nat BY DEF Inv, TypeOK
<1>2. CASE SessionChange \/ Retry BY <1>1, <1>2 DEF SessionChange, Retry, Still, history
<1>3. CASE WhileSyncing
  <2>1. Still BY <1>3 DEF WhileSyncing, NoDeviceChange, QuietClick, Still
  <2>2. writes' = writes + 1 /\ told' = Append(told, "failed") BY <1>3 DEF WhileSyncing, NoDeviceChange, Click, Answered
  <2>3. QED BY <1>1, <2>1, <2>2
<1>4. CASE Click /\ AccountUnchanged
  <2>1. Still BY <1>4 DEF AccountUnchanged, QuietClick, Still
  <2>2. writes' = writes + 1 /\ told' = Append(told, "unchanged") BY <1>4 DEF AccountUnchanged, Click, Answered
  <2>3. QED BY <1>1, <2>1, <2>2
<1>5. CASE UNCHANGED vars BY <1>1, <1>5 DEF vars, history, Still
<1>6. CASE \E w \in orphans : Abandon(w)
  <2>1. PICK w \in orphans : Abandon(w) BY <1>6
  <2>2. Still /\ writes' = writes BY <2>1 DEF Abandon, history, Still
  <2>3. told' = Tell({w}, "superseded") BY <2>1 DEF Abandon
  <2>4. \E v : told' = Tell({v}, "superseded") BY <2>3
  <2>5. writes' \in Nat /\ writes <= writes' BY <1>1, <2>2
  <2>6. QED BY Zenon, <2>2, <2>4, <2>5
<1>7. QED BY <1>2, <1>3, <1>4, <1>5, <1>6

(* Every step keeps what a client id names. *)
LEMMA NamesNext == NamesInv /\ [Next]_vars => NamesInv'
<1> SUFFICES ASSUME NamesInv, [Next]_vars, Inv' PROVE NamesSound' BY NextInv DEF NamesInv
<1>2. Ids \subseteq Nat BY IdsFacts DEF NamesInv, Inv
<1>3. ASSUME \/ SessionChange \/ Retry \/ WhileSyncing \/ (Click /\ AccountUnchanged) \/ UNCHANGED vars
             \/ \E w \in orphans : Abandon(w)
      PROVE  NamesSound'
  <2>1. Still /\ writes' \in Nat /\ writes <= writes' BY <1>3, StillSteps DEF NamesInv
  <2>2. QED BY <2>1, QuietNames DEF Still
<1>4. CASE Scout
  <2>1. CASE SessionChange \/ Retry \/ WhileSyncing BY <1>3, <2>1
  <2>2. CASE \/ \E c \in Content, l \in Label : SaveOnDevice(c, l)
             \/ \E id \in Nat, l \in Label : RenameOnDevice(id, l)
             \/ \E id \in Nat : RemoveOnDevice(id)
    BY <2>2, DeviceNames
  <2>3. CASE \/ \E c \in Content, l \in Label : SaveToAccount(c, l)
             \/ \E id \in Nat, l \in Label : RenameInAccount(id, l)
             \/ \E id \in Nat : RemoveFromAccount(id)
    <3>1. Click /\ OnAccount /\ (AccountUnchanged \/ \E d : Asks(d) /\ AccountWrite(d))
      BY <2>3, AccountClicks DEF NamesInv
    <3>2. QED BY <1>3, <3>1, AccountWriteNames
  <2>4. QED BY <1>2, <1>4, <2>1, <2>2, <2>3 DEF Scout
<1>5. CASE Failure BY <1>5, LostNames, ResponseLostNames DEF Failure
<1>6. CASE Progress
  BY <1>3, <1>6, RunEffectsNames, StartHopNames, ServeNames, LoadedNames, WroteNames DEF Progress
<1>7. CASE UNCHANGED vars BY <1>3, <1>7
<1>8. QED BY <1>4, <1>5, <1>6, <1>7 DEF Next

\* No write is made while the collection is loading.
LoadsFirst ==
  /\ \A r \in InFlight : IsLoading(r) => acc.loading
  /\ live = Nothing \/ acc.loading => last = <<>>

\* The history has each item's last write under its number; a new item has the label asked for.
LastSound ==
  /\ \A k \in DOMAIN last : /\ last[k].item.id = k /\ last[k].at \in 1..writes
                            /\ last[k].kind = "create" => last[k].item.label = last[k].label
  /\ \A j, k \in DOMAIN last : last[j].at = last[k].at => j = k

\* The book has, of an item, its last write.
SaysLast(x) == x.kind = last[x.id].kind /\ x.item = last[x.id].item /\ x.label = last[x.id].label
BookedLast ==
  \A i \in ToSet(book.intents) : i.id \in DOMAIN last /\ i.write = last[i.id].at /\ SaysLast(i)

\* A request says what the last write of its item says, unless it is an earlier one of the same content.
RequestsSound ==
  \A r \in InFlight : ~IsLoading(r) =>
    /\ r.account = acc.account /\ r.id \in DOMAIN last
    /\ r.item.id = r.id /\ r.item.content = last[r.id].item.content
    /\ \A k \in DOMAIN last : r.write = last[k].at => k = r.id /\ SaysLast(r)
    /\ r.write <= writes

\* An item whose last write has succeeded has nothing outstanding.
Success == {"created", "updated", "removed"}
Succeeded(k) == told[last[k].at] \in Success
Settled == \A k \in DOMAIN last : Succeeded(k) => IntentOf(book.intents, k) = {}

WritesInv == NamesInv /\ LoadsFirst /\ LastSound /\ BookedLast /\ RequestsSound /\ Settled

(* What earlier writes were told stays so. *)
LEMMA ToldBefore ==
  ASSUME TypeOK, NEW n \in 1..writes, NEW ws, NEW what
  PROVE  /\ Tell(ws, what)[n] = (IF n \in ws /\ told[n] = "awaited" THEN what ELSE told[n])
         /\ Append(told, what)[n] = told[n]
         /\ Len(Tell(ws, what)) = writes /\ Append(Tell(ws, what), "awaited")[n] = Tell(ws, what)[n]
         /\ Append(Tell(ws, what), "awaited")[writes + 1] = "awaited"
<1> DEFINE t == Tell(ws, what)
<1>1. told \in Seq(Outcome) /\ Len(told) = writes /\ writes \in Nat BY DEF TypeOK
<1>2. DOMAIN told = 1..writes BY <1>1
<1>3. t = [w \in 1..writes |-> IF w \in ws /\ told[w] = "awaited" THEN what ELSE told[w]] BY <1>2 DEF Tell
<1>4. t \in Seq(Outcome \cup {what})
  <2>1. \A w \in 1..writes : t[w] \in Outcome \cup {what} BY <1>1, <1>2, <1>3
  <2> HIDE DEF t
  <2>2. QED BY <1>1, <1>3, <2>1
<1>5. Len(t) = writes BY <1>1, <1>3
<1>6. t[n] = IF n \in ws /\ told[n] = "awaited" THEN what ELSE told[n] BY <1>3
<1> HIDE DEF t
<1> DEFINE u == Append(t, "awaited")
<1>7. u[n] = t[n] /\ u[writes + 1] = "awaited" BY <1>1, <1>4, <1>5
<1>8. Append(told, what)[n] = told[n] BY <1>1
<1>9. QED BY <1>5, <1>6, <1>7, <1>8 DEF t

(* A step that sends nothing and asks for nothing. *)
LEMMA WritesFrame ==
  ASSUME WritesInv, Inv', NamesSound', last' = last, live' = live, writes <= writes',
         InFlight' \subseteq InFlight,
         \/ acc' = acc
         \/ acc'.account = acc.account /\ acc'.loading = acc.loading
         \/ acc'.account = acc.account /\ last = <<>> /\ \A r \in InFlight' : ~IsLoading(r),
         \A i \in ToSet(book'.intents) : \E j \in ToSet(book.intents) : Same(i, j),
         \A k \in DOMAIN last : told'[last[k].at] \in Success => Succeeded(k) \/ IntentOf(book'.intents, k) = {}
  PROVE  WritesInv'
<1>1. LoadsFirst' BY DEF WritesInv, LoadsFirst
<1>2. writes \in Nat /\ writes' \in Nat BY DEF Inv, TypeOK, WritesInv, NamesInv
<1>3. LastSound' BY <1>2 DEF WritesInv, LastSound
<1>4. BookedLast' BY DEF WritesInv, BookedLast, SaysLast, Same
<1>5. RequestsSound'
  <2>1. \A r \in InFlight : ~IsLoading(r) => r.write \in Nat
    <3>1. InFlight \subseteq Request BY DEF InFlight, WritesInv, NamesInv, Inv, TypeOK, Answer
    <3>2. QED BY <3>1, RequestFacts DEF IsLoading
  <2>2. ASSUME NEW r \in InFlight', ~IsLoading(r)
        PROVE  /\ r.account = acc'.account /\ r.id \in DOMAIN last'
               /\ r.item.id = r.id /\ r.item.content = last'[r.id].item.content
               /\ \A k \in DOMAIN last' : r.write = last'[k].at => k = r.id /\ SaysLast(r)'
               /\ r.write <= writes'
    <3>1. r \in InFlight /\ r.write \in Nat BY <2>1, <2>2
    <3>2. /\ r.account = acc.account /\ r.id \in DOMAIN last
          /\ r.item.id = r.id /\ r.item.content = last[r.id].item.content
          /\ \A k \in DOMAIN last : r.write = last[k].at => k = r.id /\ SaysLast(r)
          /\ r.write <= writes
      BY <2>2, <3>1 DEF WritesInv, RequestsSound
    <3>3. r.write <= writes' BY <1>2, <3>1, <3>2
    <3>4. acc'.account = acc.account OBVIOUS
    <3>5. SaysLast(r) => SaysLast(r)' BY DEF SaysLast
    <3>6. QED BY <3>2, <3>3, <3>4, <3>5
  <2>3. QED BY <2>2 DEF RequestsSound, IsLoading
<1>6. Settled'
  <2> DEFINE t == book'.intents
  <2>1. \A k : IntentOf(book.intents, k) = {} => IntentOf(t, k) = {} BY DEF IntentOf, Same
  <2>2. ASSUME NEW k \in DOMAIN last, told'[last[k].at] \in Success PROVE IntentOf(t, k) = {}
    <3>1. CASE Succeeded(k) BY <2>1, <3>1 DEF WritesInv, Settled
    <3>2. CASE IntentOf(t, k) = {} BY <3>2
    <3>3. QED BY <2>2, <3>1, <3>2
  <2>3. QED BY <2>2 DEF Settled, Succeeded
<1>7. QED BY <1>1, <1>3, <1>4, <1>5, <1>6 DEF WritesInv, NamesInv

(* A click that is told at once, and a hop that finds its book gone, make no success of a write. *)
LEMMA StillTold ==
  ASSUME WritesInv, NEW k \in DOMAIN last, told'[last[k].at] \in Success,
         \/ told' = told
         \/ \E w : told' = Tell({w}, "superseded")
         \/ \E what : told' = Append(told, what)
  PROVE  Succeeded(k)
<1> DEFINE n == last[k].at
<1>1. n \in 1..writes BY DEF WritesInv, LastSound
<1>2. TypeOK BY DEF WritesInv, NamesInv, Inv
<1>3. told'[n] \in Success BY DEF n
<1> HIDE DEF n
<1>4. "superseded" \notin Success BY DEF Success
<1>5. ASSUME told' = told PROVE told[n] \in Success BY <1>3, <1>5
<1>6. ASSUME \E w : told' = Tell({w}, "superseded") PROVE told[n] \in Success
  <2>1. PICK w : told' = Tell({w}, "superseded") BY <1>6
  <2>2. Tell({w}, "superseded")[n] = IF n \in {w} /\ told[n] = "awaited" THEN "superseded" ELSE told[n]
    BY <1>1, <1>2, ToldBefore
  <2>3. QED BY <1>3, <1>4, <2>1, <2>2
<1>7. ASSUME \E what : told' = Append(told, what) PROVE told[n] \in Success
  <2>1. PICK what : told' = Append(told, what) BY <1>7
  <2>2. Append(told, what)[n] = told[n] BY <1>1, <1>2, ToldBefore
  <2>3. QED BY <1>3, <2>1, <2>2
<1>8. told[n] \in Success BY <1>5, <1>6, <1>7
<1>9. QED BY <1>8 DEF Succeeded, n

(* The steps that change nothing of the account. *)
LEMMA StillWrites ==
  ASSUME WritesInv, Inv', NamesSound', Still, writes' \in Nat, writes <= writes',
         \/ told' = told
         \/ \E w : told' = Tell({w}, "superseded")
         \/ writes' = writes + 1 /\ \E what : told' = Append(told, what)
  PROVE  WritesInv'
<1>1. InFlight' = InFlight BY DEF Still, InFlight, Live, net
<1>2. \A i : Same(i, i) BY DEF Same
<1>3. book' = book /\ acc' = acc /\ last' = last /\ live' = live BY DEF Still
<1>4. \A k \in DOMAIN last : told'[last[k].at] \in Success => Succeeded(k) BY StillTold
<1>5. QED BY <1>1, <1>2, <1>3, <1>4, WritesFrame

(* A click on the device asks nothing of the account. *)
DeviceClickOnly ==
  /\ writes' = writes + 1
  /\ \E what : told' = Append(told, what)
  /\ \/ acc' = acc
     \/ /\ acc # Nothing /\ acc'.account = acc.account /\ acc'.loading = acc.loading
        /\ acc'.origin = "device"
  /\ UNCHANGED <<live, book, orphans, sent, answers, server, last, stray>>
LEMMA DeviceClicks ==
  ASSUME Inv,
         \/ \E c \in Content, l \in Label : SaveOnDevice(c, l)
         \/ \E id \in Nat, l \in Label : RenameOnDevice(id, l)
         \/ \E id \in Nat : RemoveOnDevice(id)
  PROVE  DeviceClickOnly
<1>1. ASSUME Click, QuietClick, OnDevice,
             (\E what : NoDeviceChange(what)) \/ \E next, contents, what : WriteDevice(next, contents, what)
      PROVE  DeviceClickOnly
  <2>1. writes' = writes + 1 /\ UNCHANGED <<live, book, orphans, sent, answers, server, last, stray>>
    BY <1>1 DEF Click, QuietClick, net
  <2>2. \E what : told' = Append(told, what) BY <1>1 DEF NoDeviceChange, WriteDevice, Answered
  <2>3. \/ acc' = acc
        \/ /\ acc # Nothing /\ acc'.account = acc.account /\ acc'.loading = acc.loading
           /\ acc'.origin = "device"
    <3>1. CASE acc' = acc BY <3>1
    <3>2. CASE Authenticated /\ \E next : acc' = [acc EXCEPT !.items = next]
      <4>1. acc \in AccountState /\ acc # Nothing /\ acc.origin = "device"
        BY <1>1, <3>2, NullsAssumption DEF Inv, TypeOK, OnDevice, Visible
      <4>2. QED BY <3>2, <4>1 DEF AccountState
    <3>3. QED BY <1>1, <3>1, <3>2 DEF NoDeviceChange, WriteDevice
  <2>4. QED BY <2>1, <2>2, <2>3 DEF DeviceClickOnly
<1>2. ASSUME NEW c \in Content, NEW l \in Label, SaveOnDevice(c, l) PROVE DeviceClickOnly
  <2>1. Click /\ QuietClick /\ OnDevice BY <1>2 DEF SaveOnDevice
  <2>2. (\E what : NoDeviceChange(what)) \/ \E next, contents, what : WriteDevice(next, contents, what)
    BY <1>2 DEF SaveOnDevice
  <2>3. QED BY <1>1, <2>1, <2>2
<1>3. ASSUME NEW id \in Nat, NEW l \in Label, RenameOnDevice(id, l) PROVE DeviceClickOnly
  <2>1. Click /\ QuietClick /\ OnDevice BY <1>3 DEF RenameOnDevice
  <2>2. (\E what : NoDeviceChange(what)) \/ \E next, contents, what : WriteDevice(next, contents, what)
    BY <1>3 DEF RenameOnDevice
  <2>3. QED BY <1>1, <2>1, <2>2
<1>4. ASSUME NEW id \in Nat, RemoveOnDevice(id) PROVE DeviceClickOnly
  <2>1. Click /\ QuietClick /\ OnDevice BY <1>4 DEF RemoveOnDevice
  <2>2. (\E what : NoDeviceChange(what)) \/ \E next, contents, what : WriteDevice(next, contents, what)
    BY <1>4 DEF RemoveOnDevice
  <2>3. QED BY <1>1, <2>1, <2>2
<1>5. QED BY <1>2, <1>3, <1>4

(* So the account's writes stay what they are. *)
LEMMA DeviceWrites ==
  ASSUME WritesInv, Inv', NamesSound',
         \/ \E c \in Content, l \in Label : SaveOnDevice(c, l)
         \/ \E id \in Nat, l \in Label : RenameOnDevice(id, l)
         \/ \E id \in Nat : RemoveOnDevice(id)
  PROVE  WritesInv'
<1>1. /\ writes' = writes + 1 /\ \E what : told' = Append(told, what)
      /\ acc' = acc \/ (acc # Nothing /\ acc'.account = acc.account /\ acc'.loading = acc.loading)
      /\ UNCHANGED <<live, book, sent, answers, server, last, stray>>
  BY DeviceClicks DEF DeviceClickOnly, WritesInv, NamesInv
<1>2. InFlight' = InFlight /\ writes \in Nat BY <1>1 DEF InFlight, Live, WritesInv, NamesInv, Inv, TypeOK
<1>3. \A i : Same(i, i) BY DEF Same
<1>4. \A k \in DOMAIN last : told'[last[k].at] \in Success => Succeeded(k) BY <1>1, StillTold
<1>5. book' = book /\ last' = last /\ live' = live /\ writes <= writes' BY <1>1, <1>2
<1>6. \A i \in ToSet(book'.intents) : \E j \in ToSet(book.intents) : Same(i, j) BY <1>3, <1>5
<1>7. acc' = acc \/ (acc'.account = acc.account /\ acc'.loading = acc.loading) BY <1>1
<1>8. InFlight' \subseteq InFlight BY <1>2
<1>9. QED BY <1>4, <1>5, <1>6, <1>7, <1>8, WritesFrame

(* It is about the content its item has had, and no earlier write of the item counts any more. *)
LEMMA AccountWriteHistory ==
  ASSUME WritesInv, Click, OnAccount, NEW d, Asks(d), AccountWrite(d)
  PROVE  /\ DOMAIN last' = DOMAIN last \cup {d.id} /\ last'[d.id] = [d EXCEPT !.at = writes + 1]
         /\ \A k \in DOMAIN last : k # d.id => last'[k] = last[k]
         /\ d.id \in DOMAIN last => d.item.content = last[d.id].item.content
         /\ \A k \in DOMAIN last' : Succeeded(k)' => k # d.id /\ k \in DOMAIN last /\ Succeeded(k)
<1> DEFINE new == [d EXCEPT !.at = writes + 1]
<1>1. d.id \in Nat /\ ToSet(Shown) = Screen /\ last' = With(last, d.id, new) BY AccountWriteFacts DEF WritesInv, NamesInv
<1>2. new.at = writes + 1 BY DEF Asks, DraftType
<1> HIDE DEF new
<1>3. writes \in Nat /\ writes < MaxWrites /\ TypeOK BY DEF WritesInv, NamesInv, Inv, TypeOK, Click
<1>4. DOMAIN last' = DOMAIN last \cup {d.id} /\ last'[d.id] = new /\ \A k \in DOMAIN last : k # d.id => last'[k] = last[k]
  BY <1>1 DEF With
<1>5. d.id \in DOMAIN last => d.item.content = last[d.id].item.content
  <2> SUFFICES ASSUME d.id \in DOMAIN last PROVE d.item.content = last[d.id].item.content OBVIOUS
  <2>1. last[d.id].item.id = d.id BY DEF WritesInv, LastSound
  <2>2. last[d.id].item \in Named BY DEF Named, Seen, Asked
  <2>3. last[d.id].item \in ItemType BY <1>3, <2>2, NamedType
  <2>4. Unambiguous(Names(Named)) /\ Minted(Names(Named), writes) BY DEF WritesInv, NamesInv, NamesSound
  <2> DEFINE p == <<d.id, last[d.id].item.content>>
             q == <<d.id, d.item.content>>
  <2>5. p \in Names(Named) BY <2>1, <2>2 DEF Names
  <2>6. CASE Fresh(d)
    <3>1. p[1] = writes + 1 BY <2>6 DEF Fresh
    <3>2. QED BY <1>3, <2>4, <2>5, <3>1, BoundsAssumption DEF Minted
  <2>7. CASE OnScreen(d)
    <3>1. d.item \in Named /\ d.item.id = d.id BY <1>1, <2>7 DEF OnScreen, Named, Seen, Asks
    <3>2. q \in Names(Named) BY <3>1 DEF Names
    <3>3. p[2] = q[2] BY <2>4, <2>5, <3>2 DEF Unambiguous
    <3>4. QED BY <3>3
  <2>8. QED BY <2>6, <2>7 DEF Asks
<1>6. \A k \in DOMAIN last' : Succeeded(k)' => k # d.id /\ k \in DOMAIN last /\ Succeeded(k)
  <2> DEFINE replaced == { i.write : i \in IntentOf(book.intents, d.id) }
  <2>1. told' = Append(Tell(replaced, "superseded"), "awaited") BY DEF AccountWrite
  <2> HIDE DEF replaced
  <2>2. "awaited" \notin Success /\ "superseded" \notin Success BY DEF Success
  <2>3. ASSUME NEW k \in DOMAIN last', told'[last'[k].at] \in Success PROVE k # d.id /\ k \in DOMAIN last /\ Succeeded(k)
    <3>1. told'[writes + 1] = "awaited"
      <4>1. CASE writes = 0
        <5>1. Len(Tell(replaced, "superseded")) = 0 /\ Tell(replaced, "superseded") \in Seq(Outcome)
          <6>1. told \in Seq(Outcome) /\ Len(told) = 0 /\ "superseded" \in Outcome BY <1>3, <4>1 DEF TypeOK, Outcome
          <6>2. QED BY <6>1, ToldFacts
        <5>2. QED BY <2>1, <4>1, <5>1
      <4>2. CASE writes # 0
        <5>1. 1 \in 1..writes BY <1>3, <4>2
        <5>2. QED BY <1>3, <2>1, <5>1, ToldBefore
      <4>3. QED BY <4>1, <4>2
    <3>2. k # d.id BY <1>2, <1>4, <2>2, <2>3, <3>1
    <3>3. k \in DOMAIN last /\ last'[k] = last[k] BY <1>4, <2>3, <3>2
    <3> DEFINE n == last[k].at
    <3>4. n \in 1..writes BY <3>3 DEF WritesInv, LastSound
    <3>5. told'[n] \in Success BY <2>3, <3>3
    <3> HIDE DEF n
    <3>6. told'[n] = IF n \in replaced /\ told[n] = "awaited" THEN "superseded" ELSE told[n]
      BY <1>3, <2>1, <3>4, ToldBefore
    <3>7. told[n] \in Success BY <2>2, <3>5, <3>6
    <3>8. QED BY <3>2, <3>3, <3>7 DEF n, Succeeded
  <2>4. QED BY <2>3 DEF Succeeded
<1>7. QED BY <1>4, <1>5, <1>6 DEF new

(* A write to the account becomes the last one of its item. *)
LEMMA AccountWriteWrites ==
  ASSUME WritesInv, Inv', NamesSound', Click, OnAccount, NEW d, Asks(d), AccountWrite(d)
  PROVE  WritesInv'
<1> DEFINE t == book'.intents
           new == [d EXCEPT !.at = writes + 1]
<1>1. /\ d.kind \in {"create", "rename", "remove"} /\ d.id \in Nat /\ d.item \in ItemType
      /\ d.label \in Label \cup {Nothing} /\ acc # Nothing /\ ~acc.loading /\ live # Nothing
      /\ ToSet(Shown) = Screen
      /\ acc'.loading = acc.loading /\ acc'.account = acc.account
      /\ \A i \in ToSet(t) :
           \/ i \in ToSet(book.intents) /\ i.id # d.id
           \/ i.kind = d.kind /\ i.id = d.id /\ i.item = d.item /\ i.label = d.label /\ i.write = writes + 1
      /\ \A id : id # d.id => (IntentOf(t, id) = {} <=> IntentOf(book.intents, id) = {})
      /\ last' = With(last, d.id, new)
      /\ live' = live /\ sent' = sent /\ answers' = answers
  BY AccountWriteFacts DEF WritesInv, NamesInv
<1>2. new.kind = d.kind /\ new.item = d.item /\ new.label = d.label /\ new.at = writes + 1 BY DEF Asks, DraftType
<1>3. d.id \in DOMAIN last => d.item.content = last[d.id].item.content BY AccountWriteHistory
<1>4. \A k \in DOMAIN last' : Succeeded(k)' => k # d.id /\ k \in DOMAIN last /\ Succeeded(k) BY AccountWriteHistory
<1> HIDE DEF new
<1>5. writes \in Nat /\ writes < MaxWrites /\ writes' = writes + 1 /\ TypeOK
  BY DEF WritesInv, NamesInv, Inv, TypeOK, Click
<1>6. DOMAIN last' = DOMAIN last \cup {d.id} /\ last'[d.id] = new /\ \A k \in DOMAIN last : k # d.id => last'[k] = last[k]
  BY <1>1 DEF With
<1>7. InFlight' = InFlight BY <1>1 DEF InFlight, Live
<1>8. LoadsFirst' BY <1>1, <1>7 DEF WritesInv, LoadsFirst
<1>9. LastSound'
  <2>1. ASSUME NEW k \in DOMAIN last' PROVE last'[k].item.id = k /\ last'[k].at \in 1..writes'
                                            /\ (last'[k].kind = "create" => last'[k].item.label = last'[k].label)
    <3>1. CASE k = d.id BY <1>2, <1>5, <1>6, <3>1 DEF Asks, Fresh, OnScreen
    <3>2. CASE k # d.id
      <4>1. k \in DOMAIN last /\ last'[k] = last[k] BY <1>6, <2>1, <3>2
      <4>2. last[k].item.id = k /\ last[k].at \in 1..writes /\ (last[k].kind = "create" => last[k].item.label = last[k].label)
        BY <4>1 DEF WritesInv, LastSound
      <4>3. QED BY <1>5, <4>1, <4>2
    <3>3. QED BY <3>1, <3>2
  <2>2. ASSUME NEW j \in DOMAIN last', NEW k \in DOMAIN last', last'[j].at = last'[k].at PROVE j = k
    <3>1. \A i \in DOMAIN last : last[i].at \in 1..writes BY DEF WritesInv, LastSound
    <3>2. \A i \in DOMAIN last' : i # d.id => i \in DOMAIN last /\ last'[i] = last[i] BY <1>6
    <3>3. \A i \in DOMAIN last' : i # d.id => last'[i].at # writes + 1 BY <1>5, <3>1, <3>2
    <3>4. CASE j = d.id \/ k = d.id BY <1>2, <1>6, <2>2, <3>3, <3>4
    <3>5. CASE j # d.id /\ k # d.id BY <2>2, <3>2, <3>5 DEF WritesInv, LastSound
    <3>6. QED BY <3>4, <3>5
  <2>3. QED BY <2>1, <2>2 DEF LastSound
<1>10. BookedLast'
  <2>1. ASSUME NEW i \in ToSet(t) PROVE i.id \in DOMAIN last' /\ i.write = last'[i.id].at /\ SaysLast(i)'
    <3>1. CASE i \in ToSet(book.intents) /\ i.id # d.id
      <4>1. i.id \in DOMAIN last /\ i.write = last[i.id].at /\ SaysLast(i) BY <3>1 DEF WritesInv, BookedLast
      <4>2. last'[i.id] = last[i.id] BY <1>6, <3>1, <4>1
      <4>3. QED BY <1>6, <4>1, <4>2 DEF SaysLast
    <3>2. CASE i.kind = d.kind /\ i.id = d.id /\ i.item = d.item /\ i.label = d.label /\ i.write = writes + 1
      BY <1>2, <1>6, <3>2 DEF SaysLast
    <3>3. QED BY <1>1, <2>1, <3>1, <3>2
  <2>2. QED BY <2>1 DEF BookedLast
<1>11. RequestsSound'
  <2>1. \A r \in InFlight : ~IsLoading(r) => r.write \in Nat
    <3>1. InFlight \subseteq Request BY <1>5 DEF InFlight, TypeOK, Answer
    <3>2. QED BY <3>1, RequestFacts DEF IsLoading
  <2>2. ASSUME NEW r \in InFlight', ~IsLoading(r)
        PROVE  /\ r.account = acc'.account /\ r.id \in DOMAIN last'
               /\ r.item.id = r.id /\ r.item.content = last'[r.id].item.content
               /\ \A k \in DOMAIN last' : r.write = last'[k].at => k = r.id /\ SaysLast(r)'
               /\ r.write <= writes'
    <3>1. r \in InFlight /\ r.write \in Nat BY <1>7, <2>1, <2>2
    <3>2. /\ r.account = acc.account /\ r.id \in DOMAIN last
          /\ r.item.id = r.id /\ r.item.content = last[r.id].item.content
          /\ \A k \in DOMAIN last : r.write = last[k].at => k = r.id /\ SaysLast(r)
          /\ r.write <= writes
      BY <2>2, <3>1 DEF WritesInv, RequestsSound
    <3>3. r.write <= writes' /\ r.write # writes + 1 BY <1>5, <3>1, <3>2
    <3>4. r.item.content = last'[r.id].item.content BY <1>2, <1>6, <1>3, <3>2
    <3>5. ASSUME NEW k \in DOMAIN last', r.write = last'[k].at PROVE k = r.id /\ SaysLast(r)'
      <4>1. k # d.id BY <1>2, <1>6, <3>3, <3>5
      <4>2. k \in DOMAIN last /\ last'[k] = last[k] BY <1>6, <3>5, <4>1
      <4>3. k = r.id /\ SaysLast(r) BY <3>2, <3>5, <4>2
      <4>4. QED BY <4>2, <4>3 DEF SaysLast
    <3>6. QED BY <1>1, <1>6, <3>2, <3>3, <3>4, <3>5
  <2>3. QED BY <2>2 DEF RequestsSound, IsLoading
<1>12. Settled'
  <2>1. ASSUME NEW k \in DOMAIN last', Succeeded(k)' PROVE IntentOf(t, k) = {}
    <3>1. k # d.id /\ k \in DOMAIN last /\ Succeeded(k) BY <1>4, <2>1
    <3>2. IntentOf(book.intents, k) = {} BY <3>1 DEF WritesInv, Settled
    <3>3. QED BY <1>1, <3>1, <3>2
  <2>2. QED BY <2>1 DEF Settled
<1>13. QED BY <1>8, <1>9, <1>10, <1>11, <1>12 DEF WritesInv, NamesInv

(* The effects of a render start anew. *)
LEMMA RunEffectsWrites == ASSUME WritesInv, Inv', NamesSound', RunEffects PROVE WritesInv'
<1> USE DEF WritesInv, NamesInv, Inv
<1> DEFINE retained == ReadDevice.items
           load == [kind |-> IF retained # <<>> THEN "merge" ELSE "load", account |-> Token[1],
                    token |-> Token, id |-> Nothing, item |-> Nothing, label |-> Nothing,
                    list |-> retained, write |-> 0]
           state == [account |-> Token[1], token |-> Token,
                     items |-> IF retained # <<>> THEN retained ELSE Unknown,
                     origin |-> IF retained # <<>> THEN "device" ELSE "unknown",
                     loading |-> TRUE, pending |-> {}, error |-> FALSE]
<1>1. /\ EffectsPending /\ live' = Token /\ answers' = {} /\ last' = <<>>
      /\ Authenticated => acc' = state /\ sent' = sent \cup {load}
      /\ ~Authenticated => acc' = acc /\ sent' = sent
  BY DEF RunEffects
<1>2. book'.intents = <<>> BY DEF RunEffects, EmptyBook
<1>3. load.kind \in {"load", "merge"} /\ load.token = Token /\ state.loading = TRUE OBVIOUS
<1> HIDE DEF load, state
<1>4. ~Authenticated => Token = Nothing BY TokenFacts
<1>5. \A r \in sent : r.token # Token /\ r.token # Nothing BY <1>1, RequestFacts DEF TokensFresh, TypeOK
<1>6. \A r \in InFlight' : IsLoading(r) /\ Authenticated
  <2>1. ASSUME NEW r \in sent', r.token = live' PROVE r = load /\ Authenticated BY <1>1, <1>4, <1>5, <2>1
  <2>2. QED BY <1>1, <1>3, <2>1 DEF InFlight, Live, IsLoading
<1>7. DOMAIN last' = {} BY <1>1
<1>8. LoadsFirst' BY <1>1, <1>3, <1>6 DEF LoadsFirst
<1>9. LastSound' /\ Settled' BY <1>7 DEF LastSound, Settled
<1>10. BookedLast' BY <1>2, EmptyFacts DEF BookedLast
<1>11. RequestsSound' BY <1>6 DEF RequestsSound, IsLoading
<1>12. QED BY <1>8, <1>9, <1>10, <1>11

(* A hop sends the last write of its item. *)
LEMMA StartHopWrites == ASSUME WritesInv, Inv', NamesSound', NEW id \in DOMAIN queued, StartHop(id) PROVE WritesInv'
<1> USE DEF WritesInv, NamesInv
<1> DEFINE hop(i) == [kind |-> i.kind, account |-> acc.account, token |-> live, id |-> id,
                      item |-> i.item, label |-> i.label, list |-> <<>>, write |-> i.write]
<1>1. /\ sent' = sent \cup { hop(i) : i \in IntentOf(book.intents, id) }
      /\ acc' = acc /\ book' = book /\ answers' = answers /\ live' = live
      /\ writes' = writes /\ told' = told /\ last' = last
  BY DEF StartHop, history
<1>2. IntentOf(book.intents, id) \subseteq ToSet(book.intents) /\ \A i \in IntentOf(book.intents, id) : i.id = id
  BY DEF IntentOf
<1>3. ToSet(book.intents) \subseteq IntentType BY Members DEF Inv, TypeOK
<1>4. \A i : /\ hop(i).kind = i.kind /\ hop(i).account = acc.account /\ hop(i).id = id /\ hop(i).item = i.item
             /\ hop(i).label = i.label /\ hop(i).write = i.write
  OBVIOUS
<1> HIDE DEF hop
<1>5. \A r \in InFlight' : r \in InFlight \/ \E i \in IntentOf(book.intents, id) : r = hop(i)
  BY <1>1 DEF InFlight, Live
<1>6. ASSUME NEW i \in IntentOf(book.intents, id)
      PROVE  LET r == hop(i)
             IN  /\ ~IsLoading(r) /\ r.account = acc.account /\ r.id \in DOMAIN last
                 /\ r.item.id = r.id /\ r.item.content = last[r.id].item.content
                 /\ \A k \in DOMAIN last : r.write = last[k].at => k = r.id /\ SaysLast(r)
                 /\ r.write <= writes
  <2>1. i \in IntentType /\ i.id = id /\ id \in DOMAIN last /\ i.write = last[id].at /\ SaysLast(i)
    BY <1>2, <1>3, <1>6 DEF BookedLast
  <2>2. i.kind = last[id].kind /\ i.item = last[id].item /\ i.label = last[id].label BY <2>1 DEF SaysLast
  <2>3. last[id].item.id = id /\ last[id].at \in 1..writes BY <2>1 DEF LastSound
  <2>4. \A k \in DOMAIN last : i.write = last[k].at => k = id BY <2>1 DEF LastSound
  <2> DEFINE r == hop(i)
  <2>5. r.kind = i.kind /\ r.account = acc.account /\ r.id = id /\ r.item = i.item /\ r.label = i.label /\ r.write = i.write
    BY <1>4
  <2> HIDE DEF r
  <2>6. ~IsLoading(r) BY <2>1, <2>5 DEF IsLoading, IntentType
  <2>7. SaysLast(r) BY <2>2, <2>5 DEF SaysLast
  <2>8. writes \in Nat BY DEF Inv, TypeOK
  <2>9. QED BY <2>1, <2>2, <2>3, <2>4, <2>5, <2>6, <2>7, <2>8 DEF r
<1>7. LoadsFirst' BY <1>1, <1>5, <1>6 DEF LoadsFirst
<1>8. LastSound' /\ BookedLast' /\ Settled' BY <1>1 DEF LastSound, BookedLast, SaysLast, Settled, Succeeded
<1>9. RequestsSound'
  <2>1. ASSUME NEW r \in InFlight', ~IsLoading(r)
        PROVE  /\ r.account = acc.account /\ r.id \in DOMAIN last
               /\ r.item.id = r.id /\ r.item.content = last[r.id].item.content
               /\ \A k \in DOMAIN last : r.write = last[k].at => k = r.id /\ SaysLast(r)
               /\ r.write <= writes
    <3>1. CASE r \in InFlight BY <2>1, <3>1 DEF RequestsSound
    <3>2. CASE \E i \in IntentOf(book.intents, id) : r = hop(i) BY <1>6, <3>2
    <3>3. QED BY <1>5, <2>1, <3>1, <3>2
  <2>2. QED BY <1>1, <2>1 DEF RequestsSound, IsLoading, SaysLast
<1>10. QED BY <1>7, <1>8, <1>9

(* What comes and goes on the network says what it said. *)
LEMMA NetworkWrites ==
  ASSUME WritesInv, Inv', NamesSound', NEW r \in sent, NEW list, Respond(r, list),
         UNCHANGED <<live, acc, book, writes, told, last>>
  PROVE  WritesInv'
<1>1. InFlight' \subseteq InFlight
  <2>1. \A a \in answers' : a \in answers \/ (a.request = r /\ Live(r)) BY DEF Respond
  <2>2. sent' \subseteq sent BY DEF Respond
  <2>3. QED BY <2>1, <2>2 DEF InFlight, Live
<1>2. \A i : Same(i, i) BY DEF Same
<1>3. \A k \in DOMAIN last : told'[last[k].at] \in Success => Succeeded(k) BY DEF Succeeded
<1>4. writes \in Nat BY DEF WritesInv, NamesInv, Inv, TypeOK
<1>5. QED BY <1>1, <1>2, <1>3, <1>4, WritesFrame

(* A response that is lost is one still. *)
LEMMA ResponseLostWrites == ASSUME WritesInv, Inv', NamesSound', NEW a \in answers, ResponseLost(a) PROVE WritesInv'
<1>1. /\ answers' = (answers \ {a}) \cup {[a EXCEPT !.list = Unknown]}
      /\ UNCHANGED <<live, acc, book, writes, told, last, sent>>
  BY DEF ResponseLost, history
<1>2. a \in Answer BY DEF WritesInv, NamesInv, Inv, TypeOK
<1>3. [a EXCEPT !.list = Unknown].request = a.request BY <1>2 DEF Answer
<1>4. InFlight' \subseteq InFlight BY <1>1, <1>3 DEF InFlight, Live
<1>5. \A i : Same(i, i) BY DEF Same
<1>6. \A k \in DOMAIN last : told'[last[k].at] \in Success => Succeeded(k) BY <1>1 DEF Succeeded
<1>7. writes \in Nat BY DEF WritesInv, NamesInv, Inv, TypeOK
<1>8. QED BY <1>1, <1>4, <1>5, <1>6, <1>7, WritesFrame

(* A load that comes back finds no write made. *)
LEMMA LoadedWrites == ASSUME WritesInv, Inv', NamesSound', NEW a \in answers, Loaded(a) PROVE WritesInv'
<1>1. /\ IsLoad(a) /\ answers' = answers \ {a} /\ sent' = sent
      /\ \A i \in ToSet(book'.intents) : \E j \in ToSet(book.intents) : Same(i, j)
      /\ acc'.account = acc.account
      /\ UNCHANGED <<live, writes, told, last>>
  BY LoadedFacts DEF WritesInv, NamesInv
<1>2. a.request \in Request /\ a.request \in InFlight BY AnswerFacts DEF WritesInv, NamesInv
<1>3. a.request.id = Nothing BY <1>1, <1>2, RequestFacts DEF IsLoad
<1>4. last = <<>> BY <1>1, <1>2 DEF IsLoad, IsLoading, WritesInv, LoadsFirst
<1>5. InFlight' \subseteq InFlight /\ \A r \in InFlight' : r.id # Nothing
  <2>1. UNCHANGED <<ui, live>> BY DEF Loaded
  <2>2. InFlight' \subseteq InFlight /\ \A r \in InFlight' : r.id # a.request.id
    BY <1>1, <2>1, ArrivesInv DEF WritesInv, NamesInv
  <2>3. QED BY <1>3, <2>2
<1>6. \A r \in InFlight' : ~IsLoading(r)
  <2>1. InFlight \subseteq Request BY DEF InFlight, WritesInv, NamesInv, Inv, TypeOK, Answer
  <2>2. QED BY <1>5, <2>1, RequestFacts DEF IsLoading
<1>7. \A k \in DOMAIN last : told'[last[k].at] \in Success => Succeeded(k) BY <1>1 DEF Succeeded
<1>8. writes \in Nat BY DEF WritesInv, NamesInv, Inv, TypeOK
<1>9. QED BY <1>1, <1>4, <1>5, <1>6, <1>7, <1>8, WritesFrame

(* A write that comes back is told a success only if it is its item's intent and the server took it. *)
LEMMA WroteTold ==
  ASSUME WritesInv, NEW a \in answers, Wrote(a), NEW k \in DOMAIN last, told'[last[k].at] \in Success
  PROVE  Succeeded(k) \/ (a.request.write = last[k].at /\ k = a.request.id /\ ~Superseded(a) /\ a.list # Unknown)
<1> DEFINE n == last[k].at
           w == a.request.write
<1>1. ~IsLoad(a) /\ \E what : told' = Tell({w}, what) /\ (what \in {"created", "updated", "removed"} => ~Superseded(a) /\ a.list # Unknown)
  BY WroteFacts DEF WritesInv, NamesInv
<1>2. a.request \in InFlight /\ ~IsLoading(a.request) BY <1>1, AnswerFacts DEF WritesInv, NamesInv, IsLoad, IsLoading
<1>3. w = n => k = a.request.id BY <1>2 DEF WritesInv, RequestsSound
<1>4. n \in 1..writes /\ TypeOK BY DEF WritesInv, LastSound, NamesInv, Inv
<1>5. told'[n] \in Success OBVIOUS
<1>6. PICK what : told' = Tell({w}, what) /\ (what \in Success => ~Superseded(a) /\ a.list # Unknown) BY <1>1 DEF Success
<1> HIDE DEF n
<1>7. Tell({w}, what)[n] = IF n \in {w} /\ told[n] = "awaited" THEN what ELSE told[n] BY <1>4, ToldBefore
<1>8. CASE n = w /\ told[n] = "awaited" BY <1>3, <1>5, <1>6, <1>7, <1>8 DEF n
<1>9. CASE ~(n = w /\ told[n] = "awaited") BY <1>5, <1>6, <1>7, <1>9 DEF Succeeded, n
<1>10. QED BY <1>8, <1>9

(* A write that comes back and is told a success was its item's intent, which is retired. *)
LEMMA WroteWrites == ASSUME WritesInv, Inv', NamesSound', NEW a \in answers, Wrote(a) PROVE WritesInv'
<1> DEFINE id == a.request.id
           w == a.request.write
           t == book'.intents
<1>1. /\ ~IsLoad(a) /\ answers' = answers \ {a} /\ sent' = sent
      /\ \A i \in ToSet(t) : \E j \in ToSet(book.intents) : Same(i, j)
      /\ ~Superseded(a) => IntentOf(t, id) = {}
      /\ acc'.account = acc.account /\ acc'.loading = acc.loading
      /\ \E what : told' = Tell({w}, what) /\ (what \in {"created", "updated", "removed"} => ~Superseded(a) /\ a.list # Unknown)
      /\ UNCHANGED <<live, writes, last>>
  BY WroteFacts DEF WritesInv, NamesInv
<1>4. ASSUME NEW k \in DOMAIN last, told'[last[k].at] \in Success PROVE Succeeded(k) \/ IntentOf(t, k) = {}
  BY <1>1, <1>4, WroteTold
<1>5. InFlight' \subseteq InFlight BY <1>1 DEF InFlight, Live
<1>6. writes \in Nat BY DEF WritesInv, NamesInv, Inv, TypeOK
<1>7. writes <= writes' BY <1>1, <1>6
<1>8. last' = last /\ live' = live BY <1>1
<1>9. acc'.account = acc.account /\ acc'.loading = acc.loading BY <1>1
<1>10. \A i \in ToSet(book'.intents) : \E j \in ToSet(book.intents) : Same(i, j) BY <1>1
<1>11. \A k \in DOMAIN last : told'[last[k].at] \in Success => Succeeded(k) \/ IntentOf(book'.intents, k) = {} BY <1>4
<1> HIDE DEF id, w, t
<1>12. QED BY <1>5, <1>7, <1>8, <1>9, <1>10, <1>11, WritesFrame

(* At the start no write has been made. *)
LEMMA InitWrites == Init => WritesInv
<1> SUFFICES ASSUME Init PROVE WritesInv OBVIOUS
<1>1. NamesInv BY InitNames
<1>2. InFlight = {} /\ last = <<>> /\ book.intents = <<>> BY DEF Init, InFlight, EmptyBook
<1>3. DOMAIN last = {} /\ ToSet(book.intents) = {} BY <1>2, EmptyFacts
<1>4. LoadsFirst /\ LastSound /\ BookedLast /\ RequestsSound /\ Settled
  BY <1>2, <1>3 DEF LoadsFirst, LastSound, BookedLast, RequestsSound, Settled
<1>5. QED BY <1>1, <1>4 DEF WritesInv

(* Every step keeps what the history, the book and the requests say of an item's writes. *)
LEMMA WritesNext == WritesInv /\ [Next]_vars => WritesInv'
<1> SUFFICES ASSUME WritesInv, [Next]_vars, Inv', NamesSound' PROVE WritesInv'
  BY NamesNext DEF WritesInv, NamesInv
<1>1. NamesInv /\ Inv BY DEF WritesInv, NamesInv
<1>2. Ids \subseteq Nat BY <1>1, IdsFacts DEF Inv
<1>3. ASSUME \/ SessionChange \/ Retry \/ WhileSyncing \/ (Click /\ AccountUnchanged) \/ UNCHANGED vars
             \/ \E w \in orphans : Abandon(w)
      PROVE  WritesInv'
  <2>1. /\ Still /\ writes' \in Nat /\ writes <= writes'
        /\ \/ told' = told \/ \E w : told' = Tell({w}, "superseded")
           \/ writes' = writes + 1 /\ \E what : told' = Append(told, what)
    BY <1>1, <1>3, StillSteps
  <2>2. QED BY <2>1, StillWrites
<1>4. CASE Scout
  <2>1. CASE SessionChange \/ Retry \/ WhileSyncing BY <1>3, <2>1
  <2>2. CASE \/ \E c \in Content, l \in Label : SaveOnDevice(c, l)
             \/ \E id \in Nat, l \in Label : RenameOnDevice(id, l)
             \/ \E id \in Nat : RemoveOnDevice(id)
    BY <2>2, DeviceWrites
  <2>3. CASE \/ \E c \in Content, l \in Label : SaveToAccount(c, l)
             \/ \E id \in Nat, l \in Label : RenameInAccount(id, l)
             \/ \E id \in Nat : RemoveFromAccount(id)
    <3>1. Click /\ OnAccount /\ (AccountUnchanged \/ \E d : Asks(d) /\ AccountWrite(d))
      BY <1>1, <2>3, AccountClicks
    <3>2. QED BY <1>3, <3>1, AccountWriteWrites
  <2>4. QED BY <1>2, <1>4, <2>1, <2>2, <2>3 DEF Scout
<1>5. ASSUME NEW r \in sent, Lost(r) \/ Serve(r) PROVE WritesInv'
  <2>1. UNCHANGED <<live, acc, book, writes, told, last>> BY <1>5 DEF Lost, Serve, history
  <2>2. PICK list : Respond(r, list) BY <1>5 DEF Lost, Serve
  <2>3. QED BY <2>1, <2>2, NetworkWrites
<1>6. CASE Failure BY <1>5, <1>6, ResponseLostWrites DEF Failure
<1>7. CASE Progress
  BY <1>3, <1>5, <1>7, RunEffectsWrites, StartHopWrites, LoadedWrites, WroteWrites DEF Progress
<1>8. CASE UNCHANGED vars BY <1>3, <1>8
<1>9. QED BY <1>4, <1>6, <1>7, <1>8 DEF Next

-----------------------------------------------------------------------------
(* What is on screen before the account has been seen: its load has failed.  *)

\* The items are outstanding or left there by a refusal, and the screen is not in step.
Unseen == Current /\ acc.origin = "unknown"
LeftSound ==
  Unseen =>
    /\ ~book.adopted /\ (acc.loading \/ acc.error \/ acc.pending # {})
    /\ acc.items # Unknown =>
         \A i \in ToSet(acc.items) : IntentOf(book.intents, i.id) = {} => LeftByRefusal(i.id)

\* The caller of what is outstanding waits, and is none of those a retry has left waiting.
CallersWait ==
  /\ \A i \in ToSet(book.intents) : told[i.write] = "awaited" /\ i.write \notin orphans
  /\ \A w \in orphans : w <= writes
ScreenInv == WritesInv /\ LeftSound /\ CallersWait

(* Who waits for an outstanding write, and the number of an item's last write. *)
LEMMA Numbered ==
  ASSUME WritesInv
  PROVE  /\ writes \in Nat /\ \A k \in DOMAIN last : last[k].at \in 1..writes
         /\ \A i \in ToSet(book.intents) : i.write \in 1..writes /\ i.id \in DOMAIN last
BY DEF WritesInv, NamesInv, Inv, TypeOK, LastSound, BookedLast

(* The steps that tell the caller of another write, or of a write of an earlier book. *)
LEMMA ScreenFrame ==
  ASSUME ScreenInv, WritesInv', UNCHANGED <<live, book, last>>, acc' = acc \/ acc'.origin = "device",
         orphans' \subseteq orphans, writes <= writes',
         \A n \in 1..writes : told'[n] = told[n] \/ (told[n] = "awaited" /\ n \in orphans)
  PROVE  ScreenInv'
<1>1. writes \in Nat /\ writes' \in Nat BY DEF ScreenInv, WritesInv, NamesInv, Inv, TypeOK
<1>2. CallersWait'
  <2>1. \A i \in ToSet(book.intents) : i.write \in 1..writes BY Numbered DEF ScreenInv
  <2>2. ASSUME NEW i \in ToSet(book.intents) PROVE told'[i.write] = "awaited" /\ i.write \notin orphans'
    BY <2>1 DEF ScreenInv, CallersWait
  <2>3. ASSUME NEW w \in orphans' PROVE w <= writes'
    <3>1. w \in Nat /\ w <= writes BY DEF ScreenInv, CallersWait, WritesInv, NamesInv, Inv, TypeOK
    <3>2. QED BY <1>1, <3>1
  <2>4. QED BY <2>2, <2>3 DEF CallersWait
<1>3. LeftSound'
  <2> SUFFICES ASSUME Unseen' PROVE LeftSound' BY DEF LeftSound
  <2>1. acc' = acc /\ Unseen BY DEF Unseen, Current
  <2>2. ASSUME NEW k, LeftByRefusal(k) PROVE LeftByRefusal(k)'
    <3>1. k \in DOMAIN last /\ last[k].at \in 1..writes BY <2>2, Numbered DEF ScreenInv, LeftByRefusal
    <3>2. told[last[k].at] = "failed" BY <2>2 DEF LeftByRefusal
    <3>3. told'[last[k].at] = told[last[k].at] BY <3>1, <3>2
    <3>4. QED BY <2>2, <3>3 DEF LeftByRefusal
  <2>3. QED BY <2>1, <2>2 DEF ScreenInv, LeftSound
<1>4. QED BY <1>2, <1>3 DEF ScreenInv

(* The steps that change nothing of the account, and the clicks on the device. *)
LEMMA StillScreen ==
  ASSUME ScreenInv, WritesInv', Still,
         \/ SessionChange \/ Retry \/ WhileSyncing \/ (Click /\ AccountUnchanged) \/ UNCHANGED vars
         \/ \E w \in orphans : Abandon(w)
  PROVE  ScreenInv'
<1>1. TypeOK /\ writes \in Nat BY DEF ScreenInv, WritesInv, NamesInv, Inv, TypeOK
<1>2. CASE \E w \in orphans : Abandon(w)
  <2>1. PICK w \in orphans : Abandon(w) BY <1>2
  <2>2. orphans' \subseteq orphans /\ told' = Tell({w}, "superseded") /\ writes' = writes BY <2>1 DEF Abandon
  <2>3. ASSUME NEW n \in 1..writes PROVE told'[n] = told[n] \/ (told[n] = "awaited" /\ n \in orphans)
    <3>1. Tell({w}, "superseded")[n] = IF n \in {w} /\ told[n] = "awaited" THEN "superseded" ELSE told[n]
      BY <1>1, ToldBefore
    <3>2. QED BY <2>2, <3>1
  <2>4. QED BY <1>1, <2>2, <2>3, ScreenFrame DEF Still
<1>3. CASE WhileSyncing \/ (Click /\ AccountUnchanged)
  <2>1. writes' = writes + 1 /\ orphans' = orphans /\ \E what : told' = Append(told, what)
    BY <1>3 DEF WhileSyncing, AccountUnchanged, NoDeviceChange, Answered, Click, QuietClick
  <2>2. \A n \in 1..writes : told'[n] = told[n]
    <3>1. PICK what : told' = Append(told, what) BY <2>1
    <3>2. QED BY <1>1, <3>1, ToldBefore
  <2>3. orphans' \subseteq orphans /\ writes <= writes' /\ UNCHANGED <<live, book, last>> /\ acc' = acc
    BY <1>1, <2>1 DEF Still
  <2>4. QED BY <2>2, <2>3, ScreenFrame
<1>4. CASE SessionChange \/ Retry \/ UNCHANGED vars
  <2>1. writes' = writes /\ orphans' = orphans /\ told' = told BY <1>4 DEF SessionChange, Retry, vars
  <2>2. QED BY <1>1, <2>1, ScreenFrame DEF Still
<1>5. QED BY <1>2, <1>3, <1>4

LEMMA DeviceScreen ==
  ASSUME ScreenInv, WritesInv',
         \/ \E c \in Content, l \in Label : SaveOnDevice(c, l)
         \/ \E id \in Nat, l \in Label : RenameOnDevice(id, l)
         \/ \E id \in Nat : RemoveOnDevice(id)
  PROVE  ScreenInv'
<1>1. TypeOK /\ writes \in Nat BY DEF ScreenInv, WritesInv, NamesInv, Inv, TypeOK
<1>2. /\ writes' = writes + 1 /\ \E what : told' = Append(told, what)
      /\ acc' = acc \/ acc'.origin = "device"
      /\ UNCHANGED <<live, book, orphans, last>>
  BY DeviceClicks DEF DeviceClickOnly, ScreenInv, WritesInv, NamesInv
<1>3. \A n \in 1..writes : told'[n] = told[n]
  <2>1. PICK what : told' = Append(told, what) BY <1>2
  <2>2. QED BY <1>1, <2>1, ToldBefore
<1>4. orphans' \subseteq orphans /\ writes <= writes' BY <1>1, <1>2
<1>5. UNCHANGED <<live, book, last>> /\ (acc' = acc \/ acc'.origin = "device") BY <1>2
<1>6. QED BY <1>3, <1>4, <1>5, ScreenFrame

(* A write to the account: its item is outstanding, and what was left of the others stays. *)
LEMMA AccountWriteScreen ==
  ASSUME ScreenInv, WritesInv', Click, OnAccount, NEW d, Asks(d), AccountWrite(d)
  PROVE  ScreenInv'
<1> DEFINE t == book'.intents
           replaced == { i.write : i \in IntentOf(book.intents, d.id) }
<1>1. Inv /\ TypeOK /\ writes \in Nat /\ writes' = writes + 1 /\ WritesInv
  BY DEF ScreenInv, WritesInv, NamesInv, Inv, TypeOK, Click
<1>2. /\ d.kind \in {"create", "rename", "remove"} /\ d.id \in Nat /\ d.item \in ItemType
      /\ d.label \in Label \cup {Nothing} /\ acc # Nothing /\ Shown \in Collection
      /\ acc' = [acc EXCEPT !.items = ApplyOptimistically(Shown, d), !.pending = @ \cup {d.id}, !.error = FALSE]
      /\ acc'.items = ApplyOptimistically(Shown, d)
      /\ book'.adopted = book.adopted /\ IntentOf(t, d.id) # {}
      /\ \A i \in ToSet(t) :
           \/ i \in ToSet(book.intents) /\ i.id # d.id
           \/ i.id = d.id /\ i.write = writes + 1
      /\ \A id : id # d.id => (IntentOf(t, id) = {} <=> IntentOf(book.intents, id) = {})
      /\ live' = live
  BY <1>1, AccountWriteFacts
<1>3. orphans' = orphans /\ told' = Append(Tell(replaced, "superseded"), "awaited") BY DEF AccountWrite
<1>4. /\ DOMAIN last' = DOMAIN last \cup {d.id}
      /\ \A k \in DOMAIN last : k # d.id => last'[k] = last[k]
  BY <1>1, AccountWriteHistory
<1>5. /\ \A k \in DOMAIN last : last[k].at \in 1..writes
      /\ \A i \in ToSet(book.intents) : i.write \in 1..writes /\ i.id \in DOMAIN last
  BY <1>1, Numbered
<1> HIDE DEF replaced
<1>6. \A n \in 1..writes : told'[n] = IF n \in replaced /\ told[n] = "awaited" THEN "superseded" ELSE told[n]
  BY <1>1, <1>3, ToldBefore
<1>7. told'[writes + 1] = "awaited"
  <2>1. told \in Seq(Outcome) /\ Len(told) = writes /\ "superseded" \in Outcome BY <1>1 DEF TypeOK, Outcome
  <2>2. Tell(replaced, "superseded") \in Seq(Outcome) /\ Len(Tell(replaced, "superseded")) = writes BY <2>1, ToldFacts
  <2> DEFINE u == Tell(replaced, "superseded")
  <2>3. u \in Seq(Outcome) /\ Len(u) = writes /\ told' = Append(u, "awaited") BY <1>3, <2>2
  <2> HIDE DEF u
  <2>4. QED BY <1>1, <2>3
<1>8. CallersWait'
  <2>1. ASSUME NEW i \in ToSet(t) PROVE told'[i.write] = "awaited" /\ i.write \notin orphans'
    <3>1. CASE i \in ToSet(book.intents) /\ i.id # d.id
      <4>1. told[i.write] = "awaited" /\ i.write \notin orphans BY <3>1 DEF ScreenInv, CallersWait
      <4>2. i.write \notin replaced
        <5>1. SUFFICES ASSUME NEW j \in IntentOf(book.intents, d.id), i.write = j.write PROVE FALSE BY DEF replaced
        <5>2. j \in ToSet(book.intents) /\ j.id = d.id BY DEF IntentOf
        <5>3. i.id \in DOMAIN last /\ j.id \in DOMAIN last /\ last[i.id].at = last[j.id].at
          BY <1>1, <3>1, <5>1, <5>2 DEF WritesInv, BookedLast
        <5>4. QED BY <1>1, <3>1, <5>2, <5>3 DEF WritesInv, LastSound
      <4>3. QED BY <1>3, <1>5, <1>6, <3>1, <4>1, <4>2
    <3>2. CASE i.id = d.id /\ i.write = writes + 1
      <4>1. writes + 1 \notin orphans BY <1>1 DEF ScreenInv, CallersWait, TypeOK
      <4>2. QED BY <1>3, <1>7, <3>2, <4>1
    <3>3. QED BY <1>2, <2>1, <3>1, <3>2
  <2>2. ASSUME NEW w \in orphans' PROVE w <= writes'
    <3>1. w \in Nat /\ w <= writes BY <1>1, <1>3 DEF ScreenInv, CallersWait, TypeOK
    <3>2. QED BY <1>1, <3>1
  <2>3. QED BY <2>1, <2>2 DEF CallersWait
<1>9. LeftSound'
  <2> SUFFICES ASSUME Unseen' PROVE LeftSound' BY DEF LeftSound
  <2>1. acc \in AccountState BY <1>1, <1>2 DEF TypeOK
  <2>2. acc'.origin = acc.origin /\ acc'.token = acc.token /\ acc'.pending = acc.pending \cup {d.id}
    BY <1>2, <2>1 DEF AccountState
  <2>3. Unseen BY <1>2, <2>2 DEF Unseen, Current
  <2>4. ~book'.adopted /\ acc'.pending # {} BY <1>2, <2>2, <2>3 DEF ScreenInv, LeftSound
  <2>5. ASSUME NEW i \in ToSet(acc'.items), IntentOf(t, i.id) = {} PROVE LeftByRefusal(i.id)'
    <3>1. i.id # d.id /\ IntentOf(book.intents, i.id) = {} BY <1>2, <2>5
    <3>2. /\ ApplyOptimistically(Shown, d) \in Collection
          /\ \A k \in Nat : k # d.id => Find(ApplyOptimistically(Shown, d), k) = Find(Shown, k)
      <4>1. d.kind = "create" => d.item.id = d.id BY DEF Asks
      <4>2. QED BY <1>2, <4>1, AppliedFacts
    <3>3. i \in ItemType /\ i \in Find(ApplyOptimistically(Shown, d), i.id) BY <1>2, <2>5, <3>2, FoundFacts DEF Find
    <3>4. i \in Find(Shown, i.id) BY <3>1, <3>2, <3>3 DEF ItemType
    <3>5. i \in ToSet(Shown) BY <3>4 DEF Find
    <3>6. acc.items # Unknown /\ i \in ToSet(acc.items) BY <3>5, EmptyFacts DEF Shown
    <3>7. LeftByRefusal(i.id) BY <2>3, <3>1, <3>6 DEF ScreenInv, LeftSound
    <3>8. last'[i.id] = last[i.id] /\ i.id \in DOMAIN last' BY <1>4, <3>1, <3>7 DEF LeftByRefusal
    <3>9. told'[last[i.id].at] = told[last[i.id].at] BY <1>5, <1>6, <3>7 DEF LeftByRefusal
    <3>10. QED BY <3>7, <3>8, <3>9 DEF LeftByRefusal
  <2>6. QED BY <2>4, <2>5 DEF LeftSound
<1>10. QED BY <1>8, <1>9 DEF ScreenInv

(* The effects of a render start a load, with nothing on screen that is not on the device. *)
LEMMA RunEffectsScreen == ASSUME ScreenInv, WritesInv', RunEffects PROVE ScreenInv'
<1> DEFINE retained == ReadDevice.items
<1>1. /\ live' = Token /\ book' = EmptyBook /\ writes' = writes
      /\ orphans' \subseteq orphans \cup { i.write : i \in ToSet(book.intents) }
      /\ Authenticated =>
           acc' = [account |-> Token[1], token |-> Token,
                   items |-> IF retained # <<>> THEN retained ELSE Unknown,
                   origin |-> IF retained # <<>> THEN "device" ELSE "unknown",
                   loading |-> TRUE, pending |-> {}, error |-> FALSE]
  BY DEF RunEffects
<1>2. TypeOK BY DEF ScreenInv, WritesInv, NamesInv, Inv
<1> HIDE DEF retained
<1>3. CallersWait'
  <2>1. ToSet(book'.intents) = {} BY <1>1, EmptyFacts
  <2>2. \A i \in ToSet(book.intents) : i.write <= writes BY Numbered DEF ScreenInv
  <2>3. \A w \in orphans' : w <= writes' BY <1>1, <2>2 DEF ScreenInv, CallersWait
  <2>4. QED BY <2>1, <2>3 DEF CallersWait
<1>4. LeftSound'
  <2> SUFFICES ASSUME Unseen' PROVE LeftSound' BY DEF LeftSound
  <2>1. Authenticated BY <1>1, <1>2, TokenFacts DEF Unseen, Current
  <2>2. acc'.loading /\ (acc'.origin = "unknown" => acc'.items = Unknown) BY <1>1, <2>1
  <2>3. ~book'.adopted BY <1>1 DEF EmptyBook
  <2>4. QED BY <2>2, <2>3 DEF LeftSound, Unseen
<1>5. QED BY <1>3, <1>4 DEF ScreenInv

(* A load that fails leaves what it found, and an error. *)
LEMMA LoadedScreen == ASSUME ScreenInv, WritesInv', NEW a \in answers, Loaded(a) PROVE ScreenInv'
<1>1. /\ a.list # Unknown =>
           /\ book' = Rebased(book, a.list)
           /\ acc' = [acc EXCEPT !.items = a.list, !.origin = "server", !.loading = FALSE, !.error = FALSE]
      /\ a.list = Unknown =>
           /\ book' = book
           /\ acc' = [acc EXCEPT !.items = IF a.request.list # <<>> THEN a.request.list ELSE @,
                                 !.origin = IF a.request.list # <<>> THEN "device" ELSE @,
                                 !.loading = FALSE, !.error = TRUE]
      /\ UNCHANGED <<live, writes, orphans, told, last>>
  BY DEF Loaded, history
<1>2. acc # Nothing /\ acc \in AccountState /\ Current BY AnswerFacts DEF ScreenInv, WritesInv, NamesInv
<1>3. \A i \in ToSet(book'.intents) : \E j \in ToSet(book.intents) : Same(i, j)
  BY LoadedFacts DEF ScreenInv, WritesInv, NamesInv
<1>4. CallersWait' BY <1>1, <1>3 DEF CallersWait, ScreenInv, Same
<1>5. LeftSound'
  <2> SUFFICES ASSUME Unseen' PROVE LeftSound' BY DEF LeftSound
  <2>1. a.list = Unknown /\ a.request.list = <<>> BY <1>1, <1>2 DEF Unseen, AccountState
  <2>2. acc'.items = acc.items /\ acc'.origin = acc.origin /\ acc'.error BY <1>1, <1>2, <2>1 DEF AccountState
  <2>3. Unseen BY <1>2, <2>2 DEF Unseen
  <2>4. \A k : LeftByRefusal(k)' <=> LeftByRefusal(k) BY <1>1 DEF LeftByRefusal
  <2>5. QED BY <1>1, <2>1, <2>2, <2>3, <2>4 DEF ScreenInv, LeftSound
<1>6. QED BY <1>4, <1>5 DEF ScreenInv

(* A write that is refused is told so; a create leaves nothing, another what it was queued against. *)
LEMMA WroteScreen == ASSUME ScreenInv, WritesInv', NEW a \in answers, Wrote(a) PROVE ScreenInv'
<1> DEFINE id == a.request.id
           w == a.request.write
           t == book'.intents
           intent == CHOOSE i \in IntentOf(book.intents, id) : TRUE
<1>1. Inv /\ TypeOK /\ WritesInv BY DEF ScreenInv, WritesInv, NamesInv, Inv
<1>2. /\ ~IsLoad(a) /\ id \in Nat
      /\ \A i \in ToSet(t) : \E j \in ToSet(book.intents) : Same(i, j)
      /\ ~Superseded(a) => IntentOf(t, id) = {}
      /\ acc # Nothing /\ acc' # Nothing
      /\ UNCHANGED <<live, writes, last>>
  BY <1>1, WroteFacts
<1>3. orphans' = orphans BY DEF Wrote
<1>4. a.request \in InFlight /\ acc \in AccountState /\ Current /\ a.request \in Request BY <1>1, AnswerFacts
<1>5. /\ id \in DOMAIN last /\ \A k \in DOMAIN last : w = last[k].at => k = id
  BY <1>1, <1>2, <1>4 DEF WritesInv, RequestsSound, IsLoad, IsLoading
<1>6. /\ \A k \in DOMAIN last : last[k].at \in 1..writes
      /\ \A i \in ToSet(book.intents) : i.write \in 1..writes /\ i.id \in DOMAIN last
  BY <1>1, Numbered
<1>7. \A i \in ToSet(book.intents) : i.write = last[i.id].at /\ i.kind = last[i.id].kind
  BY <1>1 DEF WritesInv, BookedLast, SaysLast
<1>8. PICK what : told' = Tell({w}, what) BY <1>1, WroteFacts
<1>9. \A n \in 1..writes : told'[n] = IF n = w /\ told[n] = "awaited" THEN what ELSE told[n]
  <2>1. \A n \in 1..writes : Tell({w}, what)[n] = IF n \in {w} /\ told[n] = "awaited" THEN what ELSE told[n]
    BY <1>1, ToldBefore
  <2>2. QED BY <1>8, <2>1
<1>10. CallersWait'
  <2>1. ASSUME NEW i \in ToSet(t) PROVE told'[i.write] = "awaited" /\ i.write \notin orphans'
    <3>1. PICK j \in ToSet(book.intents) : Same(i, j) BY <1>2
    <3>2. i.write = j.write /\ i.id = j.id BY <3>1 DEF Same
    <3>3. told[j.write] = "awaited" /\ j.write \notin orphans BY DEF ScreenInv, CallersWait
    <3>4. j.write # w
      <4>1. SUFFICES ASSUME j.write = w PROVE FALSE OBVIOUS
      <4>2. j.id = id BY <1>5, <1>6, <1>7, <4>1
      <4>3. IntentOf(t, id) # {} BY <2>1, <3>2, <4>2 DEF IntentOf
      <4>4. Superseded(a) BY <1>2, <4>3
      <4>5. PICK k \in ToSet(book.intents) : k.id = id /\ k.write # w BY <4>4 DEF Superseded, IntentOf
      <4>6. k.write = last[id].at /\ j.write = last[id].at BY <1>7, <4>2, <4>5
      <4>7. QED BY <4>1, <4>5, <4>6
    <3>5. QED BY <1>3, <1>6, <1>9, <3>2, <3>3, <3>4
  <2>2. \A v \in orphans' : v <= writes' BY <1>2, <1>3 DEF ScreenInv, CallersWait
  <2>3. QED BY <2>1, <2>2 DEF CallersWait
<1>11. LeftSound'
  <2> SUFFICES ASSUME Unseen' PROVE LeftSound' BY DEF LeftSound
  <2>1. a.list = Unknown
    <3>1. a.list # Unknown => acc'.origin = "server" BY <1>4 DEF Wrote, AccountState
    <3>2. QED BY <3>1 DEF Unseen
  <2>2. book'.adopted = book.adopted BY <1>1, <2>1 DEF Wrote, TypeOK
  <2>3. ASSUME NEW k, LeftByRefusal(k) PROVE LeftByRefusal(k)'
    <3>1. k \in DOMAIN last /\ last[k].at \in 1..writes /\ told[last[k].at] = "failed"
      BY <1>6, <2>3 DEF LeftByRefusal
    <3>2. told'[last[k].at] = "failed" BY <1>9, <3>1
    <3>3. QED BY <1>2, <2>3, <3>2 DEF LeftByRefusal
  <2>4. CASE Superseded(a)
    <3>1. acc' = acc /\ t = book.intents
      BY <1>1, <2>1, <2>4 DEF Wrote, TypeOK
    <3>2. Unseen BY <1>2, <3>1 DEF Unseen, Current
    <3>3. QED BY <2>2, <2>3, <3>1, <3>2 DEF ScreenInv, LeftSound
  <2>5. CASE ~Superseded(a)
    <3>1. acc' = [acc EXCEPT !.items = IF @ = Unknown THEN @ ELSE Rollback(@, intent),
                             !.pending = @ \ {id}, !.error = TRUE]
      BY <2>1, <2>5 DEF Wrote
    <3>2. t = Retire(book.intents, id) BY <1>1, <2>1, <2>5 DEF Wrote, TypeOK
    <3>3. told' = Tell({w}, "failed") BY <2>1, <2>5 DEF Wrote
    <3>4. intent \in IntentOf(book.intents, id)
      <4>1. IntentOf(book.intents, id) # {} BY <1>1, <1>2, <1>4 DEF Inv, WritesAreBooked, IsLoad
      <4>2. QED BY <4>1
    <3> HIDE DEF intent
    <3>5. intent \in ToSet(book.intents) /\ intent.id = id /\ intent.write = w
      BY <2>5, <3>4 DEF IntentOf, Superseded
    <3>6. /\ acc'.items = IF acc.items = Unknown THEN acc.items ELSE Rollback(acc.items, intent)
          /\ acc'.error /\ acc'.origin = acc.origin /\ acc'.token = acc.token
      BY <1>4, <3>1 DEF AccountState
    <3>7. Unseen BY <1>2, <1>4, <3>6 DEF Unseen
    <3>8. ~book.adopted BY <3>7 DEF ScreenInv, LeftSound
    <3>9. /\ intent \in IntentType /\ WellFormed(intent)
          /\ intent.baseline = IF intent.kind = "create" THEN Nothing ELSE intent.item
      <4>1. ToSet(book.intents) \subseteq IntentType BY <1>1, Members DEF TypeOK
      <4>2. QED BY <1>1, <3>5, <3>8, <4>1 DEF Inv, IntentsSound, RollsBack
    <3>10. ASSUME acc.items # Unknown, NEW i \in ToSet(acc'.items), IntentOf(t, i.id) = {}
           PROVE  LeftByRefusal(i.id)'
      <4> DEFINE after == Rollback(acc.items, intent)
      <4>1. acc.items \in Collection BY <1>4, <3>10 DEF AccountState
      <4>2. intent.baseline # Nothing => intent.baseline.id = intent.id BY <3>9 DEF WellFormed
      <4>3. /\ after \in Collection /\ Find(after, intent.id) = {intent.baseline} \ {Nothing}
            /\ \A k \in Nat : k # intent.id => Find(after, k) = Find(acc.items, k)
        BY <3>9, <4>1, <4>2, RollbackFacts
      <4>4. acc'.items = after BY <3>6, <3>10
      <4> HIDE DEF after
      <4>5. i \in ItemType /\ i \in Find(after, i.id) BY <3>10, <4>3, <4>4, FoundFacts DEF Find
      <4>6. i.id \in Nat BY <4>5 DEF ItemType
      <4>7. CASE i.id = id
        <5>1. intent.baseline # Nothing BY <3>5, <4>3, <4>5, <4>7
        <5>2. intent.kind # "create" BY <3>9, <5>1
        <5>3. last[id].kind # "create" /\ last[id].at = w BY <1>7, <3>5, <5>2
        <5>4. told[w] = "awaited" /\ w \in 1..writes BY <1>6, <3>5 DEF ScreenInv, CallersWait
        <5>5. Tell({w}, "failed")[w] = "failed" BY <1>1, <5>4, ToldBefore
        <5>6. told'[last'[id].at] = "failed" BY <1>2, <3>3, <5>3, <5>5
        <5>7. QED BY <1>2, <1>5, <4>7, <5>3, <5>6 DEF LeftByRefusal
      <4>8. CASE i.id # id
        <5>1. i \in Find(acc.items, i.id) BY <3>5, <4>3, <4>5, <4>6, <4>8
        <5>2. i \in ToSet(acc.items) BY <5>1 DEF Find
        <5>3. ToSet(t) = { j \in ToSet(book.intents) : j.id # id } BY <1>1, <3>2, RetireFacts DEF TypeOK
        <5>4. IntentOf(book.intents, i.id) = {} BY <3>10, <4>8, <5>3 DEF IntentOf
        <5>5. LeftByRefusal(i.id) BY <3>7, <3>10, <5>2, <5>4 DEF ScreenInv, LeftSound
        <5>6. QED BY <2>3, <5>5
      <4>9. QED BY <4>7, <4>8
    <3>11. acc'.items # Unknown => acc.items # Unknown BY <3>6
    <3>12. QED BY <2>2, <3>6, <3>8, <3>10, <3>11 DEF LeftSound
  <2>6. QED BY <2>4, <2>5
<1>12. QED BY <1>10, <1>11 DEF ScreenInv

(* At the start nothing is on screen of an account. *)
LEMMA InitScreen == Init => ScreenInv
<1> SUFFICES ASSUME Init PROVE ScreenInv OBVIOUS
<1>1. WritesInv BY InitWrites
<1>2. acc = Nothing /\ book.intents = <<>> /\ orphans = {} BY DEF Init, EmptyBook
<1>3. ToSet(book.intents) = {} BY <1>2, EmptyFacts
<1>4. QED BY <1>1, <1>2, <1>3 DEF ScreenInv, LeftSound, CallersWait, Unseen, Current

(* Every step keeps what the screen shows of an account that has not been seen. *)
LEMMA ScreenNext == ScreenInv /\ [Next]_vars => ScreenInv'
<1> SUFFICES ASSUME ScreenInv, [Next]_vars, WritesInv' PROVE ScreenInv' BY WritesNext DEF ScreenInv
<1>1. WritesInv /\ Inv BY DEF ScreenInv, WritesInv, NamesInv
<1>2. Ids \subseteq Nat BY <1>1, IdsFacts DEF Inv
<1>3. writes \in Nat BY <1>1 DEF Inv, TypeOK
<1>4. ASSUME \/ SessionChange \/ Retry \/ WhileSyncing \/ (Click /\ AccountUnchanged) \/ UNCHANGED vars
             \/ \E w \in orphans : Abandon(w)
      PROVE  ScreenInv'
  <2>1. Still BY <1>1, <1>4, StillSteps
  <2>2. QED BY <1>4, <2>1, StillScreen
<1>5. CASE Scout
  <2>1. CASE SessionChange \/ Retry \/ WhileSyncing BY <1>4, <2>1
  <2>2. CASE \/ \E c \in Content, l \in Label : SaveOnDevice(c, l)
             \/ \E id \in Nat, l \in Label : RenameOnDevice(id, l)
             \/ \E id \in Nat : RemoveOnDevice(id)
    BY <2>2, DeviceScreen
  <2>3. CASE \/ \E c \in Content, l \in Label : SaveToAccount(c, l)
             \/ \E id \in Nat, l \in Label : RenameInAccount(id, l)
             \/ \E id \in Nat : RemoveFromAccount(id)
    <3>1. Click /\ OnAccount /\ (AccountUnchanged \/ \E d : Asks(d) /\ AccountWrite(d))
      BY <1>1, <2>3, AccountClicks
    <3>2. QED BY <1>4, <3>1, AccountWriteScreen
  <2>4. QED BY <1>2, <1>5, <2>1, <2>2, <2>3 DEF Scout
<1>6. ASSUME NEW r \in sent, Lost(r) \/ Serve(r) PROVE ScreenInv'
  <2>1. UNCHANGED <<live, acc, book, orphans, writes, told, last>> BY <1>6 DEF Lost, Serve, history
  <2>2. QED BY <1>3, <2>1, ScreenFrame
<1>7. ASSUME NEW a \in answers, ResponseLost(a) PROVE ScreenInv'
  <2>1. UNCHANGED <<live, acc, book, orphans, writes, told, last>> BY <1>7 DEF ResponseLost, history
  <2>2. QED BY <1>3, <2>1, ScreenFrame
<1>8. ASSUME NEW id \in DOMAIN queued, StartHop(id) PROVE ScreenInv'
  <2>1. UNCHANGED <<live, acc, book, orphans, writes, told, last>> BY <1>8 DEF StartHop, history
  <2>2. QED BY <1>3, <2>1, ScreenFrame
<1>9. CASE Failure BY <1>6, <1>7, <1>9 DEF Failure
<1>10. CASE Progress
  BY <1>4, <1>6, <1>8, <1>10, RunEffectsScreen, LoadedScreen, WroteScreen DEF Progress
<1>11. CASE UNCHANGED vars BY <1>4, <1>11
<1>12. QED BY <1>5, <1>9, <1>10, <1>11 DEF Next

(* The screen claims to be in step with the account only when nothing is owed or failed. *)
LEMMA ModeIsInStep ==
  ASSUME Inv, Mode = "account"
  PROVE  acc # Nothing /\ ~acc.loading /\ ~acc.error /\ acc.pending = {}
<1> DEFINE now == Auth!Effective
<1>1. acc # Nothing => acc.loading \in BOOLEAN /\ acc.error \in BOOLEAN BY DEF Inv, TypeOK, AccountState
<1>2. now \in Account \cup {"resolving", "anonymous", "unavailable"}
  BY DEF Inv, TypeOK, Auth!Effective, Auth!EffectiveStatus
<1>3. Account \cap {"resolving", "anonymous", "unavailable"} = {} BY NullsAssumption
<1>4. Authenticated <=> now \in Account BY DEF Authenticated
<1>5. Mode = CASE now = "resolving" -> "resolving"
               [] now \in {"anonymous", "unavailable"} -> "guest"
               [] Authenticated /\ (~Visible \/ acc.loading) -> "account-loading"
               [] Visible /\ ~acc.loading /\ acc.error -> IF acc.origin = "device" THEN "account-unconfirmed"
                                                                              ELSE "account-desynced"
               [] Visible /\ ~acc.loading /\ ~acc.error -> IF acc.pending # {} THEN "account-saving" ELSE "account"
  BY DEF Mode
<1>6. Visible => Authenticated /\ acc # Nothing BY DEF Visible
<1> HIDE DEF now
<1>7. now # "resolving"
  <2>1. SUFFICES ASSUME now = "resolving" PROVE FALSE OBVIOUS
  <2>2. Mode = "resolving" BY <1>3, <1>4, <1>5, <1>6, <2>1
  <2>3. QED BY <2>2
<1>8. now \notin {"anonymous", "unavailable"}
  <2>1. SUFFICES ASSUME now \in {"anonymous", "unavailable"} PROVE FALSE OBVIOUS
  <2>2. Mode = "guest" BY <1>3, <1>4, <1>5, <1>6, <1>7, <2>1
  <2>3. QED BY <2>2
<1>9. Authenticated BY <1>2, <1>4, <1>7, <1>8
<1>10. Visible /\ ~acc.loading
  <2>1. SUFFICES ASSUME ~Visible \/ acc.loading PROVE FALSE OBVIOUS
  <2>2. Mode = "account-loading" BY <1>1, <1>5, <1>6, <1>7, <1>8, <1>9, <2>1
  <2>3. QED BY <2>2
<1>11. ~acc.error
  <2>1. SUFFICES ASSUME acc.error PROVE FALSE OBVIOUS
  <2>2. Mode \in {"account-unconfirmed", "account-desynced"} BY <1>5, <1>7, <1>8, <1>10, <2>1
  <2>3. QED BY <2>2
<1>12. acc.pending = {}
  <2>1. SUFFICES ASSUME acc.pending # {} PROVE FALSE OBVIOUS
  <2>2. Mode = "account-saving" BY <1>5, <1>7, <1>8, <1>10, <1>11, <2>1
  <2>3. QED BY <2>2
<1>13. QED BY <1>6, <1>10, <1>11, <1>12

(* "Rollback restores the newest state the server has confirmed, and touches nothing else": once the
   server has answered, an item nothing is outstanding for is on screen exactly as it was last seen
   there; before, it is one whose rename or removal was refused, under a screen that says so. *)
THEOREM ScreenIsConfirmedCorrect == Spec => []ScreenIsConfirmed
<1>1. ScreenInv => ScreenIsConfirmed
  <2> SUFFICES ASSUME ScreenInv, Current, acc.items # Unknown PROVE ScreenIsConfirmed
    BY DEF ScreenIsConfirmed
  <2>1. Inv BY DEF ScreenInv, WritesInv, NamesInv
  <2>2. acc # Nothing /\ book.canonical \subseteq ItemType BY <2>1 DEF Inv, TypeOK, Current
  <2>3. acc.items \in Collection BY <2>1, <2>2 DEF Inv, TypeOK, AccountState
  <2>4. ToSet(acc.items) \subseteq ItemType BY <2>3, FoundFacts
  <2>5. ASSUME acc.origin = "server", NEW id \in { i.id : i \in book.canonical \cup ToSet(acc.items) },
               IntentOf(book.intents, id) = {}
        PROVE  Find(acc.items, id) = { i \in book.canonical : i.id = id }
    <3>1. id \in Nat BY <2>2, <2>4 DEF ItemType
    <3>2. QED BY <2>1, <2>2, <2>5, <3>1 DEF Inv, Confirmed, Untouched
  <2>6. ASSUME acc.origin = "unknown"
        PROVE  /\ Mode # "account"
               /\ \A i \in ToSet(acc.items) : IntentOf(book.intents, i.id) = {} => LeftByRefusal(i.id)
    <3>1. acc.loading \/ acc.error \/ acc.pending # {} BY <2>6 DEF ScreenInv, LeftSound, Unseen
    <3>2. Mode # "account" BY <2>1, <3>1, ModeIsInStep
    <3>3. QED BY <2>6, <3>2 DEF ScreenInv, LeftSound, Unseen
  <2>7. QED BY <2>5, <2>6 DEF ScreenIsConfirmed
<1>2. Spec => []ScreenInv
  <2>1. Init => ScreenInv BY InitScreen
  <2>2. ScreenInv /\ [Next]_vars => ScreenInv' BY ScreenNext
  <2>3. QED BY <2>1, <2>2, PTL DEF Spec
<1>3. QED BY <1>1, <1>2, PTL

\* A write the server has taken: its caller has been told, or the answer is on its way.
Done(k) ==
  Succeeded(k) \/ \E a \in answers : ~IsLoad(a) /\ a.list # Unknown /\ a.request.write = last[k].at
Counts(k) == Alone(k) /\ last[k].item.content \notin stray
IsHeld(k) ==
  IF last[k].kind = "remove" THEN Find(server[acc.account], k) = {}
  ELSE \E i \in ToSet(server[acc.account]) : i.content = last[k].item.content /\ i.label = last[k].label
DoneIsHeld == \A k \in DOMAIN last : Counts(k) /\ Done(k) => IsHeld(k)
HeldInv == WritesInv /\ DoneIsHeld

(* A step in which no write succeeds and the account stays as it is. *)
LEMMA DoneFrame ==
  ASSUME HeldInv, WritesInv', UNCHANGED <<last, server, stray>>, acc' = acc \/ acc'.account = acc.account,
         \A k \in DOMAIN last : Done(k)' => Done(k)
  PROVE  HeldInv'
<1>1. ASSUME NEW k \in DOMAIN last', Counts(k)', Done(k)' PROVE IsHeld(k)'
  <2>1. Counts(k) /\ Done(k) BY <1>1 DEF Counts, Alone
  <2>2. IsHeld(k) BY <1>1, <2>1 DEF HeldInv, DoneIsHeld
  <2>3. QED BY <2>2 DEF IsHeld
<1>2. QED BY <1>1 DEF HeldInv, DoneIsHeld

(* An answer of before, or a told success of before. *)
LEMMA DoneBefore ==
  ASSUME NEW k, last' = last, answers' \subseteq answers, Succeeded(k)' => Done(k)
  PROVE  Done(k)' => Done(k)
BY DEF Done, IsLoad

(* The steps that change nothing of the account, and the clicks on the device. *)
LEMMA QuietHeld ==
  ASSUME HeldInv, WritesInv',
         \/ SessionChange \/ Retry \/ WhileSyncing \/ (Click /\ AccountUnchanged) \/ UNCHANGED vars
         \/ \E w \in orphans : Abandon(w)
         \/ \E c \in Content, l \in Label : SaveOnDevice(c, l)
         \/ \E id \in Nat, l \in Label : RenameOnDevice(id, l)
         \/ \E id \in Nat : RemoveOnDevice(id)
  PROVE  HeldInv'
<1>1. Inv BY DEF HeldInv, WritesInv, NamesInv
<1>2. /\ UNCHANGED <<last, server, stray, answers>> /\ (acc' = acc \/ acc'.account = acc.account)
      /\ \/ told' = told \/ \E w : told' = Tell({w}, "superseded")
         \/ \E what : told' = Append(told, what)
  <2>1. CASE \/ SessionChange \/ Retry \/ WhileSyncing \/ (Click /\ AccountUnchanged) \/ UNCHANGED vars
             \/ \E w \in orphans : Abandon(w)
    BY <1>1, <2>1, StillSteps DEF Still, net
  <2>2. CASE \/ \E c \in Content, l \in Label : SaveOnDevice(c, l)
             \/ \E id \in Nat, l \in Label : RenameOnDevice(id, l)
             \/ \E id \in Nat : RemoveOnDevice(id)
    BY <1>1, <2>2, DeviceClicks DEF DeviceClickOnly
  <2>3. QED BY <2>1, <2>2
<1>3. ASSUME NEW k \in DOMAIN last PROVE Done(k)' => Done(k)
  <2>1. told'[last[k].at] \in Success => Succeeded(k) BY <1>2, StillTold DEF HeldInv
  <2>2. Succeeded(k)' => Done(k) BY <1>2, <2>1 DEF Succeeded, Done
  <2>3. answers' \subseteq answers /\ last' = last BY <1>2
  <2>4. QED BY <2>2, <2>3, DoneBefore
<1>4. QED BY <1>2, <1>3, DoneFrame

(* A hop sends a write that is not done; a request or a response that is lost is done by nobody. *)
LEMMA NetworkHeld ==
  ASSUME HeldInv, WritesInv',
         \/ \E id \in DOMAIN queued : StartHop(id)
         \/ \E r \in sent : Lost(r)
         \/ \E a \in answers : ResponseLost(a)
  PROVE  HeldInv'
<1>1. UNCHANGED <<last, server, stray, acc, told>> BY DEF StartHop, Lost, ResponseLost, history
<1>2. \A a \in answers' : a.list # Unknown => a \in answers
  <2>1. ASSUME NEW a \in answers, ResponseLost(a) PROVE \A b \in answers' : b.list # Unknown => b \in answers
    <3>1. a \in Answer BY DEF HeldInv, WritesInv, NamesInv, Inv, TypeOK
    <3>2. [a EXCEPT !.list = Unknown].list = Unknown BY <3>1 DEF Answer
    <3>3. QED BY <2>1, <3>2 DEF ResponseLost
  <2>2. ASSUME NEW r \in sent, Lost(r) PROVE \A b \in answers' : b.list # Unknown => b \in answers
    BY <2>2 DEF Lost, Respond
  <2>3. (\E id \in DOMAIN queued : StartHop(id)) => answers' = answers BY DEF StartHop
  <2>4. QED BY <2>1, <2>2, <2>3
<1>3. \A k \in DOMAIN last : Done(k)' => Done(k) BY <1>1, <1>2 DEF Done, Succeeded, IsLoad
<1>4. QED BY <1>1, <1>3, DoneFrame

(* A response that comes back makes a success of a write that was done. *)
LEMMA ResponseHeld ==
  ASSUME HeldInv, WritesInv', NEW a \in answers, Loaded(a) \/ Wrote(a)
  PROVE  HeldInv'
<1>1. /\ UNCHANGED <<last, server, stray>> /\ answers' \subseteq answers BY DEF Loaded, Wrote, Arrives, history
<1>2. acc'.account = acc.account
  BY LoadedFacts, WroteFacts DEF HeldInv, WritesInv, NamesInv
<1>3. ASSUME NEW k \in DOMAIN last, Succeeded(k)' PROVE Done(k)
  <2>1. told'[last[k].at] \in Success BY <1>1, <1>3 DEF Succeeded
  <2>2. CASE Loaded(a) BY <2>1, <2>2 DEF Loaded, Succeeded, Done
  <2>3. CASE Wrote(a)
    <3>1. Succeeded(k) \/ (a.request.write = last[k].at /\ a.list # Unknown) BY <2>1, <2>3, WroteTold DEF HeldInv
    <3>2. ~IsLoad(a) BY <2>3 DEF Wrote
    <3>3. QED BY <3>1, <3>2 DEF Done
  <2>4. QED BY <2>2, <2>3
<1>4. \A k \in DOMAIN last : Done(k)' => Done(k) BY <1>1, <1>3, DoneBefore
<1>5. QED BY <1>1, <1>2, <1>4, DoneFrame

(* A new write of an item is not done; those of the others are where they were. *)
LEMMA AccountWriteHeld ==
  ASSUME HeldInv, WritesInv', Click, OnAccount, NEW d, Asks(d), AccountWrite(d)
  PROVE  HeldInv'
<1>1. /\ DOMAIN last' = DOMAIN last \cup {d.id} /\ last'[d.id] = [d EXCEPT !.at = writes + 1]
      /\ \A k \in DOMAIN last : k # d.id => last'[k] = last[k]
      /\ d.id \in DOMAIN last => d.item.content = last[d.id].item.content
      /\ \A k \in DOMAIN last' : Succeeded(k)' => k # d.id /\ k \in DOMAIN last /\ Succeeded(k)
  BY AccountWriteHistory DEF HeldInv
<1>2. last'[d.id].at = writes + 1 /\ last'[d.id].item = d.item BY <1>1 DEF Asks, DraftType
<1>3. acc'.account = acc.account BY AccountWriteFacts DEF HeldInv, WritesInv, NamesInv
<1>4. UNCHANGED <<answers, server, stray>> BY DEF AccountWrite, net
<1>5. ASSUME NEW a \in answers, ~IsLoad(a) PROVE a.request.write # writes + 1
  <2>1. a.request \in InFlight /\ ~IsLoading(a.request) /\ a.request \in Request
    BY <1>5, AnswerFacts DEF HeldInv, WritesInv, NamesInv, IsLoad, IsLoading
  <2>2. a.request.write <= writes BY <2>1 DEF HeldInv, WritesInv, RequestsSound
  <2>3. a.request.write \in Nat BY <2>1, RequestFacts DEF IsLoading
  <2>4. writes \in Nat BY DEF HeldInv, WritesInv, NamesInv, Inv, TypeOK
  <2>5. QED BY <2>2, <2>3, <2>4
<1>6. ASSUME NEW k \in DOMAIN last', Counts(k)', Done(k)' PROVE IsHeld(k)'
  <2>1. k # d.id BY <1>1, <1>2, <1>4, <1>5, <1>6 DEF Done, IsLoad
  <2>2. k \in DOMAIN last /\ last'[k] = last[k] BY <1>1, <1>6, <2>1
  <2>3. Done(k) BY <1>1, <1>4, <1>6, <2>2 DEF Done, IsLoad
  <2>4. Alone(k)
    <3>1. ASSUME NEW j \in DOMAIN last, j # k PROVE last[j].item.content # last[k].item.content
      <4>1. last'[j].item.content = last[j].item.content BY <1>1, <1>2, <3>1
      <4>2. j \in DOMAIN last' BY <1>1, <3>1
      <4>3. QED BY <1>6, <2>2, <3>1, <4>1, <4>2 DEF Counts, Alone
    <3>2. QED BY <3>1 DEF Alone
  <2>5. Counts(k) BY <1>4, <1>6, <2>2, <2>4 DEF Counts
  <2>6. IsHeld(k) BY <2>2, <2>3, <2>5 DEF HeldInv, DoneIsHeld
  <2>7. QED BY <1>3, <1>4, <2>2, <2>6 DEF IsHeld
<1>7. QED BY <1>6 DEF HeldInv, DoneIsHeld

(* Putting an item in by its content: it is there under its label, no other content is touched, *)
(* and no id is there that was not, but its own. *)
LEMMA UpsertHolds ==
  ASSUME NEW list \in Collection, NEW x \in ItemType
  PROVE  LET after == UpsertByIdentity(list, x, Identity).items
         IN  /\ \E y \in ToSet(after) : y.content = x.content /\ y.label = x.label
             /\ \A y \in ToSet(list) : y.content # x.content => y \in ToSet(after)
             /\ \A y \in ToSet(after) : y.id = x.id \/ \E z \in ToSet(list) : z.id = y.id
<1> DEFINE at == IndexOf(list, LAMBDA i : i.content = x.content)
           up == UpsertByIdentity(list, x, Identity)
<1>1. up.items = IF at = 0 THEN Append(list, x)
                 ELSE IF list[at].label = x.label THEN list ELSE [list EXCEPT ![at].label = x.label]
  BY DEF UpsertByIdentity, Identity
<1>2. at = 0 \/ (at \in DOMAIN list /\ list[at].content = x.content) BY PlaceOfContent
<1>3. 0 \notin DOMAIN list /\ \A i \in DOMAIN list : list[i] \in ItemType BY DEF Collection
<1>4. ToSet(list) = {list[i] : i \in DOMAIN list} BY DEF ToSet
<1> HIDE DEF at, up
<1>5. CASE at = 0
  <2>1. ToSet(up.items) = ToSet(list) \cup {x} BY <1>1, <1>5, AppendedFacts
  <2>2. QED BY <2>1 DEF up
<1>6. CASE at # 0 /\ list[at].label = x.label BY <1>1, <1>2, <1>4, <1>6 DEF up
<1>7. CASE at # 0 /\ list[at].label # x.label
  <2> DEFINE t == [list EXCEPT ![at].label = x.label]
  <2>1. up.items = t /\ at \in DOMAIN list BY <1>1, <1>2, <1>7
  <2>2. x.label \in Label \cup {Nothing} BY DEF ItemType
  <2>3. DOMAIN t = DOMAIN list /\ \A i \in DOMAIN list : t[i].id = list[i].id /\ t[i].content = list[i].content
    BY <2>1, <2>2, LabelAtFacts
  <2>4. t[at].label = x.label BY <1>3, <2>1 DEF ItemType
  <2>5. \A i \in DOMAIN list : i # at => t[i] = list[i] BY <2>1
  <2> HIDE DEF t
  <2>6. ToSet(t) = {t[i] : i \in DOMAIN list} BY <2>3 DEF ToSet
  <2>7. t[at] \in ToSet(t) /\ t[at].content = x.content BY <1>2, <1>7, <2>1, <2>3, <2>6
  <2>8. \A y \in ToSet(list) : y.content # x.content => y \in ToSet(t)
    <3>1. ASSUME NEW i \in DOMAIN list, list[i].content # x.content PROVE list[i] \in ToSet(t)
      <4>1. i # at BY <1>2, <1>7, <3>1
      <4>2. QED BY <2>5, <2>6, <4>1
    <3>2. QED BY <1>4, <3>1
  <2>9. \A y \in ToSet(t) : \E z \in ToSet(list) : z.id = y.id BY <1>4, <2>3, <2>6
  <2>10. QED BY <2>1, <2>4, <2>7, <2>8, <2>9 DEF up
<1>8. QED BY <1>5, <1>6, <1>7

(* What the server makes of a write it takes: what the write says is there, nothing of another *)
(* content is touched, and no id is there that was not, but the write's. *)
LEMMA WriteHandled ==
  ASSUME NEW r \in Request, ~IsLoading(r), server \in [Account -> Collection], r.item.id = r.id, Handled(r) # Unknown,
         \A x \in ToSet(server[r.account]) : x.id = r.id => x.content = r.item.content
  PROVE  LET list == server[r.account]
             after == Handled(r)
         IN  /\ \A y \in ToSet(list) : y.content # r.item.content => y \in ToSet(after)
             /\ \A k : k # r.id /\ Find(list, k) = {} => Find(after, k) = {}
             /\ r.kind = "remove" => Find(after, r.id) = {}
             /\ r.kind = "create" => \E y \in ToSet(after) : y.content = r.item.content /\ y.label = r.item.label
             /\ r.kind = "rename" => \E y \in ToSet(after) : y.content = r.item.content /\ y.label = r.label
<1> DEFINE list == server[r.account]
           after == Handled(r)
<1>1. /\ r.account \in Account /\ r.kind \in {"create", "rename", "remove"} /\ r.id \in Nat /\ r.item \in ItemType
  BY RequestFacts DEF IsLoading
<1>2. list \in Collection BY <1>1
<1>3. r.kind = "rename" => r.label \in Label \cup {Nothing} BY DEF Request, LoadRequest, WriteRequest
<1>4. /\ r.kind = "create" => after = UpsertByIdentity(list, r.item, Identity).items
      /\ r.kind = "rename" => Find(list, r.id) # {} /\ after = Relabelled(list, r.id, r.label)
      /\ r.kind = "remove" => after = WithoutItem(list, r.id)
  BY <1>1 DEF Handled
<1>5. \A x \in ToSet(list) : x.id = r.id => x.content = r.item.content OBVIOUS
<1> HIDE DEF list, after
<1>6. CASE r.kind = "create"
  <2>1. /\ \E y \in ToSet(after) : y.content = r.item.content /\ y.label = r.item.label
        /\ \A y \in ToSet(list) : y.content # r.item.content => y \in ToSet(after)
        /\ \A y \in ToSet(after) : y.id = r.item.id \/ \E z \in ToSet(list) : z.id = y.id
    BY <1>1, <1>2, <1>4, <1>6, UpsertHolds
  <2>2. QED BY <1>6, <2>1 DEF Find, list, after
<1>7. CASE r.kind = "rename"
  <2>1. after = Relabelled(list, r.id, r.label) /\ Find(list, r.id) # {} BY <1>4, <1>7
  <2>2. DOMAIN after = DOMAIN list /\ \A i \in DOMAIN list : after[i].id = list[i].id /\ after[i].content = list[i].content
    BY <1>1, <1>2, <1>3, <1>7, <2>1, RelabelledFacts
  <2>3. ToSet(list) = {list[i] : i \in DOMAIN list} /\ ToSet(after) = {after[i] : i \in DOMAIN list} BY <2>2 DEF ToSet
  <2>4. \A i \in DOMAIN list : list[i] \in ItemType BY <1>2 DEF Collection
  <2>5. \A i \in DOMAIN list : IF list[i].id = r.id THEN after[i].label = r.label ELSE after[i] = list[i]
    BY <2>1, <2>4 DEF Relabelled, ItemType
  <2>6. \A y \in ToSet(list) : y.content # r.item.content => y \in ToSet(after) BY <1>5, <2>3, <2>5
  <2>7. \A k : Find(list, k) = {} => Find(after, k) = {} BY <2>2, <2>3 DEF Find
  <2>8. \E y \in ToSet(after) : y.content = r.item.content /\ y.label = r.label
    <3>1. PICK i \in DOMAIN list : list[i].id = r.id BY <2>1, <2>3 DEF Find
    <3>2. after[i].label = r.label /\ after[i].content = r.item.content BY <1>5, <2>2, <2>3, <2>5, <3>1
    <3>3. QED BY <2>3, <3>2
  <2>9. QED BY <1>7, <2>6, <2>7, <2>8 DEF list, after
<1>8. CASE r.kind = "remove"
  <2>1. ToSet(after) = { x \in ToSet(list) : x.id # r.id } BY <1>1, <1>2, <1>4, <1>8, WithoutItemFacts
  <2>2. QED BY <1>5, <1>8, <2>1 DEF Find, list, after
<1>9. QED BY <1>1, <1>6, <1>7, <1>8

(* An id of the history names the content of its last write, on a server too. *)
LEMMA LastNamed ==
  ASSUME WritesInv, NEW k \in DOMAIN last, NEW b \in Account, NEW x \in ToSet(server[b]), x.id = k
  PROVE  x.content = last[k].item.content
<1> DEFINE p == <<k, x.content>>
           q == <<k, last[k].item.content>>
<1>1. last[k].item.id = k BY DEF WritesInv, LastSound
<1>2. x \in Named /\ last[k].item \in Named BY DEF Named, Known, OnServers, Seen, Asked
<1>3. p \in Names(Named) /\ q \in Names(Named) BY <1>1, <1>2 DEF Names
<1>4. p[2] = q[2] BY <1>3 DEF WritesInv, NamesInv, NamesSound, Unambiguous
<1>5. QED BY <1>4

(* So it does after a step. *)
LEMMA LastNamedNext ==
  ASSUME WritesInv', NEW k \in DOMAIN last', NEW b \in Account, NEW x \in ToSet(server'[b]), x.id = k
  PROVE  x.content = last'[k].item.content
<1> DEFINE p == <<k, x.content>>
           q == <<k, last'[k].item.content>>
<1>1. last'[k].item.id = k BY DEF WritesInv, LastSound
<1>2. x \in Named' /\ last'[k].item \in Named' BY DEF Named, Known, OnServers, Seen, Asked
<1>3. p \in Names(Named)' /\ q \in Names(Named)' BY <1>1, <1>2 DEF Names
<1>4. p[2] = q[2] BY <1>3 DEF WritesInv, NamesInv, NamesSound, Unambiguous
<1>5. QED BY <1>4

(* A request of an earlier generation leaves the contents it has changed out of account. *)
LEMMA StrayHeld == ASSUME HeldInv, WritesInv', NEW r \in sent, Serve(r), ~Live(r) PROVE HeldInv'
<1> DEFINE before == server[r.account]
           after == IF Handled(r) = Unknown THEN before ELSE Handled(r)
<1>1. /\ answers' = answers /\ UNCHANGED <<live, acc, last, told>>
      /\ server' = [server EXCEPT ![r.account] = after]
      /\ stray' = IF after = before THEN stray ELSE stray \cup Contents(after) \cup Contents(before)
  BY DEF Serve, Respond
<1>2. server \in [Account -> Collection] /\ r \in Request /\ r.account \in Account
  BY RequestFacts DEF HeldInv, WritesInv, NamesInv, Inv, TypeOK
<1>3. server' \in [Account -> Collection] BY DEF WritesInv, NamesInv, Inv, TypeOK
<1>4. server'[r.account] = after /\ \A b \in Account : b # r.account => server'[b] = server[b] BY <1>1, <1>2
<1> HIDE DEF after
<1>5. ASSUME NEW k \in DOMAIN last', Counts(k)', Done(k)' PROVE IsHeld(k)'
  <2> DEFINE c == last[k].item.content
  <2>1. k \in DOMAIN last /\ last' = last BY <1>1, <1>5
  <2>2. Done(k) BY <1>1, <1>5 DEF Done, Succeeded, IsLoad
  <2>3. Counts(k) /\ c \notin stray' BY <1>1, <1>5 DEF Counts, Alone
  <2>4. IsHeld(k) BY <2>1, <2>2, <2>3 DEF HeldInv, DoneIsHeld
  <2>5. acc.account \in Account
    <3>1. live # Nothing BY <2>1 DEF HeldInv, WritesInv, LoadsFirst
    <3>2. QED BY <3>1 DEF HeldInv, WritesInv, NamesInv, Inv, GenerationAtWork, TypeOK, AccountState
  <2>6. CASE acc.account # r.account \/ after = before
    <3>1. server'[acc.account] = server[acc.account] BY <1>4, <2>5, <2>6
    <3>2. QED BY <1>1, <2>4, <3>1 DEF IsHeld
  <2>7. CASE acc.account = r.account /\ after # before
    <3>1. c \notin Contents(after) /\ c \notin Contents(before) BY <1>1, <2>3, <2>7
    <3>2. after \in Collection /\ before \in Collection BY <1>2, <1>3, <1>4
    <3>3. \A x \in ToSet(before) : x.content # c BY <3>1, <3>2, FoundFacts
    <3>4. \A x \in ToSet(after) : x.content # c BY <3>1, <3>2, FoundFacts
    <3>5. last[k].kind = "remove" BY <2>4, <2>7, <3>3 DEF IsHeld
    <3>6. \A x \in ToSet(after) : x.id # k BY <1>1, <1>2, <1>4, <1>5, <3>4, LastNamedNext
    <3>7. Find(after, k) = {} BY <3>6 DEF Find
    <3>8. server'[acc'.account] = after BY <1>1, <1>4, <2>7
    <3>9. QED BY <2>1, <3>5, <3>7, <3>8 DEF IsHeld
  <2>8. QED BY <2>6, <2>7
<1>6. QED BY <1>5 DEF HeldInv, DoneIsHeld

(* A write of the live generation: what it says is held, and every other content it leaves alone. *)
LEMMA LiveHeld == ASSUME HeldInv, WritesInv', NEW r \in sent, Serve(r), Live(r) PROVE HeldInv'
<1> DEFINE answer == Handled(r)
           before == server[r.account]
           after == IF answer = Unknown THEN before ELSE answer
           given == [request |-> r, list |-> answer]
<1>1. /\ answers' = answers \cup {given} /\ UNCHANGED <<live, acc, last, told, stray>>
      /\ server' = [server EXCEPT ![r.account] = after]
  BY DEF Serve, Respond
<1>2. given.request = r /\ given.list = answer OBVIOUS
<1>3. server \in [Account -> Collection] /\ r \in Request /\ r.account \in Account
  BY RequestFacts DEF HeldInv, WritesInv, NamesInv, Inv, TypeOK
<1>4. server'[r.account] = after BY <1>1, <1>3
<1>5. r \in InFlight BY DEF InFlight
<1>6. CASE IsLoading(r)
  <2>1. live # Nothing BY <1>3, RequestFacts DEF Live
  <2>2. acc.loading BY <1>5, <1>6 DEF HeldInv, WritesInv, LoadsFirst
  <2>3. last = <<>> BY <2>2 DEF HeldInv, WritesInv, LoadsFirst
  <2>4. DOMAIN last' = {} BY <1>1, <2>3
  <2>5. QED BY <2>4 DEF HeldInv, DoneIsHeld
<1>7. CASE ~IsLoading(r)
  <2>1. /\ r.account = acc.account /\ r.id \in DOMAIN last /\ r.item.id = r.id
        /\ r.item.content = last[r.id].item.content
        /\ \A k \in DOMAIN last : r.write = last[k].at => k = r.id /\ SaysLast(r)
    BY <1>5, <1>7 DEF HeldInv, WritesInv, RequestsSound
  <2>2. \A x \in ToSet(before) : x.id = r.id => x.content = r.item.content
    BY <1>3, <2>1, LastNamed DEF HeldInv
  <2>3. answer # Unknown =>
          /\ \A y \in ToSet(before) : y.content # r.item.content => y \in ToSet(answer)
          /\ \A k : k # r.id /\ Find(before, k) = {} => Find(answer, k) = {}
          /\ r.kind = "remove" => Find(answer, r.id) = {}
          /\ r.kind = "create" => \E y \in ToSet(answer) : y.content = r.item.content /\ y.label = r.item.label
          /\ r.kind = "rename" => \E y \in ToSet(answer) : y.content = r.item.content /\ y.label = r.label
    BY <1>3, <1>7, <2>1, <2>2, WriteHandled
  <2> HIDE DEF given, answer, before
  <2>4. ASSUME NEW k \in DOMAIN last', Counts(k)', Done(k)', k # r.id PROVE IsHeld(k)'
    <3>1. k \in DOMAIN last /\ last' = last BY <1>1, <2>4
    <3>2. Done(k)
      <4>1. CASE Succeeded(k)' BY <1>1, <4>1 DEF Done, Succeeded
      <4>2. CASE \E a \in answers' : ~IsLoad(a) /\ a.list # Unknown /\ a.request.write = last'[k].at
        <5>1. PICK a \in answers' : ~IsLoad(a) /\ a.list # Unknown /\ a.request.write = last[k].at BY <3>1, <4>2
        <5>2. a # given BY <1>2, <2>1, <2>4, <3>1, <5>1
        <5>3. a \in answers BY <1>1, <5>2
        <5>4. QED BY <5>1, <5>3 DEF Done
      <4>3. QED BY <2>4, <4>1, <4>2 DEF Done, IsLoad
    <3>3. Counts(k) /\ Alone(k) BY <1>1, <2>4 DEF Counts, Alone
    <3>4. IsHeld(k) BY <3>1, <3>2, <3>3 DEF HeldInv, DoneIsHeld
    <3>5. r.item.content # last[k].item.content BY <2>1, <2>4, <3>3 DEF Alone
    <3>6. CASE last[k].kind = "remove"
      <4>1. Find(before, k) = {} BY <2>1, <3>4, <3>6 DEF IsHeld, before
      <4>2. Find(after, k) = {} BY <2>3, <2>4, <4>1
      <4>3. QED BY <1>1, <1>4, <2>1, <3>6, <4>2 DEF IsHeld
    <3>7. CASE last[k].kind # "remove"
      <4>1. PICK i \in ToSet(before) : i.content = last[k].item.content /\ i.label = last[k].label
        BY <2>1, <3>4, <3>7 DEF IsHeld, before
      <4>2. i \in ToSet(after) BY <2>3, <3>5, <4>1
      <4>3. QED BY <1>1, <1>4, <2>1, <3>7, <4>1, <4>2 DEF IsHeld
    <3>8. QED BY <3>6, <3>7
  <2>5. ASSUME Done(r.id)' PROVE IsHeld(r.id)'
    <3>1. IntentOf(book.intents, r.id) # {} BY <1>5, <1>7 DEF HeldInv, WritesInv, NamesInv, Inv, WritesAreBooked, IsLoading
    <3>2. ~Succeeded(r.id) BY <2>1, <3>1 DEF HeldInv, WritesInv, Settled
    <3>3. ~Succeeded(r.id)' BY <1>1, <3>2 DEF Succeeded
    <3>4. PICK a \in answers' : ~IsLoad(a) /\ a.list # Unknown /\ a.request.write = last[r.id].at
      BY <1>1, <2>5, <3>3 DEF Done, IsLoad
    <3>5. a \notin answers
      <4>1. ASSUME a \in answers PROVE FALSE
        <5>1. a.request \in InFlight /\ ~IsLoading(a.request) BY <3>4, <4>1 DEF InFlight, IsLoad, IsLoading
        <5>2. a.request.id = r.id BY <2>1, <3>4, <5>1 DEF HeldInv, WritesInv, RequestsSound
        <5>3. QED BY <4>1, <5>2 DEF HeldInv, WritesInv, NamesInv, Inv, OneInFlight
      <4>2. QED BY <4>1
    <3>6. answer # Unknown /\ r.write = last[r.id].at BY <1>1, <1>2, <3>4, <3>5
    <3>7. r.kind = last[r.id].kind /\ r.label = last[r.id].label /\ r.item = last[r.id].item
      BY <2>1, <3>6 DEF SaysLast
    <3>8. r.kind = "create" => r.item.label = r.label BY <2>1, <3>7 DEF HeldInv, WritesInv, LastSound
    <3>9. r.kind \in {"create", "rename", "remove"} BY <1>3, <1>7, RequestFacts DEF IsLoading
    <3>10. server'[acc'.account] = answer BY <1>1, <1>4, <2>1, <3>6
    <3>11. QED BY <1>1, <2>3, <3>6, <3>7, <3>8, <3>9, <3>10 DEF IsHeld
  <2>6. QED BY <2>4, <2>5 DEF HeldInv, DoneIsHeld
<1>8. QED BY <1>6, <1>7

(* At the start nothing is done. *)
LEMMA InitHeld == Init => HeldInv
<1>1. ASSUME Init PROVE HeldInv
  <2>1. WritesInv BY <1>1, InitWrites
  <2>2. DOMAIN last = {} BY <1>1 DEF Init
  <2>3. QED BY <2>1, <2>2 DEF HeldInv, DoneIsHeld
<1>2. QED BY <1>1

(* Every step keeps what is done on the account. *)
LEMMA HeldNext == HeldInv /\ [Next]_vars => HeldInv'
<1> SUFFICES ASSUME HeldInv, [Next]_vars, WritesInv' PROVE HeldInv' BY WritesNext DEF HeldInv
<1>1. Inv BY DEF HeldInv, WritesInv, NamesInv
<1>2. Ids \subseteq Nat BY <1>1, IdsFacts DEF Inv
<1>3. CASE Scout
  <2>1. CASE \/ SessionChange \/ Retry \/ WhileSyncing
             \/ \E c \in Content, l \in Label : SaveOnDevice(c, l)
             \/ \E id \in Nat, l \in Label : RenameOnDevice(id, l)
             \/ \E id \in Nat : RemoveOnDevice(id)
    BY <2>1, QuietHeld
  <2>2. CASE \/ \E c \in Content, l \in Label : SaveToAccount(c, l)
             \/ \E id \in Nat, l \in Label : RenameInAccount(id, l)
             \/ \E id \in Nat : RemoveFromAccount(id)
    <3>1. Click /\ OnAccount /\ (AccountUnchanged \/ \E d : Asks(d) /\ AccountWrite(d))
      BY <1>1, <2>2, AccountClicks
    <3>2. QED BY <3>1, QuietHeld, AccountWriteHeld
  <2>3. QED BY <1>2, <1>3, <2>1, <2>2 DEF Scout
<1>4. CASE Failure BY <1>4, NetworkHeld DEF Failure
<1>5. CASE RunEffects
  <2>1. DOMAIN last' = {} BY <1>5 DEF RunEffects
  <2>2. QED BY <2>1 DEF HeldInv, DoneIsHeld
<1>6. CASE Progress
  BY <1>5, <1>6, QuietHeld, NetworkHeld, ResponseHeld, StrayHeld, LiveHeld DEF Progress
<1>7. CASE UNCHANGED vars BY <1>7, QuietHeld
<1>8. QED BY <1>3, <1>4, <1>6, <1>7 DEF Next

(* Once nothing is outstanding, the account holds what the last successful write of an item said,    *)
(* unless another write or an earlier generation's request was about the same content: what a caller *)
(* was told is still so on the server, through retries, failures and responses in any order.         *)
THEOREM SuccessIsHeldCorrect == Spec => []SuccessIsHeld
<1>1. Init => HeldInv BY InitHeld
<1>2. HeldInv /\ [Next]_vars => HeldInv' BY HeldNext
<1>3. HeldInv => SuccessIsHeld
  BY DEF HeldInv, DoneIsHeld, Counts, Done, Succeeded, Success, IsHeld, SuccessIsHeld
<1>4. QED BY <1>1, <1>2, <1>3, PTL DEF Spec
=============================================================================
