----------------------------- MODULE SavedWorkWeb -----------------------------
(***************************************************************************)
(* One saved collection in the browser: useDurableCollection in            *)
(* lib/state/saved-work.tsx, driven by the session AuthSession describes,  *)
(* with the envelope in localStorage (DurableCollection) and the private   *)
(* API as a server that handles one request at a time, in any order (what  *)
(* SavedWorkStore is shown to promise).  Saved views and saved comparisons *)
(* are two instances that share nothing.                                   *)
(*                                                                         *)
(* A render and its effects are two steps, and a response may come between *)
(* them; a click may not.  A click is its whole handler, and is a write    *)
(* with a number; what its caller is told is in told.                      *)
(***************************************************************************)
EXTENDS Naturals, FiniteSets, DurableCollection

CONSTANTS
  Account,
  Content,       \* what an item says: its identity, on the device and as a fingerprint
  Storable,      \* contents the server accepts
  Label,
  Stored,        \* envelopes localStorage may hold at the start
  AccountItems,  \* the collection of each account at the start
  Limit,         \* COLLECTION_LIMIT, and MAX_COLLECTION_ITEMS
  Unknown,       \* a collection that is null
  Nothing,       \* an item, token or account state that is null
  MaxEpoch,      \* bound: changes of identity
  MaxAttempt,    \* bound: retries
  MaxWrites,     \* bound: clicks
  MaxRefused     \* bound: writes localStorage refuses

VARIABLES
  status, expired,  \* the session, as in AuthSession
  epoch, attempt,
  live,      \* liveToken.current
  stored,    \* the envelope in localStorage
  device,    \* the device collection on screen
  acc,       \* the AccountCollection, or Nothing
  book,      \* the WriteBook of the live token: intents in Map order, canonical items
  orphans,   \* writes whose book a retry has replaced, still awaited
  queued,    \* client id -> hops waiting on its chain
  sent,      \* requests the server has not handled
  answers,   \* responses on their way to the live generation
  server,    \* account -> collection
  writes, refused,
  told,      \* write -> what its caller was told, "awaited" until then
  saved,     \* history: contents the device has acknowledged and nobody has removed
  last,      \* history: client id -> the last account write of it, this generation
  stray      \* history: contents an earlier generation's request has changed, this generation

session == <<status, expired>>
ui == <<session, epoch, attempt>>
net == <<sent, answers>>
history == <<saved, last, stray>>
vars == <<ui, live, stored, device, acc, book, orphans, queued, net, server, writes, refused,
          told, history>>

Auth == INSTANCE AuthSession

-----------------------------------------------------------------------------
(* Types.                                                                  *)

ItemType == [id : Nat, content : Content, label : Label \cup {Nothing}]
Collection == Seq(ItemType)
EnvelopeType == [is : {"absent", "unparsable", "envelope"}, version : Nat, items : Collection]
Generation == Account \X Nat \X Nat
DraftType == [kind : {"create", "rename", "remove"}, id : Nat, item : ItemType,
              label : Label \cup {Nothing}, at : Nat]
IntentType == [kind : {"create", "rename", "remove"}, id : Nat, item : ItemType,
               label : Label \cup {Nothing}, at : Nat, write : Nat, baseline : ItemType \cup {Nothing}]
LoadRequest == [kind : {"load", "merge"}, account : Account, token : Generation, id : {Nothing},
                item : {Nothing}, label : {Nothing}, list : Collection, write : {0}]
WriteRequest == [kind : {"create", "rename", "remove"}, account : Account, token : Generation, id : Nat,
                 item : ItemType, label : Label \cup {Nothing}, list : {<<>>}, write : Nat]
Request == LoadRequest \cup WriteRequest
Answer == [request : Request, list : Collection \cup {Unknown}]
Outcome == {"awaited", "superseded", "failed", "unchanged", "created", "updated", "removed"}
AccountState == [account : Account, token : Generation, items : Collection \cup {Unknown},
                 origin : {"server", "device", "unknown"}, loading : BOOLEAN,
                 pending : SUBSET Nat, error : BOOLEAN]

TypeOK ==
  /\ status \in Account \cup {"resolving", "anonymous"} /\ expired \in BOOLEAN
  /\ epoch \in Nat /\ attempt \in Nat /\ live \in Generation \cup {Nothing}
  /\ stored \in EnvelopeType
  /\ device \in Collection
  /\ acc \in AccountState \cup {Nothing}
  /\ book \in [intents : Seq(IntentType), canonical : SUBSET ItemType, adopted : BOOLEAN]
  /\ orphans \subseteq Nat
  /\ DOMAIN queued \subseteq Nat /\ \A id \in DOMAIN queued : queued[id] \in Nat
  /\ sent \subseteq Request /\ answers \subseteq Answer
  /\ server \in [Account -> Collection]
  /\ writes \in Nat /\ refused \in Nat /\ told \in Seq(Outcome) /\ Len(told) = writes
  /\ saved \subseteq Content /\ stray \subseteq Content
  /\ DOMAIN last \subseteq Nat /\ \A id \in DOMAIN last : last[id] \in DraftType

\* A client id is a UUID made with its item: it never names two contents, and a new one is new.
AtStart == (UNION { ToSet(s.items) : s \in Stored }) \cup (UNION { ToSet(AccountItems[a]) : a \in Account })
ASSUME StartAssumption ==
  /\ \A s \in Stored : s \in EnvelopeType
  /\ AccountItems \in [Account -> Collection]
  /\ \A a \in Account : \A i, k \in DOMAIN AccountItems[a] :
       AccountItems[a][i].content = AccountItems[a][k].content => i = k
  /\ \A x, y \in AtStart : x.id = y.id => x.content = y.content
  /\ \A x \in AtStart : x.id > MaxWrites
ASSUME BoundsAssumption ==
  /\ Limit \in Nat /\ MaxEpoch \in Nat /\ MaxAttempt \in Nat /\ MaxWrites \in Nat /\ MaxRefused \in Nat
\* null is no label, no item, no token, no account state and no collection.
ASSUME NullsAssumption ==
  /\ Nothing \notin Label \cup ItemType \cup Generation \cup AccountState \cup Nat
  /\ Unknown \notin Collection /\ Account \cap {"resolving", "anonymous", "unavailable"} = {}
-----------------------------------------------------------------------------
Item(id, content, label) == [id |-> id, content |-> content, label |-> label]
Identity(item) == item.content
ValidItem(item) == item.label # Nothing   \* a malformed item is one with no label
ReadDevice == ReadCollection(stored, ValidItem, Identity, Limit)
Find(items, id) == { i \in ToSet(items) : i.id = id }
----------------------------------------------------------------------------
(* Outstanding intents, at most one an item, oldest key first.             *)

IntentOf(intents, id) == { i \in ToSet(intents) : i.id = id }
SetIntent(intents, i) ==
  IF IntentOf(intents, i.id) = {} THEN Append(intents, i)
  ELSE [k \in DOMAIN intents |-> IF intents[k].id = i.id THEN i ELSE intents[k]]
Retire(intents, id) == Sublist(intents, { i \in ToSet(intents) : i.id # id })

ApplyOptimistically(items, i) ==
  CASE i.kind = "create" -> Append(items, i.item)
    [] i.kind = "remove" -> WithoutItem(items, i.id)
    [] i.kind = "rename" -> Relabelled(items, i.id, i.label)
ReplayIntents(base, intents) ==
  LET after[n \in 0..Len(intents)] ==
        IF n = 0 THEN base ELSE ApplyOptimistically(after[n - 1], intents[n])
  IN  after[Len(intents)]

\* Mutant of Rebased: an intent keeps the state it was queued against.
NeverRebased(b, items) == [b EXCEPT !.canonical = ToSet(items), !.adopted = TRUE]

\* adoptCanonical: what the account holds now is what every outstanding write rolls back to.
Rebased(b, items) ==
  [intents |-> [k \in DOMAIN b.intents |->
                  [b.intents[k] EXCEPT !.baseline =
                     LET held == Find(items, b.intents[k].id)
                     IN  IF held = {} THEN Nothing ELSE CHOOSE i \in held : TRUE]],
   canonical |-> ToSet(items), adopted |-> TRUE]

\* The item alone goes back to what the server last confirmed of it.
Rollback(items, i) ==
  LET present == Find(items, i.id) # {}
      at == IF i.kind = "remove" /\ i.at < Len(items) + 1 THEN i.at ELSE Len(items) + 1
  IN  CASE i.baseline = Nothing -> WithoutItem(items, i.id)
        [] i.baseline # Nothing /\ present ->
             [k \in DOMAIN items |-> IF items[k].id = i.id THEN i.baseline ELSE items[k]]
        [] OTHER -> InsertAt(items, at, i.baseline)

ConfirmedDisposition(kind) ==
  CASE kind = "create" -> "created" [] kind = "rename" -> "updated" [] kind = "remove" -> "removed"
----------------------------------------------------------------------------
(* What a render computes.                                                 *)

Authenticated == Auth!Effective \in Account
Token == IF Authenticated THEN <<Auth!Effective, epoch, attempt>> ELSE Nothing
EffectsPending == live # Token
Visible == acc # Nothing /\ Authenticated /\ acc.account = Auth!Effective

Items ==
  CASE ~Authenticated \/ (Visible /\ acc.origin = "device") -> device
    [] Authenticated /\ Visible /\ acc.origin # "device" /\ acc.items # Unknown -> acc.items
    [] OTHER -> IF device # <<>> THEN device ELSE Unknown

Mode ==
  CASE Auth!Effective = "resolving"             -> "resolving"
    [] Auth!Effective \in {"anonymous", "unavailable"} -> "guest"
    [] Authenticated /\ (~Visible \/ acc.loading) -> "account-loading"
    [] Visible /\ ~acc.loading /\ acc.error     -> IF acc.origin = "device" THEN "account-unconfirmed"
                                                                          ELSE "account-desynced"
    [] Visible /\ ~acc.loading /\ ~acc.error    -> IF acc.pending # {} THEN "account-saving" ELSE "account"

EmptyBook == [intents |-> <<>>, canonical |-> {}, adopted |-> FALSE]
Tell(ws, what) == [w \in DOMAIN told |-> IF w \in ws /\ told[w] = "awaited" THEN what ELSE told[w]]
Current == live # Nothing /\ acc # Nothing /\ acc.token = live
Live(r) == r.token = live

Init ==
  /\ Auth!Init /\ epoch = 0 /\ attempt = 0 /\ live = Nothing
  /\ \E s \in Stored :
       LET read == ReadCollection(s, ValidItem, Identity, Limit) IN
         /\ device = read.items
         /\ stored = IF read.recovered THEN Envelope(COLLECTION_VERSION, read.items) ELSE s
         /\ saved = { read.items[k].content : k \in DOMAIN read.items }
  /\ acc = Nothing /\ book = EmptyBook /\ orphans = {} /\ queued = <<>>
  /\ sent = {} /\ answers = {} /\ server = AccountItems
  /\ writes = 0 /\ refused = 0 /\ told = <<>> /\ last = <<>> /\ stray = {}
----------------------------------------------------------------------------
(* Renders and their effects.                                              *)

SessionChange ==
  /\ ~EffectsPending /\ epoch < MaxEpoch
  /\ Auth!Next
  /\ epoch' = IF Auth!Effective' # Auth!Effective THEN epoch + 1 ELSE epoch
  /\ UNCHANGED <<attempt, live, stored, device, acc, book, orphans, queued, net, server, writes,
                 refused, told, history>>

Retry ==
  /\ ~EffectsPending /\ Visible /\ acc.error /\ attempt < MaxAttempt
  /\ attempt' = attempt + 1
  /\ UNCHANGED <<session, epoch, live, stored, device, acc, book, orphans, queued, net, server,
                 writes, refused, told, history>>

\* The partition effect tells every caller of another account's book before it drops it.
ReleasesCallers == ~Authenticated \/ live = Nothing \/ live[1] # Token[1]

RunEffects ==
  LET outstanding == { i.write : i \in ToSet(book.intents) }
      retained == ReadDevice.items
  IN  /\ EffectsPending
      /\ live' = Token
      /\ book' = EmptyBook /\ queued' = <<>> /\ answers' = {}
      /\ IF ReleasesCallers THEN told' = Tell(outstanding \cup orphans, "superseded") /\ orphans' = {}
                            ELSE orphans' = orphans \cup outstanding /\ UNCHANGED told
      /\ IF Authenticated
           THEN /\ acc' = [account |-> Token[1], token |-> Token,
                           items |-> IF retained # <<>> THEN retained ELSE Unknown,
                           origin |-> IF retained # <<>> THEN "device" ELSE "unknown",
                           loading |-> TRUE, pending |-> {}, error |-> FALSE]
                /\ sent' = sent \cup
                     {[kind |-> IF retained # <<>> THEN "merge" ELSE "load", account |-> Token[1],
                       token |-> Token, id |-> Nothing, item |-> Nothing, label |-> Nothing,
                       list |-> retained, write |-> 0]}
           ELSE UNCHANGED <<acc, sent>>
      /\ last' = <<>> /\ stray' = {}
      /\ UNCHANGED <<ui, stored, device, server, writes, refused, saved>>

\* A hop of a replaced book finds its generation gone.
Abandon(w) ==
  /\ w \in orphans
  /\ orphans' = orphans \ {w}
  /\ told' = Tell({w}, "superseded")
  /\ UNCHANGED <<ui, live, stored, device, acc, book, queued, net, server, writes, refused, history>>
----------------------------------------------------------------------------
(* Clicks on the device collection: a guest, or an account whose merge is  *)
(* still owed.                                                             *)

Click == ~EffectsPending /\ writes < MaxWrites /\ writes' = writes + 1
Answered(what) == told' = Append(told, what)
OnDevice == ~Authenticated \/ (Visible /\ ~acc.loading /\ acc.origin = "device")
OnAccount == Visible /\ ~acc.loading /\ acc.origin # "device"

\* writeDevice, and the mirror of the device collection in the account state.
WriteDevice(next, contents, what) ==
  \/ /\ stored' = Envelope(COLLECTION_VERSION, next) /\ device' = next
     /\ acc' = IF Authenticated THEN [acc EXCEPT !.items = next] ELSE acc
     /\ saved' = contents
     /\ Answered(what)
     /\ UNCHANGED refused
  \/ /\ refused < MaxRefused /\ refused' = refused + 1
     /\ Answered("failed")
     /\ UNCHANGED <<stored, device, acc, saved>>

NoDeviceChange(what) == Answered(what) /\ UNCHANGED <<stored, device, acc, saved, refused>>
QuietClick == UNCHANGED <<ui, live, book, orphans, queued, net, server, last, stray>>

SaveOnDevice(content, label) ==
  LET outcome == UpsertByIdentity(device, Item(writes + 1, content, label), Identity)
  IN  /\ Click /\ OnDevice
      /\ IF outcome.disposition = "unchanged" THEN NoDeviceChange("unchanged")
         ELSE WriteDevice(outcome.items, saved \cup {content}, outcome.disposition)
      /\ QuietClick
RenameOnDevice(id, label) ==
  /\ Click /\ OnDevice /\ Find(device, id) # {}
  /\ IF Relabelled(device, id, label) = device THEN NoDeviceChange("unchanged")
     ELSE WriteDevice(Relabelled(device, id, label), saved, "updated")
  /\ QuietClick
RemoveOnDevice(id) ==
  /\ Click /\ OnDevice /\ Find(device, id) # {}
  /\ WriteDevice(WithoutItem(device, id), saved \ { i.content : i \in Find(device, id) }, "removed")
  /\ QuietClick

WhileSyncing ==
  /\ Click /\ Authenticated /\ (~Visible \/ acc.loading)
  /\ NoDeviceChange("failed")
  /\ QuietClick
----------------------------------------------------------------------------
(* Clicks on the account collection.                                       *)

QueuedAgainst(draft) == IF draft.kind = "create" THEN Nothing ELSE draft.item

\* What the account was last seen to hold; before any answer, what the draft was queued against.
RollbackBaseline(draft) ==
  LET held == { i \in book.canonical : i.id = draft.id }
  IN  IF ~book.adopted THEN QueuedAgainst(draft)
      ELSE IF held = {} THEN Nothing ELSE CHOOSE i \in held : TRUE

\* accountWrite: the intent is recorded, whoever awaited the one it replaces is told, the screen
\* is changed and a hop is queued.
AccountWrite(draft) ==
  LET w == writes + 1
      intent == [kind |-> draft.kind, id |-> draft.id, item |-> draft.item, label |-> draft.label,
                 at |-> draft.at, write |-> w, baseline |-> RollbackBaseline(draft)]
      replaced == { i.write : i \in IntentOf(book.intents, draft.id) }
  IN  /\ book' = [book EXCEPT !.intents = SetIntent(@, intent)]
      /\ told' = Append(Tell(replaced, "superseded"), "awaited")
      /\ acc' = [acc EXCEPT !.items = ApplyOptimistically(IF @ = Unknown THEN <<>> ELSE @, draft),
                            !.pending = @ \cup {draft.id}, !.error = FALSE]
      /\ queued' = With(queued, draft.id, IF draft.id \in DOMAIN queued THEN queued[draft.id] + 1 ELSE 1)
      /\ last' = With(last, draft.id, [draft EXCEPT !.at = w])
      /\ UNCHANGED <<ui, live, stored, device, orphans, net, server, refused, saved, stray>>

AccountUnchanged == Answered("unchanged") /\ QuietClick /\ UNCHANGED <<stored, device, acc, saved, refused>>
Shown == IF acc.items = Unknown THEN <<>> ELSE acc.items
Draft(kind, id, item, label, at) == [kind |-> kind, id |-> id, item |-> item, label |-> label, at |-> at]

\* A content that is on screen is renamed, or left alone; else it is created under a new id.
SaveToAccount(content, label) ==
  LET at == IndexOf(Shown, LAMBDA i : Identity(i) = content)
      new == Item(writes + 1, content, label)
  IN  /\ Click /\ OnAccount
      /\ IF at = 0 THEN AccountWrite(Draft("create", new.id, new, label, 0))
         ELSE IF Shown[at].label = label THEN AccountUnchanged
         ELSE AccountWrite(Draft("rename", Shown[at].id, Shown[at], label, 0))
RenameInAccount(id, label) ==
  /\ Click /\ OnAccount
  /\ \E i \in Find(Shown, id) : IF i.label = label THEN AccountUnchanged
                                ELSE AccountWrite(Draft("rename", id, i, label, 0))
RemoveFromAccount(id) ==
  LET at == IndexOf(Shown, LAMBDA i : i.id = id)
  IN  /\ Click /\ OnAccount /\ at # 0
      /\ AccountWrite(Draft("remove", id, Shown[at], Nothing, at))
----------------------------------------------------------------------------
(* The network and the server.                                             *)

\* Mutant of OnTheWay: no chain, an item's writes run side by side.
NoChain(id) == FALSE

OnTheWay(id) == \E r \in sent \cup { a.request : a \in answers } : Live(r) /\ r.id = id

\* One hop of an item's chain sends the intent that is current now, if there still is one.
StartHop(id) ==
  /\ id \in DOMAIN queued /\ queued[id] > 0 /\ ~OnTheWay(id)
  /\ queued' = [queued EXCEPT ![id] = @ - 1]
  /\ sent' = sent \cup {[kind |-> i.kind, account |-> acc.account, token |-> live, id |-> id,
                         item |-> i.item, label |-> i.label, list |-> <<>>, write |-> i.write]
                        : i \in IntentOf(book.intents, id)}
  /\ UNCHANGED <<ui, live, stored, device, acc, book, orphans, answers, server, writes, refused,
                 told, history>>

\* The API: the new collection, or Unknown when it refuses.
Handled(r) ==
  LET list == server[r.account]
      held == { Identity(i) : i \in ToSet(list) }
      missing == Sublist(r.list, { i \in ToSet(r.list) : i.content \in Storable \ held })
      upserted == UpsertByIdentity(list, r.item, Identity)
  IN  CASE r.kind = "load"   -> list
        [] r.kind = "merge"  -> IF Len(list) + Len(missing) > Limit THEN Unknown ELSE list \o missing
        [] r.kind = "create" -> IF \/ r.item.content \notin Storable
                                   \/ upserted.disposition = "created" /\ Len(list) >= Limit
                                THEN Unknown ELSE upserted.items
        [] r.kind = "rename" -> IF Find(list, r.id) = {} THEN Unknown ELSE Relabelled(list, r.id, r.label)
        [] r.kind = "remove" -> WithoutItem(list, r.id)

Contents(items) == { items[k].content : k \in DOMAIN items }
Respond(r, list) ==
  /\ sent' = sent \ {r}
  /\ answers' = IF Live(r) THEN answers \cup {[request |-> r, list |-> list]} ELSE answers

Serve(r) ==
  LET after == IF Handled(r) = Unknown THEN server[r.account] ELSE Handled(r)
  IN  /\ r \in sent
      /\ Respond(r, Handled(r))
      /\ server' = [server EXCEPT ![r.account] = after]
      /\ stray' = IF Live(r) \/ after = server[r.account] THEN stray
                  ELSE stray \cup Contents(after) \cup Contents(server[r.account])
      /\ saved' = IF r.kind = "remove" THEN saved \ { i.content : i \in Find(server[r.account], r.id) }
                                       ELSE saved
      /\ UNCHANGED <<ui, live, stored, device, acc, book, orphans, queued, writes, refused, told, last>>
\* A request that never arrives, or has no session to go with.
Lost(r) ==
  /\ r \in sent
  /\ Respond(r, Unknown)
  /\ UNCHANGED <<ui, live, stored, device, acc, book, orphans, queued, server, writes, refused, told,
                 history>>
ResponseLost(a) ==
  /\ a \in answers /\ a.list # Unknown
  /\ answers' = (answers \ {a}) \cup {[a EXCEPT !.list = Unknown]}
  /\ UNCHANGED <<ui, live, stored, device, acc, book, orphans, queued, sent, server, writes, refused,
                 told, history>>
----------------------------------------------------------------------------
(* Responses.  Those of an earlier generation are dropped (Respond).       *)

IsLoad(a) == a.request.kind \in {"load", "merge"}
Arrives(a) == a \in answers /\ answers' = answers \ {a} /\ UNCHANGED sent

\* Mutant of RetiresDevice: the device copy goes when the merge comes back, whatever came back.
RetiresAlways(a) == a.request.kind = "merge"
RetiresDevice(a) == a.request.kind = "merge" /\ a.list # Unknown

Loaded(a) ==
  /\ IsLoad(a) /\ Arrives(a)
  /\ IF a.list # Unknown
       THEN /\ book' = Rebased(book, a.list)
            /\ acc' = [acc EXCEPT !.items = a.list, !.origin = "server", !.loading = FALSE, !.error = FALSE]
       ELSE /\ UNCHANGED book
            /\ acc' = [acc EXCEPT !.items = IF a.request.list # <<>> THEN a.request.list ELSE @,
                                  !.origin = IF a.request.list # <<>> THEN "device" ELSE @,
                                  !.loading = FALSE, !.error = TRUE]
  /\ IF RetiresDevice(a)
       THEN device' = <<>> /\ stored' = Envelope(COLLECTION_VERSION, <<>>)
       ELSE UNCHANGED <<device, stored>>
  /\ UNCHANGED <<ui, live, orphans, queued, server, writes, refused, told, history>>

\* Mutant of Superseded: a response settles the item whatever was asked since.
NeverSuperseded(a) == FALSE
Superseded(a) == \E i \in IntentOf(book.intents, a.request.id) : i.write # a.request.write

Wrote(a) ==
  LET id == a.request.id
      w == a.request.write
      mine == [book EXCEPT !.intents = IF Superseded(a) THEN @ ELSE Retire(@, id)]
      intent == CHOOSE i \in IntentOf(book.intents, id) : TRUE
  IN  /\ ~IsLoad(a) /\ Arrives(a)
      /\ book' = IF a.list # Unknown THEN Rebased(mine, a.list) ELSE mine
      /\ IF Superseded(a)
           THEN /\ told' = Tell({w}, "superseded")
                /\ queued' = [queued EXCEPT ![id] = @ + 1]
           ELSE /\ told' = Tell({w}, IF a.list # Unknown THEN ConfirmedDisposition(a.request.kind) ELSE "failed")
                /\ UNCHANGED queued
      /\ acc' = CASE a.list # Unknown ->
                       [acc EXCEPT !.items = ReplayIntents(a.list, book'.intents), !.origin = "server",
                                   !.pending = IF Superseded(a) THEN @ ELSE @ \ {id},
                                   !.error = IF Superseded(a) THEN @ ELSE FALSE]
                  [] a.list = Unknown /\ Superseded(a) -> acc
                  [] OTHER -> [acc EXCEPT !.items = IF @ = Unknown THEN @ ELSE Rollback(@, intent),
                                          !.pending = @ \ {id}, !.error = TRUE]
      /\ UNCHANGED <<ui, live, stored, device, orphans, server, writes, refused, history>>
----------------------------------------------------------------------------
Ids == { i.id : i \in ToSet(IF Items = Unknown THEN <<>> ELSE Items) }
Scout ==
  \/ SessionChange \/ Retry \/ WhileSyncing
  \/ \E c \in Content, l \in Label : SaveOnDevice(c, l) \/ SaveToAccount(c, l)
  \/ \E id \in Ids : \/ RemoveOnDevice(id) \/ RemoveFromAccount(id)
                     \/ \E l \in Label : RenameOnDevice(id, l) \/ RenameInAccount(id, l)
Failure == (\E r \in sent : Lost(r)) \/ (\E a \in answers : ResponseLost(a))
Progress ==
  \/ RunEffects
  \/ \E w \in orphans : Abandon(w)
  \/ \E id \in DOMAIN queued : StartHop(id)
  \/ \E r \in sent : Serve(r)
  \/ \E a \in answers : Loaded(a) \/ Wrote(a)

Next == Scout \/ Failure \/ Progress
Spec == Init /\ [][Next]_vars

\* Effects and promise chains run, the server handles what reaches it, responses arrive or fail.
FairSpec == Spec /\ WF_vars(Progress)
----------------------------------------------------------------------------
(* Properties.                                                             *)

\* Rollback "restores ONE item to the newest state the server has confirmed, and touches nothing
\* else" (l. 995): once the server has answered this generation, an item nothing is outstanding
\* for is on screen exactly as the account was last seen to hold it, whatever overlapped, failed or
\* was rolled back around it.  Before it has (the load failed), such an item is one whose last
\* write, a rename or a removal, was told to have failed, and the screen does not claim to be in
\* step with the account.
LeftByRefusal(id) == id \in DOMAIN last /\ last[id].kind # "create" /\ told[last[id].at] = "failed"
ScreenIsConfirmed ==
  Current /\ acc.items # Unknown =>
    /\ acc.origin = "server" =>
         \A id \in { i.id : i \in book.canonical \cup ToSet(acc.items) } :
           IntentOf(book.intents, id) = {} => Find(acc.items, id) = { i \in book.canonical : i.id = id }
    /\ acc.origin = "unknown" =>
         /\ Mode # "account"
         /\ \A i \in ToSet(acc.items) : IntentOf(book.intents, i.id) = {} => LeftByRefusal(i.id)

\* Of a rollback, "nothing is fabricated" (l. 1017), and a baseline that is the draft's own is "a
\* state no account write can currently reach" (l. 814): what is on screen with nothing outstanding
\* is what the account was seen to hold, or holds. No run checks it: not so after a failed load (README).
NothingFabricated ==
  Current /\ acc.origin # "device" /\ acc.items # Unknown =>
    \A i \in ToSet(acc.items) :
      IntentOf(book.intents, i.id) = {} => i \in book.canonical \cup ToSet(server[acc.account])

\* "A partial success cannot lose somebody's saved work" and a refused device write is not a save:
\* what the device has acknowledged is on the device or in an account until the scout removes it,
\* unless the server can hold no such thing.
DeviceKept ==
  \A c \in saved \cap Storable :
    \/ c \in Contents(ReadDevice.items)
    \/ \E a \in Account : c \in Contents(server[a])

\* "The account success means the SERVER confirmed the mutation" (l. 80) and "the last thing the
\* user asked for is the thing that happens": once nothing is outstanding, the account holds what
\* the last successful write of an item said, unless another write or an earlier generation's
\* request was about the same content.
Alone(id) == \A k \in DOMAIN last \ {id} : last[k].item.content # last[id].item.content
SuccessIsHeld ==
  Current /\ Mode \in {"account", "account-desynced"} /\ book.intents = <<>> =>
    \A id \in DOMAIN last :
      LET d == last[id]
          held == { i \in ToSet(server[acc.account]) : i.content = d.item.content }
      IN  told[d.at] \in {"created", "updated", "removed"} /\ Alone(id) /\ d.item.content \notin stray =>
            IF d.kind = "remove" THEN Find(server[acc.account], id) = {} ELSE \E i \in held : i.label = d.label

\* The same, whatever other write there was of the content: the last one that succeeded, by the
\* order in which they were asked for, is what the account holds. No run checks it: not so (README).
LastSaveHeld ==
  Current /\ Mode = "account" /\ book.intents = <<>> /\ stray = {} =>
    \A id \in DOMAIN last :
      /\ told[last[id].at] = "created"
      /\ \A k \in DOMAIN last \ {id} : last[k].item.content = last[id].item.content => last[k].at < last[id].at
      => last[id].item.content \in Contents(server[acc.account])

\* "The promise a caller awaits does not resolve until the request reaches a terminal state", and
\* then it does: no naming panel is busy for ever, across retries, sign-outs and lost requests.
Awaited(w) == w \in DOMAIN told /\ told[w] = "awaited"
CallersReleased == \A w \in 1..MaxWrites : Awaited(w) ~> ~Awaited(w)
=============================================================================
