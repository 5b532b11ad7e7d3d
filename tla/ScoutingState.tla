---------------------------- MODULE ScoutingState ----------------------------
(***************************************************************************)
(* The browser half of My Favorites: AccountScoutingProvider in            *)
(* apps/web/src/lib/state/scouting-state.tsx, one tab of it, with the      *)
(* session it is told about, the device list in localStorage, and the      *)
(* private API as a server that handles one request at a time in any       *)
(* order (FavoritesStore shows what that server promises).                 *)
(*                                                                         *)
(* A React render and the effects it schedules are two steps: SessionChange*)
(* and RetrySync render, RunEffects runs the effects of that render, and a *)
(* response can arrive in between.  A user event cannot, because React     *)
(* flushes pending effects first.                                          *)
(***************************************************************************)
EXTENDS FiniteSets, SequencesExt, Lists, Players

CONSTANTS
  Account,        \* accounts that may sign in
  ServerLists,    \* each account's list on the server at the start
  DeviceList,     \* the list in localStorage at the start
  Unknown,        \* the list that is null
  Nobody,         \* no neighbour, no player
  NoToken,        \* the generation token that is null
  NoFavorites,    \* the account state that is null
  MaxEpoch,       \* bound: authentication transitions
  MaxAttempt,     \* bound: retries
  MaxWrites,      \* bound: toggles
  MaxOtherTab     \* bound: favourites another tab of this browser saves

ASSUME ListsAssumption ==
  /\ ServerLists \in [Account -> Seq(Player)]
  /\ DeviceList \in Seq(Player)
ASSUME BoundsAssumption ==
  /\ MaxEpoch \in Nat /\ MaxAttempt \in Nat
  /\ MaxWrites \in Nat /\ MaxOtherTab \in Nat

-----------------------------------------------------------------------------
(* Types.                                                                  *)

Lists == Seq(Player)
Neighbour == Player \cup {Nobody}
Anchors == [previous : Neighbour, next : Neighbour]
Generation == Account \X Nat \X Nat
Tokens == Generation \cup {NoToken}
Intent == [player : Player, want : BOOLEAN, revision : Nat, anchors : Anchors]
Request == [kind : {"get", "merge", "add", "remove"}, account : Account, token : Tokens,
            player : Neighbour, list : Lists, revision : Nat, anchors : Anchors]
Answer == [request : Request, list : Lists]
Favorites == [account : Account, token : Tokens, ids : Lists \cup {Unknown},
              origin : {"server", "device", "unknown"}, loading : BOOLEAN,
              pending : SUBSET Player, failed : SUBSET Player, error : BOOLEAN]

\* null is no list, no player, no token and no account state.
ASSUME NullsAssumption ==
  /\ Unknown \notin Lists /\ Nobody \notin Player
  /\ NoToken \notin Generation /\ NoFavorites \notin Favorites
  /\ Account \cap {"resolving", "anonymous"} = {}

VARIABLES
  session,    \* an account, or "resolving", or "anonymous"
  epoch,      \* authentication transitions so far
  attempt,    \* retries so far
  live,       \* liveToken.current
  guest,      \* guestIds
  device,     \* localStorage[scoutboy.shortlist.v1]
  fav,        \* the AccountFavorites state, or NoFavorites
  book,       \* the WriteBook's intents, in Map order, and its next revision
  queued,     \* hops waiting on each player's promise chain
  sent,       \* requests the server has not handled
  answers,    \* handled requests whose response is on its way, oldest first
  server,     \* each account's canonical list
  writes,     \* toggles so far
  otherTab,   \* players other tabs have put on the device
  seen,       \* history: players ever on each account or asked for under it
  saved,      \* history: players this browser's guest ever saved
  asked,      \* history: the last thing asked for each player, this generation
  disturbed,  \* history: players whose place in the list on screen's account
              \* a request of an earlier generation changed, this generation
  overtaken   \* history: a response has left before an earlier one, this generation

ui == <<session, epoch, attempt>>
network == <<answers, overtaken>>
history == <<seen, saved, asked, disturbed>>
vars == <<ui, live, guest, device, fav, book, queued, sent, network, server,
          writes, otherTab, history>>

-----------------------------------------------------------------------------
(* Lists.                                                                  *)

WithoutId(ids, p) == Sublist(ids, ToSet(ids) \ {p})
WithId(ids, p) == IF p \in ToSet(ids) THEN ids ELSE Append(ids, p)
At(ids, p) == CHOOSE i \in 1..Len(ids) : ids[i] = p

NoAnchors == [previous |-> Nobody, next |-> Nobody]

(* The neighbours of p in the list the scout was looking at. *)
AnchorsOf(ids, p) ==
  IF p \notin ToSet(ids) THEN NoAnchors
  ELSE LET at == At(ids, p)
       IN  [previous |-> IF at > 1 THEN ids[at - 1] ELSE Nobody,
            next |-> IF at < Len(ids) THEN ids[at + 1] ELSE Nobody]

RestoreWithAnchors(ids, p, anchors) ==
  CASE p \in ToSet(ids)                -> ids
    [] p \notin ToSet(ids) /\ anchors.next \in ToSet(ids) ->
         InsertAt(ids, At(ids, anchors.next), p)
    [] p \notin ToSet(ids) /\ anchors.next \notin ToSet(ids)
         /\ anchors.previous \in ToSet(ids) ->
         InsertAt(ids, At(ids, anchors.previous) + 1, p)
    [] OTHER                              -> Append(ids, p)

(* Outstanding intents: at most one a player, oldest key first. *)
IntentFor(intents, p) == {i \in ToSet(intents) : i.player = p}

SetIntent(intents, i) ==
  IF IntentFor(intents, i.player) = {} THEN Append(intents, i)
  ELSE [k \in DOMAIN intents |-> IF intents[k].player = i.player THEN i ELSE intents[k]]

(* Mutant of ApplyIntents: the list on screen is kept, not the server's. *)
KeepOwnList(base, intents) == IF fav.ids = Unknown THEN base ELSE fav.ids

(* The server's order, less what is being removed, then what is being added. *)
ApplyIntents(base, intents) ==
  LET kept == Sublist(base, {p \in ToSet(base) : \A i \in IntentFor(intents, p) : i.want})
      adds == Sublist(intents, {i \in ToSet(intents) : i.want /\ i.player \notin ToSet(base)})
  IN  kept \o [k \in 1..Len(adds) |-> adds[k].player]

-----------------------------------------------------------------------------
(* What a render computes.                                                 *)

Authenticated == session \in Account
TokenWithoutEpoch ==  \* mutant of Token: one token an account
  IF Authenticated THEN <<session, 0, attempt>> ELSE NoToken

Token == IF Authenticated THEN <<session, epoch, attempt>> ELSE NoToken
EffectsPending == live # Token

VisibleToAnyone == fav # NoFavorites /\ Authenticated  \* mutant of Visible

Visible == fav # NoFavorites /\ Authenticated /\ fav.account = session

VisibleIds ==
  CASE ~Authenticated                                       -> guest
    [] Visible /\ (fav.origin = "device")                   -> guest
    [] Visible /\ fav.origin # "device" /\ fav.ids # Unknown -> fav.ids
    [] OTHER -> IF guest # <<>> THEN guest ELSE Unknown

Mode ==
  CASE session = "resolving"                          -> "resolving"
    [] session = "anonymous"                          -> "guest"
    [] Authenticated /\ (~Visible \/ fav.loading)     -> "account-loading"
    [] Visible /\ ~fav.loading /\ fav.error           ->
         IF fav.origin = "device" THEN "account-unconfirmed" ELSE "account-desynced"
    [] Visible /\ ~fav.loading /\ ~fav.error          ->
         IF fav.pending # {} THEN "account-saving" ELSE "account"

ErrorForgotten(failed) == FALSE  \* mutant of StillInError: any success clears it

(* The error stays until every failed player is settled, or a load succeeds. *)
StillInError(failed) == fav.error /\ failed # {}

EmptyBook == [intents |-> <<>>, next |-> 1]

(* The state belongs to the generation whose work is being applied. *)
Current == live # NoToken /\ fav # NoFavorites /\ fav.token = live

Live(r) == r.token = live

Init ==
  /\ session = "resolving" /\ epoch = 0 /\ attempt = 0 /\ live = NoToken
  /\ guest = DeviceList /\ device = DeviceList
  /\ fav = NoFavorites /\ book = EmptyBook /\ queued = [p \in Player |-> 0]
  /\ sent = {} /\ answers = <<>> /\ server = ServerLists
  /\ writes = 0 /\ otherTab = {}
  /\ seen = [a \in Account |-> ToSet(ServerLists[a])]
  /\ saved = ToSet(DeviceList)
  /\ asked = [p \in Player |-> "none"] /\ disturbed = {} /\ overtaken = FALSE

-----------------------------------------------------------------------------
(* Sessions and generations.                                               *)

SessionChange(s) ==
  /\ ~EffectsPending
  /\ s # session
  /\ epoch < MaxEpoch
  /\ session' = s
  /\ epoch' = epoch + 1
  /\ UNCHANGED <<attempt, live, guest, device, fav, book, queued, sent, network,
                 server, writes, otherTab, history>>

(* "Try Again" is offered with the error it answers. *)
RetrySync ==
  /\ ~EffectsPending
  /\ Visible /\ fav.error
  /\ attempt < MaxAttempt
  /\ attempt' = attempt + 1
  /\ UNCHANGED <<session, epoch, live, guest, device, fav, book, queued, sent,
                 network, server, writes, otherTab, history>>

(* The effects of the render that saw a new token: liveToken, the write book,
   and for an account the seed and the load (a merge if the device holds a
   list).  Responses for earlier generations will find nothing to match. *)
RunEffects ==
  /\ EffectsPending
  /\ live' = Token
  /\ book' = EmptyBook
  /\ queued' = [p \in Player |-> 0]
  /\ answers' = <<>>
  /\ asked' = [p \in Player |-> "none"] /\ disturbed' = {} /\ overtaken' = FALSE
  /\ IF Authenticated
       THEN /\ fav' = [account |-> session, token |-> Token,
                       ids |-> IF device # <<>> THEN device ELSE Unknown,
                       origin |-> IF device # <<>> THEN "device" ELSE "unknown",
                       loading |-> TRUE, pending |-> {}, failed |-> {}, error |-> FALSE]
            /\ sent' = sent \cup
                 {[kind |-> IF device # <<>> THEN "merge" ELSE "get",
                   account |-> session, token |-> Token, player |-> Nobody,
                   list |-> device, revision |-> 0, anchors |-> NoAnchors]}
       ELSE UNCHANGED <<fav, sent>>
  /\ UNCHANGED <<ui, guest, device, server, writes, otherTab, seen, saved>>

-----------------------------------------------------------------------------
(* The scout.                                                              *)

Event == ~EffectsPending /\ writes < MaxWrites /\ writes' = writes + 1

Toggled(ids, p) == IF p \in ToSet(ids) THEN WithoutId(ids, p) ELSE WithId(ids, p)

(* writeDevice: state and storage in one step. *)
WriteDevice(p) ==
  /\ guest' = Toggled(guest, p)
  /\ device' = guest'
  /\ saved' = IF p \in ToSet(guest) THEN saved \ {p} ELSE saved \cup {p}

ToggleGuest(p) ==
  /\ Event
  /\ ~Authenticated
  /\ WriteDevice(p)
  /\ UNCHANGED <<ui, live, fav, book, queued, sent, network, server, otherTab,
                 seen, asked, disturbed>>

(* A merge is owed: the device is the system of record. *)
ToggleUnconfirmed(p) ==
  /\ Event
  /\ Visible /\ ~fav.loading /\ fav.origin = "device"
  /\ WriteDevice(p)
  /\ fav' = [fav EXCEPT !.ids = guest']
  /\ UNCHANGED <<ui, live, book, queued, sent, network, server, otherTab, seen,
                 asked, disturbed>>

(* Record the intent, flip the control, queue the request. *)
ToggleAccount(p) ==
  /\ Event
  /\ Visible /\ ~fav.loading /\ fav.origin # "device"
  /\ LET current == IF fav.ids = Unknown THEN <<>> ELSE fav.ids
         shown == IF VisibleIds = Unknown THEN <<>> ELSE VisibleIds
         want == p \notin ToSet(shown)
         failed == fav.failed \ {p}
     IN  /\ book' = [intents |-> SetIntent(book.intents,
                                   [player |-> p, want |-> want, revision |-> book.next,
                                    anchors |-> IF want THEN NoAnchors ELSE AnchorsOf(current, p)]),
                     next |-> book.next + 1]
         /\ fav' = [fav EXCEPT
                      !.ids = IF want THEN WithId(current, p) ELSE WithoutId(current, p),
                      !.pending = @ \cup {p},
                      !.failed = failed,
                      !.error = StillInError(failed)]
         /\ asked' = [asked EXCEPT ![p] = IF want THEN "in" ELSE "out"]
         /\ seen' = [seen EXCEPT ![session] = @ \cup {p}]
  /\ queued' = [queued EXCEPT ![p] = @ + 1]
  /\ UNCHANGED <<ui, live, guest, device, sent, network, server, otherTab, saved, disturbed>>

(* A guest's tab of the same browser, loaded just now, saves a player. One loaded earlier writes
   its own, older list over this one (l. 236): that is left out. *)
OtherTabSaves(p) ==
  /\ Cardinality(otherTab) < MaxOtherTab
  /\ p \notin ToSet(device)
  /\ device' = Append(device, p)
  /\ otherTab' = otherTab \cup {p}
  /\ saved' = saved \cup {p}
  /\ UNCHANGED <<ui, live, guest, fav, book, queued, sent, network, server, writes,
                 seen, asked, disturbed>>

-----------------------------------------------------------------------------
(* The network and the server.                                             *)

InFlight(p) ==
  \E r \in sent \cup {a.request : a \in ToSet(answers)} : Live(r) /\ r.player = p

(* One hop of a player's chain: send the intent that is current now. *)
StartHop(p) ==
  /\ queued[p] > 0
  /\ ~InFlight(p)
  /\ queued' = [queued EXCEPT ![p] = @ - 1]
  /\ sent' = sent \cup
       {[kind |-> IF i.want THEN "add" ELSE "remove", account |-> fav.account,
         token |-> live, player |-> p, list |-> <<>>, revision |-> i.revision,
         anchors |-> i.anchors] : i \in IntentFor(book.intents, p)}
  /\ UNCHANGED <<ui, live, guest, device, fav, book, network, server, writes,
                 otherTab, history>>

Handled(r) ==
  LET list == server[r.account]
  IN  CASE r.kind = "get"    -> list
        [] r.kind = "add"    -> WithId(list, r.player)
        [] r.kind = "remove" -> WithoutId(list, r.player)
        [] r.kind = "merge"  ->
             list \o Sublist(r.list, ToSet(r.list) \ ToSet(list))

(* The response to a request whose generation is over is read by nobody. *)
Serve(r) ==
  LET after == Handled(r)
      a == r.account
  IN  /\ sent' = sent \ {r}
      /\ server' = [server EXCEPT ![a] = after]
      /\ answers' = IF Live(r) THEN Append(answers, [request |-> r, list |-> after])
                               ELSE answers
      /\ seen' = [seen EXCEPT ![a] = @ \cup ToSet(after)]
      /\ disturbed' = IF Live(r) \/ a # session THEN disturbed
                      ELSE disturbed \cup {p \in Player :
                             Contains(after, p) # Contains(server[a], p)}
      /\ UNCHANGED <<ui, live, guest, device, fav, book, queued, writes, otherTab,
                     saved, asked, overtaken>>

(* A response leaves the network, not always the oldest. *)
Delivered(k) ==
  /\ answers' = RemoveAt(answers, k)
  /\ overtaken' = (overtaken \/ k # 1)

-----------------------------------------------------------------------------
(* Responses.                                                              *)

IsLoad(r) == r.kind \in {"get", "merge"}

(* The account's list arrived.  Only now is the device copy retired. *)
Loaded(k) ==
  /\ Delivered(k)
  /\ LET r == answers[k].request
     IN  /\ IsLoad(r)
         /\ fav' = IF Current
                     THEN [fav EXCEPT !.ids = ApplyIntents(answers[k].list, book.intents),
                                      !.origin = "server", !.loading = FALSE,
                                      !.failed = {}, !.error = FALSE]
                     ELSE fav
         /\ IF r.list # <<>> THEN guest' = <<>> /\ device' = <<>>
                             ELSE UNCHANGED <<guest, device>>
  /\ UNCHANGED <<ui, live, book, queued, sent, server, writes, otherTab, history>>

(* Mutants of LoadFailed: the device copy goes anyway; the load spins on. *)
LoadFailedRetires(r) ==
  /\ IsLoad(r)
  /\ fav' = [fav EXCEPT !.loading = FALSE, !.error = TRUE]
  /\ guest' = <<>> /\ device' = <<>>
  /\ UNCHANGED <<ui, live, book, queued, server, writes, otherTab, history>>

LoadFailedSpins(r) ==
  /\ IsLoad(r)
  /\ fav' = [fav EXCEPT !.error = TRUE]
  /\ UNCHANGED <<ui, live, guest, device, book, queued, server, writes, otherTab, history>>

(* The load or the merge failed: what is on the device stays on screen. *)
LoadFailed(r) ==
  /\ IsLoad(r)
  /\ fav' = IF Current
              THEN [fav EXCEPT !.ids = IF r.list # <<>> THEN r.list ELSE @,
                               !.origin = IF r.list # <<>> THEN "device" ELSE @,
                               !.loading = FALSE, !.error = TRUE]
              ELSE fav
  /\ UNCHANGED <<ui, live, guest, device, book, queued, server, writes, otherTab, history>>

(* Mutant of Settled: whatever the scout wants of the player is retired. *)
SettledAnyRevision(r) == Sublist(book.intents, {i \in ToSet(book.intents) : i.player # r.player})

(* A settled request retires its intent only if the scout has not changed
   their mind since; otherwise it queues the next hop. *)
Settled(r) ==
  Sublist(book.intents, {i \in ToSet(book.intents) : i.player # r.player \/ i.revision # r.revision})

NeverSuperseded(r) == FALSE   \* mutants of Superseded
AlwaysSuperseded(r) == TRUE

Superseded(r) == IntentFor(Settled(r), r.player) # {}

Settle(r) ==
  /\ book' = [book EXCEPT !.intents = Settled(r)]
  /\ queued' = [queued EXCEPT ![r.player] = IF Superseded(r) THEN @ + 1 ELSE @]

Saved(k) ==
  /\ Delivered(k)
  /\ LET r == answers[k].request
         failed == fav.failed \ {r.player}
     IN  /\ ~IsLoad(r)
         /\ Settle(r)
         /\ fav' = IF Current
                     THEN [fav EXCEPT
                             !.ids = ApplyIntents(answers[k].list, Settled(r)),
                             !.origin = "server",
                             !.pending = IF Superseded(r) THEN @ ELSE @ \ {r.player},
                             !.failed = failed,
                             !.error = StillInError(failed)]
                     ELSE fav
  /\ UNCHANGED <<ui, live, guest, device, sent, server, writes, otherTab, history>>

(* Rollback of this player only, on the list as it is now. *)
SaveFailed(r) ==
  /\ ~IsLoad(r)
  /\ Settle(r)
  /\ fav' = IF ~Current \/ Superseded(r) THEN fav
            ELSE [fav EXCEPT
                    !.ids = CASE fav.ids = Unknown -> Unknown
                              [] fav.ids # Unknown /\ r.kind = "add" -> WithoutId(@, r.player)
                              [] OTHER -> RestoreWithAnchors(@, r.player, r.anchors),
                    !.pending = @ \ {r.player},
                    !.failed = @ \cup {r.player},
                    !.error = TRUE]
  /\ UNCHANGED <<ui, live, guest, device, server, writes, otherTab, history>>

(* A request is lost or refused before the server acts on it... *)
Lost(r) ==
  /\ sent' = sent \ {r}
  /\ UNCHANGED network
  /\ IF Live(r) THEN LoadFailed(r) \/ SaveFailed(r)
     ELSE UNCHANGED <<ui, live, guest, device, fav, book, queued, server, writes,
                      otherTab, history>>

(* ... or its response is lost after the server has. *)
ResponseLost(k) ==
  /\ Delivered(k)
  /\ UNCHANGED sent
  /\ LoadFailed(answers[k].request) \/ SaveFailed(answers[k].request)

-----------------------------------------------------------------------------
Scout ==
  \/ \E s \in Account \cup {"resolving", "anonymous"} : SessionChange(s)
  \/ RetrySync
  \/ \E p \in Player : ToggleGuest(p) \/ ToggleUnconfirmed(p) \/ ToggleAccount(p)
                       \/ OtherTabSaves(p)

Failure == (\E r \in sent : Lost(r)) \/ (\E k \in 1..Len(answers) : ResponseLost(k))

Progress ==
  \/ RunEffects
  \/ \E p \in Player : StartHop(p)
  \/ \E r \in sent : Serve(r)
  \/ \E k \in 1..Len(answers) : Loaded(k) \/ Saved(k)

Next == Scout \/ Failure \/ Progress

Spec == Init /\ [][Next]_vars

(* React runs its effects, promise chains run, the server handles what reaches
   it and responses arrive; nobody has to press anything and nothing fails of
   necessity. *)
FairSpec == Spec /\ WF_vars(Progress)

-----------------------------------------------------------------------------
(* Properties.                                                             *)

(* The type of every variable. *)
TypeOK ==
  /\ session \in Account \cup {"resolving", "anonymous"}
  /\ epoch \in Nat /\ attempt \in Nat /\ live \in Tokens
  /\ guest \in Lists /\ device \in Lists
  /\ fav \in Favorites \cup {NoFavorites}
  /\ book \in [intents : Seq(Intent), next : Nat]
  /\ queued \in [Player -> Nat]
  /\ sent \subseteq Request /\ answers \in Seq(Answer)
  /\ server \in [Account -> Lists]
  /\ writes \in Nat /\ otherTab \subseteq Player
  /\ seen \in [Account -> SUBSET Player] /\ saved \subseteq Player
  /\ asked \in [Player -> {"none", "in", "out"}] /\ disturbed \subseteq Player
  /\ overtaken \in BOOLEAN

Outstanding(p) == Current /\ p \in fav.pending

(* Nothing of this generation is on the network. *)
Quiet ==
  /\ ~EffectsPending
  /\ answers = <<>>
  /\ \A r \in sent : ~Live(r)

(* No cross-account bleed: what a render shows under an account has been on
   that account, or asked for under it, or is the device's own list; a guest
   sees nothing but what a guest saved (the render filter, l. 543). *)
NoBleed ==
  /\ Authenticated /\ VisibleIds # Unknown =>
       ToSet(VisibleIds) \subseteq seen[session] \cup ToSet(guest)
  /\ ToSet(guest) \subseteq saved

(* A player the guest of this tab saved stays on the device until an account has
   held it, whatever fails and whoever signs in or out (load/merge, l. 656). *)
DeviceKept ==
  \A p \in saved \ otherTab : Contains(device, p) \/ \E a \in Account : p \in seen[a]

(* "Saving" is exactly the players with an intent on the books, and each of
   those has a request on its way or a hop that will send one: nothing stays
   pending with nobody working on it (settle/reconcile, l. 735). *)
PendingIsWorkedOn ==
  Current =>
    \A p \in Player :
      /\ p \in fav.pending <=> IntentFor(book.intents, p) # {}
      /\ p \in fav.pending => queued[p] > 0 \/ InFlight(p)

(* The last thing asked for is what the account ends up with, however toggles,
   answers and failures interleave, unless the scout is told otherwise or work
   of an earlier generation landed in between (revisions, l. 370). *)
LastIntentWins ==
  Current /\ Quiet /\ book.intents = <<>> =>
    \A p \in Player \ (fav.failed \cup disturbed) :
      asked[p] # "none" => (Contains(server[fav.account], p) <=> asked[p] = "in")

(* A failure stays reported until that player is settled: another player's
   success does not clear it (l. 768). *)
FailuresStayReported == Current /\ fav.failed # {} => fav.error

(* In mode "account" the list on screen is the server's, order included, once
   nothing is in flight, unless responses overtook one another or a write of an
   earlier generation landed (applyIntents, l. 764). *)
AccountModeIsCanonical ==
  Mode = "account" /\ Quiet /\ disturbed = {} /\ ~overtaken => VisibleIds = server[session]

(* l. 49 "the visible list IS the server's canonical list": the same, whatever
   the order of the responses. No run checks it: it is not so (README). *)
AccountModeIsServerList ==
  Mode = "account" /\ Quiet /\ disturbed = {} => VisibleIds = server[session]

(* Every token on the network is older than the generation on screen or is the
   live one, and the live one is older than, or is, the token on screen: the
   strengthening that makes TokensAreFresh inductive. *)
Older(t) == t[2] < epoch \/ (t[2] = epoch /\ t[3] < attempt)

TokensIssued ==
  /\ epoch \in Nat /\ attempt \in Nat /\ live \in Tokens
  /\ live = NoToken \/ Older(live) \/ live = <<session, epoch, attempt>>
  /\ \A r \in sent : r.token \in Tokens
                      /\ (r.token \in {NoToken, live} \/ Older(r.token))

(* A generation is never used twice: no request still out carries the token of
   the generation that is about to start (l. 494). *)
TokensAreFresh ==
  EffectsPending /\ Token # NoToken => \A r \in sent : r.token # Token

(* A write to the account is never left saving for ever. *)
WritesSettle == \A p \in Player : Outstanding(p) ~> ~Outstanding(p)

(* A load never spins for ever. *)
LoadsSettle == (Current /\ fav.loading) ~> ~(Current /\ fav.loading)
=============================================================================
