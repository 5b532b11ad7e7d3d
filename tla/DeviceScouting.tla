---------------------------- MODULE DeviceScouting ----------------------------
(***************************************************************************)
(* What one browser tab does without the server: a guest's favourites and  *)
(* the compare queue with their copies in localStorage, the offer of an    *)
(* account that a guest's save may bring up, and the two surfaces of the   *)
(* bottom rail that stay on screen while they leave                        *)
(* (lib/state/scouting-state.tsx, components/account/AccountSuggestion.tsx,*)
(* lib/auth/suggestion-state.ts, lib/motion/presence.ts,                   *)
(* components/common/PlayerActions.tsx).                                   *)
(*                                                                         *)
(* A user event, the render it causes, that render's effects and the       *)
(* renders they cause are one step, as React runs them; so is a page load  *)
(* with its hydration.  What an account does with the list is the business *)
(* of ScoutingState: here a merge only retires it.                         *)
(***************************************************************************)
EXTENDS Naturals, Sequences, FiniteSets, Lists, Players

CONSTANTS
  Holder,         \* the account that may sign in
  Stored,         \* what localStorage may hold at the start: [shortlist, compareQueue, dismissedAt]
  DISMISSAL_WINDOW,
  MaxNow,         \* bound: days
  MaxEvents       \* bound: what the scout does

ASSUME DaysAssumption == DISMISSAL_WINDOW \in Nat /\ MaxNow \in Nat /\ MaxEvents \in Nat
\* A stored queue is a list of anything, but of no player twice: no tab writes one that is.
ASSUME StoredAssumption ==
  \A s \in Stored :
    /\ s.dismissedAt \in SUBSET Nat
    /\ s.compareQueue \in Seq({s.compareQueue[i] : i \in DOMAIN s.compareQueue})
    /\ \A i, j \in DOMAIN s.compareQueue :
         s.compareQueue[i] = s.compareQueue[j] /\ s.compareQueue[i] \in Player => i = j

VARIABLES
  enabled,                                   \* this build offers accounts
  status, expired,                           \* the session, as AuthSession tells it
  guestIds, compareQueue, guestSaveSignal,   \* the provider's state
  shortlist, queueStored, dismissedAt,       \* localStorage
  shownThisSession,                          \* sessionStorage
  open, observed, offer,                     \* the offer and its presence
  held, tray,                                \* the compare tray and its presence
  onComparePage, reduced,                    \* the route, and prefers-reduced-motion
  now, events,
  kept, latest,   \* history: the players on this device, the last one put in the queue and still in it
  offers,         \* history: offers opened in this browser session
  refusals        \* history: the days of "Not now" since the last merge

auth == <<enabled, status, expired>>
lists == <<guestIds, compareQueue, guestSaveSignal>>
stores == <<shortlist, queueStored, dismissedAt>>
surroundings == <<onComparePage, reduced, now>>
rail == <<shownThisSession, open, observed, offer, held, tray, offers>>
traces == <<kept, latest, refusals>>
deviceVars == <<auth, lists, stores, surroundings, rail, traces, events>>

Auth == INSTANCE AuthSession WITH Account <- {Holder}

(***************************************************************************)
(* Reading storage, which anything may have written to.                    *)
(***************************************************************************)
MAX_COMPARE == 2
Legible == Player

ReadNumberList(raw) == raw \cap Legible
ReadPlayerRefs(raw) ==
  LET legible == Sublist(raw, Legible)
  IN IF Len(legible) > MAX_COMPARE THEN SubSeq(legible, 1, MAX_COMPARE) ELSE legible

\* A mutant: the effect does not ask whether the page is mounted.
WrittenAlways(mounted, list, raw) == list

\* The storage effect of a list.
Written(mounted, list, raw) == IF mounted THEN list ELSE raw

\* A dismissal of a day to come is none.
ReadDismissedAt(raw, day) == {at \in raw : 0 < at /\ at =< day}
IsSuppressed(raw, day) == \E at \in ReadDismissedAt(raw, day) : day - at < DISMISSAL_WINDOW

(***************************************************************************)
(* Presence: what leaves the screen is held there until a timer ends.      *)
(***************************************************************************)
Absent == [previous |-> FALSE, leaving |-> FALSE]

\* The render that sees a change of active begins an exit or cancels one.
UsePresence(p, active, calm) ==
  IF p.previous = active THEN p ELSE [previous |-> active, leaving |-> ~active /\ ~calm]

OnScreen(p, active) == active \/ (p.leaving /\ ~reduced)

\* A mutant: only what is back may end its exit.
ArmedWhenBack(p) == p.leaving /\ p.previous

Armed(p) == p.leaving
Ended(p) == [p EXCEPT !.leaving = FALSE]

(***************************************************************************)
(* The compare queue: a third player replaces the oldest.                  *)
(***************************************************************************)
Queued(queue, p) == \E i \in DOMAIN queue : queue[i] = p
Without(queue, p) == Sublist(queue, Player \ {p})
ToggledCompare(queue, p) ==
  CASE Queued(queue, p) -> Without(queue, p)
    [] ~Queued(queue, p) /\ Len(queue) >= MAX_COMPARE -> <<queue[2], p>>
    [] OTHER -> Append(queue, p)

-----------------------------------------------------------------------------
Eligible == enabled /\ Auth!Effective = "anonymous"
OfferActive == open /\ Eligible
TrayActive == compareQueue # <<>> /\ ~onComparePage
OfferVisible == OnScreen(offer, OfferActive)
TrayVisible == OnScreen(tray, TrayActive)
TrayShows == IF compareQueue # <<>> THEN compareQueue ELSE held

\* A mutant: once it has been refused the window is not looked at.
OpensAgain(added, eligible, dismissed, day) == added /\ eligible /\ ~shownThisSession

\* The effect of the offer, of an addition since the signal it last saw.
Opens(added, eligible, dismissed, day) ==
  added /\ eligible /\ ~shownThisSession /\ ~IsSuppressed(dismissed, day)

(* What follows an event: a render, the offer's effect, and a render when it has opened. *)
Rendered(stillOpen) ==
  LET opens == Opens(guestSaveSignal' > observed, Eligible', dismissedAt', now')
  IN /\ observed' = guestSaveSignal'
     /\ open' = (stillOpen \/ opens)
     /\ shownThisSession' = (shownThisSession \/ opens)
     /\ offers' = IF opens THEN offers + 1 ELSE offers
     /\ offer' = UsePresence(UsePresence(offer, stillOpen /\ Eligible', reduced'), open' /\ Eligible', reduced')
     /\ tray' = UsePresence(tray, TrayActive', reduced')
     /\ held' = IF compareQueue' # <<>> THEN compareQueue' ELSE held

UserEvent == events < MaxEvents /\ events' = events + 1

-----------------------------------------------------------------------------
Mounted(raw) ==
  LET before == [guestIds |-> Written(FALSE, {}, raw.shortlist), queue |-> Written(FALSE, <<>>, raw.compareQueue)]
  IN [guestIds |-> ReadNumberList(before.guestIds), queue |-> ReadPlayerRefs(before.queue)]

DeviceInit ==
  \E raw \in Stored, accounts \in BOOLEAN, calm \in BOOLEAN :
    LET page == Mounted(raw)
    IN /\ enabled = accounts /\ Auth!Init
       /\ guestIds = page.guestIds /\ compareQueue = page.queue /\ guestSaveSignal = 0
       /\ shortlist = Written(TRUE, page.guestIds, raw.shortlist)
       /\ queueStored = Written(TRUE, page.queue, raw.compareQueue)
       /\ dismissedAt = raw.dismissedAt /\ shownThisSession = FALSE
       /\ open = FALSE /\ observed = 0 /\ offer = Absent
       /\ onComparePage = FALSE /\ reduced = calm /\ now = 1 /\ events = 0
       /\ held = page.queue /\ tray = UsePresence(Absent, page.queue # <<>>, calm)
       /\ kept = ReadNumberList(raw.shortlist) /\ latest = {} /\ offers = 0 /\ refusals = ReadDismissedAt(raw.dismissedAt, 1)

(* A page load, in this browser session or in a new one. *)
Load(newSession) ==
  /\ UserEvent
  /\ LET page == Mounted([shortlist |-> shortlist, compareQueue |-> queueStored])
     IN /\ status' = "resolving" /\ expired' = FALSE
        /\ guestIds' = page.guestIds /\ compareQueue' = page.queue /\ guestSaveSignal' = 0
        /\ shortlist' = Written(TRUE, page.guestIds, shortlist)
        /\ queueStored' = Written(TRUE, page.queue, queueStored)
        /\ open' = FALSE /\ observed' = 0 /\ offer' = Absent
        /\ held' = page.queue /\ tray' = UsePresence(Absent, page.queue # <<>> /\ ~onComparePage, reduced)
        /\ shownThisSession' = (shownThisSession /\ ~newSession)
        /\ offers' = IF newSession THEN 0 ELSE offers
  /\ UNCHANGED <<enabled, dismissedAt, surroundings, traces>>

(* A guest's heart, and the control that only removes. *)
ToggleShortlist(p) ==
  /\ UserEvent /\ status # Holder
  /\ guestIds' = IF p \in guestIds THEN guestIds \ {p} ELSE guestIds \union {p}
  /\ shortlist' = Written(TRUE, guestIds', shortlist)
  /\ guestSaveSignal' = IF p \in guestIds THEN guestSaveSignal ELSE guestSaveSignal + 1
  /\ kept' = IF p \in guestIds THEN kept \ {p} ELSE kept \union {p}
  /\ UNCHANGED <<auth, compareQueue, queueStored, dismissedAt, surroundings, latest, refusals>>
  /\ Rendered(open)

RemoveShortlist(p) ==
  /\ UserEvent /\ status # Holder
  /\ guestIds' = guestIds \ {p} /\ shortlist' = Written(TRUE, guestIds', shortlist)
  /\ kept' = kept \ {p}
  /\ UNCHANGED <<auth, compareQueue, guestSaveSignal, queueStored, dismissedAt, surroundings, latest, refusals>>
  /\ Rendered(open)

SetCompareQueue(queue, last) ==
  /\ UserEvent
  /\ compareQueue' = queue /\ queueStored' = Written(TRUE, queue, queueStored) /\ latest' = last
  /\ UNCHANGED <<auth, guestIds, guestSaveSignal, shortlist, dismissedAt, surroundings, kept, refusals>>
  /\ Rendered(open)

ToggleCompare(p) ==
  SetCompareQueue(ToggledCompare(compareQueue, p), IF Queued(compareQueue, p) THEN latest \ {p} ELSE {p})
RemoveCompare(p) == SetCompareQueue(Without(compareQueue, p), latest \ {p})
ClearCompare == SetCompareQueue(<<>>, {})

(* The identity provider answers, and a merge is confirmed: the device copy and the dismissal go. *)
SessionChanges ==
  /\ enabled
  /\ Auth!Next
  /\ UNCHANGED <<enabled, lists, stores, surroundings, traces, events>>
  /\ Rendered(open)

Merged ==
  /\ UserEvent /\ enabled /\ status = Holder
  /\ guestIds' = {} /\ shortlist' = Written(TRUE, {}, shortlist) /\ kept' = {}
  /\ dismissedAt' = {} /\ refusals' = {}
  /\ UNCHANGED <<auth, compareQueue, guestSaveSignal, queueStored, surroundings, latest>>
  /\ Rendered(open)

(* "Not Now" or Escape; the buttons that open the identity provider only close the offer. *)
Dismiss ==
  /\ UserEvent /\ OfferVisible
  /\ dismissedAt' = {now} /\ refusals' = refusals \union {now}
  /\ UNCHANGED <<auth, lists, shortlist, queueStored, surroundings, kept, latest>>
  /\ Rendered(FALSE)

Close ==
  /\ UserEvent /\ OfferVisible
  /\ UNCHANGED <<auth, lists, stores, surroundings, traces>>
  /\ Rendered(FALSE)

Navigate ==
  /\ UserEvent /\ onComparePage' = ~onComparePage
  /\ UNCHANGED <<auth, lists, stores, reduced, now, traces>>
  /\ Rendered(open)

PreferReducedMotion ==
  /\ UserEvent /\ reduced' = ~reduced
  /\ UNCHANGED <<auth, lists, stores, onComparePage, now, traces>>
  /\ Rendered(open)

(* Timers, and the days that pass. *)
OfferGone ==
  /\ Armed(offer) /\ offer' = Ended(offer)
  /\ UNCHANGED <<auth, lists, stores, surroundings, traces, events, shownThisSession, open, observed, held, tray, offers>>

TrayGone ==
  /\ Armed(tray) /\ tray' = Ended(tray)
  /\ UNCHANGED <<auth, lists, stores, surroundings, traces, events, shownThisSession, open, observed, offer, held, offers>>

DayPasses ==
  /\ now < MaxNow /\ now' = now + 1
  /\ UNCHANGED <<auth, lists, stores, onComparePage, reduced, rail, traces, events>>

UsesTheTab ==
  \/ \E p \in Player : ToggleShortlist(p) \/ RemoveShortlist(p) \/ ToggleCompare(p) \/ RemoveCompare(p)
  \/ ClearCompare \/ Dismiss \/ Close \/ Navigate \/ PreferReducedMotion
  \/ \E newSession \in BOOLEAN : Load(newSession)

DeviceNext == UsesTheTab \/ SessionChanges \/ Merged \/ OfferGone \/ TrayGone \/ DayPasses

DeviceSpec == DeviceInit /\ [][DeviceNext]_deviceVars
\* A timer that is armed runs out.
DeviceFairSpec == DeviceSpec /\ WF_deviceVars(OfferGone) /\ WF_deviceVars(TrayGone)

(***************************************************************************)
(* What the tab promises.                                                  *)
(***************************************************************************)
(* Whatever is loaded, signed in or dismissed: the screen, the device and what the scout  *)
(* left there are the same; the queue has at most two players, none twice, and among them *)
(* the last one put in (l. 177, 236: the effects that write storage run on every load). A  *)
(* tray that is on screen, leaving or not, has players to show.                           *)
DeviceListsSurvive ==
  /\ guestIds = shortlist /\ shortlist = kept
  /\ compareQueue = queueStored /\ Len(compareQueue) =< MAX_COMPARE
  /\ \A i, j \in DOMAIN compareQueue : compareQueue[i] = compareQueue[j] => i = j
  /\ \A p \in latest : Queued(compareQueue, p)
  /\ TrayVisible => TrayShows # <<>>

Opening == ~open /\ open'
Appears == ~OfferVisible /\ OfferVisible'

\* An offer nobody closed returns with the guest, and an exit, of a closed offer too, with motion.
Returns == open /\ ~Eligible /\ Eligible'
Resumes == offer.leaving /\ reduced /\ ~reduced'

EarnedStep ==
  /\ Opening => /\ \E p \in Player \ shortlist : shortlist' = shortlist \union {p}
                /\ enabled /\ status' = "anonymous" /\ offers' = 1
                /\ \A day \in refusals : now - day >= DISMISSAL_WINDOW
  /\ Appears => Opening \/ Returns \/ Resumes

(* An offer opens only in the step that puts a new player on a guest's device, once a    *)
(* browser session, and within the window of no refusal since a merge, whatever is loaded, *)
(* signed in or restarted in between; one that comes on screen without opening is an open  *)
(* one a guest comes back to (AccountSuggestion.tsx:42-57), or, closed or not, one whose   *)
(* exit was hidden by reduced motion and goes on where that is switched off.               *)
OfferIsEarned == [][EarnedStep]_deviceVars

(* Nothing stays on the rail that is neither wanted nor leaving, and what leaves is gone  *)
(* in the end or wanted again, however exits are cancelled and begun anew (presence.ts:80). *)
ExitsEnd ==
  /\ ~OfferActive ~> (~OfferVisible \/ OfferActive)
  /\ ~TrayActive ~> (~TrayVisible \/ TrayActive)
=============================================================================
