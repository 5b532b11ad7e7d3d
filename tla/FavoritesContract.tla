-------------------------- MODULE FavoritesContract --------------------------
(***************************************************************************)
(* What My Favorites promises a caller of the private API, with the        *)
(* database taken away: one account's set of saved players, and requests   *)
(* that are opened, may change the set, and are answered or refused.       *)
(*                                                                         *)
(*   - only an add or a merge puts a player in the set, and only a player  *)
(*     the request asked for that exists;                                  *)
(*   - only a remove takes a player out, and only its own player;          *)
(*   - an add (remove) is answered only if its player was in (out of) the  *)
(*     set at some moment while the request was open;                      *)
(*   - a merge is answered only with a list that holds every existing      *)
(*     player it offered: never a plausible list that silently omits one.  *)
(***************************************************************************)
EXTENDS Sequences, Naturals

CONSTANTS
  Request,      \* identifiers of requests, each used once
  Player,       \* the player ids a request may name
  KnownPlayer,  \* those that have a row in `players`
  GuestList     \* the lists a merge may offer

VARIABLES
  saved,      \* the account's saved players
  phase,      \* "new", "open", "ok" or "refused", per request
  op,         \* what each request asks for
  witnessed,  \* an add/remove that has seen its goal hold while open
  listed      \* the players in the answer

vars == <<saved, phase, op, witnessed, listed>>

(* A single-player request offers a list of one; a read offers none. *)
Op == [kind : {"add", "remove"}, offer : {<<p>> : p \in Player}]
        \cup [kind : {"merge"}, offer : GuestList]
        \cup [kind : {"list"}, offer : {<<>>}]

Offered(o) == {o.offer[i] : i \in 1..Len(o.offer)}

(* The existing players a request wants on the account. *)
Wanted(o) == IF o.kind \in {"add", "merge"} THEN Offered(o) \cap KnownPlayer ELSE {}

Holds(o, set) ==
  CASE o.kind = "add"    -> Wanted(o) # {} /\ Wanted(o) \subseteq set
    [] o.kind = "remove" -> Offered(o) \cap set = {}
    [] o.kind = "merge"  -> Wanted(o) \subseteq set
    [] OTHER             -> TRUE

Single(o) == o.kind \in {"add", "remove"}

NoOp == [kind |-> "list", offer |-> <<>>]

Init ==
  /\ saved = {}
  /\ phase = [r \in Request |-> "new"]
  /\ op = [r \in Request |-> NoOp]
  /\ witnessed = [r \in Request |-> FALSE]
  /\ listed = [r \in Request |-> {}]

Open(r) ==
  /\ phase[r] = "new"
  /\ \E o \in Op : op' = [op EXCEPT ![r] = o]
  /\ phase' = [phase EXCEPT ![r] = "open"]
  /\ UNCHANGED <<saved, witnessed, listed>>

(* The effect of a request on the set, all at once. *)
Take(r) ==
  /\ phase[r] = "open"
  /\ \/ \E P \in SUBSET Wanted(op[r]) : saved' = saved \cup P
     \/ op[r].kind = "remove" /\ saved' = saved \ Offered(op[r])
  /\ witnessed' = [witnessed EXCEPT ![r] = Single(op[r]) /\ Holds(op[r], saved')]
  /\ UNCHANGED <<phase, op, listed>>

Answer(r) ==
  /\ phase[r] = "open"
  /\ witnessed[r] \/ Holds(op[r], saved)
  /\ phase' = [phase EXCEPT ![r] = "ok"]
  /\ witnessed' = [witnessed EXCEPT ![r] = Single(op[r])]
  /\ listed' = [listed EXCEPT ![r] = saved]
  /\ UNCHANGED <<saved, op>>

(* 404, 409 or 500: the caller keeps what it holds and may try again. *)
Refuse(r) ==
  /\ phase[r] = "open"
  /\ phase' = [phase EXCEPT ![r] = "refused"]
  /\ witnessed' = [witnessed EXCEPT ![r] = FALSE]
  /\ UNCHANGED <<saved, op, listed>>

Next == \E r \in Request : Open(r) \/ Take(r) \/ Answer(r) \/ Refuse(r)

Spec == Init /\ [][Next]_vars
=============================================================================
