-------------------------- MODULE PlayerComparison --------------------------
(***************************************************************************)
(* Two players side by side (app/services/compare_service.py): the role    *)
(* they are compared in, chosen by the server when the request names none, *)
(* who rates higher in it and by which groups of metrics, and which of     *)
(* them to read with caution.  The two dossiers beside the comparison are  *)
(* those of PlayerDossier; the rows of normalized metrics and all wording  *)
(* are left out.                                                           *)
(*                                                                         *)
(* The audit of a rating is given with the database: db.audits has, for    *)
(* the ratings that have one, the score of each group.                     *)
(***************************************************************************)
EXTENDS PlayerDossier

RatedIn(card, role) == {r \in card.roles : r.role = role}

SharedRoles(a, b) == {r.role : r \in a.roles} \intersect {r.role : r \in b.roles}

\* The weaker side first, then the two together, then the confidence, then the name.
JointFit(a, b, role) ==
  LET ra == The(RatedIn(a, role))
      rb == The(RatedIn(b, role))
  IN <<-Min({ra.score, rb.score}), -(ra.score + rb.score),
       -Min({CONFIDENCE_RANK[ra.confidence], CONFIDENCE_RANK[rb.confidence]}), RoleRank(role)>>

SelectAutomaticSharedRole(a, b) ==
  {role \in SharedRoles(a, b) :
     \A other \in SharedRoles(a, b) : ~Precedes(JointFit(a, b, other), JointFit(a, b, role))}

\* The scores of the groups of a player's rating in a role, when it has an audit.
GroupsFor(db, p, season, role) ==
  {db.audits[r.id] : r \in {x \in Of(db.ratings, p, season) : x.role = role /\ x.id \in DOMAIN db.audits}}

\* The groups the higher player leads in, and by how much.
GroupDiffs(high, low) ==
  {[group |-> g, delta |-> Or(high, <<>>)[g] - Or(low, <<>>)[g]]
     : g \in {x \in DOMAIN Or(high, <<>>) \intersect DOMAIN Or(low, <<>>) : Or(high, <<>>)[x] > Or(low, <<>>)[x]}}

\* Who rates higher in a role both are rated in, and what drives it.
WhyHigher(db, a, b, role, season) ==
  LET ra == The(RatedIn(a, role))
      rb == The(RatedIn(b, role))
      groups(p) == GroupsFor(db, p, season, role)
  IN [role |-> role, scores |-> <<ra.score, rb.score>>, confidences |-> <<ra.confidence, rb.confidence>>,
      higher |-> CASE ra.score > rb.score -> "first" [] rb.score > ra.score -> "second" [] OTHER -> "neither",
      drivers |-> CASE ra.score > rb.score -> GroupDiffs(groups(a.id), groups(b.id))
                    [] rb.score > ra.score -> GroupDiffs(groups(b.id), groups(a.id))
                    [] OTHER -> {}]

Compared(db, a, b, role_key, season) ==
  LET automatic == role_key = {}
      chosen == IF automatic THEN SelectAutomaticSharedRole(a, b) ELSE role_key
      shared == chosen \intersect SharedRoles(a, b)
  IN [role |-> chosen,
      outcome |-> CASE automatic /\ chosen = {} -> "no_shared_role"
                    [] shared = {} -> "unrated_in_this_role"
                    [] OTHER -> "compared",
      comparison |-> {WhyHigher(db, a, b, role, season) : role \in shared},
      cautions |-> {side \in {1, 2} : CONFIDENCE_RANK[(<<a, b>>)[side].confidence] =< 1}]

\* compare_players: the answers to a request; none when a player or the season is unknown.
ComparePlayers(db, p, q, role_key) ==
  UNION {{Compared(db, a, b, role_key, season.id) : a \in BuildPlayerCard(db, p), b \in BuildPlayerCard(db, q)}
         : season \in GetCurrentSeason(db)}
=============================================================================
