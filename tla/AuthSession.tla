----------------------------- MODULE AuthSession -----------------------------
(***************************************************************************)
(* Who the browser takes the visitor to be (lib/auth/session.tsx): what    *)
(* the identity provider last said, and the timer that stops a provider    *)
(* that says nothing from holding the interface up.  An account is a value *)
(* of Account; the provider may also be "resolving" or say "anonymous".    *)
(***************************************************************************)
CONSTANT Account

VARIABLES
  status,    \* what the provider says
  expired    \* the resolve timer has run out

AuthStatus == Account \cup {"resolving", "anonymous"}

\* The one status every surface branches on.
EffectiveStatus(says, late) == IF says = "resolving" /\ late THEN "unavailable" ELSE says
Effective == EffectiveStatus(status, expired)

Init == status = "resolving" /\ expired = FALSE

\* The provider's answer, on time or late, and a sign-in or a sign-out; the latch is dropped in
\* the render that sees it, and timed afresh when it resolves again.
ProviderSays(s) ==
  /\ s \in AuthStatus \ {status}
  /\ status' = s
  /\ expired' = IF (s = "resolving") = (status = "resolving") THEN expired ELSE FALSE

ResolveTimeout ==
  /\ status = "resolving" /\ ~expired
  /\ expired' = TRUE
  /\ UNCHANGED status

Next == ResolveTimeout \/ \E s \in AuthStatus : ProviderSays(s)
=============================================================================
