-------------------------------- MODULE Lists --------------------------------
(* Filtered lists, by a set instead of a test, and functions changed at one   *)
(* place: first-order definitions the proofs can unfold.                      *)
EXTENDS Naturals, Sequences

IsList(s) == s \in Seq({s[i] : i \in DOMAIN s})

\* The elements of s that are in keep, in their order.
Sublist(s, keep) ==
  LET upTo[n \in 0..Len(s)] ==
        IF n = 0 THEN <<>>
        ELSE IF s[n] \in keep THEN Append(upTo[n - 1], s[n]) ELSE upTo[n - 1]
  IN  upTo[Len(s)]
\* The indexes of s that are in at, in order.
Places(s, at) == Sublist([i \in DOMAIN s |-> i], at)

\* The values of f, and where it has none those of g.
Overlaid(f, g) == [y \in DOMAIN f \cup DOMAIN g |-> IF y \in DOMAIN f THEN f[y] ELSE g[y]]
With(f, x, value) == [y \in DOMAIN f \cup {x} |-> IF y = x THEN value ELSE f[y]]
=============================================================================
