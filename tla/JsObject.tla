------------------------------ MODULE JsObject ------------------------------
(***************************************************************************)
(* JavaScript objects as functions from the names of their members.        *)
(***************************************************************************)

\* an object with its member x set to v, and one with the members of another
\* that it does not have
With(f, x, v) == [y \in DOMAIN f \cup {x} |-> IF y = x THEN v ELSE f[y]]
Over(f, g) == [x \in DOMAIN f \cup DOMAIN g |-> IF x \in DOMAIN f THEN f[x] ELSE g[x]]
=============================================================================
