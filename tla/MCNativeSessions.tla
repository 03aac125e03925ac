-------------------------- MODULE MCNativeSessions --------------------------
(* NativeSessions on small instances.                                      *)
EXTENDS NativeSessions

CONSTANTS s1, s2, u1, u2

\* Session ids are used in order, and the second output request only beside the first:
\* another order only renames them.
InOrder ==
  /\ create'[s2] # "idle" => create'[s1] # "idle"
  /\ update[u2] = NoUpdate /\ update'[u2] # NoUpdate => update[u1] # NoUpdate

MCSpec == Init /\ [][Next /\ InOrder]_vars /\ Fairness
=============================================================================
