----------------------------- MODULE ServiceSlot -----------------------------
(***************************************************************************)
(* What "one native session at a time" promises on macOS: the launchd name *)
(* and the capture pool have one user, and a new session can take them     *)
(* only after the last one has given them up entirely                      *)
(* (crates/portholed/src/capture_registry/native_session.rs, l. 1-3).      *)
(***************************************************************************)
CONSTANTS Sessions, None

VARIABLE user   \* the session that uses the service, or None

Init == user = None

Acquire(s) == user = None /\ user' = s
Release == user # None /\ user' = None

Next == Release \/ \E s \in Sessions : Acquire(s)

Spec == Init /\ [][Next]_user
=============================================================================
