--------------------------- MODULE MCAgentPolicy ---------------------------
(* Small instances of AgentPolicy for TLC. *)
EXTENDS AgentPolicy, TLC

CONSTANTS a1, k1, k2, s1, r1, r2, c1, c2, o1, o2

\* Callers and operators are interchangeable.
Symmetry ==
    Permutations(Callers) \cup Permutations(Operators)

OneAgent == [k \in Tokens |-> a1]

ACall(tg, as, i) == [target |-> tg, actions |-> as, input |-> i]
Allow(d, c) == [duration |-> d, constraint |-> c]

\* Calls and approvals that the store and the guard tell apart.
MixedCalls == {ACall(s1, {"drive"}, "other"), ACall("all_surfaces", {"drive", "observe"}, "allowed")}
MixedApprovals == {Allow("time_bounded", "allowed_input"),
                   Allow("until_surface_gone", "requires_frontmost"), Allow("once", "none")}

\* Two scenarios share a run.  "once": two callers compete for one kind of grant
\* across a restart, with one operator and one token.  "decisions": two operators
\* decide about one caller's one request of any kind.
VARIABLE scenario

Busy(ts) == Cardinality({t \in ts : pc'[t] # "idle"})

\* Tokens and request ids are taken in order.
InOrder ==
    /\ \A k \in Tokens : token'[k] # "none" => token'[k1] # "none"
    /\ \A r \in Reqs : rstatus'[r] # "none" => rstatus'[r1] # "none"

InScenario ==
    \/ /\ scenario = "once"
       /\ Busy(Operators) <= 1 /\ \A k \in Tokens : token'[k] # "none" => k = k1
       /\ \A t \in Callers : task'[t].key.target \in {None, s1}
       /\ \A t \in Operators : task'[t].op = "approve" => task'[t].duration = "once"
    \/ /\ scenario = "decisions"
       /\ Busy(Callers) <= 1 /\ restarts' = 0
       /\ Cardinality({r \in Reqs : rstatus'[r] # "none"}) <= 1

MCInit == Init /\ scenario \in {"once", "decisions"}
MCNext == Next /\ InOrder /\ InScenario /\ UNCHANGED scenario
MCSpec == MCInit /\ [][MCNext]_<<vars, scenario>>
=============================================================================
