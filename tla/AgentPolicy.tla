---------------------------- MODULE AgentPolicy ----------------------------
(***************************************************************************)
(* Agent permissions of the porthole daemon: the SQLite AgentStore, the    *)
(* policy decision of porthole-core (agent_policy.rs), the route guard that *)
(* every protected route calls first, the operator's routes, and the events *)
(* published for the helper and the live inbox.                            *)
(*                                                                         *)
(* AgentStore runs each method under one connection mutex, in a transaction *)
(* where it writes, so a store call is one atomic step; handlers interleave *)
(* between store calls.  Callers are slots for protected route calls,       *)
(* Operators are slots for operator requests.  A grant and a remembered     *)
(* denial come from exactly one request and are named by its id.            *)
(***************************************************************************)
EXTENDS Naturals, Sequences, FiniteSets

CONSTANTS
    Agents,         \* agent identities
    Tokens,         \* bearer tokens
    TokenAgent,     \* [Tokens -> Agents]: the identity a token is minted for
    Surfaces,       \* surface handles that can be a target
    Calls,          \* the protected calls agents make: target, action classes and input
    Approvals,      \* the duration and constraint an operator may approve with
    Reqs,           \* permission request ids (bound: requests ever created)
    Callers, Operators,
    MaxRestarts,    \* bound: daemon restarts
    None

ActionClass == {"observe", "drive", "manage", "record"}
Duration == {"once", "until_surface_gone", "session", "time_bounded", "persistent"}
Constraint == {"none", "requires_frontmost", "allowed_input"}

\* What a route call is about: a surface, every surface, or a launch.
Targets == Surfaces \cup {"all_surfaces", "launched_by_agent"}
Tasks == Callers \cup Operators

ASSUME PolicyAssumption ==
    /\ TokenAgent \in [Tokens -> Agents]
    /\ Calls \subseteq [target : Targets, actions : SUBSET ActionClass, input : {"allowed", "other"}]
    /\ Approvals \subseteq [duration : Duration, constraint : Constraint]
    /\ Callers \cap Operators = {}
    /\ MaxRestarts \in Nat
    /\ None \notin Agents \cup Reqs \cup Targets
    /\ {"all_surfaces", "launched_by_agent"} \cap Surfaces = {}

VARIABLES
    agent,          \* [Agents -> "none", "active", "revoked"]: agent_identities
    token,          \* [Tokens -> "none", "active", "revoked"]: agent_tokens
    surface,        \* [Surfaces -> "unborn", "alive", "gone"]: HandleStore
    rstatus,        \* [Reqs -> "none" or the status column]: agent_permission_requests
    rkey,           \* [Reqs -> agent, target and actions of the request]
    gduration,      \* [Reqs -> duration of the grant, "none" without one]: agent_grants
    gconstraint,    \* [Reqs -> constraint of the grant]
    consumed,       \* requests whose grant has consumed_at set
    grevoked,       \* requests whose grant has revoked_at set
    expired,        \* requests whose grant's expires_at has passed
    remembered,     \* requests with a row in agent_denials
    audit,          \* rows of agent_permission_audit: <<decision, request>>
    events,         \* [Reqs -> events published about the request, in order]
    pc, task,       \* where each handler is suspended, and its locals
    uses,           \* [Reqs -> route actions performed under its grant, counted to 2]
    restarts

db == <<agent, token, rstatus, rkey, gduration, gconstraint, consumed, grevoked, remembered, audit>>
grants == <<gduration, gconstraint, consumed, grevoked, expired>>
vars == <<agent, token, surface, rstatus, rkey, gduration, gconstraint, consumed, grevoked,
          expired, remembered, audit, events, pc, task, uses, restarts>>

NoKey == [agent |-> None, target |-> None, actions |-> {}]
Blank == [key |-> NoKey, input |-> "allowed", grant |-> None, retried |-> FALSE, publish |-> FALSE,
          req |-> None, op |-> "none", duration |-> "none", constraint |-> "none"]

Init ==
    /\ agent = [a \in Agents |-> "none"]
    /\ token = [k \in Tokens |-> "none"]
    /\ surface = [s \in Surfaces |-> "unborn"]
    /\ rstatus = [r \in Reqs |-> "none"]
    /\ rkey = [r \in Reqs |-> NoKey]
    /\ gduration = [r \in Reqs |-> "none"]
    /\ gconstraint = [r \in Reqs |-> "none"]
    /\ consumed = {} /\ grevoked = {} /\ expired = {} /\ remembered = {} /\ audit = {}
    /\ events = [r \in Reqs |-> <<>>]
    /\ pc = [t \in Tasks |-> "idle"]
    /\ task = [t \in Tasks |-> Blank]
    /\ uses = [r \in Reqs |-> 0]
    /\ restarts = 0

Goto(t, label, rec) ==
    /\ pc' = [pc EXCEPT ![t] = label]
    /\ task' = [task EXCEPT ![t] = rec]

\* The handler answers its client.
Answer(t) == Goto(t, "idle", Blank)

-----------------------------------------------------------------------------
(* porthole-core: agent_policy.rs *)

\* target_matches; the guard builds contexts only for live surfaces, and only
\* Surface, AllSurfaces and LaunchedByAgent selectors are ever requested.
TargetMatches(selector, target) == selector = "all_surfaces" \/ selector = target

\* actions_match
ActionsMatch(allowed, requested) == requested # {} /\ requested \subseteq allowed

\* The row's agent, target and actions cover what key asks for.
Covers(r, key) ==
    /\ rkey[r].agent = key.agent
    /\ TargetMatches(rkey[r].target, key.target)
    /\ ActionsMatch(rkey[r].actions, key.actions)

\* duration_matches
DurationMatches(r) ==
    \/ gduration[r] \in {"once", "until_surface_gone", "persistent"}
    \/ gduration[r] = "time_bounded" /\ r \notin expired

\* constraints_match: the guard passes no frontmost surface, so requires_frontmost
\* never holds; allowed_input is left to the routes.
ConstraintsMatch(r) == gconstraint[r] # "requires_frontmost"

\* denial_matches over the denials of load_policy_snapshot
Denials(key) == {r \in remembered : Covers(r, key)}

\* grant_matches over the grants of load_policy_snapshot
Grants(key) ==
    {r \in Reqs : /\ gduration[r] # "none" /\ r \notin grevoked
                  /\ ~(gduration[r] = "once" /\ r \in consumed)
                  /\ DurationMatches(r) /\ Covers(r, key) /\ ConstraintsMatch(r)}

-----------------------------------------------------------------------------
(* Protected routes: agent_guard.rs *)

\* authenticate_agent_token: the token and its identity are both unrevoked.
Authenticates(k) == token[k] = "active" /\ agent[TokenAgent[k]] = "active"

\* A protected route is called; a request that does not authenticate is
\* answered at once.
Call(t, k, c) ==
    /\ pc[t] = "idle"
    /\ c.target \in Surfaces => surface[c.target] # "unborn"
    /\ IF Authenticates(k)
       THEN Goto(t, IF c.target \in Surfaces THEN "resolving" ELSE "loading",
                 [Blank EXCEPT !.key = [agent |-> TokenAgent[k], target |-> c.target, actions |-> c.actions],
                               !.input = c.input])
       ELSE Answer(t)
    /\ UNCHANGED <<db, surface, expired, events, uses, restarts>>

\* require_alive on the target surface
Resolve(t) ==
    /\ pc[t] = "resolving"
    /\ IF surface[task[t].key.target] = "alive" THEN Goto(t, "loading", task[t]) ELSE Answer(t)
    /\ UNCHANGED <<db, surface, expired, events, uses, restarts>>

\* load_policy_snapshot and PolicySnapshot::authorize: a denial wins, then any
\* matching grant (the SELECT has no order), then permission is needed.
LoadSnapshot(t) ==
    LET key == task[t].key IN
    /\ pc[t] = "loading"
    /\ \/ Denials(key) # {} /\ Answer(t)
       \/ /\ Denials(key) = {}
          /\ \E g \in Grants(key) :
                Goto(t, IF gduration[g] = "once" THEN "consuming" ELSE "acting",
                     [task[t] EXCEPT !.grant = g])
       \/ /\ Denials(key) = {} /\ Grants(key) = {}
          /\ Goto(t, "asking", [task[t] EXCEPT !.publish = TRUE])
    /\ UNCHANGED <<db, surface, expired, events, uses, restarts>>

\* Mutants: the UPDATE forgets one of its two conditions.
ConsumableTwice(g) == g \notin grevoked
ConsumableRevoked(g) == g \notin consumed

\* try_consume_once_grant succeeds only on an unconsumed, unrevoked grant.
Consumable(g) == g \notin consumed /\ g \notin grevoked

\* A caller that loses the grant to another one looks again once, then asks,
\* without announcing the request it may create.
TryConsume(t) ==
    LET g == task[t].grant IN
    /\ pc[t] = "consuming"
    /\ \/ /\ Consumable(g)
          /\ consumed' = consumed \cup {g}
          /\ Goto(t, "acting", task[t])
       \/ /\ ~Consumable(g) /\ ~task[t].retried
          /\ Goto(t, "loading", [task[t] EXCEPT !.retried = TRUE, !.grant = None])
          /\ UNCHANGED consumed
       \/ /\ ~Consumable(g) /\ task[t].retried
          /\ Goto(t, "asking", [task[t] EXCEPT !.publish = FALSE, !.grant = None])
          /\ UNCHANGED consumed
    /\ UNCHANGED <<agent, token, surface, rstatus, rkey, gduration, gconstraint, grevoked, expired,
                   remembered, audit, events, uses, restarts>>

\* Mutant: only a request that was already announced is found.
PendingAnnounced(key) ==
    {r \in Reqs : rstatus[r] = "pending" /\ rkey[r] = key /\ events[r] # <<>>}

\* The pending request with this key, as select_pending_request finds it.
PendingFor(key) == {r \in Reqs : rstatus[r] = "pending" /\ rkey[r] = key}

\* permission_needed: find_or_create_pending_request, with its audit row.
Ask(t) ==
    LET key == task[t].key IN
    /\ pc[t] = "asking"
    /\ IF PendingFor(key) # {}
       THEN Answer(t) /\ UNCHANGED <<rstatus, rkey, audit>>
       ELSE \E r \in Reqs :
            /\ rstatus[r] = "none"
            /\ rstatus' = [rstatus EXCEPT ![r] = "pending"]
            /\ rkey' = [rkey EXCEPT ![r] = key]
            /\ audit' = audit \cup {<<"requested", r>>}
            /\ IF task[t].publish THEN Goto(t, "announcing", [task[t] EXCEPT !.req = r]) ELSE Answer(t)
    /\ UNCHANGED <<agent, token, surface, grants, remembered, events, uses, restarts>>

Emit(r, kind) == events' = [events EXCEPT ![r] = Append(@, kind)]

\* agent_permission_requested is published after the request is committed.
Announce(t) ==
    /\ pc[t] = "announcing"
    /\ Emit(task[t].req, "requested")
    /\ Answer(t)
    /\ UNCHANGED <<db, surface, expired, uses, restarts>>

\* The route performs its action; a failure ends the request.
Act(t) ==
    LET g == task[t].grant IN
    /\ pc[t] = "acting"
    /\ \/ /\ uses' = [uses EXCEPT ![g] = IF @ < 2 THEN @ + 1 ELSE 2]
          /\ Goto(t, "auditing", task[t])
       \/ Answer(t) /\ UNCHANGED uses
    /\ UNCHANGED <<db, surface, expired, events, restarts>>

\* complete_route_execution: a failed audit insert is only logged.
CompleteExecution(t) ==
    /\ pc[t] = "auditing"
    /\ audit' \in {audit, audit \cup {<<"executed", task[t].grant>>}}
    /\ Answer(t)
    /\ UNCHANGED <<agent, token, surface, rstatus, rkey, grants, remembered, events, uses, restarts>>

-----------------------------------------------------------------------------
(* Operator routes: agent_permissions.rs *)

\* post_approve_request and get_request(s) read the request first.
OpenApprove(t, r, a) ==
    /\ pc[t] = "idle" /\ rstatus[r] = "pending"
    /\ Goto(t, "reviewing", [Blank EXCEPT !.req = r, !.op = "approve", !.duration = a.duration,
                                          !.constraint = a.constraint])
    /\ UNCHANGED <<db, surface, expired, events, uses, restarts>>

OpenGet(t, r) ==
    /\ pc[t] = "idle" /\ rstatus[r] = "pending"
    /\ Goto(t, "reviewing", [Blank EXCEPT !.req = r, !.op = "get"])
    /\ UNCHANGED <<db, surface, expired, events, uses, restarts>>

\* describe: the requester is revoked, or its surface is missing or dead.
Unavailable(r) ==
    \/ agent[rkey[r].agent] # "active"
    \/ rkey[r].target \in Surfaces /\ surface[rkey[r].target] # "alive"

\* Mutant: reading a stale request does not retire it.
ReviewOnly(t) ==
    /\ pc[t] = "reviewing"
    /\ Answer(t)
    /\ UNCHANGED <<db, surface, expired, events, uses, restarts>>

\* request_response: a stale pending request is retired before anything else.
Review(t) ==
    /\ pc[t] = "reviewing"
    /\ \/ Unavailable(task[t].req) /\ Goto(t, "invalidating", task[t])
       \/ ~Unavailable(task[t].req) /\ task[t].op = "approve" /\ Goto(t, "approving", task[t])
       \/ ~Unavailable(task[t].req) /\ task[t].op = "get" /\ Answer(t)
    /\ UNCHANGED <<db, surface, expired, events, uses, restarts>>

\* Mutant: the decision does not check that the request is still pending.
SettleAnyway(t, r, status) ==
    /\ rstatus' = [rstatus EXCEPT ![r] = status]
    /\ audit' = audit \cup {<<status, r>>}
    /\ Goto(t, "publishing", [Blank EXCEPT !.req = r, !.op = status])

\* Mutant: a decision without its audit row.
SettleUnaudited(t, r, status) ==
    /\ rstatus[r] = "pending"
    /\ rstatus' = [rstatus EXCEPT ![r] = status]
    /\ UNCHANGED audit
    /\ Goto(t, "publishing", [Blank EXCEPT !.req = r, !.op = status])

\* Mutant: a status the schema does not know.
SettleUnknown(t, r, status) ==
    /\ rstatus[r] = "pending"
    /\ rstatus' = [rstatus EXCEPT ![r] = "resolved"]
    /\ audit' = audit \cup {<<status, r>>}
    /\ Goto(t, "publishing", [Blank EXCEPT !.req = r, !.op = status])

\* A decision transaction: only a pending request takes the new status; it is
\* published afterwards as agent_permission_resolved.
Settle(t, r, status) ==
    /\ rstatus[r] = "pending"
    /\ rstatus' = [rstatus EXCEPT ![r] = status]
    /\ audit' = audit \cup {<<status, r>>}
    /\ Goto(t, "publishing", [Blank EXCEPT !.req = r, !.op = status])

\* Mutant: the loser of the race announces its own decision all the same.
TooLateAnnounces(t, r) ==
    /\ rstatus[r] # "pending"
    /\ Goto(t, "publishing", [Blank EXCEPT !.req = r, !.op = "invalidated"])
    /\ UNCHANGED <<rstatus, audit>>

\* The other decision won: invalidate keeps the row, approve and deny report
\* that the request is not pending.
TooLate(t, r) ==
    /\ rstatus[r] # "pending"
    /\ Answer(t)
    /\ UNCHANGED <<rstatus, audit>>

\* invalidate_request
Invalidate(t) ==
    /\ pc[t] = "invalidating"
    /\ Settle(t, task[t].req, "invalidated") \/ TooLate(t, task[t].req)
    /\ UNCHANGED <<agent, token, surface, rkey, grants, remembered, events, uses, restarts>>

\* approve_request inserts the grant in the same transaction.
Approve(t) ==
    LET r == task[t].req IN
    /\ pc[t] = "approving"
    /\ \/ /\ Settle(t, r, "approved")
          /\ gduration' = [gduration EXCEPT ![r] = task[t].duration]
          /\ gconstraint' = [gconstraint EXCEPT ![r] = task[t].constraint]
       \/ TooLate(t, r) /\ UNCHANGED <<gduration, gconstraint>>
    /\ UNCHANGED <<agent, token, surface, rkey, consumed, grevoked, expired, remembered,
                   events, uses, restarts>>

\* deny_request, which may remember the denial for future calls.
Deny(t, r, remember) ==
    /\ pc[t] = "idle"
    /\ Settle(t, r, "denied")
    /\ remembered' = IF remember THEN remembered \cup {r} ELSE remembered
    /\ UNCHANGED <<agent, token, surface, rkey, grants, events, uses, restarts>>

Publish(t) ==
    /\ pc[t] = "publishing"
    /\ Emit(task[t].req, task[t].op)
    /\ Answer(t)
    /\ UNCHANGED <<db, surface, expired, uses, restarts>>

\* revoke_grant, whether or not the grant was consumed
RevokeGrant(r) ==
    /\ gduration[r] # "none" /\ r \notin grevoked
    /\ grevoked' = grevoked \cup {r}
    /\ UNCHANGED <<agent, token, surface, rstatus, rkey, gduration, gconstraint, consumed, expired,
                   remembered, audit, events, pc, task, uses, restarts>>

\* create_identity mints the identity's first token.
CreateIdentity(a, k) ==
    /\ agent[a] = "none" /\ TokenAgent[k] = a
    /\ agent' = [agent EXCEPT ![a] = "active"]
    /\ token' = [token EXCEPT ![k] = "active"]
    /\ UNCHANGED <<surface, rstatus, rkey, grants, remembered, audit, events, pc, task, uses, restarts>>

\* revoke_identity revokes the identity's tokens too.
RevokeIdentity(a) ==
    /\ agent[a] = "active"
    /\ agent' = [agent EXCEPT ![a] = "revoked"]
    /\ token' = [k \in Tokens |->
                    IF TokenAgent[k] = a /\ token[k] = "active" THEN "revoked" ELSE token[k]]
    /\ UNCHANGED <<surface, rstatus, rkey, grants, remembered, audit, events, pc, task, uses, restarts>>

\* mint_token, only for an unrevoked identity
MintToken(k) ==
    /\ agent[TokenAgent[k]] = "active" /\ token[k] = "none"
    /\ token' = [token EXCEPT ![k] = "active"]
    /\ UNCHANGED <<agent, surface, rstatus, rkey, grants, remembered, audit, events, pc, task, uses, restarts>>

\* revoke_token
RevokeToken(k) ==
    /\ token[k] = "active"
    /\ token' = [token EXCEPT ![k] = "revoked"]
    /\ UNCHANGED <<agent, surface, rstatus, rkey, grants, remembered, audit, events, pc, task, uses, restarts>>

-----------------------------------------------------------------------------
(* Time, the desktop and the daemon process *)

\* The clock passes a time-bounded grant's expires_at.
Expire(r) ==
    /\ gduration[r] = "time_bounded" /\ r \notin expired
    /\ expired' = expired \cup {r}
    /\ UNCHANGED <<db, surface, events, pc, task, uses, restarts>>

SurfaceChanges(s) ==
    /\ \/ surface[s] = "unborn" /\ surface' = [surface EXCEPT ![s] = "alive"]
       \/ surface[s] = "alive" /\ surface' = [surface EXCEPT ![s] = "gone"]
    /\ UNCHANGED <<db, expired, events, pc, task, uses, restarts>>

\* The database survives a restart; handles, handlers and unpublished events do not.
Restart ==
    /\ restarts < MaxRestarts
    /\ restarts' = restarts + 1
    /\ surface' = [s \in Surfaces |-> IF surface[s] = "alive" THEN "gone" ELSE surface[s]]
    /\ pc' = [t \in Tasks |-> "idle"]
    /\ task' = [t \in Tasks |-> Blank]
    /\ UNCHANGED <<db, expired, events, uses>>

\* A handler whose store call fails (SQLite error, blocking task lost) answers
\* with the error; its transaction is rolled back.
StoreFails(t) ==
    /\ pc[t] \in {"loading", "consuming", "asking", "reviewing", "invalidating", "approving"}
    /\ Answer(t)
    /\ UNCHANGED <<db, surface, expired, events, uses, restarts>>

RunCaller(t) ==
    \/ Resolve(t) \/ LoadSnapshot(t) \/ TryConsume(t) \/ Ask(t) \/ Announce(t)
    \/ Act(t) \/ CompleteExecution(t)

RunOperator(t) == Review(t) \/ Invalidate(t) \/ Approve(t) \/ Publish(t)

StartOperator(t, r) ==
    \/ OpenGet(t, r)
    \/ \E a \in Approvals : OpenApprove(t, r, a)
    \/ \E remember \in BOOLEAN : Deny(t, r, remember)

Next ==
    \/ \E t \in Callers :
        \/ \E k \in Tokens, c \in Calls : Call(t, k, c)
        \/ RunCaller(t)
    \/ \E t \in Operators : RunOperator(t) \/ \E r \in Reqs : StartOperator(t, r)
    \/ \E t \in Tasks : StoreFails(t)
    \/ \E r \in Reqs : RevokeGrant(r) \/ Expire(r)
    \/ \E a \in Agents : RevokeIdentity(a) \/ \E k \in Tokens : CreateIdentity(a, k)
    \/ \E k \in Tokens : MintToken(k) \/ RevokeToken(k)
    \/ \E s \in Surfaces : SurfaceChanges(s)
    \/ Restart

Spec == Init /\ [][Next]_vars

\* The runtime drives every handler to its answer; the live inbox lists the
\* pending requests every two seconds (approvals.rs, network), so each pending
\* request is read again and again; and the store does not fail every time, so
\* a read or a retirement that is retried for ever gets through.
Fairness ==
    \A t \in Operators :
        /\ WF_vars(RunOperator(t)) /\ SF_vars(Review(t)) /\ SF_vars(Invalidate(t))
        /\ \A r \in Reqs : SF_vars(OpenGet(t, r))

FairSpec == Spec /\ Fairness

-----------------------------------------------------------------------------
(* Properties *)

PCs == {"idle", "resolving", "loading", "consuming", "asking", "announcing", "acting", "auditing",
        "reviewing", "invalidating", "approving", "publishing"}
Resolution == {"approved", "denied", "invalidated"}
Key == [agent : Agents \cup {None}, target : Targets \cup {None}, actions : SUBSET ActionClass]
Local == [key : Key, input : {"allowed", "other"}, grant : Reqs \cup {None}, retried : BOOLEAN,
          publish : BOOLEAN, req : Reqs \cup {None}, op : Resolution \cup {"none", "approve", "get"},
          duration : Duration \cup {"none"}, constraint : Constraint]

\* Every variable has its type.
TypeOK ==
    /\ agent \in [Agents -> {"none", "active", "revoked"}]
    /\ token \in [Tokens -> {"none", "active", "revoked"}]
    /\ surface \in [Surfaces -> {"unborn", "alive", "gone"}]
    /\ rstatus \in [Reqs -> {"none", "pending"} \cup Resolution]
    /\ rkey \in [Reqs -> Key]
    /\ gduration \in [Reqs -> Duration \cup {"none"}]
    /\ gconstraint \in [Reqs -> Constraint]
    /\ consumed \subseteq Reqs /\ grevoked \subseteq Reqs
    /\ expired \subseteq Reqs /\ remembered \subseteq Reqs
    /\ audit \subseteq (Resolution \cup {"requested", "executed"}) \X Reqs
    /\ events \in [Reqs -> Seq(Resolution \cup {"requested"})]
    /\ pc \in [Tasks -> PCs]
    /\ task \in [Tasks -> Local]
    /\ uses \in [Reqs -> 0..2]
    /\ restarts \in Nat

\* A "once" grant lets at most one protected call act, however many callers
\* loaded it into their policy snapshot and whatever crashed in between.
OnceGrantUsedOnce == \A r \in Reqs : gduration[r] = "once" => uses[r] <= 1

\* A "once" grant the operator revoked before it was consumed is never used,
\* even by a caller whose snapshot still shows it.
RevokedOnceGrantUnused ==
    [][\A r \in Reqs : (gduration[r] = "once" /\ r \in grevoked \ consumed)
            => r \notin consumed' /\ uses'[r] = 0]_vars

\* Concurrent calls that need the same permission share one pending request.
OnePendingPerKey ==
    \A r, q \in Reqs :
        (rstatus[r] = "pending" /\ rstatus[q] = "pending" /\ rkey[r] = rkey[q]) => r = q

\* Approve, deny and retirement race for a pending request; the first to commit
\* wins for good, and only an approval carries a grant.
DecisionIsFinal ==
    [][\A r \in Reqs :
        /\ rstatus[r] \in Resolution => rstatus'[r] = rstatus[r] /\ gduration'[r] = gduration[r]
        /\ gduration'[r] # "none" => rstatus'[r] = "approved" /\ r \notin remembered']_vars

\* Subscribers of /events see at most one resolution of a request, and it is
\* the decision the store committed.
ResolutionAnnouncedOnce ==
    \A r \in Reqs :
        LET seen == SelectSeq(events[r], LAMBDA e : e \in Resolution) IN
        Len(seen) <= 1 /\ (Len(seen) = 1 => seen[1] = rstatus[r])

\* The audit trail tells the history: one row for each step a request took,
\* none for a step it did not take, and "executed" only after an action that
\* an approval allowed.
AuditMatchesHistory ==
    \A r \in Reqs :
        /\ <<"requested", r>> \in audit <=> rstatus[r] # "none"
        /\ \A d \in Resolution : <<d, r>> \in audit <=> rstatus[r] = d
        /\ <<"executed", r>> \in audit => uses[r] > 0
        /\ uses[r] > 0 => rstatus[r] = "approved"

\* A pending request whose agent was revoked or whose surface is gone is
\* eventually retired, or decided: it does not stay in the inbox for ever.
StaleRequestRetires ==
    \A r \in Reqs : (rstatus[r] = "pending" /\ Unavailable(r)) ~> (rstatus[r] # "pending")
=============================================================================
