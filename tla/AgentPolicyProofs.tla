-------------------------- MODULE AgentPolicyProofs --------------------------
(***************************************************************************)
(* Proofs about AgentPolicy, for any agents, tokens, surfaces, requests,    *)
(* callers and operators and any number of restarts.                        *)
(***************************************************************************)
EXTENDS AgentPolicy, SequenceTheorems, TLAPS

-----------------------------------------------------------------------------
(* Type correctness *)

\* Every handler label and record a step writes has its type.
LEMMA GotoType ==
    ASSUME TypeOK, NEW t \in Tasks, NEW label \in PCs, NEW rec \in Local, Goto(t, label, rec)
    PROVE  pc' \in [Tasks -> PCs] /\ task' \in [Tasks -> Local]
BY DEF TypeOK, Goto

\* Between two requests a handler's locals are blank.
LEMMA BlankType == Blank \in Local
BY DEF Blank, Local, NoKey, Key, Duration, Constraint

\* An answer leaves the handler idle.
LEMMA AnswerType ==
    ASSUME TypeOK, NEW t \in Tasks, Answer(t)
    PROVE  pc' \in [Tasks -> PCs] /\ task' \in [Tasks -> Local]
<1>1. "idle" \in PCs
  BY DEF PCs
<1> QED BY <1>1, GotoType, BlankType DEF Answer

\* A published event is appended to the events of its request.
LEMMA EmitType ==
    ASSUME TypeOK, NEW r \in Reqs, NEW kind \in Resolution \cup {"requested"}, Emit(r, kind)
    PROVE  events' \in [Reqs -> Seq(Resolution \cup {"requested"})]
<1>1. events[r] \in Seq(Resolution \cup {"requested"})
  BY DEF TypeOK
<1>2. Append(events[r], kind) \in Seq(Resolution \cup {"requested"})
  BY <1>1, AppendProperties
<1> QED BY <1>2 DEF TypeOK, Emit

\* What a suspended handler remembers is there: the grant it acts under, the
\* request it works on, the duration it approves with.
HandlerOK(durations, label, local) ==
    /\ label \in {"consuming", "acting", "auditing"} =>
          local.grant \in Reqs /\ durations[local.grant] # "none"
    /\ label \in {"announcing", "reviewing", "invalidating", "approving", "publishing"} => local.req \in Reqs
    /\ label = "publishing" => local.op \in Resolution
    /\ label = "approving" => local.op = "approve"
    /\ label \in {"reviewing", "approving"} /\ local.op = "approve" => local.duration \in Duration

HandlerInv == \A t \in Tasks : HandlerOK(gduration, pc[t], task[t])

Typed == TypeOK /\ HandlerInv

\* A grant, once inserted, stays.
GrantsStay == \A r \in Reqs : gduration[r] # "none" => gduration'[r] # "none"

\* One handler goes on, to a label it is ready for.
Moves(t) ==
    \E label \in PCs, rec \in Local : Goto(t, label, rec) /\ HandlerOK(gduration', label, rec)

\* A handler that goes on keeps the handlers' types and memories.
LEMMA MovesType ==
    ASSUME Typed, NEW t \in Tasks, Moves(t), GrantsStay
    PROVE  pc' \in [Tasks -> PCs] /\ task' \in [Tasks -> Local] /\ HandlerInv'
<1>1. PICK label \in PCs, rec \in Local : Goto(t, label, rec) /\ HandlerOK(gduration', label, rec)
  BY DEF Moves
<1>2. pc' \in [Tasks -> PCs] /\ task' \in [Tasks -> Local]
  BY <1>1, GotoType DEF Typed
<1>3. ASSUME NEW u \in Tasks PROVE HandlerOK(gduration', pc'[u], task'[u])
  <2>1. CASE u = t
    BY <1>1, <2>1 DEF Goto, Typed, TypeOK
  <2>2. CASE u # t
    <3>1. pc'[u] = pc[u] /\ task'[u] = task[u]
      BY <1>1, <2>2 DEF Goto, Typed, TypeOK
    <3>2. HandlerOK(gduration, pc[u], task[u])
      BY DEF Typed, HandlerInv
    <3> QED BY <3>1, <3>2 DEF HandlerOK, GrantsStay
  <2> QED BY <2>1, <2>2
<1> QED BY <1>2, <1>3 DEF HandlerInv

\* An answer asks nothing of the handler.
LEMMA AnswerMoves ==
    ASSUME NEW t \in Tasks, Answer(t)
    PROVE  Moves(t)
BY BlankType DEF Answer, Moves, HandlerOK, PCs

\* A handler that is not touched keeps what it remembers.
LEMMA RestKeeps ==
    ASSUME Typed, GrantsStay, UNCHANGED <<pc, task>>
    PROVE  pc' \in [Tasks -> PCs] /\ task' \in [Tasks -> Local] /\ HandlerInv'
BY DEF Typed, TypeOK, HandlerInv, HandlerOK, GrantsStay

\* A protected call keeps the types up to the answer of its route.
LEMMA CallerType ==
    ASSUME Typed, NEW t \in Callers, RunCaller(t)
    PROVE  Typed'
<1> USE PolicyAssumption DEF Tasks
<1>0. task[t] \in Local /\ task[t].key \in Key /\ HandlerOK(gduration, pc[t], task[t])
  BY DEF Typed, TypeOK, Local, HandlerInv
<1>1. CASE Resolve(t)
  <2>1. Moves(t)
    BY <1>0, <1>1, AnswerMoves DEF Resolve, Moves, HandlerOK, PCs
  <2>2. GrantsStay
    BY <1>1 DEF Resolve, GrantsStay, db, Typed
  <2> QED BY <1>1, <2>1, <2>2, MovesType DEF Typed, TypeOK, Resolve, db
<1>2. CASE LoadSnapshot(t)
  <2>1. ASSUME NEW g \in Grants(task[t].key),
               Goto(t, IF gduration[g] = "once" THEN "consuming" ELSE "acting", [task[t] EXCEPT !.grant = g])
        PROVE  Moves(t)
    <3> DEFINE rec == [task[t] EXCEPT !.grant = g]
    <3>1. g \in Reqs /\ gduration[g] # "none" /\ gduration' = gduration
      BY <1>2 DEF Grants, LoadSnapshot, db
    <3>2. rec \in Local /\ rec.grant = g
      BY <1>0, <3>1 DEF Local
    <3> QED BY <2>1, <3>1, <3>2 DEF Moves, HandlerOK, PCs
  <2>2. ASSUME Goto(t, "asking", [task[t] EXCEPT !.publish = TRUE]) PROVE Moves(t)
    <3>1. [task[t] EXCEPT !.publish = TRUE] \in Local
      BY <1>0 DEF Local
    <3> QED BY <2>2, <3>1 DEF Moves, HandlerOK, PCs
  <2>3. Moves(t)
    BY <1>2, <2>1, <2>2, AnswerMoves DEF LoadSnapshot
  <2>4. GrantsStay
    BY <1>2 DEF LoadSnapshot, GrantsStay, db
  <2> QED BY <1>2, <2>3, <2>4, MovesType DEF Typed, TypeOK, LoadSnapshot, db
<1>3. CASE TryConsume(t)
  <2>1. /\ [task[t] EXCEPT !.retried = TRUE, !.grant = None] \in Local
        /\ [task[t] EXCEPT !.publish = FALSE, !.grant = None] \in Local
    BY <1>0 DEF Local
  <2>2. Moves(t)
    BY <1>0, <1>3, <2>1 DEF TryConsume, Moves, HandlerOK, PCs
  <2>3. GrantsStay
    BY <1>3 DEF TryConsume, GrantsStay
  <2>4. consumed' \subseteq Reqs
    BY <1>0, <1>3 DEF TryConsume, HandlerOK, Typed, TypeOK
  <2> QED BY <1>3, <2>2, <2>3, <2>4, MovesType DEF Typed, TypeOK, TryConsume
<1>4. CASE Ask(t)
  <2>1. CASE PendingFor(task[t].key) # {}
    <3>1. Answer(t) /\ UNCHANGED <<rstatus, rkey, audit>>
      BY <1>4, <2>1 DEF Ask
    <3>2. GrantsStay
      BY <1>4 DEF Ask, GrantsStay, grants
    <3> QED BY <1>4, <3>1, <3>2, AnswerMoves, MovesType DEF Typed, TypeOK, Ask, grants
  <2>2. CASE ~(PendingFor(task[t].key) # {})
    <3>1. PICK r \in Reqs :
            /\ rstatus' = [rstatus EXCEPT ![r] = "pending"]
            /\ rkey' = [rkey EXCEPT ![r] = task[t].key]
            /\ audit' = audit \cup {<<"requested", r>>}
            /\ \/ Goto(t, "announcing", [task[t] EXCEPT !.req = r])
               \/ Answer(t)
      BY <1>4, <2>2 DEF Ask
    <3>2. Moves(t)
      <4> DEFINE rec == [task[t] EXCEPT !.req = r]
      <4>1. rec \in Local /\ rec.req = r
        BY <1>0 DEF Local
      <4>2. CASE Goto(t, "announcing", rec)
        BY <4>1, <4>2 DEF Moves, HandlerOK, PCs
      <4> QED BY <3>1, <4>2, AnswerMoves
    <3>3. GrantsStay
      BY <1>4 DEF Ask, GrantsStay, grants
    <3>4. rstatus' \in [Reqs -> {"none", "pending"} \cup Resolution]
      BY <3>1 DEF Typed, TypeOK
    <3>5. rkey' \in [Reqs -> Key]
      BY <1>0, <3>1 DEF Typed, TypeOK
    <3>6. audit' \subseteq (Resolution \cup {"requested", "executed"}) \X Reqs
      BY <3>1 DEF Typed, TypeOK
    <3> QED BY <1>4, <3>2, <3>3, <3>4, <3>5, <3>6, MovesType DEF Typed, TypeOK, Ask, grants
  <2> QED BY <2>1, <2>2
<1>5. CASE Announce(t)
  <2>1. Moves(t)
    BY <1>5, AnswerMoves DEF Announce
  <2>2. GrantsStay
    BY <1>5 DEF Announce, GrantsStay, db
  <2>3. task[t].req \in Reqs
    BY <1>0, <1>5 DEF HandlerOK, Announce
  <2> QED BY <1>5, <2>1, <2>2, <2>3, MovesType, EmitType DEF Typed, TypeOK, Announce, db
<1>6. CASE Act(t)
  <2>1. Moves(t)
    BY <1>0, <1>6, AnswerMoves DEF Act, Moves, HandlerOK, PCs, db
  <2>2. GrantsStay
    BY <1>6 DEF Act, GrantsStay, db
  <2>3. uses' \in [Reqs -> 0..2]
    <3>1. CASE uses' = [uses EXCEPT ![task[t].grant] = IF @ < 2 THEN @ + 1 ELSE 2]
      <4>1. uses \in [Reqs -> 0..2]
        BY DEF Typed, TypeOK
      <4>2. \A n \in 0..2 : (IF n < 2 THEN n + 1 ELSE 2) \in 0..2
        OBVIOUS
      <4> QED BY <3>1, <4>1, <4>2
    <3>2. CASE UNCHANGED uses
      BY <3>2 DEF Typed, TypeOK
    <3> QED BY <1>6, <3>1, <3>2 DEF Act
  <2> QED BY <1>6, <2>1, <2>2, <2>3, MovesType DEF Typed, TypeOK, Act, db
<1>7. CASE CompleteExecution(t)
  <2>1. Moves(t)
    BY <1>7, AnswerMoves DEF CompleteExecution
  <2>2. GrantsStay
    BY <1>7 DEF CompleteExecution, GrantsStay, grants
  <2>3. audit' \subseteq (Resolution \cup {"requested", "executed"}) \X Reqs
    BY <1>0, <1>7 DEF Typed, TypeOK, CompleteExecution, HandlerOK
  <2> QED BY <1>7, <2>1, <2>2, <2>3, MovesType DEF Typed, TypeOK, CompleteExecution, grants
<1> QED BY <1>1, <1>2, <1>3, <1>4, <1>5, <1>6, <1>7 DEF RunCaller

\* A decision settles one request and is about to be published.
LEMMA SettleType ==
    ASSUME Typed, NEW t \in Tasks, NEW r \in Reqs, NEW status \in Resolution,
           Settle(t, r, status), GrantsStay
    PROVE  /\ rstatus' \in [Reqs -> {"none", "pending"} \cup Resolution]
           /\ audit' \subseteq (Resolution \cup {"requested", "executed"}) \X Reqs
           /\ pc' \in [Tasks -> PCs] /\ task' \in [Tasks -> Local] /\ HandlerInv'
<1> DEFINE rec == [Blank EXCEPT !.req = r, !.op = status]
<1>1. rec \in Local /\ rec.req = r /\ rec.op = status
  BY BlankType DEF Local, Blank
<1>2. Goto(t, "publishing", rec)
  BY DEF Settle
<1>3. Moves(t)
  BY <1>1, <1>2 DEF Moves, HandlerOK, PCs
<1>4. rstatus' \in [Reqs -> {"none", "pending"} \cup Resolution]
  BY DEF Settle, Typed, TypeOK
<1>5. audit' \subseteq (Resolution \cup {"requested", "executed"}) \X Reqs
  BY DEF Settle, Typed, TypeOK
<1> QED BY <1>3, <1>4, <1>5, MovesType

\* An operator's request keeps the types up to its answer.
LEMMA OperatorType ==
    ASSUME Typed, NEW t \in Operators, RunOperator(t)
    PROVE  Typed'
<1> USE PolicyAssumption DEF Tasks
<1>0. task[t] \in Local /\ HandlerOK(gduration, pc[t], task[t])
  BY DEF Typed, TypeOK, HandlerInv
<1>1. CASE Review(t)
  <2>1. Moves(t)
    BY <1>0, <1>1, AnswerMoves DEF Review, Moves, HandlerOK, PCs
  <2>2. GrantsStay
    BY <1>1 DEF Review, GrantsStay, db
  <2> QED BY <1>1, <2>1, <2>2, MovesType DEF Typed, TypeOK, Review, db
<1>2. CASE Invalidate(t)
  <2>1. task[t].req \in Reqs
    BY <1>0, <1>2 DEF Invalidate, HandlerOK
  <2>2. GrantsStay
    BY <1>2 DEF Invalidate, GrantsStay, grants
  <2>3. CASE Settle(t, task[t].req, "invalidated")
    <3>1. /\ rstatus' \in [Reqs -> {"none", "pending"} \cup Resolution]
          /\ audit' \subseteq (Resolution \cup {"requested", "executed"}) \X Reqs
          /\ pc' \in [Tasks -> PCs] /\ task' \in [Tasks -> Local] /\ HandlerInv'
      BY <2>1, <2>2, <2>3, SettleType DEF Resolution
    <3> QED BY <1>2, <3>1 DEF Invalidate, Typed, TypeOK, grants
  <2>4. CASE TooLate(t, task[t].req)
    BY <1>2, <2>2, <2>4, AnswerMoves, MovesType DEF TooLate, Invalidate, Typed, TypeOK, grants
  <2> QED BY <1>2, <2>3, <2>4 DEF Invalidate
<1>3. CASE Approve(t)
  <2>1. task[t].req \in Reqs /\ task[t].duration \in Duration /\ task[t].constraint \in Constraint
    BY <1>0, <1>3 DEF Approve, HandlerOK, Local
  <2>2. CASE /\ Settle(t, task[t].req, "approved")
             /\ gduration' = [gduration EXCEPT ![task[t].req] = task[t].duration]
             /\ gconstraint' = [gconstraint EXCEPT ![task[t].req] = task[t].constraint]
    <3>2. GrantsStay
      BY <2>1, <2>2 DEF GrantsStay, Typed, TypeOK, Duration
    <3>3. gduration' \in [Reqs -> Duration \cup {"none"}]
      BY <2>1, <2>2 DEF Typed, TypeOK
    <3>4. gconstraint' \in [Reqs -> Constraint]
      BY <2>1, <2>2 DEF Typed, TypeOK
    <3>5. /\ rstatus' \in [Reqs -> {"none", "pending"} \cup Resolution]
          /\ audit' \subseteq (Resolution \cup {"requested", "executed"}) \X Reqs
          /\ pc' \in [Tasks -> PCs] /\ task' \in [Tasks -> Local] /\ HandlerInv'
      BY <2>1, <2>2, <3>2, SettleType DEF Resolution
    <3> QED BY <1>3, <3>3, <3>4, <3>5 DEF Approve, Typed, TypeOK
  <2>3. CASE TooLate(t, task[t].req) /\ UNCHANGED <<gduration, gconstraint>>
    <3>1. GrantsStay
      BY <2>3 DEF GrantsStay
    <3> QED BY <1>3, <2>3, <3>1, AnswerMoves, MovesType DEF TooLate, Approve, Typed, TypeOK
  <2> QED BY <1>3, <2>2, <2>3 DEF Approve
<1>4. CASE Publish(t)
  <2>1. Moves(t)
    BY <1>4, AnswerMoves DEF Publish
  <2>2. GrantsStay
    BY <1>4 DEF Publish, GrantsStay, db
  <2>3. task[t].req \in Reqs /\ task[t].op \in Resolution
    BY <1>0, <1>4 DEF HandlerOK, Publish
  <2> QED BY <1>4, <2>1, <2>2, <2>3, MovesType, EmitType DEF Typed, TypeOK, Publish, db
<1> QED BY <1>1, <1>2, <1>3, <1>4 DEF RunOperator

\* A protected call begins, for a key within the permission vocabulary.
LEMMA CallType ==
    ASSUME Typed, NEW t \in Callers, NEW k \in Tokens, NEW c \in Calls, Call(t, k, c)
    PROVE  Typed'
<1> USE PolicyAssumption DEF Tasks
<1> DEFINE rec == [Blank EXCEPT !.key = [agent |-> TokenAgent[k], target |-> c.target, actions |-> c.actions],
                                !.input = c.input]
<1>1. rec \in Local
  <2>1. /\ c.target \in Targets /\ c.actions \in SUBSET ActionClass /\ c.input \in {"allowed", "other"}
        /\ TokenAgent[k] \in Agents
    OBVIOUS
  <2>2. [agent |-> TokenAgent[k], target |-> c.target, actions |-> c.actions] \in Key
    BY <2>1 DEF Key
  <2> QED BY <2>1, <2>2, BlankType DEF Local, Blank
<1>2. ASSUME Authenticates(k) PROVE Moves(t)
  <2>1. \E label \in {"resolving", "loading"} : Goto(t, label, rec)
    BY <1>2 DEF Call
  <2> QED BY <1>1, <2>1 DEF Moves, HandlerOK, PCs
<1>3. Moves(t)
  <2>1. ASSUME ~Authenticates(k) PROVE Answer(t)
    BY <2>1 DEF Call
  <2> QED BY <1>2, <2>1, AnswerMoves
<1>4. GrantsStay
  BY DEF Call, GrantsStay, db
<1> QED BY <1>3, <1>4, MovesType DEF Typed, TypeOK, Call, db

\* An operator's request begins: a read, an approval or a denial.
LEMMA StartOperatorType ==
    ASSUME Typed, NEW t \in Operators, NEW r \in Reqs, StartOperator(t, r)
    PROVE  Typed'
<1> USE PolicyAssumption DEF Tasks
<1>1. CASE OpenGet(t, r)
  <2> DEFINE rec == [Blank EXCEPT !.req = r, !.op = "get"]
  <2>1. rec \in Local /\ rec.req = r /\ rec.op = "get"
    BY BlankType DEF Local, Blank
  <2>2. Goto(t, "reviewing", rec)
    BY <1>1 DEF OpenGet
  <2>3. Moves(t)
    BY <2>1, <2>2 DEF Moves, HandlerOK, PCs
  <2>4. GrantsStay
    BY <1>1 DEF OpenGet, GrantsStay, db
  <2> QED BY <1>1, <2>3, <2>4, MovesType DEF Typed, TypeOK, OpenGet, db
<1>2. ASSUME NEW a \in Approvals, OpenApprove(t, r, a) PROVE Typed'
  <2> DEFINE rec == [Blank EXCEPT !.req = r, !.op = "approve", !.duration = a.duration,
                                  !.constraint = a.constraint]
  <2>1. a.duration \in Duration /\ a.constraint \in Constraint
    OBVIOUS
  <2>2. rec \in Local /\ rec.req = r /\ rec.op = "approve" /\ rec.duration \in Duration
    BY <2>1, BlankType DEF Local, Blank
  <2>3. Goto(t, "reviewing", rec)
    BY <1>2 DEF OpenApprove
  <2>4. Moves(t)
    BY <2>2, <2>3 DEF Moves, HandlerOK, PCs
  <2>5. GrantsStay
    BY <1>2 DEF OpenApprove, GrantsStay, db
  <2> QED BY <1>2, <2>4, <2>5, MovesType DEF Typed, TypeOK, OpenApprove, db
<1>3. ASSUME NEW remember \in BOOLEAN, Deny(t, r, remember) PROVE Typed'
  <2>1. GrantsStay
    BY <1>3 DEF Deny, GrantsStay, grants
  <2>2. Settle(t, r, "denied")
    BY <1>3 DEF Deny
  <2>3. /\ rstatus' \in [Reqs -> {"none", "pending"} \cup Resolution]
        /\ audit' \subseteq (Resolution \cup {"requested", "executed"}) \X Reqs
        /\ pc' \in [Tasks -> PCs] /\ task' \in [Tasks -> Local] /\ HandlerInv'
    BY <2>1, <2>2, SettleType DEF Resolution
  <2> QED BY <1>3, <2>3 DEF Deny, Typed, TypeOK, grants
<1> QED BY <1>1, <1>2, <1>3 DEF StartOperator

\* The steps no handler takes: the operator's administration, the clock, the
\* desktop, a failing store and a restarted daemon.
LEMMA OutsideType ==
    ASSUME Typed,
           \/ \E t \in Tasks : StoreFails(t)
           \/ \E r \in Reqs : RevokeGrant(r) \/ Expire(r)
           \/ \E a \in Agents : RevokeIdentity(a) \/ \E k \in Tokens : CreateIdentity(a, k)
           \/ \E k \in Tokens : MintToken(k) \/ RevokeToken(k)
           \/ \E s \in Surfaces : SurfaceChanges(s)
           \/ Restart
    PROVE  Typed'
<1>1. ASSUME NEW t \in Tasks, StoreFails(t) PROVE Typed'
  <2>1. Moves(t) /\ GrantsStay
    BY <1>1, AnswerMoves DEF StoreFails, GrantsStay, db
  <2> QED BY <1>1, <2>1, MovesType DEF Typed, TypeOK, StoreFails, db
<1>2. ASSUME NEW r \in Reqs, RevokeGrant(r) PROVE Typed'
  BY <1>2 DEF RevokeGrant, Typed, TypeOK, HandlerInv
<1>3. ASSUME NEW r \in Reqs, Expire(r) PROVE Typed'
  BY <1>3 DEF Expire, Typed, TypeOK, HandlerInv, db
<1>4. ASSUME NEW a \in Agents, RevokeIdentity(a) PROVE Typed'
  BY <1>4 DEF RevokeIdentity, Typed, TypeOK, HandlerInv, grants
<1>5. ASSUME NEW a \in Agents, NEW k \in Tokens, CreateIdentity(a, k) PROVE Typed'
  BY <1>5 DEF CreateIdentity, Typed, TypeOK, HandlerInv, grants
<1>6. ASSUME NEW k \in Tokens, MintToken(k) PROVE Typed'
  BY <1>6 DEF MintToken, Typed, TypeOK, HandlerInv, grants
<1>7. ASSUME NEW k \in Tokens, RevokeToken(k) PROVE Typed'
  BY <1>7 DEF RevokeToken, Typed, TypeOK, HandlerInv, grants
<1>8. ASSUME NEW s \in Surfaces, SurfaceChanges(s) PROVE Typed'
  BY <1>8 DEF SurfaceChanges, Typed, TypeOK, HandlerInv, db
<1>9. ASSUME Restart PROVE Typed'
  <2>1. pc' \in [Tasks -> PCs] /\ task' \in [Tasks -> Local] /\ HandlerInv'
    BY <1>9, BlankType DEF Restart, PCs, HandlerInv, HandlerOK
  <2>2. surface' \in [Surfaces -> {"unborn", "alive", "gone"}]
    BY <1>9 DEF Restart, Typed, TypeOK
  <2>3. restarts' \in Nat
    BY <1>9 DEF Restart, Typed, TypeOK
  <2> QED BY <1>9, <2>1, <2>2, <2>3 DEF Restart, Typed, TypeOK, db
<1> QED BY <1>1, <1>2, <1>3, <1>4, <1>5, <1>6, <1>7, <1>8, <1>9

LEMMA InitType == Init => Typed
<1> SUFFICES ASSUME Init PROVE Typed
  OBVIOUS
<1>1. <<>> \in Seq(Resolution \cup {"requested"})
  OBVIOUS
<1>2. NoKey \in Key
  BY DEF NoKey, Key
<1> QED BY <1>1, <1>2, BlankType DEF Init, Typed, TypeOK, HandlerInv, HandlerOK, PCs, Constraint

\* Every step keeps the types.
LEMMA NextType == Typed /\ [Next]_vars => Typed'
<1> SUFFICES ASSUME Typed, [Next]_vars PROVE Typed'
  OBVIOUS
<1>1. CASE UNCHANGED vars
  BY <1>1 DEF vars, Typed, TypeOK, HandlerInv
<1>2. CASE Next
  BY <1>2, CallType, CallerType, OperatorType, StartOperatorType, OutsideType DEF Next
<1> QED BY <1>1, <1>2

\* agent_store.rs, agent_guard.rs: the store's columns, the events and the
\* handlers' locals have their types in every reachable state.
THEOREM PolicyTypeCorrect == Spec => []TypeOK
<1>1. Spec => []Typed
  BY InitType, NextType, PTL DEF Spec
<1>2. Typed => TypeOK
  BY DEF Typed
<1> QED BY <1>1, <1>2, PTL

-----------------------------------------------------------------------------
(* Once grants, pending requests and decisions *)

\* The handler is about to act under this once grant.
Holds(t, r) == pc[t] = "acting" /\ task[t].grant = r /\ gduration[r] = "once"

\* Why a once grant is used once: a handler acts under it only after it consumed
\* it, no two handlers consumed it, and its one use is after that.  A request
\* has a grant only if it was approved, and is remembered only if it was denied.
OnceInv ==
    \A r \in Reqs :
        /\ gduration[r] # "none" => rstatus[r] = "approved"
        /\ r \in remembered => rstatus[r] = "denied"
        /\ gduration[r] = "none" => r \notin consumed /\ uses[r] = 0
        /\ gduration[r] = "once" => uses[r] <= 1 /\ (uses[r] > 0 => r \in consumed)
        /\ \A t \in Tasks : Holds(t, r) => r \in consumed /\ uses[r] = 0
        /\ \A t, u \in Tasks : Holds(t, r) /\ Holds(u, r) => t = u

StoreInv == Typed /\ OnceInv /\ OnePendingPerKey

\* What no step does: change a decision, or use a once grant that was revoked
\* before it was consumed.
FinalStep ==
    \A r \in Reqs :
        /\ rstatus[r] \in Resolution => rstatus'[r] = rstatus[r] /\ gduration'[r] = gduration[r]
        /\ gduration'[r] # "none" => rstatus'[r] = "approved" /\ r \notin remembered'

RevokedStep ==
    \A r \in Reqs : (gduration[r] = "once" /\ r \in grevoked \ consumed)
            => r \notin consumed' /\ uses'[r] = 0

Kept == OnceInv' /\ OnePendingPerKey' /\ FinalStep /\ RevokedStep

\* No handler comes to act under a once grant.
NobodyTakes == \A t \in Tasks, r \in Reqs : Holds(t, r)' => Holds(t, r)

LEMMA GotoTakes ==
    ASSUME Typed, NEW t \in Tasks, NEW label, NEW rec, Goto(t, label, rec), UNCHANGED gduration,
           label # "acting" \/ gduration[rec.grant] # "once"
    PROVE  NobodyTakes
BY DEF Typed, TypeOK, Goto, NobodyTakes, Holds

LEMMA AnswerTakes ==
    ASSUME Typed, NEW t \in Tasks, Answer(t), UNCHANGED gduration
    PROVE  NobodyTakes
BY GotoTakes DEF Answer

\* A step that makes no request pending, settles none by approval or with a
\* memory, and neither consumes nor uses a grant.
Quiet ==
    /\ UNCHANGED <<gduration, consumed, uses, remembered>>
    /\ NobodyTakes
    /\ \A r \in Reqs :
        /\ rstatus[r] \in Resolution => rstatus'[r] = rstatus[r]
        /\ rstatus'[r] = "pending" => rstatus[r] = "pending" /\ rkey'[r] = rkey[r]

LEMMA QuietKeeps ==
    ASSUME StoreInv, Quiet
    PROVE  Kept
<1>1. OnceInv'
  <2> SUFFICES ASSUME NEW r \in Reqs
               PROVE  /\ gduration'[r] # "none" => rstatus'[r] = "approved"
                      /\ r \in remembered' => rstatus'[r] = "denied"
                      /\ gduration'[r] = "none" => r \notin consumed' /\ uses'[r] = 0
                      /\ gduration'[r] = "once" => uses'[r] <= 1 /\ (uses'[r] > 0 => r \in consumed')
                      /\ \A t \in Tasks : Holds(t, r)' => r \in consumed' /\ uses'[r] = 0
                      /\ \A t, u \in Tasks : Holds(t, r)' /\ Holds(u, r)' => t = u
    BY DEF OnceInv
  <2>1. /\ gduration'[r] # "none" => rstatus'[r] = "approved"
        /\ r \in remembered' => rstatus'[r] = "denied"
        /\ gduration'[r] = "none" => r \notin consumed' /\ uses'[r] = 0
        /\ gduration'[r] = "once" => uses'[r] <= 1 /\ (uses'[r] > 0 => r \in consumed')
    BY DEF StoreInv, OnceInv, Quiet, Resolution
  <2>2. \A t \in Tasks : Holds(t, r)' => r \in consumed' /\ uses'[r] = 0
    BY DEF StoreInv, OnceInv, Quiet, NobodyTakes
  <2>3. \A t, u \in Tasks : Holds(t, r)' /\ Holds(u, r)' => t = u
    BY DEF StoreInv, OnceInv, Quiet, NobodyTakes
  <2> QED BY <2>1, <2>2, <2>3
<1>2. OnePendingPerKey'
  BY DEF StoreInv, Quiet, OnePendingPerKey
<1>3. FinalStep
  BY DEF StoreInv, OnceInv, Quiet, FinalStep, Resolution
<1>4. RevokedStep
  <2> SUFFICES ASSUME NEW r \in Reqs, gduration[r] = "once", r \in grevoked \ consumed
               PROVE  r \notin consumed' /\ uses'[r] = 0
    BY DEF RevokedStep
  <2>1. uses[r] \in 0..2 /\ ~(uses[r] > 0)
    BY DEF StoreInv, OnceInv, Typed, TypeOK
  <2> QED BY <2>1 DEF Quiet
<1> QED BY <1>1, <1>2, <1>3, <1>4 DEF Kept

\* try_consume_once_grant: one caller takes the grant, and nobody had it.
LEMMA TryConsumeKeeps ==
    ASSUME StoreInv, NEW t \in Tasks, TryConsume(t)
    PROVE  Kept
<1> DEFINE g == task[t].grant
<1>1. CASE Consumable(g) /\ consumed' = consumed \cup {g} /\ Goto(t, "acting", task[t])
  <2>1. g \in Reqs /\ gduration[g] # "none"
    BY DEF StoreInv, Typed, HandlerInv, HandlerOK, TryConsume
  <2>2. UNCHANGED <<gduration, uses, remembered, rstatus, rkey>>
    BY DEF TryConsume
  <2>3. \A u \in Tasks, r \in Reqs : Holds(u, r)' => Holds(u, r) \/ (u = t /\ r = g)
    BY <1>1, <2>2 DEF Goto, StoreInv, Typed, TypeOK, Holds
  <2>4. g \notin consumed /\ g \notin grevoked
    BY <1>1 DEF Consumable
  <2>5. gduration[g] = "once" => uses[g] = 0
    <3>1. uses[g] \in 0..2
      BY <2>1 DEF StoreInv, Typed, TypeOK
    <3> QED BY <2>1, <2>4, <3>1 DEF StoreInv, OnceInv
  <2>6. \A u \in Tasks : ~Holds(u, g)
    BY <2>1, <2>4 DEF StoreInv, OnceInv
  <2>7. OnceInv'
    <3> SUFFICES ASSUME NEW r \in Reqs
                 PROVE  /\ gduration'[r] # "none" => rstatus'[r] = "approved"
                        /\ r \in remembered' => rstatus'[r] = "denied"
                        /\ gduration'[r] = "none" => r \notin consumed' /\ uses'[r] = 0
                        /\ gduration'[r] = "once" => uses'[r] <= 1 /\ (uses'[r] > 0 => r \in consumed')
                        /\ \A u \in Tasks : Holds(u, r)' => r \in consumed' /\ uses'[r] = 0
                        /\ \A u, v \in Tasks : Holds(u, r)' /\ Holds(v, r)' => u = v
      BY DEF OnceInv
    <3>1. /\ gduration'[r] # "none" => rstatus'[r] = "approved"
          /\ r \in remembered' => rstatus'[r] = "denied"
      BY <2>2 DEF StoreInv, OnceInv
    <3>2. gduration'[r] = "none" => r \notin consumed' /\ uses'[r] = 0
      BY <1>1, <2>1, <2>2 DEF StoreInv, OnceInv
    <3>3. gduration'[r] = "once" => uses'[r] <= 1 /\ (uses'[r] > 0 => r \in consumed')
      BY <1>1, <2>2 DEF StoreInv, OnceInv
    <3>4. \A u \in Tasks : Holds(u, r)' => r \in consumed' /\ uses'[r] = 0
      BY <1>1, <2>2, <2>3, <2>5 DEF StoreInv, OnceInv, Holds
    <3>5. \A u, v \in Tasks : Holds(u, r)' /\ Holds(v, r)' => u = v
      BY <2>3, <2>6 DEF StoreInv, OnceInv
    <3> QED BY <3>1, <3>2, <3>3, <3>4, <3>5
  <2>8. OnePendingPerKey'
    BY <2>2 DEF StoreInv, OnePendingPerKey
  <2>9. FinalStep
    BY <2>2 DEF StoreInv, OnceInv, FinalStep, Resolution
  <2>10. RevokedStep
    <3> SUFFICES ASSUME NEW r \in Reqs, gduration[r] = "once", r \in grevoked \ consumed
                 PROVE  r \notin consumed' /\ uses'[r] = 0
      BY DEF RevokedStep
    <3>1. uses[r] \in 0..2 /\ ~(uses[r] > 0)
      BY DEF StoreInv, OnceInv, Typed, TypeOK
    <3> QED BY <1>1, <2>2, <2>4, <3>1
  <2> QED BY <2>7, <2>8, <2>9, <2>10 DEF Kept
<1>2. CASE UNCHANGED consumed /\ \E label \in {"loading", "asking"}, rec \in Local : Goto(t, label, rec)
  <2>1. UNCHANGED <<gduration, uses, remembered, rstatus, rkey>>
    BY DEF TryConsume
  <2>2. NobodyTakes
    BY <1>2, <2>1, GotoTakes DEF StoreInv
  <2> QED BY <1>2, <2>1, <2>2, QuietKeeps DEF Quiet
<1>3. /\ [task[t] EXCEPT !.retried = TRUE, !.grant = None] \in Local
      /\ [task[t] EXCEPT !.publish = FALSE, !.grant = None] \in Local
  <2>1. task[t] \in Local
    BY DEF StoreInv, Typed, TypeOK
  <2> QED BY <2>1 DEF Local
<1> QED BY <1>1, <1>2, <1>3 DEF TryConsume

\* find_or_create_pending_request: a new request only when none is pending.
LEMMA AskKeeps ==
    ASSUME StoreInv, NEW t \in Tasks, Ask(t)
    PROVE  Kept
<1> DEFINE key == task[t].key
<1>1. UNCHANGED <<gduration, consumed, uses, remembered>>
  BY DEF Ask, grants
<1>2. CASE PendingFor(key) # {}
  <2>1. Answer(t) /\ UNCHANGED <<rstatus, rkey>>
    BY <1>2 DEF Ask
  <2> QED BY <1>1, <2>1, AnswerTakes, QuietKeeps DEF Quiet, StoreInv
<1>3. CASE PendingFor(key) = {}
  <2>1. PICK r \in Reqs :
            /\ rstatus[r] = "none"
            /\ rstatus' = [rstatus EXCEPT ![r] = "pending"]
            /\ rkey' = [rkey EXCEPT ![r] = key]
            /\ \/ Goto(t, "announcing", [task[t] EXCEPT !.req = r])
               \/ Answer(t)
    BY <1>3 DEF Ask
  <2>2. NobodyTakes
    BY <1>1, <2>1, GotoTakes, AnswerTakes DEF StoreInv
  <2>3. gduration[r] = "none" /\ r \notin remembered
    BY <2>1 DEF StoreInv, OnceInv
  <2>4. \A q \in Reqs : rstatus'[q] = (IF q = r THEN "pending" ELSE rstatus[q])
    BY <2>1 DEF StoreInv, Typed, TypeOK
  <2>5. \A q \in Reqs : rkey'[q] = (IF q = r THEN key ELSE rkey[q])
    BY <2>1 DEF StoreInv, Typed, TypeOK
  <2>6. OnceInv'
    <3> SUFFICES ASSUME NEW q \in Reqs
                 PROVE  /\ gduration'[q] # "none" => rstatus'[q] = "approved"
                        /\ q \in remembered' => rstatus'[q] = "denied"
                        /\ gduration'[q] = "none" => q \notin consumed' /\ uses'[q] = 0
                        /\ gduration'[q] = "once" => uses'[q] <= 1 /\ (uses'[q] > 0 => q \in consumed')
                        /\ \A u \in Tasks : Holds(u, q)' => q \in consumed' /\ uses'[q] = 0
                        /\ \A u, v \in Tasks : Holds(u, q)' /\ Holds(v, q)' => u = v
      BY DEF OnceInv
    <3>1. /\ gduration'[q] # "none" => rstatus'[q] = "approved"
          /\ q \in remembered' => rstatus'[q] = "denied"
      BY <1>1, <2>3, <2>4 DEF StoreInv, OnceInv
    <3>2. /\ gduration'[q] = "none" => q \notin consumed' /\ uses'[q] = 0
          /\ gduration'[q] = "once" => uses'[q] <= 1 /\ (uses'[q] > 0 => q \in consumed')
      BY <1>1 DEF StoreInv, OnceInv
    <3>3. /\ \A u \in Tasks : Holds(u, q)' => q \in consumed' /\ uses'[q] = 0
          /\ \A u, v \in Tasks : Holds(u, q)' /\ Holds(v, q)' => u = v
      BY <1>1, <2>2 DEF StoreInv, OnceInv, NobodyTakes
    <3> QED BY <3>1, <3>2, <3>3
  <2>7. OnePendingPerKey'
    BY <1>3, <2>4, <2>5 DEF StoreInv, OnePendingPerKey, PendingFor
  <2>8. FinalStep
    BY <1>1, <2>1, <2>3, <2>4 DEF StoreInv, OnceInv, FinalStep, Resolution
  <2>9. RevokedStep
    <3> SUFFICES ASSUME NEW q \in Reqs, gduration[q] = "once", q \in grevoked \ consumed
                 PROVE  q \notin consumed' /\ uses'[q] = 0
      BY DEF RevokedStep
    <3>1. uses[q] \in 0..2 /\ ~(uses[q] > 0)
      BY DEF StoreInv, OnceInv, Typed, TypeOK
    <3> QED BY <1>1, <3>1
  <2> QED BY <2>6, <2>7, <2>8, <2>9 DEF Kept
<1> QED BY <1>2, <1>3

\* The guarded action is performed once by the one handler that holds the grant.
LEMMA ActKeeps ==
    ASSUME StoreInv, NEW t \in Tasks, Act(t)
    PROVE  Kept
<1> DEFINE g == task[t].grant
<1>1. UNCHANGED <<gduration, consumed, remembered, rstatus, rkey>>
  BY DEF Act, db
<1>2. NobodyTakes
  BY <1>1, GotoTakes, AnswerTakes DEF Act, StoreInv
<1>3. CASE UNCHANGED uses
  BY <1>1, <1>2, <1>3, QuietKeeps DEF Quiet
<1>4. CASE uses' = [uses EXCEPT ![g] = IF @ < 2 THEN @ + 1 ELSE 2] /\ Goto(t, "auditing", task[t])
  <2>1. pc[t] = "acting" /\ g \in Reqs /\ gduration[g] # "none"
    BY DEF StoreInv, Typed, HandlerInv, HandlerOK, Act
  <2>2. \A q \in Reqs : q # g => uses'[q] = uses[q]
    BY <1>4 DEF StoreInv, Typed, TypeOK
  <2>3. gduration[g] = "once" => uses[g] = 0 /\ g \in consumed /\ \A u \in Tasks : Holds(u, g) => u = t
    BY <2>1 DEF StoreInv, OnceInv, Holds
  <2>4. gduration[g] = "once" => uses'[g] = 1
    BY <1>4, <2>1, <2>3 DEF StoreInv, Typed, TypeOK
  <2>5. \A u \in Tasks, q \in Reqs : Holds(u, q)' => Holds(u, q) /\ u # t
    <3>1. pc'[t] = "auditing"
      BY <1>4 DEF Goto, StoreInv, Typed, TypeOK
    <3> QED BY <1>2, <3>1 DEF NobodyTakes, Holds
  <2>6. OnceInv'
    <3> SUFFICES ASSUME NEW q \in Reqs
               PROVE  /\ gduration'[q] # "none" => rstatus'[q] = "approved"
                      /\ q \in remembered' => rstatus'[q] = "denied"
                      /\ gduration'[q] = "none" => q \notin consumed' /\ uses'[q] = 0
                      /\ gduration'[q] = "once" => uses'[q] <= 1 /\ (uses'[q] > 0 => q \in consumed')
                      /\ \A u \in Tasks : Holds(u, q)' => q \in consumed' /\ uses'[q] = 0
                      /\ \A u, v \in Tasks : Holds(u, q)' /\ Holds(v, q)' => u = v
      BY DEF OnceInv
    <3>1. /\ gduration'[q] # "none" => rstatus'[q] = "approved"
          /\ q \in remembered' => rstatus'[q] = "denied"
      BY <1>1 DEF StoreInv, OnceInv
    <3>2. gduration'[q] = "none" => q \notin consumed' /\ uses'[q] = 0
      BY <1>1, <2>1, <2>2 DEF StoreInv, OnceInv
    <3>3. gduration'[q] = "once" => uses'[q] <= 1 /\ (uses'[q] > 0 => q \in consumed')
      BY <1>1, <2>2, <2>3, <2>4 DEF StoreInv, OnceInv
    <3>4. \A u \in Tasks : Holds(u, q)' => q \in consumed' /\ uses'[q] = 0
      <4>1. ASSUME NEW u \in Tasks, Holds(u, q)' PROVE q # g /\ Holds(u, q)
        BY <2>3, <2>5, <4>1 DEF Holds
      <4> QED BY <1>1, <2>2, <4>1 DEF StoreInv, OnceInv
    <3>5. \A u, v \in Tasks : Holds(u, q)' /\ Holds(v, q)' => u = v
      BY <2>5 DEF StoreInv, OnceInv
    <3> QED BY <3>1, <3>2, <3>3, <3>4, <3>5
  <2>7. OnePendingPerKey'
    BY <1>1 DEF StoreInv, OnePendingPerKey
  <2>8. FinalStep
    BY <1>1 DEF StoreInv, OnceInv, FinalStep, Resolution
  <2>9. RevokedStep
    <3> SUFFICES ASSUME NEW q \in Reqs, gduration[q] = "once", q \in grevoked \ consumed
                 PROVE  q \notin consumed' /\ uses'[q] = 0
      BY DEF RevokedStep
    <3>1. uses[q] \in 0..2 /\ ~(uses[q] > 0)
      BY DEF StoreInv, OnceInv, Typed, TypeOK
    <3>2. q # g
      BY <2>3
    <3> QED BY <1>1, <2>2, <3>1, <3>2
  <2> QED BY <2>6, <2>7, <2>8, <2>9 DEF Kept
<1> QED BY <1>3, <1>4 DEF Act

\* approve_request and deny_request change one pending request, which has no
\* grant and no memory, so nothing rests on it yet.
LEMMA DecisionKeeps ==
    ASSUME StoreInv, NEW t \in Tasks, NEW r \in Reqs, NEW status \in {"approved", "denied"},
           Settle(t, r, status), NEW duration \in Duration \cup {"none"},
           gduration' = [gduration EXCEPT ![r] = duration], duration # "none" => status = "approved",
           remembered' \in {remembered, remembered \cup {r}},
           r \in remembered' => status = "denied",
           UNCHANGED <<consumed, uses, rkey>>
    PROVE  Kept
<1>1. rstatus[r] = "pending"
  BY DEF Settle
<1>2. \A q \in Reqs : rstatus'[q] = (IF q = r THEN status ELSE rstatus[q])
  BY DEF Settle, StoreInv, Typed, TypeOK
<1>3. \A q \in Reqs : gduration'[q] = (IF q = r THEN duration ELSE gduration[q])
  BY DEF StoreInv, Typed, TypeOK
<1>4. gduration[r] = "none" /\ r \notin remembered /\ r \notin consumed /\ uses[r] = 0
  BY <1>1 DEF StoreInv, OnceInv
<1>5. \A u \in Tasks, q \in Reqs : Holds(u, q)' => Holds(u, q)
  <2> SUFFICES ASSUME NEW u \in Tasks, NEW q \in Reqs, Holds(u, q)' PROVE Holds(u, q)
    OBVIOUS
  <2>1. pc[u] = "acting" /\ task[u].grant = q
    BY DEF Holds, Settle, Goto, StoreInv, Typed, TypeOK
  <2>2. gduration[q] # "none"
    BY <2>1 DEF StoreInv, Typed, HandlerInv, HandlerOK
  <2>3. q # r
    BY <1>4, <2>2
  <2> QED BY <1>3, <2>1, <2>3 DEF Holds
<1>6. OnceInv'
  <2> SUFFICES ASSUME NEW q \in Reqs
               PROVE  /\ gduration'[q] # "none" => rstatus'[q] = "approved"
                      /\ q \in remembered' => rstatus'[q] = "denied"
                      /\ gduration'[q] = "none" => q \notin consumed' /\ uses'[q] = 0
                      /\ gduration'[q] = "once" => uses'[q] <= 1 /\ (uses'[q] > 0 => q \in consumed')
                      /\ \A u \in Tasks : Holds(u, q)' => q \in consumed' /\ uses'[q] = 0
                      /\ \A u, v \in Tasks : Holds(u, q)' /\ Holds(v, q)' => u = v
    BY DEF OnceInv
  <2>1. /\ gduration'[q] # "none" => rstatus'[q] = "approved"
        /\ q \in remembered' => rstatus'[q] = "denied"
    BY <1>2, <1>3 DEF StoreInv, OnceInv
  <2>2. /\ gduration'[q] = "none" => q \notin consumed' /\ uses'[q] = 0
        /\ gduration'[q] = "once" => uses'[q] <= 1 /\ (uses'[q] > 0 => q \in consumed')
    BY <1>3, <1>4 DEF StoreInv, OnceInv
  <2>3. /\ \A u \in Tasks : Holds(u, q)' => q \in consumed' /\ uses'[q] = 0
        /\ \A u, v \in Tasks : Holds(u, q)' /\ Holds(v, q)' => u = v
    BY <1>5 DEF StoreInv, OnceInv
  <2> QED BY <2>1, <2>2, <2>3
<1>7. OnePendingPerKey'
  BY <1>2 DEF StoreInv, OnePendingPerKey
<1>8. FinalStep
  BY <1>1, <1>2, <1>3 DEF StoreInv, OnceInv, FinalStep, Resolution
<1>9. RevokedStep
  <2> SUFFICES ASSUME NEW q \in Reqs, gduration[q] = "once", q \in grevoked \ consumed
               PROVE  q \notin consumed' /\ uses'[q] = 0
    BY DEF RevokedStep
  <2>1. uses[q] \in 0..2 /\ ~(uses[q] > 0)
    BY DEF StoreInv, OnceInv, Typed, TypeOK
  <2> QED BY <2>1
<1> QED BY <1>6, <1>7, <1>8, <1>9 DEF Kept

\* The steps of a protected call.
LEMMA CallerKeeps ==
    ASSUME StoreInv, NEW t \in Tasks, RunCaller(t)
    PROVE  Kept
<1> USE DEF StoreInv
<1>1. CASE Resolve(t)
  <2>1. UNCHANGED <<gduration, consumed, uses, remembered, rstatus, rkey>>
    BY <1>1 DEF Resolve, db
  <2>2. NobodyTakes
    BY <1>1, <2>1, GotoTakes, AnswerTakes DEF Resolve
  <2> QED BY <2>1, <2>2, QuietKeeps DEF Quiet
<1>2. CASE LoadSnapshot(t)
  <2>1. UNCHANGED <<gduration, consumed, uses, remembered, rstatus, rkey>>
    BY <1>2 DEF LoadSnapshot, db
  <2>2. ASSUME NEW g \in Grants(task[t].key),
               Goto(t, IF gduration[g] = "once" THEN "consuming" ELSE "acting", [task[t] EXCEPT !.grant = g])
        PROVE  NobodyTakes
    <3> DEFINE rec == [task[t] EXCEPT !.grant = g]
    <3>1. rec.grant = g
      BY DEF Typed, TypeOK, Local
    <3> QED BY <2>1, <2>2, <3>1, GotoTakes
  <2>3. ASSUME Goto(t, "asking", [task[t] EXCEPT !.publish = TRUE]) PROVE NobodyTakes
    BY <2>1, <2>3, GotoTakes
  <2>4. NobodyTakes
    BY <1>2, <2>1, <2>2, <2>3, AnswerTakes DEF LoadSnapshot
  <2> QED BY <2>1, <2>4, QuietKeeps DEF Quiet
<1>3. CASE Announce(t)
  <2>1. UNCHANGED <<gduration, consumed, uses, remembered, rstatus, rkey>>
    BY <1>3 DEF Announce, db
  <2>2. NobodyTakes
    BY <1>3, <2>1, AnswerTakes DEF Announce
  <2> QED BY <2>1, <2>2, QuietKeeps DEF Quiet
<1>4. CASE CompleteExecution(t)
  <2>1. UNCHANGED <<gduration, consumed, uses, remembered, rstatus, rkey>>
    BY <1>4 DEF CompleteExecution, grants
  <2>2. NobodyTakes
    BY <1>4, <2>1, AnswerTakes DEF CompleteExecution
  <2> QED BY <2>1, <2>2, QuietKeeps DEF Quiet
<1> QED BY <1>1, <1>2, <1>3, <1>4, TryConsumeKeeps, AskKeeps, ActKeeps DEF RunCaller

\* The steps of an operator's request.
LEMMA OperatorKeeps ==
    ASSUME StoreInv, NEW t \in Tasks, RunOperator(t)
    PROVE  Kept
<1> USE DEF StoreInv
<1>0. HandlerOK(gduration, pc[t], task[t]) /\ task[t] \in Local
  BY DEF Typed, TypeOK, HandlerInv
<1>1. CASE Review(t)
  <2>1. UNCHANGED <<gduration, consumed, uses, remembered, rstatus, rkey>>
    BY <1>1 DEF Review, db
  <2>2. NobodyTakes
    BY <1>1, <2>1, GotoTakes, AnswerTakes DEF Review
  <2> QED BY <2>1, <2>2, QuietKeeps DEF Quiet
<1>2. CASE Invalidate(t)
  <2>1. UNCHANGED <<gduration, consumed, uses, remembered, rkey>>
    BY <1>2 DEF Invalidate, grants
  <2>2. NobodyTakes
    BY <1>2, <2>1, GotoTakes, AnswerTakes DEF Invalidate, Settle, TooLate
  <2>3. \A q \in Reqs : /\ rstatus[q] \in Resolution => rstatus'[q] = rstatus[q]
                        /\ rstatus'[q] = "pending" => rstatus[q] = "pending"
    <3>1. CASE Settle(t, task[t].req, "invalidated")
      BY <3>1 DEF Settle, Resolution, Typed, TypeOK
    <3>2. CASE TooLate(t, task[t].req)
      BY <3>2 DEF TooLate
    <3> QED BY <1>2, <3>1, <3>2 DEF Invalidate
  <2> QED BY <2>1, <2>2, <2>3, QuietKeeps DEF Quiet
<1>3. CASE Approve(t)
  <2>1. UNCHANGED <<consumed, uses, remembered, rkey>>
    BY <1>3 DEF Approve
  <2>2. CASE Settle(t, task[t].req, "approved")
             /\ gduration' = [gduration EXCEPT ![task[t].req] = task[t].duration]
    <3>1. task[t].req \in Reqs /\ task[t].duration \in Duration
      BY <1>0, <1>3 DEF Approve, HandlerOK
    <3>2. task[t].req \notin remembered
      BY <2>2, <3>1 DEF Settle, OnceInv
    <3> QED BY <2>1, <2>2, <3>1, <3>2, DecisionKeeps
  <2>3. CASE TooLate(t, task[t].req) /\ UNCHANGED gduration
    <3>1. NobodyTakes
      BY <2>3, AnswerTakes DEF TooLate
    <3> QED BY <2>1, <2>3, <3>1, QuietKeeps DEF Quiet, TooLate
  <2> QED BY <1>3, <2>2, <2>3 DEF Approve
<1>4. CASE Publish(t)
  <2>1. UNCHANGED <<gduration, consumed, uses, remembered, rstatus, rkey>>
    BY <1>4 DEF Publish, db
  <2>2. NobodyTakes
    BY <1>4, <2>1, AnswerTakes DEF Publish
  <2> QED BY <2>1, <2>2, QuietKeeps DEF Quiet
<1> QED BY <1>1, <1>2, <1>3, <1>4 DEF RunOperator

\* The first step of a protected call or an operator's request.
LEMMA StartKeeps ==
    ASSUME StoreInv, NEW t \in Tasks,
           \/ \E k \in Tokens, c \in Calls : Call(t, k, c)
           \/ \E r \in Reqs : StartOperator(t, r)
    PROVE  Kept
<1> USE DEF StoreInv
<1>1. ASSUME NEW k \in Tokens, NEW c \in Calls, Call(t, k, c) PROVE Kept
  <2>1. UNCHANGED <<gduration, consumed, uses, remembered, rstatus, rkey>>
    BY <1>1 DEF Call, db
  <2>2. \/ Answer(t)
        \/ \E label \in {"resolving", "loading"} : Goto(t, label,
                 [Blank EXCEPT !.key = [agent |-> TokenAgent[k], target |-> c.target, actions |-> c.actions],
                               !.input = c.input])
    BY <1>1 DEF Call
  <2>3. NobodyTakes
    BY <2>1, <2>2, GotoTakes, AnswerTakes
  <2> QED BY <2>1, <2>3, QuietKeeps DEF Quiet
<1>2. ASSUME NEW r \in Reqs, StartOperator(t, r) PROVE Kept
  <2>1. CASE OpenGet(t, r) \/ \E a \in Approvals : OpenApprove(t, r, a)
    <3>1. UNCHANGED <<gduration, consumed, uses, remembered, rstatus, rkey>>
      BY <2>1 DEF OpenGet, OpenApprove, db
    <3>2. NobodyTakes
      BY <2>1, <3>1, GotoTakes DEF OpenGet, OpenApprove
    <3> QED BY <3>1, <3>2, QuietKeeps DEF Quiet
  <2>2. ASSUME NEW remember \in BOOLEAN, Deny(t, r, remember) PROVE Kept
    <3>1. UNCHANGED <<consumed, uses, rkey, gduration>> /\ Settle(t, r, "denied")
      BY <2>2 DEF Deny, grants
    <3>2. remembered' \in {remembered, remembered \cup {r}}
      BY <2>2 DEF Deny
    <3>3. gduration[r] = "none"
      BY <3>1 DEF Settle, OnceInv
    <3>4. gduration' = [gduration EXCEPT ![r] = "none"]
      BY <3>1, <3>3 DEF Typed, TypeOK
    <3> QED BY <3>1, <3>2, <3>4, DecisionKeeps
  <2> QED BY <1>2, <2>1, <2>2 DEF StartOperator
<1> QED BY <1>1, <1>2

\* The steps no handler takes.
LEMMA OutsideKeeps ==
    ASSUME StoreInv,
           \/ \E t \in Tasks : StoreFails(t)
           \/ \E r \in Reqs : RevokeGrant(r) \/ Expire(r)
           \/ \E a \in Agents : RevokeIdentity(a) \/ \E k \in Tokens : CreateIdentity(a, k)
           \/ \E k \in Tokens : MintToken(k) \/ RevokeToken(k)
           \/ \E s \in Surfaces : SurfaceChanges(s)
           \/ Restart
           \/ UNCHANGED vars
    PROVE  Kept
<1>1. UNCHANGED <<gduration, consumed, uses, remembered, rstatus, rkey>>
  BY DEF StoreFails, RevokeGrant, Expire, RevokeIdentity, CreateIdentity, MintToken, RevokeToken,
         SurfaceChanges, Restart, vars, db, grants
<1>2. CASE \E t \in Tasks : StoreFails(t)
  <2>1. NobodyTakes
    BY <1>1, <1>2, AnswerTakes DEF StoreFails, StoreInv
  <2> QED BY <1>1, <2>1, QuietKeeps DEF Quiet
<1>3. CASE Restart
  <2>1. NobodyTakes
    BY <1>3 DEF Restart, NobodyTakes, Holds
  <2> QED BY <1>1, <2>1, QuietKeeps DEF Quiet
<1>4. CASE UNCHANGED <<pc, task>>
  <2>1. NobodyTakes
    BY <1>1, <1>4 DEF NobodyTakes, Holds
  <2> QED BY <1>1, <2>1, QuietKeeps DEF Quiet
<1> QED BY <1>2, <1>3, <1>4 DEF RevokeGrant, Expire, RevokeIdentity, CreateIdentity, MintToken,
         RevokeToken, SurfaceChanges, vars

LEMMA NextKeeps == StoreInv /\ [Next]_vars => StoreInv' /\ FinalStep /\ RevokedStep
<1> SUFFICES ASSUME StoreInv, [Next]_vars PROVE StoreInv' /\ FinalStep /\ RevokedStep
  OBVIOUS
<1>1. Callers \subseteq Tasks /\ Operators \subseteq Tasks
  BY DEF Tasks
<1>2. Kept
  BY <1>1, CallerKeeps, OperatorKeeps, StartKeeps, OutsideKeeps DEF Next
<1>3. Typed'
  BY NextType DEF StoreInv
<1> QED BY <1>2, <1>3 DEF Kept, StoreInv

LEMMA InitStore == Init => StoreInv
<1> SUFFICES ASSUME Init PROVE OnceInv /\ OnePendingPerKey
  BY InitType DEF StoreInv
<1> QED BY DEF Init, OnceInv, OnePendingPerKey, Holds

LEMMA StoreInvariant == Spec => []StoreInv
BY InitStore, NextKeeps, PTL DEF Spec

\* agent_guard.rs, try_consume_once_grant: however many callers hold a once
\* grant in their snapshots, at most one of them performs its action.
THEOREM OnceGrantIsUsedOnce == Spec => []OnceGrantUsedOnce
<1>1. StoreInv => OnceGrantUsedOnce
  BY DEF StoreInv, OnceInv, OnceGrantUsedOnce
<1> QED BY <1>1, StoreInvariant, PTL

\* find_or_create_pending_request: calls that need the same permission share
\* one pending request.
THEOREM OnePendingRequestPerKey == Spec => []OnePendingPerKey
<1>1. StoreInv => OnePendingPerKey
  BY DEF StoreInv
<1> QED BY <1>1, StoreInvariant, PTL

\* approve_request, deny_request, invalidate_request: the first decision to
\* commit is the decision for good, and only an approval carries a grant.
THEOREM DecisionsAreFinal == Spec => DecisionIsFinal
<1>1. StoreInv /\ [Next]_vars => [FinalStep]_vars
  BY NextKeeps
<1>2. [][FinalStep]_vars => DecisionIsFinal
  <2>1. [FinalStep]_vars => [\A r \in Reqs :
        /\ rstatus[r] \in Resolution => rstatus'[r] = rstatus[r] /\ gduration'[r] = gduration[r]
        /\ gduration'[r] # "none" => rstatus'[r] = "approved" /\ r \notin remembered']_vars
    BY DEF FinalStep
  <2> QED BY <2>1, PTL DEF DecisionIsFinal
<1> QED BY <1>1, <1>2, StoreInvariant, PTL DEF Spec

\* revoke_grant: a once grant revoked before it was consumed is never used.
THEOREM RevokedOnceGrantIsUnused == Spec => RevokedOnceGrantUnused
<1>1. StoreInv /\ [Next]_vars => [RevokedStep]_vars
  BY NextKeeps
<1>2. [][RevokedStep]_vars => RevokedOnceGrantUnused
  <2>1. [RevokedStep]_vars => [\A r \in Reqs : (gduration[r] = "once" /\ r \in grevoked \ consumed)
            => r \notin consumed' /\ uses'[r] = 0]_vars
    BY DEF RevokedStep
  <2> QED BY <2>1, PTL DEF RevokedOnceGrantUnused
<1> QED BY <1>1, <1>2, StoreInvariant, PTL DEF Spec

-----------------------------------------------------------------------------
(* The audit trail *)

\* A handler that is about to write its "executed" row has acted.
ActedBeforeAudit == \A t \in Tasks : pc[t] = "auditing" => uses[task[t].grant] > 0

TrailInv == StoreInv /\ AuditMatchesHistory /\ ActedBeforeAudit

\* No handler comes to the point where it writes its "executed" row.
NobodyActs == \A t \in Tasks : pc'[t] = "auditing" => pc[t] = "auditing" /\ task'[t] = task[t]

LEMMA GotoActs ==
    ASSUME Typed, NEW t \in Tasks, NEW label, NEW rec, Goto(t, label, rec), label # "auditing"
    PROVE  NobodyActs
BY DEF Typed, TypeOK, Goto, NobodyActs

LEMMA AnswerActs ==
    ASSUME Typed, NEW t \in Tasks, Answer(t)
    PROVE  NobodyActs
BY GotoActs DEF Answer

\* Most steps write no audit row and decide nothing.
LEMMA SteadyTrail ==
    ASSUME TrailInv, NobodyActs, UNCHANGED <<audit, rstatus, uses>>
    PROVE  AuditMatchesHistory' /\ ActedBeforeAudit'
BY DEF TrailInv, NobodyActs, AuditMatchesHistory, ActedBeforeAudit

\* A decision writes the row of the decision it commits.
LEMMA SettleTrail ==
    ASSUME TrailInv, NEW t \in Tasks, NEW r \in Reqs, NEW status \in Resolution,
           Settle(t, r, status), UNCHANGED uses
    PROVE  AuditMatchesHistory' /\ ActedBeforeAudit'
<1>1. NobodyActs
  BY GotoActs DEF Settle, TrailInv, StoreInv
<1>2. ActedBeforeAudit'
  BY <1>1 DEF NobodyActs, ActedBeforeAudit, TrailInv
<1>3. \A q \in Reqs : rstatus'[q] = (IF q = r THEN status ELSE rstatus[q])
  BY DEF Settle, TrailInv, StoreInv, Typed, TypeOK
<1>4. rstatus[r] = "pending" /\ audit' = audit \cup {<<status, r>>}
  BY DEF Settle
<1>5. ASSUME NEW q \in Reqs
      PROVE  /\ <<"requested", q>> \in audit' <=> rstatus'[q] # "none"
             /\ \A d \in Resolution : <<d, q>> \in audit' <=> rstatus'[q] = d
             /\ <<"executed", q>> \in audit' => uses'[q] > 0
             /\ uses'[q] > 0 => rstatus'[q] = "approved"
  <2>0. /\ <<"requested", q>> \in audit <=> rstatus[q] # "none"
        /\ \A d \in Resolution : <<d, q>> \in audit <=> rstatus[q] = d
        /\ <<"executed", q>> \in audit => uses[q] > 0
        /\ uses[q] > 0 => rstatus[q] = "approved"
    BY DEF TrailInv, AuditMatchesHistory
  <2>1. status \notin {"requested", "executed", "none", "pending"}
    BY DEF Resolution
  <2>2. <<"requested", q>> \in audit' <=> rstatus'[q] # "none"
    BY <1>3, <1>4, <2>0, <2>1
  <2>3. ASSUME NEW d \in Resolution PROVE <<d, q>> \in audit' <=> rstatus'[q] = d
    <3>1. <<d, q>> \in audit' <=> <<d, q>> \in audit \/ (d = status /\ q = r)
      BY <1>4
    <3>2. <<d, q>> \in audit <=> rstatus[q] = d
      BY <2>0
    <3>3. d # "pending"
      BY DEF Resolution
    <3> QED BY <1>3, <1>4, <3>1, <3>2, <3>3
  <2>4. /\ <<"executed", q>> \in audit' => uses'[q] > 0
        /\ uses'[q] > 0 => rstatus'[q] = "approved"
    BY <1>3, <1>4, <2>0, <2>1
  <2> QED BY <2>2, <2>3, <2>4
<1> QED BY <1>2, <1>5 DEF AuditMatchesHistory

\* The request and its "requested" row are committed together.
LEMMA AskTrail ==
    ASSUME TrailInv, NEW t \in Tasks, Ask(t)
    PROVE  AuditMatchesHistory' /\ ActedBeforeAudit'
<1>1. UNCHANGED uses
  BY DEF Ask
<1>2. CASE PendingFor(task[t].key) # {}
  <2>1. Answer(t) /\ UNCHANGED <<rstatus, audit>>
    BY <1>2 DEF Ask
  <2> QED BY <1>1, <2>1, AnswerActs, SteadyTrail DEF TrailInv, StoreInv
<1>3. CASE PendingFor(task[t].key) = {}
  <2>1. PICK r \in Reqs :
            /\ rstatus[r] = "none"
            /\ rstatus' = [rstatus EXCEPT ![r] = "pending"]
            /\ audit' = audit \cup {<<"requested", r>>}
            /\ \/ Goto(t, "announcing", [task[t] EXCEPT !.req = r])
               \/ Answer(t)
    BY <1>3 DEF Ask
  <2>2. NobodyActs
    BY <2>1, GotoActs, AnswerActs DEF TrailInv, StoreInv
  <2>3. ActedBeforeAudit'
    BY <1>1, <2>2 DEF NobodyActs, ActedBeforeAudit, TrailInv
  <2>4. \A q \in Reqs : rstatus'[q] = (IF q = r THEN "pending" ELSE rstatus[q])
    BY <2>1 DEF TrailInv, StoreInv, Typed, TypeOK
  <2>5. ASSUME NEW d \in Resolution \cup {"requested", "executed"}, NEW q \in Reqs
        PROVE  <<d, q>> \in audit' <=> <<d, q>> \in audit \/ (d = "requested" /\ q = r)
    BY <2>1
  <2>6. AuditMatchesHistory'
    <3> SUFFICES ASSUME NEW q \in Reqs
                 PROVE  /\ <<"requested", q>> \in audit' <=> rstatus'[q] # "none"
                        /\ \A d \in Resolution : <<d, q>> \in audit' <=> rstatus'[q] = d
                        /\ <<"executed", q>> \in audit' => uses'[q] > 0
                        /\ uses'[q] > 0 => rstatus'[q] = "approved"
      BY DEF AuditMatchesHistory
    <3>1. /\ <<"requested", q>> \in audit <=> rstatus[q] # "none"
          /\ \A d \in Resolution : <<d, q>> \in audit <=> rstatus[q] = d
          /\ <<"executed", q>> \in audit => uses[q] > 0
          /\ uses[q] > 0 => rstatus[q] = "approved"
      BY DEF TrailInv, AuditMatchesHistory
    <3>2. <<"requested", q>> \in audit' <=> rstatus'[q] # "none"
      BY <2>4, <2>5, <3>1
    <3>3. ASSUME NEW d \in Resolution PROVE <<d, q>> \in audit' <=> rstatus'[q] = d
      <4>1. d \notin {"pending", "none", "requested"}
        BY DEF Resolution
      <4>2. <<d, q>> \in audit' <=> <<d, q>> \in audit
        BY <2>5, <4>1
      <4>3. <<d, q>> \in audit <=> rstatus[q] = d
        BY <3>1
      <4> QED BY <2>1, <2>4, <4>1, <4>2, <4>3
    <3>4. /\ <<"executed", q>> \in audit' => uses'[q] > 0
          /\ uses'[q] > 0 => rstatus'[q] = "approved"
      BY <1>1, <2>1, <2>4, <2>5, <3>1
    <3> QED BY <3>2, <3>3, <3>4
  <2> QED BY <2>3, <2>6
<1> QED BY <1>2, <1>3

\* An action comes before its "executed" row.
LEMMA ActTrail ==
    ASSUME TrailInv, NEW t \in Tasks, Act(t) \/ CompleteExecution(t)
    PROVE  AuditMatchesHistory' /\ ActedBeforeAudit'
<1> DEFINE g == task[t].grant
<1>0. g \in Reqs /\ gduration[g] # "none" /\ rstatus[g] = "approved"
  BY DEF TrailInv, StoreInv, Typed, HandlerInv, HandlerOK, OnceInv, Act, CompleteExecution
<1>1. CASE Act(t) /\ UNCHANGED uses /\ Answer(t)
  BY <1>1, AnswerActs, SteadyTrail DEF TrailInv, StoreInv, Act, db
<1>2. CASE /\ uses' = [uses EXCEPT ![g] = IF @ < 2 THEN @ + 1 ELSE 2]
           /\ Goto(t, "auditing", task[t]) /\ UNCHANGED <<audit, rstatus>>
  <2>1. uses \in [Reqs -> 0..2] /\ task \in [Tasks -> Local] /\ pc \in [Tasks -> PCs]
    BY DEF TrailInv, StoreInv, Typed, TypeOK
  <2>2. uses'[g] > 0 /\ \A q \in Reqs : q # g => uses'[q] = uses[q]
    BY <1>0, <1>2, <2>1
  <2>3. ActedBeforeAudit'
    <3> SUFFICES ASSUME NEW u \in Tasks, pc'[u] = "auditing" PROVE uses'[task'[u].grant] > 0
      BY DEF ActedBeforeAudit
    <3>1. CASE u = t
      BY <1>2, <2>1, <2>2, <3>1 DEF Goto
    <3>2. CASE u # t
      <4>1. pc[u] = "auditing" /\ task'[u] = task[u]
        BY <1>2, <2>1, <3>2 DEF Goto
      <4>2. task[u].grant \in Reqs /\ uses[task[u].grant] > 0
        BY <4>1 DEF TrailInv, StoreInv, Typed, HandlerInv, HandlerOK, ActedBeforeAudit
      <4> QED BY <2>2, <4>1, <4>2
    <3> QED BY <3>1, <3>2
  <2>4. AuditMatchesHistory'
    BY <1>0, <1>2, <2>2 DEF TrailInv, AuditMatchesHistory
  <2> QED BY <2>3, <2>4
<1>3. CASE CompleteExecution(t)
  <2>1. UNCHANGED <<rstatus, uses>> /\ audit' \in {audit, audit \cup {<<"executed", g>>}}
    BY <1>3 DEF CompleteExecution
  <2>2. NobodyActs
    BY <1>3, AnswerActs DEF CompleteExecution, TrailInv, StoreInv
  <2>3. ActedBeforeAudit'
    BY <2>1, <2>2 DEF NobodyActs, ActedBeforeAudit, TrailInv
  <2>4. uses[g] > 0
    BY <1>3 DEF CompleteExecution, TrailInv, ActedBeforeAudit
  <2>5. ASSUME NEW d \in Resolution \cup {"requested"}, NEW q \in Reqs
        PROVE  <<d, q>> \in audit' <=> <<d, q>> \in audit
    <3>1. d # "executed"
      BY DEF Resolution
    <3> QED BY <2>1, <3>1
  <2>6. ASSUME NEW q \in Reqs, <<"executed", q>> \in audit'
        PROVE  uses[q] > 0
    <3>1. <<"executed", q>> \in audit \/ q = g
      BY <2>1, <2>6
    <3> QED BY <2>4, <3>1 DEF TrailInv, AuditMatchesHistory
  <2>7. AuditMatchesHistory'
    BY <2>1, <2>5, <2>6 DEF TrailInv, AuditMatchesHistory
  <2> QED BY <2>3, <2>7
<1> QED BY <1>1, <1>2, <1>3 DEF Act, db

LEMMA NextTrail == TrailInv /\ [Next]_vars => TrailInv'
<1> SUFFICES ASSUME TrailInv, [Next]_vars PROVE AuditMatchesHistory' /\ ActedBeforeAudit'
  BY NextKeeps DEF TrailInv
<1> USE DEF TrailInv, StoreInv
<1>0. Callers \subseteq Tasks /\ Operators \subseteq Tasks
  BY DEF Tasks
<1>1. ASSUME NEW t \in Tasks, Resolve(t) \/ LoadSnapshot(t) \/ TryConsume(t) \/ Announce(t)
      PROVE  AuditMatchesHistory' /\ ActedBeforeAudit'
  <2>1. UNCHANGED <<audit, rstatus, uses>>
    BY <1>1 DEF Resolve, LoadSnapshot, TryConsume, Announce, db
  <2>2. NobodyActs
    BY <1>1, GotoActs, AnswerActs DEF Resolve, LoadSnapshot, TryConsume, Announce
  <2> QED BY <2>1, <2>2, SteadyTrail
<1>2. ASSUME NEW t \in Tasks, RunOperator(t) PROVE AuditMatchesHistory' /\ ActedBeforeAudit'
  <2>1. CASE Review(t) \/ Publish(t)
    <3>1. UNCHANGED <<audit, rstatus, uses>>
      BY <2>1 DEF Review, Publish, db
    <3>2. NobodyActs
      BY <2>1, GotoActs, AnswerActs DEF Review, Publish
    <3> QED BY <3>1, <3>2, SteadyTrail
  <2>2. CASE Invalidate(t) \/ Approve(t)
    <3>1. task[t].req \in Reqs
      BY <2>2 DEF Typed, HandlerInv, HandlerOK, Invalidate, Approve
    <3>2. UNCHANGED uses
      BY <2>2 DEF Invalidate, Approve
    <3>3. CASE \E status \in Resolution : Settle(t, task[t].req, status)
      BY <3>1, <3>2, <3>3, SettleTrail
    <3>4. CASE TooLate(t, task[t].req)
      BY <3>2, <3>4, AnswerActs, SteadyTrail DEF TooLate
    <3> QED BY <2>2, <3>3, <3>4 DEF Invalidate, Approve, Resolution
  <2> QED BY <1>2, <2>1, <2>2 DEF RunOperator
<1>3. ASSUME NEW t \in Tasks, NEW r \in Reqs, StartOperator(t, r)
      PROVE  AuditMatchesHistory' /\ ActedBeforeAudit'
  <2>1. CASE OpenGet(t, r) \/ \E a \in Approvals : OpenApprove(t, r, a)
    <3>1. UNCHANGED <<audit, rstatus, uses>>
      BY <2>1 DEF OpenGet, OpenApprove, db
    <3>2. NobodyActs
      BY <2>1, GotoActs DEF OpenGet, OpenApprove
    <3> QED BY <3>1, <3>2, SteadyTrail
  <2>2. CASE \E remember \in BOOLEAN : Deny(t, r, remember)
    <3>1. Settle(t, r, "denied") /\ UNCHANGED uses
      BY <2>2 DEF Deny
    <3> QED BY <3>1, SettleTrail DEF Resolution
  <2> QED BY <1>3, <2>1, <2>2 DEF StartOperator
<1>4. ASSUME NEW t \in Tasks, NEW k \in Tokens, NEW c \in Calls, Call(t, k, c)
      PROVE  AuditMatchesHistory' /\ ActedBeforeAudit'
  <2>1. UNCHANGED <<audit, rstatus, uses>>
    BY <1>4 DEF Call, db
  <2>2. \/ Answer(t)
        \/ \E label \in {"resolving", "loading"} : Goto(t, label,
                 [Blank EXCEPT !.key = [agent |-> TokenAgent[k], target |-> c.target, actions |-> c.actions],
                               !.input = c.input])
    BY <1>4 DEF Call
  <2>3. NobodyActs
    BY <2>2, GotoActs, AnswerActs
  <2> QED BY <2>1, <2>3, SteadyTrail
<1>5. ASSUME NEW t \in Tasks, StoreFails(t) PROVE AuditMatchesHistory' /\ ActedBeforeAudit'
  <2>1. UNCHANGED <<audit, rstatus, uses>>
    BY <1>5 DEF StoreFails, db
  <2>2. NobodyActs
    BY <1>5, AnswerActs DEF StoreFails
  <2> QED BY <2>1, <2>2, SteadyTrail
<1>6. CASE Restart
  <2>1. UNCHANGED <<audit, rstatus, uses>> /\ NobodyActs
    BY <1>6 DEF Restart, NobodyActs, db
  <2> QED BY <2>1, SteadyTrail
<1>7. CASE \/ \E r \in Reqs : RevokeGrant(r) \/ Expire(r)
           \/ \E a \in Agents : RevokeIdentity(a) \/ \E k \in Tokens : CreateIdentity(a, k)
           \/ \E k \in Tokens : MintToken(k) \/ RevokeToken(k)
           \/ \E s \in Surfaces : SurfaceChanges(s)
           \/ UNCHANGED vars
  <2>1. UNCHANGED <<audit, rstatus, uses, pc, task>>
    BY <1>7 DEF RevokeGrant, Expire, RevokeIdentity, CreateIdentity, MintToken, RevokeToken,
                SurfaceChanges, vars, db, grants
  <2> QED BY <2>1, SteadyTrail DEF NobodyActs
<1> QED BY <1>0, <1>1, <1>2, <1>3, <1>4, <1>5, <1>6, <1>7, AskTrail, ActTrail DEF Next, RunCaller

\* agent_store.rs, agent_guard.rs: the audit table tells what happened to each
\* request, and "executed" is written only after an action an approval allowed.
THEOREM AuditTellsHistory == Spec => []AuditMatchesHistory
<1>1. Init => TrailInv
  <2> SUFFICES ASSUME Init PROVE AuditMatchesHistory /\ ActedBeforeAudit
    BY InitStore DEF TrailInv
  <2> QED BY DEF Init, AuditMatchesHistory, ActedBeforeAudit, Resolution
<1>2. TrailInv => AuditMatchesHistory
  BY DEF TrailInv
<1> QED BY <1>1, <1>2, NextTrail, PTL DEF Spec
=============================================================================
