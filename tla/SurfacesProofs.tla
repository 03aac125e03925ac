--------------------------- MODULE SurfacesProofs ---------------------------
(***************************************************************************)
(* Proofs about Surfaces, for every number of ids, windows and requests,   *)
(* every set of launch bodies and, where no theorem names one, every       *)
(* adapter.                                                                *)
(***************************************************************************)
EXTENDS Surfaces, TLAPS

-----------------------------------------------------------------------------
(* Type correctness *)

\* A step that moves one request with Goto keeps the types of pc and task.
LEMMA GotoType ==
    ASSUME TypeOK, NEW t \in Tasks, NEW label \in PCs, NEW r \in Request, Goto(t, label, r)
    PROVE  pc' \in [Tasks -> PCs] /\ task' \in [Tasks -> Request]
BY DEF TypeOK, Goto

\* A reply to a client keeps the types of pc and task.
LEMMA ReplyType ==
    ASSUME TypeOK, NEW t \in Tasks, NEW c \in Codes, Reply(t, c)
    PROVE  pc' \in [Tasks -> PCs] /\ task' \in [Tasks -> Request]
<1>1. [task[t] EXCEPT !.code = c] \in Request
    BY DEF TypeOK, Request
<1>2. "done" \in PCs
    BY DEF PCs
<1>. QED
    BY <1>1, <1>2, GotoType DEF Reply

\* The blank request has the type of a request.
LEMMA BlankType == Blank \in Request
BY DEF Blank, Request, DefaultSpec, LaunchSpec, Confidence, Codes

\* track_or_get keeps the types of the store.
LEMMA TrackOrGetType ==
    ASSUME TypeOK, NEW w \in Refs \cup {NoRef}, NEW i \in Ids, TrackOrGet(w, i)
    PROVE  /\ hstate' \in [Ids -> {"absent", "alive", "dead", "forgotten"}]
           /\ href' \in [Ids -> Refs \cup {NoRef}]
BY DEF TypeOK, TrackOrGet

\* mark_dead keeps the types of the store.
LEMMA MarkDeadType ==
    ASSUME TypeOK, NEW i, MarkDead(i)
    PROVE  /\ hstate' \in [Ids -> {"absent", "alive", "dead", "forgotten"}]
           /\ href' \in [Ids -> Refs \cup {NoRef}]
BY DEF TypeOK, MarkDead

\* The beginning of a launch keeps the types of pc and task.
LEMMA EnterLaunchType ==
    ASSUME TypeOK, NEW t \in Tasks, NEW r \in Request, EnterLaunch(t, r)
    PROVE  pc' \in [Tasks -> PCs] /\ task' \in [Tasks -> Request]
<1>1. CASE (r.spec.fresh /\ r.spec.force) \/ r.spec.placement = "unknown"
  <2>1. [r EXCEPT !.code = "InvalidArgument"] \in Request
      BY DEF Request, Codes
  <2>. QED
      BY <1>1, <2>1, GotoType DEF EnterLaunch, PCs
<1>2. CASE ~((r.spec.fresh /\ r.spec.force) \/ r.spec.placement = "unknown")
  <2>1. PICK b \in BeforeSets(r.spec.kind) :
            Goto(t, "launching", [r EXCEPT !.live = Live, !.before = b])
      BY <1>2 DEF EnterLaunch
  <2>2. b \subseteq Refs
      BY ConstantsAssumption DEF BeforeSets, Live, Shown
  <2>3. [r EXCEPT !.live = Live, !.before = b] \in Request
      BY <2>2 DEF Request, Live
  <2>. QED
      BY <2>1, <2>3, GotoType DEF PCs
<1>. QED
    BY <1>1, <1>2

\* An error code and the old handle's fate are fields of a request.
LEMMA ErrorType ==
    ASSUME NEW r \in Request, NEW c \in Codes, NEW b \in BOOLEAN
    PROVE  [r EXCEPT !.code = c, !.oldAlive = b] \in Request
BY DEF Request

\* The outcome of a correlation makes fields of a request.
LEMMA CorrelatedType ==
    ASSUME NEW r \in Request, NEW w \in Refs, NEW c \in Confidence, NEW b \in BOOLEAN
    PROVE  [r EXCEPT !.ref = w, !.confidence = c, !.pre = b] \in Request
BY DEF Request

\* A replacement's effective placement makes a request.
LEMMA ReplacementType ==
    ASSUME NEW r \in Request, NEW p \in {"absent", "empty", "unknown", "rect"}
    PROVE  [r EXCEPT !.spec.placement = p, !.oldAlive = FALSE] \in Request
<1>1. [r.spec EXCEPT !.placement = p] \in LaunchSpec
    BY DEF LaunchSpec, Request
<1>2. \A s \in LaunchSpec : [r EXCEPT !.spec = s, !.oldAlive = FALSE] \in Request
    BY DEF Request
<1>3. [r EXCEPT !.spec.placement = p, !.oldAlive = FALSE]
        = [r EXCEPT !.spec = [r.spec EXCEPT !.placement = p], !.oldAlive = FALSE]
    BY DEF Request
<1>. QED
    BY <1>1, <1>2, <1>3

\* A close error keeps the types of pc and task.
LEMMA CloseErrorType ==
    ASSUME TypeOK, NEW t \in Tasks, NEW c \in Codes, CloseError(t, c)
    PROVE  pc' \in [Tasks -> PCs] /\ task' \in [Tasks -> Request]
<1>1. task[t] \in Request
    BY DEF TypeOK
<1>2. [task[t] EXCEPT !.code = c, !.oldAlive = FALSE] \in Request
    BY <1>1, ErrorType
<1>3. [task[t] EXCEPT !.code = c, !.oldAlive = (task[t].op = "replace")] \in Request
    BY <1>1, ErrorType
<1>. QED
    BY <1>2, <1>3, GotoType DEF CloseError, PCs

\* Every step of a request that has started keeps the types.
LEMMA RunType ==
    ASSUME TypeOK, NEW t \in Tasks, Run(t)
    PROVE  TypeOK'
<1>. USE DEF PCs
<1>0. /\ task[t] \in Request
      /\ task[t].ref \in Refs \cup {NoRef} /\ task[t].spec \in LaunchSpec
      /\ window \in [Refs -> {"unborn", "shown", "hidden", "gone"}]
    BY DEF TypeOK, Request
<1>1. CASE AdapterLaunch(t)
  <2>1. PICK w \in Refs, c \in Confidence :
            Goto(t, "gating", [task[t] EXCEPT !.ref = w, !.confidence = c, !.pre = w \in task[t].before])
      BY <1>1 DEF AdapterLaunch
  <2>2. (w \in task[t].before) \in BOOLEAN
      OBVIOUS
  <2>3. [task[t] EXCEPT !.ref = w, !.confidence = c, !.pre = w \in task[t].before] \in Request
      BY <1>0, <2>2, CorrelatedType
  <2>. QED
      BY <1>1, <2>1, <2>3, GotoType DEF AdapterLaunch, TypeOK
<1>2. CASE AdapterLaunchFails(t)
    BY <1>2, ReplyType DEF AdapterLaunchFails, TypeOK, Codes
<1>3. CASE GateAndTrack(t)
  <2>1. CASE Reply(t, "LaunchCorrelationAmbiguous") /\ UNCHANGED <<hstate, href>>
      BY <1>3, <2>1, ReplyType DEF GateAndTrack, TypeOK, Codes
  <2>2. CASE Reply(t, "LaunchReturnedExisting") /\ UNCHANGED <<hstate, href>>
      BY <1>3, <2>2, ReplyType DEF GateAndTrack, TypeOK, Codes
  <2>3. CASE \E i \in Ids : TrackOrGet(task[t].ref, i)
                            /\ Goto(t, "placing", [task[t] EXCEPT !.new = i])
    <3>1. PICK i \in Ids : TrackOrGet(task[t].ref, i)
                           /\ Goto(t, "placing", [task[t] EXCEPT !.new = i])
        BY <2>3
    <3>2. [task[t] EXCEPT !.new = i] \in Request
        BY <1>0 DEF Request
    <3>. QED
        BY <1>0, <1>3, <3>1, <3>2, GotoType, TrackOrGetType DEF GateAndTrack, TypeOK
  <2>. QED
      BY <1>3, <2>1, <2>2, <2>3 DEF GateAndTrack
<1>4. CASE PlaceAndReply(t)
  <2>1. PICK o \in PlacementOutcomes(t) :
            Goto(t, IF task[t].spec.dismiss THEN "sleeping" ELSE "done",
                    [task[t] EXCEPT !.placed = o, !.code = "ok"])
      BY <1>4 DEF PlaceAndReply
  <2>2. [task[t] EXCEPT !.placed = o, !.code = "ok"] \in Request
      BY <1>0 DEF Request, PlacementOutcomes, Codes
  <2>. QED
      BY <1>4, <2>1, <2>2, GotoType DEF PlaceAndReply, TypeOK
<1>5. CASE Probe(t)
    BY <1>0, <1>5, GotoType, ReplyType DEF Probe, TypeOK, Codes
<1>6. CASE Track(t)
  <2>1. PICK i \in Ids : TrackOrGet(task[t].ref, i)
                         /\ Goto(t, "done", [task[t] EXCEPT !.new = i, !.code = "ok"])
      BY <1>6 DEF Track
  <2>2. [task[t] EXCEPT !.new = i, !.code = "ok"] \in Request
      BY <1>0 DEF Request, Codes
  <2>. QED
      BY <1>0, <1>6, <2>1, <2>2, GotoType, TrackOrGetType DEF Track, TypeOK
<1>7. CASE SnapshotGeometry(t)
  <2>1. PICK ok \in BOOLEAN : Goto(t, "closing", [task[t] EXCEPT !.snapshot = ok])
      BY <1>7 DEF SnapshotGeometry
  <2>2. \A r \in Request : [r EXCEPT !.snapshot = ok] \in Request
      BY DEF Request
  <2>. QED
      BY <1>0, <1>7, <2>1, <2>2, GotoType DEF SnapshotGeometry, TypeOK
<1>8. CASE Wake(t)
  <2>1. task[t].new \in Ids \cup {NoId}
      BY <1>0 DEF Request
  <2>2. [Blank EXCEPT !.op = "dismiss", !.id = task[t].new] \in Request
      BY <2>1, BlankType DEF Request
  <2>3. [Blank EXCEPT !.op = "dismiss", !.id = task[t].new, !.code = NotAliveCode(task[t].new)] \in Request
      BY <2>1, BlankType DEF Request, NotAliveCode, Codes
  <2>. QED
      BY <1>8, <2>2, <2>3, GotoType DEF Wake, TypeOK
<1>9. CASE RequestClose(t)
    BY <1>0, <1>9, GotoType, CloseErrorType DEF RequestClose, TypeOK, Codes
<1>10. CASE VerifyClose(t)
    BY <1>0, <1>10, GotoType, CloseErrorType DEF VerifyClose, TypeOK, Codes
<1>11. CASE FinishClose(t)
  <2>1. pc' \in [Tasks -> PCs] /\ task' \in [Tasks -> Request]
    <3>1. CASE task[t].op = "replace"
      <4>1. PICK p \in EffectivePlacements(t) :
                EnterLaunch(t, [task[t] EXCEPT !.spec.placement = p, !.oldAlive = FALSE])
          BY <1>11, <3>1 DEF FinishClose
      <4>2. p \in {"absent", "empty", "unknown", "rect"}
          BY <1>0 DEF EffectivePlacements, LaunchSpec
      <4>. QED
          BY <1>0, <4>1, <4>2, ReplacementType, EnterLaunchType
    <3>2. CASE task[t].op # "replace"
        BY <1>11, <3>2, ReplyType DEF FinishClose, Codes
    <3>. QED
        BY <3>1, <3>2
  <2>. QED
      BY <1>11, <2>1, MarkDeadType DEF FinishClose, TypeOK
<1>12. CASE Bury(t)
    BY <1>0, <1>12, GotoType, MarkDeadType DEF Bury, TypeOK
<1>. QED
    BY <1>1, <1>2, <1>3, <1>4, <1>5, <1>6, <1>7, <1>8, <1>9, <1>10, <1>11, <1>12 DEF Run

\* A client's request, admitted or refused, keeps the types.
LEMMA PostType ==
    ASSUME TypeOK, NEW t \in Tasks, Post(t) \/ Recycle(t)
    PROVE  TypeOK'
<1>. USE DEF PCs
<1>1. ASSUME NEW s \in Specs, PostLaunch(t, s) PROVE TypeOK'
  <2>1. [Blank EXCEPT !.op = "launch", !.spec = s] \in Request
      BY BlankType, ConstantsAssumption DEF Request
  <2>. QED
      BY <1>1, <2>1, EnterLaunchType DEF PostLaunch, TypeOK
<1>2. ASSUME NEW w \in Refs, PostTrack(t, w) PROVE TypeOK'
  <2>1. [Blank EXCEPT !.op = "track", !.ref = w] \in Request
      BY BlankType DEF Request
  <2>. QED
      BY <1>2, <2>1, GotoType DEF PostTrack, TypeOK
<1>3. ASSUME NEW i \in Ids, PostClose(t, i) PROVE TypeOK'
  <2>1. [Blank EXCEPT !.op = "close", !.id = i] \in Request
      BY BlankType DEF Request
  <2>2. [[Blank EXCEPT !.op = "close", !.id = i] EXCEPT !.code = NotAliveCode(i)] \in Request
      BY <2>1 DEF Request, NotAliveCode, Codes
  <2>. QED
      BY <1>3, <2>1, <2>2, GotoType DEF PostClose, TypeOK
<1>4. ASSUME NEW i \in Ids, NEW s \in Specs, PostReplace(t, i, s) PROVE TypeOK'
  <2>1. [Blank EXCEPT !.op = "replace", !.id = i, !.spec = s] \in Request
      BY BlankType, ConstantsAssumption DEF Request
  <2>2. NotAliveCode(i) \in Codes
      BY DEF NotAliveCode, Codes
  <2>3. [[Blank EXCEPT !.op = "replace", !.id = i, !.spec = s]
            EXCEPT !.code = NotAliveCode(i), !.oldAlive = FALSE] \in Request
      BY <2>1, <2>2, ErrorType
  <2>. QED
      BY <1>4, <2>1, <2>3, GotoType DEF PostReplace, TypeOK
<1>5. CASE Recycle(t)
    BY <1>5, BlankType, GotoType DEF Recycle, TypeOK
<1>. QED
    BY <1>1, <1>2, <1>3, <1>4, <1>5 DEF Post

\* Every step of the system keeps the types.
LEMMA NextType == TypeOK /\ [Next]_vars => TypeOK'
<1>. SUFFICES ASSUME TypeOK, [Next]_vars PROVE TypeOK'
    OBVIOUS
<1>1. CASE UNCHANGED vars
    BY <1>1 DEF vars, TypeOK
<1>2. CASE \E t \in Tasks : Post(t) \/ Run(t) \/ Recycle(t)
    BY <1>2, RunType, PostType
<1>3. CASE \E w \in Refs : Desktop(w)
    BY <1>3 DEF Desktop, WindowMoves, TypeOK
<1>4. CASE Restart
    BY <1>4, BlankType DEF Restart, TypeOK, PCs
<1>. QED
    BY <1>1, <1>2, <1>3, <1>4 DEF Next

\* The daemon starts with well-typed state.
LEMMA InitType == Init => TypeOK
BY BlankType DEF Init, TypeOK, PCs

\* Every variable keeps its type, whatever the adapter and the clients do.
THEOREM TypeCorrect == Spec => []TypeOK
BY InitType, NextType, PTL DEF Spec

-----------------------------------------------------------------------------
(* The handle store *)

\* What a step may do to the store: mint one handle for a window that has no
\* alive handle, mark one handle dead, or forget all of them.
StoreStep ==
    \/ UNCHANGED <<hstate, href>>
    \/ \E w \in Refs \cup {NoRef}, i \in Ids : TrackOrGet(w, i)
    \/ \E i \in Ids \cup {NoId} : MarkDead(i)
    \/ /\ hstate' = [i \in Ids |-> IF hstate[i] = "absent" THEN "absent" ELSE "forgotten"]
       /\ UNCHANGED href

\* Every step of the system changes the store in one of these ways.
LEMMA NextIsStoreStep == TypeOK /\ [Next]_vars => StoreStep
<1>. SUFFICES ASSUME TypeOK, [Next]_vars PROVE StoreStep
    OBVIOUS
<1>1. CASE UNCHANGED vars
    BY <1>1 DEF vars, StoreStep
<1>2. ASSUME NEW t \in Tasks, Post(t) \/ Run(t) \/ Recycle(t) PROVE StoreStep
  <2>1. task[t].ref \in Refs \cup {NoRef} /\ task[t].id \in Ids \cup {NoId}
      BY DEF TypeOK, Request
  <2>2. CASE GateAndTrack(t)
      BY <2>1, <2>2 DEF GateAndTrack, StoreStep
  <2>3. CASE Track(t)
      BY <2>1, <2>3 DEF Track, StoreStep
  <2>4. CASE FinishClose(t) \/ Bury(t)
      BY <2>1, <2>4 DEF FinishClose, Bury, StoreStep
  <2>5. CASE UNCHANGED <<hstate, href>>
      BY <2>5 DEF StoreStep
  <2>. QED
      BY <1>2, <2>2, <2>3, <2>4, <2>5
      DEF Post, Run, PostLaunch, PostTrack, PostClose, PostReplace, AdapterLaunch, AdapterLaunchFails,
          PlaceAndReply, Probe, SnapshotGeometry, Wake, RequestClose, VerifyClose, Recycle
<1>3. CASE \E w \in Refs : Desktop(w)
    BY <1>3 DEF Desktop, WindowMoves, StoreStep
<1>4. CASE Restart
    BY <1>4 DEF Restart, StoreStep
<1>. QED
    BY <1>1, <1>2, <1>3, <1>4 DEF Next

\* However requests interleave, no window has two alive handles.
THEOREM OneHandle == Spec => []OneAliveHandlePerWindow
<1>1. Init => OneAliveHandlePerWindow
    BY DEF Init, OneAliveHandlePerWindow
<1>2. TypeOK /\ OneAliveHandlePerWindow /\ [Next]_vars => OneAliveHandlePerWindow'
  <2>. SUFFICES ASSUME TypeOK, OneAliveHandlePerWindow, StoreStep PROVE OneAliveHandlePerWindow'
      BY NextIsStoreStep
  <2>1. CASE UNCHANGED <<hstate, href>>
      BY <2>1 DEF OneAliveHandlePerWindow
  <2>2. ASSUME NEW w \in Refs \cup {NoRef}, NEW i \in Ids, TrackOrGet(w, i)
        PROVE  OneAliveHandlePerWindow'
      BY <2>2 DEF TrackOrGet, OneAliveHandlePerWindow, TypeOK
  <2>3. ASSUME NEW i \in Ids \cup {NoId}, MarkDead(i) PROVE OneAliveHandlePerWindow'
      BY <2>3 DEF MarkDead, OneAliveHandlePerWindow, TypeOK
  <2>4. CASE /\ hstate' = [i \in Ids |-> IF hstate[i] = "absent" THEN "absent" ELSE "forgotten"]
             /\ UNCHANGED href
      BY <2>4 DEF OneAliveHandlePerWindow, TypeOK
  <2>. QED
      BY <2>1, <2>2, <2>3, <2>4 DEF StoreStep
<1>. QED
    BY <1>1, <1>2, TypeCorrect, PTL DEF Spec

\* A handle never changes its window and a dead handle never comes back.
THEOREM DeadStaysDead == Spec => DeadIsFinal
<1>1. ASSUME TypeOK, [Next]_vars, NEW i \in Ids, hstate[i] # "absent"
      PROVE  href'[i] = href[i] /\ (hstate[i] = "dead" => hstate'[i] \in {"dead", "forgotten"})
  <2>1. StoreStep
      BY <1>1, NextIsStoreStep
  <2>. QED
      BY <1>1, <2>1 DEF StoreStep, TrackOrGet, MarkDead, TypeOK
<1>2. TypeOK /\ [Next]_vars =>
        [\A i \in Ids : hstate[i] # "absent" =>
            /\ href'[i] = href[i]
            /\ hstate[i] = "dead" => hstate'[i] \in {"dead", "forgotten"}]_vars
    BY <1>1
<1>. QED
    BY <1>2, TypeCorrect, PTL DEF Spec, DeadIsFinal

-----------------------------------------------------------------------------
(* What a suspended request knows *)

\* The requests that name a handle, and those that learnt a window.
ClosingPCs == {"snapshotting", "closing", "verifying", "marking", "burying"}

\* What holds of request t between its steps: the handle it was let in with is
\* in the store, and a replacement past its close has a handle that is not alive.
LocalInv(t) ==
    /\ pc[t] \in {"gating", "probing", "tracking"} => task[t].ref \in Refs
    /\ pc[t] \in {"probing", "tracking"} => task[t].op = "track"
    /\ pc[t] \in {"placing", "sleeping"} => task[t].new \in Ids /\ hstate[task[t].new] # "absent"
    /\ pc[t] \in ClosingPCs => task[t].id \in Ids /\ hstate[task[t].id] # "absent"
    /\ (task[t].op = "replace" /\ (\/ pc[t] \in {"launching", "gating", "placing", "sleeping"}
                                   \/ pc[t] = "done" /\ ~task[t].oldAlive))
            => task[t].id \in Ids /\ hstate[task[t].id] \in {"dead", "forgotten"}

\* The inductive invariant behind ReplaceReportsTruth.
RequestInv ==
    /\ TypeOK
    /\ \A i \in Ids : hstate[i] # "absent" => href[i] \in Refs
    /\ \A t \in Tasks : LocalInv(t)

\* Where Goto leaves the request that takes it.
LEMMA GotoAt ==
    ASSUME TypeOK, NEW t \in Tasks, NEW label, NEW r, Goto(t, label, r)
    PROVE  pc'[t] = label /\ task'[t] = r
BY DEF TypeOK, Goto

\* Where the beginning of a launch leaves the request.
LEMMA EnterLaunchAt ==
    ASSUME TypeOK, NEW t \in Tasks, NEW r \in Request, EnterLaunch(t, r)
    PROVE  /\ pc'[t] \in {"launching", "done"}
           /\ task'[t].op = r.op /\ task'[t].id = r.id /\ task'[t].oldAlive = r.oldAlive
<1>1. CASE (r.spec.fresh /\ r.spec.force) \/ r.spec.placement = "unknown"
  <2>1. Goto(t, "done", [r EXCEPT !.code = "InvalidArgument"])
      BY <1>1 DEF EnterLaunch
  <2>2. pc'[t] = "done" /\ task'[t] = [r EXCEPT !.code = "InvalidArgument"]
      BY <2>1, GotoAt
  <2>. QED
      BY <2>2 DEF Request
<1>2. CASE ~((r.spec.fresh /\ r.spec.force) \/ r.spec.placement = "unknown")
  <2>1. PICK b : Goto(t, "launching", [r EXCEPT !.live = Live, !.before = b])
      BY <1>2 DEF EnterLaunch
  <2>2. pc'[t] = "launching" /\ task'[t] = [r EXCEPT !.live = Live, !.before = b]
      BY <2>1, GotoAt
  <2>. QED
      BY <2>2 DEF Request
<1>. QED
    BY <1>1, <1>2

\* Handles stay in the store and keep their window; a handle that is not alive
\* any more stays so.
LEMMA StoreStable ==
    ASSUME TypeOK, StoreStep, NEW i \in Ids, hstate[i] # "absent"
    PROVE  /\ hstate'[i] # "absent" /\ href'[i] = href[i]
           /\ hstate[i] \in {"dead", "forgotten"} => hstate'[i] \in {"dead", "forgotten"}
BY DEF StoreStep, TrackOrGet, MarkDead, TypeOK

\* A request that takes no step keeps what it knows.
LEMMA OthersKeep ==
    ASSUME TypeOK, StoreStep, NEW u \in Tasks, LocalInv(u), pc'[u] = pc[u], task'[u] = task[u]
    PROVE  LocalInv(u)'
<1>1. \A i \in Ids : hstate[i] # "absent" =>
        /\ hstate'[i] # "absent"
        /\ hstate[i] \in {"dead", "forgotten"} => hstate'[i] \in {"dead", "forgotten"}
    BY StoreStable
<1>. QED
    BY <1>1 DEF LocalInv

\* The step of a request keeps what that request knows.
LEMMA RunKeeps ==
    ASSUME RequestInv, NEW t \in Tasks, Run(t), StoreStep, TypeOK'
    PROVE  LocalInv(t)'
<1>. USE DEF ClosingPCs
<1>0. /\ TypeOK /\ LocalInv(t)
      /\ task[t] \in Request
      /\ task[t].id \in Ids => hstate[task[t].id] \in {"absent", "alive", "dead", "forgotten"}
    BY DEF RequestInv, TypeOK
<1>1. CASE AdapterLaunch(t)
  <2>1. PICK w \in Refs, c \in Confidence :
            Goto(t, "gating", [task[t] EXCEPT !.ref = w, !.confidence = c, !.pre = w \in task[t].before])
      BY <1>1 DEF AdapterLaunch
  <2>2. /\ pc'[t] = "gating" /\ pc[t] = "launching" /\ UNCHANGED hstate
        /\ task'[t].op = task[t].op /\ task'[t].id = task[t].id /\ task'[t].ref \in Refs
      BY <1>0, <1>1, <2>1 DEF Goto, AdapterLaunch, TypeOK, Request
  <2>. QED
      BY <1>0, <2>2 DEF LocalInv
<1>2. CASE AdapterLaunchFails(t)
    BY <1>0, <1>2 DEF AdapterLaunchFails, Reply, Goto, TypeOK, Request, LocalInv
<1>3. CASE GateAndTrack(t)
  <2>1. CASE (\E c \in Codes : Reply(t, c)) /\ UNCHANGED <<hstate, href>>
      BY <1>0, <1>3, <2>1 DEF GateAndTrack, Reply, Goto, TypeOK, Request, LocalInv
  <2>2. CASE \E i \in Ids : TrackOrGet(task[t].ref, i)
                            /\ Goto(t, "placing", [task[t] EXCEPT !.new = i])
    <3>1. PICK i \in Ids : TrackOrGet(task[t].ref, i)
                           /\ Goto(t, "placing", [task[t] EXCEPT !.new = i])
        BY <2>2
    <3>2. /\ pc'[t] = "placing" /\ task'[t].new = i /\ task'[t].op = task[t].op
          /\ task'[t].id = task[t].id
        BY <1>0, <3>1 DEF Goto, TypeOK, Request
    <3>3. hstate'[i] # "absent"
        BY <1>0, <3>1 DEF TrackOrGet, TypeOK
    <3>4. task[t].op = "replace" => task[t].id \in Ids /\ hstate'[task[t].id] \in {"dead", "forgotten"}
        BY <1>0, <1>3, StoreStable DEF GateAndTrack, LocalInv
    <3>. QED
        BY <3>2, <3>3, <3>4 DEF LocalInv
  <2>. QED
      BY <1>3, <2>1, <2>2 DEF GateAndTrack, Codes
<1>4. CASE PlaceAndReply(t)
  <2>1. PICK o \in PlacementOutcomes(t) :
            Goto(t, IF task[t].spec.dismiss THEN "sleeping" ELSE "done",
                    [task[t] EXCEPT !.placed = o, !.code = "ok"])
      BY <1>4 DEF PlaceAndReply
  <2>2. /\ pc'[t] \in {"sleeping", "done"} /\ pc[t] = "placing" /\ UNCHANGED hstate
        /\ task'[t].op = task[t].op /\ task'[t].id = task[t].id /\ task'[t].new = task[t].new
      BY <1>0, <1>4, <2>1 DEF Goto, PlaceAndReply, TypeOK, Request
  <2>. QED
      BY <1>0, <2>2 DEF LocalInv
<1>5. CASE Probe(t)
  <2>1. pc[t] = "probing" /\ UNCHANGED hstate
      BY <1>5 DEF Probe
  <2>2. CASE Goto(t, "tracking", task[t])
    <3>1. pc'[t] = "tracking" /\ task'[t] = task[t]
        BY <1>0, <2>2, GotoAt
    <3>. QED
        BY <1>0, <2>1, <3>1 DEF LocalInv
  <2>3. CASE \E c \in Codes : Reply(t, c)
    <3>1. pc'[t] = "done" /\ task'[t].op = "track"
        BY <1>0, <2>1, <2>3, GotoAt DEF Reply, Request, LocalInv
    <3>. QED
        BY <3>1 DEF LocalInv
  <2>. QED
      BY <1>5, <2>2, <2>3 DEF Probe, Codes
<1>6. CASE Track(t)
    BY <1>0, <1>6 DEF Track, Goto, TypeOK, Request, LocalInv
<1>7. CASE SnapshotGeometry(t)
  <2>1. /\ pc'[t] = "closing" /\ pc[t] = "snapshotting" /\ UNCHANGED hstate
        /\ task'[t].op = task[t].op /\ task'[t].id = task[t].id
      BY <1>0, <1>7 DEF SnapshotGeometry, Goto, TypeOK, Request
  <2>. QED
      BY <1>0, <2>1 DEF LocalInv
<1>8. CASE Wake(t)
  <2>1. /\ pc[t] = "sleeping" /\ pc'[t] \in {"closing", "done"} /\ UNCHANGED hstate
        /\ task'[t].op = "dismiss" /\ task'[t].id = task[t].new
    <3>1. CASE hstate[task[t].new] = "alive"
      <4>1. pc'[t] = "closing" /\ task'[t] = [Blank EXCEPT !.op = "dismiss", !.id = task[t].new]
          BY <1>0, <1>8, <3>1, GotoAt DEF Wake
      <4>. QED
          BY <1>8, <4>1 DEF Blank, Wake
    <3>2. CASE hstate[task[t].new] # "alive"
      <4>1. /\ pc'[t] = "done"
            /\ task'[t] = [Blank EXCEPT !.op = "dismiss", !.id = task[t].new,
                                        !.code = NotAliveCode(task[t].new)]
          BY <1>0, <1>8, <3>2, GotoAt DEF Wake
      <4>. QED
          BY <1>8, <4>1 DEF Blank, Wake
    <3>. QED
        BY <3>1, <3>2
  <2>. QED
      BY <1>0, <2>1 DEF LocalInv
<1>9. ASSUME NEW c, CloseError(t, c), pc[t] \in ClosingPCs, UNCHANGED hstate
      PROVE  LocalInv(t)'
  <2>1. CASE task[t].op = "replace" /\ c = "SurfaceDead"
    <3>1. pc'[t] = "burying" /\ task'[t] = [task[t] EXCEPT !.code = c, !.oldAlive = FALSE]
        BY <1>0, <1>9, <2>1, GotoAt DEF CloseError
    <3>2. task'[t].id = task[t].id
        BY <1>0, <3>1 DEF Request
    <3>. QED
        BY <1>0, <1>9, <3>1, <3>2 DEF LocalInv
  <2>2. CASE ~(task[t].op = "replace" /\ c = "SurfaceDead")
    <3>1. /\ pc'[t] = "done"
          /\ task'[t] = [task[t] EXCEPT !.code = c, !.oldAlive = (task[t].op = "replace")]
        BY <1>0, <1>9, <2>2, GotoAt DEF CloseError
    <3>2. task'[t].op = "replace" => task'[t].oldAlive
        BY <1>0, <3>1 DEF Request
    <3>. QED
        BY <3>1, <3>2 DEF LocalInv
  <2>. QED
      BY <2>1, <2>2
<1>10. CASE RequestClose(t)
  <2>1. CASE Goto(t, "verifying", task[t])
      BY <1>0, <1>10, <2>1 DEF RequestClose, Goto, TypeOK, LocalInv
  <2>. QED
      BY <1>9, <1>10, <2>1 DEF RequestClose
<1>11. CASE VerifyClose(t)
  <2>1. CASE Goto(t, "marking", task[t])
      BY <1>0, <1>11, <2>1 DEF VerifyClose, Goto, TypeOK, LocalInv
  <2>. QED
      BY <1>9, <1>11, <2>1 DEF VerifyClose
<1>12. CASE FinishClose(t)
  <2>1. task[t].id \in Ids /\ hstate'[task[t].id] = "dead"
      BY <1>0, <1>12 DEF FinishClose, MarkDead, TypeOK, LocalInv
  <2>2. CASE task[t].op = "replace"
    <3>1. PICK p \in EffectivePlacements(t) :
              EnterLaunch(t, [task[t] EXCEPT !.spec.placement = p, !.oldAlive = FALSE])
        BY <1>12, <2>2 DEF FinishClose
    <3>2. pc'[t] \in {"launching", "done"} /\ task'[t].op = "replace" /\ task'[t].id = task[t].id
      <4>1. p \in {"absent", "empty", "unknown", "rect"}
          BY <1>0 DEF EffectivePlacements, LaunchSpec, Request
      <4>2. [task[t] EXCEPT !.spec.placement = p, !.oldAlive = FALSE] \in Request
          BY <1>0, <4>1, ReplacementType
      <4>3. /\ [task[t] EXCEPT !.spec.placement = p, !.oldAlive = FALSE].op = task[t].op
            /\ [task[t] EXCEPT !.spec.placement = p, !.oldAlive = FALSE].id = task[t].id
          BY <1>0 DEF Request
      <4>. QED
          BY <1>0, <2>2, <3>1, <4>2, <4>3, EnterLaunchAt
    <3>. QED
        BY <2>1, <3>2 DEF LocalInv
  <2>3. CASE task[t].op # "replace"
      BY <1>0, <1>12, <2>3 DEF FinishClose, Reply, Goto, TypeOK, Request, LocalInv
  <2>. QED
      BY <2>2, <2>3
<1>13. CASE Bury(t)
  <2>1. task[t].id \in Ids /\ hstate'[task[t].id] = "dead"
      BY <1>0, <1>13 DEF Bury, MarkDead, TypeOK, LocalInv
  <2>. QED
      BY <1>0, <1>13, <2>1 DEF Bury, Goto, TypeOK, LocalInv
<1>. QED
    BY <1>1, <1>2, <1>3, <1>4, <1>5, <1>6, <1>7, <1>8, <1>10, <1>11, <1>12, <1>13 DEF Run

\* A client's request is let in only with a handle the store knows.
LEMMA PostKeeps ==
    ASSUME RequestInv, NEW t \in Tasks, Post(t) \/ Recycle(t)
    PROVE  LocalInv(t)'
<1>. USE DEF ClosingPCs
<1>0. TypeOK
    BY DEF RequestInv
<1>1. ASSUME NEW s \in Specs, PostLaunch(t, s) PROVE LocalInv(t)'
  <2>1. pc'[t] \in {"launching", "done"} /\ task'[t].op = "launch"
    <3>1. [Blank EXCEPT !.op = "launch", !.spec = s] \in Request
        BY BlankType, ConstantsAssumption DEF Request
    <3>2. [Blank EXCEPT !.op = "launch", !.spec = s].op = "launch"
        BY DEF Blank
    <3>. QED
        BY <1>0, <1>1, <3>1, <3>2, EnterLaunchAt DEF PostLaunch
  <2>. QED
      BY <2>1 DEF LocalInv
<1>2. ASSUME NEW w \in Refs, PostTrack(t, w) PROVE LocalInv(t)'
  <2>1. pc'[t] = "probing" /\ task'[t].op = "track" /\ task'[t].ref = w
      BY <1>0, <1>2, BlankType DEF PostTrack, Goto, TypeOK, Request
  <2>. QED
      BY <2>1 DEF LocalInv
<1>3. ASSUME NEW i \in Ids, PostClose(t, i) PROVE LocalInv(t)'
  <2>1. /\ pc'[t] \in {"closing", "done"} /\ task'[t].op = "close" /\ task'[t].id = i
        /\ hstate'[i] # "absent"
    <3>1. CASE hstate[i] = "alive"
      <4>1. pc'[t] = "closing" /\ task'[t] = [Blank EXCEPT !.op = "close", !.id = i]
          BY <1>0, <1>3, <3>1, GotoAt DEF PostClose
      <4>. QED
          BY <1>3, <4>1 DEF Blank, PostClose
    <3>2. CASE hstate[i] # "alive"
      <4>1. /\ pc'[t] = "done"
            /\ task'[t] = [[Blank EXCEPT !.op = "close", !.id = i] EXCEPT !.code = NotAliveCode(i)]
          BY <1>0, <1>3, <3>2, GotoAt DEF PostClose
      <4>. QED
          BY <1>3, <4>1 DEF Blank, PostClose
    <3>. QED
        BY <3>1, <3>2
  <2>. QED
      BY <2>1 DEF LocalInv
<1>4. ASSUME NEW i \in Ids, NEW s \in Specs, PostReplace(t, i, s) PROVE LocalInv(t)'
  <2>1. /\ task'[t].op = "replace" /\ task'[t].id = i /\ hstate'[i] # "absent"
        /\ \/ pc'[t] = "snapshotting"
           \/ pc'[t] = "done" /\ hstate'[i] \in {"dead", "forgotten"}
    <3>1. CASE hstate[i] = "alive"
      <4>1. pc'[t] = "snapshotting" /\ task'[t] = [Blank EXCEPT !.op = "replace", !.id = i, !.spec = s]
          BY <1>0, <1>4, <3>1, GotoAt DEF PostReplace
      <4>. QED
          BY <1>4, <4>1 DEF Blank, PostReplace
    <3>2. CASE hstate[i] # "alive"
      <4>1. /\ pc'[t] = "done"
            /\ task'[t] = [[Blank EXCEPT !.op = "replace", !.id = i, !.spec = s]
                              EXCEPT !.code = NotAliveCode(i), !.oldAlive = FALSE]
          BY <1>0, <1>4, <3>2, GotoAt DEF PostReplace
      <4>2. hstate'[i] \in {"dead", "forgotten"}
          BY <1>0, <1>4, <3>2 DEF PostReplace, TypeOK
      <4>. QED
          BY <1>4, <4>1, <4>2 DEF Blank, PostReplace
    <3>. QED
        BY <3>1, <3>2
  <2>. QED
      BY <2>1 DEF LocalInv
<1>5. CASE Recycle(t)
    BY <1>0, <1>5, BlankType DEF Recycle, Goto, TypeOK, LocalInv
<1>. QED
    BY <1>1, <1>2, <1>3, <1>4, <1>5 DEF Post

\* A request's step leaves the other requests alone.
LEMMA OneMoves ==
    ASSUME TypeOK, NEW t \in Tasks, Post(t) \/ Run(t) \/ Recycle(t), NEW u \in Tasks, u # t
    PROVE  pc'[u] = pc[u] /\ task'[u] = task[u]
<1>1. \E label, r : Goto(t, label, r)
    BY DEF Post, Run, PostLaunch, PostTrack, PostClose, PostReplace, EnterLaunch, AdapterLaunch,
           AdapterLaunchFails, GateAndTrack, PlaceAndReply, Probe, Track, SnapshotGeometry, Wake,
           RequestClose, VerifyClose, CloseError, FinishClose, Bury, Recycle, Reply
<1>. QED
    BY <1>1 DEF Goto, TypeOK

\* The invariant holds initially.
LEMMA RequestInvInit == Init => RequestInv
<1>. SUFFICES ASSUME Init PROVE RequestInv
    OBVIOUS
<1>1. TypeOK
    BY InitType
<1>. QED
    BY <1>1 DEF Init, RequestInv, LocalInv, ClosingPCs

\* Every step keeps the invariant.
LEMMA RequestInvNext == RequestInv /\ [Next]_vars => RequestInv'
<1>. SUFFICES ASSUME RequestInv, [Next]_vars PROVE RequestInv'
    OBVIOUS
<1>1. TypeOK /\ TypeOK' /\ StoreStep
    BY NextType, NextIsStoreStep DEF RequestInv
<1>2. CASE UNCHANGED vars
    BY <1>1, <1>2 DEF vars, RequestInv, LocalInv
<1>3. ASSUME NEW t \in Tasks, Post(t) \/ Run(t) \/ Recycle(t) PROVE RequestInv'
  <2>1. \A i \in Ids : hstate'[i] # "absent" => href'[i] \in Refs
    <3>. SUFFICES ASSUME NEW i \in Ids, hstate'[i] # "absent" PROVE href'[i] \in Refs
        OBVIOUS
    <3>1. CASE hstate[i] # "absent"
        BY <1>1, <3>1, StoreStable DEF RequestInv
    <3>2. CASE hstate[i] = "absent"
      <4>1. CASE \E j \in Ids : task[t].ref \in Refs /\ TrackOrGet(task[t].ref, j)
          BY <1>1, <3>2, <4>1 DEF TrackOrGet, TypeOK
      <4>2. CASE \E j \in Ids : hstate[j] # "absent" /\ MarkDead(j)
          BY <1>1, <3>2, <4>2 DEF MarkDead, TypeOK
      <4>3. CASE UNCHANGED <<hstate, href>>
          BY <3>2, <4>3
      <4>4. LocalInv(t)
          BY DEF RequestInv
      <4>5. CASE GateAndTrack(t) \/ Track(t)
          BY <4>1, <4>3, <4>4, <4>5 DEF GateAndTrack, Track, LocalInv
      <4>6. CASE FinishClose(t) \/ Bury(t)
          BY <4>2, <4>4, <4>6 DEF FinishClose, Bury, LocalInv, ClosingPCs
      <4>. QED
          BY <1>3, <4>3, <4>5, <4>6
          DEF Post, Run, PostLaunch, PostTrack, PostClose, PostReplace, AdapterLaunch, AdapterLaunchFails,
              PlaceAndReply, Probe, SnapshotGeometry, Wake, RequestClose, VerifyClose, Recycle
    <3>. QED
        BY <3>1, <3>2
  <2>2. ASSUME NEW u \in Tasks PROVE LocalInv(u)'
    <3>1. CASE u = t
        BY <1>1, <1>3, <3>1, RunKeeps, PostKeeps
    <3>2. CASE u # t
        BY <1>1, <1>3, <3>2, OneMoves, OthersKeep DEF RequestInv
    <3>. QED
        BY <3>1, <3>2
  <2>. QED
      BY <1>1, <2>1, <2>2 DEF RequestInv
<1>4. CASE \E w \in Refs : Desktop(w)
    BY <1>1, <1>4 DEF Desktop, WindowMoves, RequestInv, LocalInv
<1>5. CASE Restart
    BY <1>1, <1>5 DEF Restart, RequestInv, LocalInv, ClosingPCs, TypeOK
<1>. QED
    BY <1>2, <1>3, <1>4, <1>5 DEF Next

\* The invariant holds of every reachable state.
THEOREM RequestsConsistent == Spec => []RequestInv
BY RequestInvInit, RequestInvNext, PTL DEF Spec

\* `old_handle_alive: false` in a replace error is true of every behaviour.
THEOREM ReplaceTellsTruth == Spec => []ReplaceReportsTruth
<1>1. RequestInv => ReplaceReportsTruth
    BY DEF RequestInv, LocalInv, ReplaceReportsTruth
<1>. QED
    BY <1>1, RequestsConsistent, PTL

-----------------------------------------------------------------------------
(* The Windows adapter: a dead handle's window is gone *)

\* What is known of the windows themselves: handles and correlated references
\* name windows that were opened, and a request that is about to mark its
\* handle dead has seen the window gone.
GoneInv ==
    /\ \A i \in Ids : hstate[i] # "absent" => window[href[i]] # "unborn"
    /\ \A t \in Tasks : pc[t] \in {"gating", "probing", "tracking"} => window[task[t].ref] # "unborn"
    /\ \A t \in Tasks : pc[t] \in {"marking", "burying"} => window[href[task[t].id]] = "gone"
    /\ DeadHandleWindowGone

\* A window never goes back: once opened it stays opened or closed, once closed
\* it stays closed.
LEMMA WindowsAge ==
    ASSUME TypeOK, [Next]_vars, NEW w \in Refs
    PROVE  /\ window[w] # "unborn" => window'[w] # "unborn"
           /\ window[w] = "gone" => window'[w] = "gone"
<1>1. CASE \E v \in Refs : Desktop(v)
    BY <1>1 DEF Desktop, WindowMoves, TypeOK
<1>2. CASE UNCHANGED window
    BY <1>2
<1>. QED
    BY <1>1, <1>2
    DEF Next, vars, Post, Run, PostLaunch, PostTrack, PostClose, PostReplace, AdapterLaunch,
        AdapterLaunchFails, GateAndTrack, PlaceAndReply, Probe, Track, SnapshotGeometry, Wake,
        RequestClose, VerifyClose, FinishClose, Bury, Recycle, Restart

\* A request comes to a point where its window is known in one of these ways.
LEMMA Arrivals ==
    ASSUME Platform = "windows", RequestInv, GoneInv,
           NEW t \in Tasks, Post(t) \/ Run(t) \/ Recycle(t)
    PROVE  /\ pc'[t] \in {"gating", "probing", "tracking"} => window'[task'[t].ref] # "unborn"
           /\ pc'[t] \in {"marking", "burying"} => window'[href'[task'[t].id]] = "gone"
<1>0. /\ TypeOK /\ LocalInv(t) /\ task[t] \in Request
      /\ \A i \in Ids : hstate[i] # "absent" => href[i] \in Refs /\ window[href[i]] # "unborn"
    BY DEF RequestInv, TypeOK, GoneInv
<1>1. CASE AdapterLaunch(t)
  <2>1. PICK w \in Refs, c \in Confidence :
            /\ Correlates(t, w, c)
            /\ Goto(t, "gating", [task[t] EXCEPT !.ref = w, !.confidence = c, !.pre = w \in task[t].before])
      BY <1>1 DEF AdapterLaunch
  <2>2. pc'[t] = "gating" /\ task'[t].ref = w
      BY <1>0, <2>1 DEF Goto, TypeOK, Request
  <2>3. window[w] # "unborn" /\ UNCHANGED window
      BY <1>1, <2>1 DEF Correlates, Shown, Live, AdapterLaunch
  <2>. QED
      BY <2>2, <2>3
<1>2. CASE Probe(t)
  <2>1. CASE Goto(t, "tracking", task[t])
    <3>1. pc'[t] = "tracking" /\ task'[t] = task[t] /\ UNCHANGED window /\ pc[t] = "probing"
        BY <1>0, <1>2, <2>1, GotoAt DEF Probe
    <3>. QED
        BY <3>1 DEF GoneInv
  <2>2. CASE \E c \in Codes : Reply(t, c)
      BY <1>0, <2>2, GotoAt DEF Reply
  <2>. QED
      BY <1>2, <2>1, <2>2 DEF Probe, Codes
<1>3. ASSUME NEW w \in Refs, PostTrack(t, w)
      PROVE  /\ pc'[t] = "probing" /\ window'[task'[t].ref] # "unborn"
  <2>1. pc'[t] = "probing" /\ task'[t] = [Blank EXCEPT !.op = "track", !.ref = w]
      BY <1>0, <1>3, GotoAt DEF PostTrack
  <2>2. task'[t].ref = w
      BY <2>1 DEF Blank
  <2>. QED
      BY <1>3, <2>1, <2>2 DEF PostTrack
<1>4. CASE RequestClose(t)
  <2>1. task[t].id \in Ids /\ hstate[task[t].id] # "absent" /\ UNCHANGED <<window, href>>
      BY <1>0, <1>4 DEF RequestClose, LocalInv, ClosingPCs
  <2>2. CASE Goto(t, "verifying", task[t])
      BY <1>0, <2>2, GotoAt
  <2>3. CASE CloseError(t, "AdapterError")
      BY <1>0, <2>3, GotoAt DEF CloseError
  <2>4. CASE href[task[t].id] \notin Live /\ CloseError(t, "SurfaceDead")
    <3>1. window[href[task[t].id]] = "gone"
        BY <1>0, <2>1, <2>4 DEF Live, TypeOK
    <3>2. /\ pc'[t] \in {"burying", "done"}
          /\ pc'[t] = "burying" => task'[t] = [task[t] EXCEPT !.code = "SurfaceDead", !.oldAlive = FALSE]
        BY <1>0, <2>4, GotoAt DEF CloseError
    <3>3. pc'[t] = "burying" => task'[t].id = task[t].id
        BY <1>0, <3>2 DEF Request
    <3>. QED
        BY <2>1, <3>1, <3>2, <3>3
  <2>. QED
      BY <1>4, <2>2, <2>3, <2>4 DEF RequestClose
<1>5. CASE VerifyClose(t)
  <2>1. UNCHANGED <<window, href>>
      BY <1>5 DEF VerifyClose
  <2>2. CASE SeemsClosed(href[task[t].id]) /\ Goto(t, "marking", task[t])
      BY <1>0, <2>1, <2>2, GotoAt DEF SeemsClosed
  <2>3. CASE CloseError(t, "CloseFailed")
      BY <1>0, <2>3, GotoAt DEF CloseError
  <2>4. CASE CloseError(t, "AdapterError")
      BY <1>0, <2>4, GotoAt DEF CloseError
  <2>. QED
      BY <1>5, <2>2, <2>3, <2>4 DEF VerifyClose
<1>6. CASE PlaceAndReply(t)
    BY <1>0, <1>6 DEF PlaceAndReply, Goto, TypeOK
<1>7. CASE GateAndTrack(t)
    BY <1>0, <1>7 DEF GateAndTrack, Reply, Goto, TypeOK
<1>8. CASE FinishClose(t)
    BY <1>0, <1>8 DEF FinishClose, EnterLaunch, Reply, Goto, TypeOK
<1>9. CASE Wake(t)
    BY <1>0, <1>9 DEF Wake, Goto, TypeOK
<1>10. CASE AdapterLaunchFails(t) \/ Track(t) \/ SnapshotGeometry(t) \/ Bury(t) \/ Recycle(t)
    BY <1>0, <1>10 DEF AdapterLaunchFails, Track, SnapshotGeometry, Bury, Recycle, Reply, Goto, TypeOK
<1>11. ASSUME NEW s \in Specs, PostLaunch(t, s) PROVE pc'[t] \in {"launching", "done"}
    BY <1>0, <1>11 DEF PostLaunch, EnterLaunch, Goto, TypeOK
<1>12. ASSUME NEW i \in Ids, PostClose(t, i) PROVE pc'[t] \in {"closing", "done"}
    BY <1>0, <1>12 DEF PostClose, Goto, TypeOK
<1>13. ASSUME NEW i \in Ids, NEW s \in Specs, PostReplace(t, i, s) PROVE pc'[t] \in {"snapshotting", "done"}
    BY <1>0, <1>13 DEF PostReplace, Goto, TypeOK
<1>. QED
    BY <1>1, <1>2, <1>3, <1>4, <1>5, <1>6, <1>7, <1>8, <1>9, <1>10, <1>11, <1>12, <1>13 DEF Post, Run

\* A step that mints or kills a handle does so for a window the request knows.
LEMMA StoreKnows ==
    ASSUME RequestInv, GoneInv, NEW t \in Tasks, Post(t) \/ Run(t) \/ Recycle(t), NEW i \in Ids
    PROVE  /\ (hstate[i] = "absent" /\ hstate'[i] # "absent") => window[href'[i]] # "unborn"
           /\ (hstate[i] # "dead" /\ hstate'[i] = "dead") => window[href[i]] = "gone" /\ href'[i] = href[i]
<1>0. TypeOK /\ LocalInv(t)
    BY DEF RequestInv
<1>1. CASE UNCHANGED <<hstate, href>>
    BY <1>1
<1>2. ASSUME NEW j \in Ids, TrackOrGet(task[t].ref, j), pc[t] \in {"gating", "tracking"}
      PROVE  /\ (hstate[i] = "absent" /\ hstate'[i] # "absent") => window[href'[i]] # "unborn"
             /\ (hstate[i] # "dead" /\ hstate'[i] = "dead") => window[href[i]] = "gone" /\ href'[i] = href[i]
  <2>1. window[task[t].ref] # "unborn"
      BY <1>2 DEF GoneInv
  <2>. QED
      BY <1>0, <1>2, <2>1 DEF TrackOrGet, TypeOK
<1>3. CASE FinishClose(t) \/ Bury(t)
  <2>1. task[t].id \in Ids /\ hstate[task[t].id] # "absent" /\ window[href[task[t].id]] = "gone"
      BY <1>0, <1>3 DEF FinishClose, Bury, LocalInv, ClosingPCs, GoneInv
  <2>2. MarkDead(task[t].id)
      BY <1>3 DEF FinishClose, Bury
  <2>. QED
      BY <1>0, <2>1, <2>2 DEF MarkDead, TypeOK
<1>4. CASE GateAndTrack(t) \/ Track(t)
    BY <1>1, <1>2, <1>4 DEF GateAndTrack, Track
<1>. QED
    BY <1>1, <1>3, <1>4
    DEF Post, Run, PostLaunch, PostTrack, PostClose, PostReplace, AdapterLaunch, AdapterLaunchFails,
        PlaceAndReply, Probe, SnapshotGeometry, Wake, RequestClose, VerifyClose, Recycle

\* Every step of a daemon with the Windows adapter keeps GoneInv.
LEMMA GoneInvNext ==
    ASSUME Platform = "windows"
    PROVE  RequestInv /\ GoneInv /\ [Next]_vars => GoneInv'
<1>. SUFFICES ASSUME RequestInv, GoneInv, [Next]_vars PROVE GoneInv'
    OBVIOUS
<1>1. TypeOK /\ StoreStep
    BY NextIsStoreStep DEF RequestInv
<1>2. \A w \in Refs : /\ window[w] # "unborn" => window'[w] # "unborn"
                      /\ window[w] = "gone" => window'[w] = "gone"
    BY <1>1, WindowsAge
<1>3. \A i \in Ids : hstate[i] # "absent" =>
        href[i] \in Refs /\ hstate'[i] # "absent" /\ href'[i] = href[i]
    BY <1>1, StoreStable DEF RequestInv
<1>4. ASSUME NEW u \in Tasks, pc'[u] = pc[u], task'[u] = task[u]
      PROVE  /\ pc'[u] \in {"gating", "probing", "tracking"} => window'[task'[u].ref] # "unborn"
             /\ pc'[u] \in {"marking", "burying"} => window'[href'[task'[u].id]] = "gone"
  <2>1. LocalInv(u)
      BY DEF RequestInv
  <2>. QED
      BY <1>2, <1>3, <1>4, <2>1 DEF GoneInv, LocalInv, ClosingPCs
<1>5. ASSUME NEW t \in Tasks, Post(t) \/ Run(t) \/ Recycle(t) PROVE GoneInv'
  <2>1. UNCHANGED window
      BY <1>5
      DEF Post, Run, PostLaunch, PostTrack, PostClose, PostReplace, AdapterLaunch, AdapterLaunchFails,
          GateAndTrack, PlaceAndReply, Probe, Track, SnapshotGeometry, Wake, RequestClose, VerifyClose,
          FinishClose, Bury, Recycle
  <2>2. ASSUME NEW u \in Tasks
        PROVE  /\ pc'[u] \in {"gating", "probing", "tracking"} => window'[task'[u].ref] # "unborn"
               /\ pc'[u] \in {"marking", "burying"} => window'[href'[task'[u].id]] = "gone"
    <3>1. CASE u = t
        BY <1>5, <3>1, Arrivals
    <3>2. CASE u # t
        BY <1>1, <1>4, <1>5, <3>2, OneMoves
    <3>. QED
        BY <3>1, <3>2
  <2>3. ASSUME NEW i \in Ids
        PROVE  /\ hstate'[i] # "absent" => window'[href'[i]] # "unborn"
               /\ hstate'[i] = "dead" => window'[href'[i]] = "gone"
    <3>1. /\ (hstate[i] = "absent" /\ hstate'[i] # "absent") => window[href'[i]] # "unborn"
          /\ (hstate[i] # "dead" /\ hstate'[i] = "dead") => window[href[i]] = "gone" /\ href'[i] = href[i]
        BY <1>5, StoreKnows
    <3>. QED
        BY <1>3, <2>1, <3>1 DEF GoneInv, DeadHandleWindowGone
  <2>. QED
      BY <2>2, <2>3 DEF GoneInv, DeadHandleWindowGone
<1>6. CASE (\E w \in Refs : Desktop(w)) \/ UNCHANGED vars
  <2>1. UNCHANGED <<hstate, href, pc, task>>
      BY <1>6 DEF Desktop, WindowMoves, vars
  <2>2. \A u \in Tasks : /\ pc'[u] \in {"gating", "probing", "tracking"} => window'[task'[u].ref] # "unborn"
                         /\ pc'[u] \in {"marking", "burying"} => window'[href'[task'[u].id]] = "gone"
      BY <1>4, <2>1
  <2>. QED
      BY <1>2, <1>3, <2>1, <2>2 DEF GoneInv, DeadHandleWindowGone
<1>7. CASE Restart
    BY <1>1, <1>7 DEF Restart, GoneInv, DeadHandleWindowGone, TypeOK
<1>. QED
    BY <1>5, <1>6, <1>7 DEF Next

\* With the Windows adapter, which looks at the window itself before it reports
\* a close, a handle is marked dead only when its window is really gone.
THEOREM WindowsDeadMeansGone ==
    ASSUME Platform = "windows"
    PROVE  Spec => []DeadHandleWindowGone
<1>1. Init => GoneInv
    BY DEF Init, GoneInv, DeadHandleWindowGone
<1>2. RequestInv /\ GoneInv /\ [Next]_vars => GoneInv'
    BY GoneInvNext
<1>3. GoneInv => DeadHandleWindowGone
    BY DEF GoneInv
<1>. QED
    BY <1>1, <1>2, <1>3, RequestsConsistent, PTL DEF Spec

-----------------------------------------------------------------------------
(* What a launch returns and moves *)

\* The adapter records every window before the application starts: always on Windows, and on
\* macOS when only processes are launched.
Recorded == Platform = "windows" \/ (Platform = "macos" /\ \A s \in Specs : s.kind = "process")

\* What a request at p with the locals r knows of the window it launched: whether it was there
\* before, that a fresh one was not, and that only force_place moves one that was.
LaunchRule(p, r) ==
    /\ p \notin {"placing", "sleeping", "done"} => r.new = NoId
    /\ p = "placing" => r.new # NoId
    /\ p \notin {"sleeping", "done"} => r.placed = "none"
    /\ p \in {"probing", "tracking"} => ~r.pre /\ r.before = {} /\ ~r.spec.fresh
    /\ (p = "gating" \/ r.new # NoId) => (r.pre <=> r.ref \in r.before)
    /\ r.new # NoId /\ r.spec.fresh => ~r.pre
    /\ r.placed = "applied" => r.new # NoId /\ (r.pre => r.spec.force)
    /\ Recorded /\ r.spec.fresh /\ (p \in {"launching", "gating"} \/ r.new # NoId) => r.before = r.live
    /\ Recorded /\ Platform = "macos" => r.spec.kind = "process"

\* The handle of a launched or tracked window names that window.
NamesWindow(r) == r.new # NoId => r.new \in Ids /\ hstate[r.new] # "absent" /\ href[r.new] = r.ref

LaunchInv == TypeOK /\ \A t \in Tasks : LaunchRule(pc[t], task[t]) /\ NamesWindow(task[t])

\* A request without a window yet, or answered without one, obeys the rule.
LEMMA RuleOfNone ==
    ASSUME NEW p, NEW r, r.new = NoId, r.placed = "none",
           p \notin {"probing", "tracking", "gating", "launching", "placing"},
           Recorded /\ Platform = "macos" => r.spec.kind = "process"
    PROVE  LaunchRule(p, r) /\ NamesWindow(r)
BY DEF LaunchRule, NamesWindow

\* A request that only learns a code, a snapshot or the fate of the old handle keeps the rest.
LEMMA RuleKept ==
    ASSUME NEW p, NEW q, NEW r, NEW s, LaunchRule(p, r), r.new = NoId, r.placed = "none",
           q \notin {"probing", "tracking", "gating", "launching", "placing"},
           s.new = r.new, s.placed = r.placed, s.spec = r.spec
    PROVE  LaunchRule(q, s) /\ NamesWindow(s)
BY DEF LaunchRule, NamesWindow

\* The blank request obeys it.
LEMMA BlankRule ==
    ASSUME NEW p, p \notin {"gating", "launching", "placing"}
    PROVE  LaunchRule(p, Blank) /\ NamesWindow(Blank)
<1>1. Blank.new = NoId /\ Blank.placed = "none" /\ ~Blank.pre /\ Blank.before = {}
      /\ Blank.spec = DefaultSpec
    BY DEF Blank
<1>2. ~DefaultSpec.fresh /\ DefaultSpec.kind = "process"
    BY DEF DefaultSpec
<1>. QED
    BY <1>1, <1>2 DEF LaunchRule, NamesWindow

\* A launch begins: what the adapter recorded is every window that was open, where it records
\* them all.
LEMMA EnterRule ==
    ASSUME TypeOK, NEW t \in Tasks, NEW r \in Request, EnterLaunch(t, r),
           r.new = NoId, r.placed = "none", Recorded /\ Platform = "macos" => r.spec.kind = "process"
    PROVE  LaunchRule(pc'[t], task'[t]) /\ task'[t].new = NoId
<1>1. CASE (r.spec.fresh /\ r.spec.force) \/ r.spec.placement = "unknown"
  <2>. DEFINE s == [r EXCEPT !.code = "InvalidArgument"]
  <2>1. pc'[t] = "done" /\ task'[t] = s
      BY <1>1, GotoAt DEF EnterLaunch
  <2>2. s.new = NoId /\ s.placed = "none" /\ s.spec = r.spec
      BY DEF Request
  <2>. HIDE DEF s
  <2>. QED
      BY <2>1, <2>2, RuleOfNone
<1>2. CASE ~((r.spec.fresh /\ r.spec.force) \/ r.spec.placement = "unknown")
  <2>1. PICK b \in BeforeSets(r.spec.kind) :
            Goto(t, "launching", [r EXCEPT !.live = Live, !.before = b])
      BY <1>2 DEF EnterLaunch
  <2>. DEFINE s == [r EXCEPT !.live = Live, !.before = b]
  <2>2. pc'[t] = "launching" /\ task'[t] = s
      BY <2>1, GotoAt
  <2>3. s.new = NoId /\ s.placed = "none" /\ s.spec = r.spec /\ s.live = Live /\ s.before = b
      BY DEF Request
  <2>. HIDE DEF s
  <2>4. Recorded => b = Live
      BY <2>1 DEF Recorded, BeforeSets
  <2>. QED
      BY <2>2, <2>3, <2>4 DEF LaunchRule
<1>. QED
    BY <1>1, <1>2

\* What track_or_get returns names the window it was asked for.
LEMMA TrackedNames ==
    ASSUME TypeOK, NEW w, NEW i \in Ids, TrackOrGet(w, i)
    PROVE  hstate'[i] # "absent" /\ href'[i] = w
BY DEF TypeOK, TrackOrGet

\* Every step of a request keeps what it knows of the window it launched.
LEMMA RunLaunches ==
    ASSUME LaunchInv, NEW t \in Tasks, Run(t), StoreStep
    PROVE  LaunchRule(pc'[t], task'[t]) /\ NamesWindow(task[t])'
<1>. DEFINE r == task[t]
<1>0. /\ TypeOK /\ LaunchRule(pc[t], r) /\ NamesWindow(r) /\ r \in Request
      /\ Recorded /\ Platform = "macos" => r.spec.kind = "process"
    BY DEF LaunchInv, TypeOK, LaunchRule
<1>1. ASSUME NEW q, NEW s, Goto(t, q, s), r.new = NoId, r.placed = "none",
             q \notin {"probing", "tracking", "gating", "launching", "placing"},
             s.new = r.new, s.placed = r.placed, s.spec = r.spec
      PROVE  LaunchRule(pc'[t], task'[t]) /\ NamesWindow(task[t])'
  <2>1. pc'[t] = q /\ task'[t] = s
      BY <1>0, <1>1, GotoAt
  <2>2. LaunchRule(q, s) /\ s.new = NoId
      BY <1>0, <1>1, RuleKept
  <2>. QED
      BY <2>1, <2>2 DEF NamesWindow
<1>2. ASSUME NEW c, Reply(t, c), r.new = NoId, r.placed = "none"
      PROVE  LaunchRule(pc'[t], task'[t]) /\ NamesWindow(task[t])'
  <2>. DEFINE s == [r EXCEPT !.code = c]
  <2>1. s.new = r.new /\ s.placed = r.placed /\ s.spec = r.spec
      BY <1>0 DEF Request
  <2>2. Goto(t, "done", s)
      BY <1>2 DEF Reply
  <2>. HIDE DEF s
  <2>. QED
      BY <1>1, <1>2, <2>1, <2>2
<1>3. ASSUME NEW c, CloseError(t, c), r.new = NoId, r.placed = "none"
      PROVE  LaunchRule(pc'[t], task'[t]) /\ NamesWindow(task[t])'
  <2>. DEFINE s(b) == [r EXCEPT !.code = c, !.oldAlive = b]
  <2>1. \A b : s(b).new = r.new /\ s(b).placed = r.placed /\ s(b).spec = r.spec
      BY <1>0 DEF Request
  <2>2. Goto(t, "burying", s(FALSE)) \/ Goto(t, "done", s(r.op = "replace"))
      BY <1>3 DEF CloseError
  <2>. HIDE DEF s
  <2>. QED
      BY <1>1, <1>3, <2>1, <2>2
<1>4. pc[t] \notin {"placing", "sleeping", "done"} => r.new = NoId /\ r.placed = "none"
    BY <1>0 DEF LaunchRule
<1>5. CASE AdapterLaunch(t)
  <2>1. PICK w \in Refs, c \in Confidence : Goto(t, "gating", [r EXCEPT !.ref = w, !.confidence = c, !.pre = w \in r.before])
      BY <1>5 DEF AdapterLaunch
  <2>. DEFINE s == [r EXCEPT !.ref = w, !.confidence = c, !.pre = w \in r.before]
  <2>2. /\ s.new = r.new /\ s.placed = r.placed /\ s.spec = r.spec /\ s.before = r.before
        /\ s.live = r.live /\ s.ref = w /\ s.pre = (w \in r.before)
      BY <1>0 DEF Request
  <2>3. pc'[t] = "gating" /\ task'[t] = s /\ pc[t] = "launching"
      BY <1>0, <1>5, <2>1, GotoAt DEF AdapterLaunch
  <2>. HIDE DEF s
  <2>. QED
      BY <1>0, <1>4, <2>2, <2>3 DEF LaunchRule, NamesWindow
<1>6. CASE AdapterLaunchFails(t)
    BY <1>2, <1>4, <1>6 DEF AdapterLaunchFails
<1>7. CASE GateAndTrack(t)
  <2>1. CASE Reply(t, "LaunchCorrelationAmbiguous") \/ Reply(t, "LaunchReturnedExisting")
      BY <1>2, <1>4, <1>7, <2>1 DEF GateAndTrack
  <2>2. ASSUME ~(r.spec.fresh /\ r.pre),
               NEW i \in Ids, TrackOrGet(r.ref, i), Goto(t, "placing", [r EXCEPT !.new = i])
        PROVE  LaunchRule(pc'[t], task'[t]) /\ NamesWindow(task[t])'
    <3>. DEFINE s == [r EXCEPT !.new = i]
    <3>1. /\ s.new = i /\ s.placed = r.placed /\ s.spec = r.spec /\ s.before = r.before
          /\ s.live = r.live /\ s.ref = r.ref /\ s.pre = r.pre
        BY <1>0 DEF Request
    <3>2. pc'[t] = "placing" /\ task'[t] = s /\ pc[t] = "gating"
        BY <1>0, <1>7, <2>2, GotoAt DEF GateAndTrack
    <3>3. hstate'[i] # "absent" /\ href'[i] = r.ref
        BY <1>0, <2>2, TrackedNames
    <3>4. i # NoId
        BY ConstantsAssumption
    <3>. HIDE DEF s
    <3>. QED
        BY <1>0, <1>4, <2>2, <3>1, <3>2, <3>3, <3>4 DEF LaunchRule, NamesWindow
  <2>. QED
      BY <1>7, <2>1, <2>2 DEF GateAndTrack
<1>8. CASE PlaceAndReply(t)
  <2>1. PICK o \in PlacementOutcomes(t) : Goto(t, IF r.spec.dismiss THEN "sleeping" ELSE "done", [r EXCEPT !.placed = o, !.code = "ok"])
      BY <1>8 DEF PlaceAndReply
  <2>. DEFINE s == [r EXCEPT !.placed = o, !.code = "ok"]
  <2>2. /\ s.new = r.new /\ s.placed = o /\ s.spec = r.spec /\ s.before = r.before
        /\ s.live = r.live /\ s.ref = r.ref /\ s.pre = r.pre
      BY <1>0 DEF Request
  <2>3. pc'[t] \in {"sleeping", "done"} /\ task'[t] = s /\ pc[t] = "placing" /\ UNCHANGED <<hstate, href>>
      BY <1>0, <1>8, <2>1, GotoAt DEF PlaceAndReply
  <2>4. o = "applied" => (r.pre => r.spec.force)
      BY <2>1 DEF PlacementOutcomes
  <2>. HIDE DEF s
  <2>. QED
      BY <1>0, <2>2, <2>3, <2>4 DEF LaunchRule, NamesWindow
<1>9. CASE Probe(t)
  <2>1. CASE Goto(t, "tracking", r)
    <3>1. pc'[t] = "tracking" /\ task'[t] = r /\ pc[t] = "probing"
        BY <1>0, <1>9, <2>1, GotoAt DEF Probe
    <3>. QED
        BY <1>0, <1>4, <3>1 DEF LaunchRule, NamesWindow
  <2>2. CASE Reply(t, "SurfaceDead") \/ Reply(t, "AdapterError")
      BY <1>2, <1>4, <1>9, <2>2 DEF Probe
  <2>. QED
      BY <1>9, <2>1, <2>2 DEF Probe
<1>10. CASE Track(t)
  <2>1. PICK i \in Ids : TrackOrGet(r.ref, i) /\ Goto(t, "done", [r EXCEPT !.new = i, !.code = "ok"])
      BY <1>10 DEF Track
  <2>. DEFINE s == [r EXCEPT !.new = i, !.code = "ok"]
  <2>2. /\ s.new = i /\ s.placed = r.placed /\ s.spec = r.spec /\ s.before = r.before
        /\ s.ref = r.ref /\ s.pre = r.pre
      BY <1>0 DEF Request
  <2>3. pc'[t] = "done" /\ task'[t] = s /\ pc[t] = "tracking"
      BY <1>0, <1>10, <2>1, GotoAt DEF Track
  <2>4. hstate'[i] # "absent" /\ href'[i] = r.ref
      BY <1>0, <2>1, TrackedNames
  <2>. HIDE DEF s
  <2>. QED
      BY <1>0, <1>4, <2>2, <2>3, <2>4 DEF LaunchRule, NamesWindow
<1>11. CASE SnapshotGeometry(t)
  <2>1. PICK ok \in BOOLEAN : Goto(t, "closing", [r EXCEPT !.snapshot = ok])
      BY <1>11 DEF SnapshotGeometry
  <2>. DEFINE s == [r EXCEPT !.snapshot = ok]
  <2>2. s.new = r.new /\ s.placed = r.placed /\ s.spec = r.spec
      BY <1>0 DEF Request
  <2>. HIDE DEF s
  <2>. QED
      BY <1>1, <1>4, <1>11, <2>1, <2>2 DEF SnapshotGeometry, s
<1>12. CASE Wake(t)
  <2>. DEFINE s == [Blank EXCEPT !.op = "dismiss", !.id = r.new]
              e == [Blank EXCEPT !.op = "dismiss", !.id = r.new, !.code = NotAliveCode(r.new)]
  <2>1. /\ s.new = NoId /\ s.placed = "none" /\ s.spec = DefaultSpec
        /\ e.new = NoId /\ e.placed = "none" /\ e.spec = DefaultSpec
      BY DEF Blank
  <2>2. DefaultSpec.kind = "process"
      BY DEF DefaultSpec
  <2>3. Goto(t, "closing", s) \/ Goto(t, "done", e)
      BY <1>12 DEF Wake
  <2>. HIDE DEF s, e
  <2>4. \/ pc'[t] = "closing" /\ task'[t] = s
        \/ pc'[t] = "done" /\ task'[t] = e
      BY <1>0, <2>3, GotoAt
  <2>5. LaunchRule("closing", s) /\ LaunchRule("done", e)
      BY <2>1, <2>2, RuleOfNone
  <2>. QED
      BY <2>1, <2>4, <2>5 DEF NamesWindow
<1>13. ASSUME NEW q \in {"verifying", "marking"}, Goto(t, q, r), pc[t] \in {"closing", "verifying"}
       PROVE  LaunchRule(pc'[t], task'[t]) /\ NamesWindow(task[t])'
    BY <1>1, <1>4, <1>13
<1>14. CASE RequestClose(t)
    BY <1>3, <1>4, <1>13, <1>14 DEF RequestClose
<1>15. CASE VerifyClose(t)
    BY <1>3, <1>4, <1>13, <1>15 DEF VerifyClose
<1>16. CASE FinishClose(t)
  <2>1. pc[t] = "marking" /\ r.new = NoId /\ r.placed = "none"
      BY <1>4, <1>16 DEF FinishClose
  <2>2. CASE r.op = "replace"
    <3>1. PICK p \in EffectivePlacements(t) : EnterLaunch(t, [r EXCEPT !.spec.placement = p, !.oldAlive = FALSE])
        BY <1>16, <2>2 DEF FinishClose
    <3>. DEFINE s == [r EXCEPT !.spec.placement = p, !.oldAlive = FALSE]
    <3>2. p \in {"absent", "empty", "unknown", "rect"}
      <4>1. r.spec \in LaunchSpec
          BY <1>0 DEF Request
      <4>2. r.spec.placement \in {"absent", "empty", "unknown", "rect"}
          BY <4>1 DEF LaunchSpec
      <4>. QED
          BY <3>1, <4>2 DEF EffectivePlacements
    <3>3. s \in Request
        BY <1>0, <3>2, ReplacementType, ZenonT(40)
    <3>4. s.new = NoId /\ s.placed = "none" /\ s.spec.kind = r.spec.kind
        BY <1>0, <2>1 DEF Request, LaunchSpec
    <3>. HIDE DEF s
    <3>5. LaunchRule(pc'[t], task'[t]) /\ task'[t].new = NoId
        BY <1>0, <3>1, <3>3, <3>4, EnterRule DEF s
    <3>. QED
        BY <3>5 DEF NamesWindow
  <2>3. CASE r.op # "replace"
      BY <1>2, <1>16, <2>1, <2>3 DEF FinishClose
  <2>. QED
      BY <2>2, <2>3
<1>17. CASE Bury(t)
  <2>1. Goto(t, "done", r) /\ r.new = NoId /\ r.placed = "none"
      BY <1>4, <1>17 DEF Bury
  <2>. QED
      BY <1>1, <2>1
<1>. QED
    BY <1>5, <1>6, <1>7, <1>8, <1>9, <1>10, <1>11, <1>12, <1>14, <1>15, <1>16, <1>17 DEF Run

\* So does the admission of a request, and its end.
LEMMA PostLaunches ==
    ASSUME LaunchInv, NEW t \in Tasks, Post(t) \/ Recycle(t)
    PROVE  LaunchRule(pc'[t], task'[t]) /\ NamesWindow(task[t])'
<1>0. TypeOK
    BY DEF LaunchInv
<1>1. ASSUME NEW s \in Specs PROVE Recorded /\ Platform = "macos" => s.kind = "process"
    BY <1>1 DEF Recorded
<1>2. ASSUME NEW s \in Specs, PostLaunch(t, s)
      PROVE  LaunchRule(pc'[t], task'[t]) /\ NamesWindow(task[t])'
  <2>. DEFINE r == [Blank EXCEPT !.op = "launch", !.spec = s]
  <2>1. r \in Request
      BY BlankType, ConstantsAssumption DEF Request
  <2>2. r.new = NoId /\ r.placed = "none" /\ r.spec = s
      BY DEF Blank
  <2>3. EnterLaunch(t, r)
      BY <1>2 DEF PostLaunch
  <2>. HIDE DEF r
  <2>4. LaunchRule(pc'[t], task'[t]) /\ task'[t].new = NoId
      BY <1>0, <1>1, <2>1, <2>2, <2>3, EnterRule
  <2>. QED
      BY <2>4 DEF NamesWindow
<1>3. ASSUME NEW w \in Refs, PostTrack(t, w)
      PROVE  LaunchRule(pc'[t], task'[t]) /\ NamesWindow(task[t])'
  <2>. DEFINE r == [Blank EXCEPT !.op = "track", !.ref = w]
  <2>1. /\ r.new = NoId /\ r.placed = "none" /\ r.spec = DefaultSpec /\ ~r.pre /\ r.before = {}
        /\ ~DefaultSpec.fresh /\ DefaultSpec.kind = "process"
      BY DEF Blank, DefaultSpec
  <2>2. pc'[t] = "probing" /\ task'[t] = r
      BY <1>0, <1>3, GotoAt DEF PostTrack
  <2>. HIDE DEF r
  <2>. QED
      BY <2>1, <2>2 DEF LaunchRule, NamesWindow
<1>4. ASSUME NEW q \in {"closing", "snapshotting", "done"}, NEW r, Goto(t, q, r), r.new = NoId, r.placed = "none",
             r.spec.kind = "process" \/ \E s \in Specs : r.spec = s
      PROVE  LaunchRule(pc'[t], task'[t]) /\ NamesWindow(task[t])'
  <2>1. pc'[t] = q /\ task'[t] = r
      BY <1>0, <1>4, GotoAt
  <2>2. LaunchRule(q, r)
      BY <1>1, <1>4, RuleOfNone
  <2>. QED
      BY <1>4, <2>1, <2>2 DEF NamesWindow
<1>5. ASSUME NEW i \in Ids, PostClose(t, i)
      PROVE  LaunchRule(pc'[t], task'[t]) /\ NamesWindow(task[t])'
  <2>. DEFINE r == [Blank EXCEPT !.op = "close", !.id = i]
              e == [r EXCEPT !.code = NotAliveCode(i)]
  <2>1. /\ r.new = NoId /\ r.placed = "none" /\ r.spec.kind = "process"
        /\ e.new = NoId /\ e.placed = "none" /\ e.spec.kind = "process"
      BY DEF Blank, DefaultSpec
  <2>2. Goto(t, "closing", r) \/ Goto(t, "done", e)
      BY <1>5 DEF PostClose
  <2>. HIDE DEF r, e
  <2>. QED
      BY <1>4, <2>1, <2>2
<1>6. ASSUME NEW i \in Ids, NEW s \in Specs, PostReplace(t, i, s)
      PROVE  LaunchRule(pc'[t], task'[t]) /\ NamesWindow(task[t])'
  <2>. DEFINE r == [Blank EXCEPT !.op = "replace", !.id = i, !.spec = s]
              e == [r EXCEPT !.code = NotAliveCode(i), !.oldAlive = FALSE]
  <2>1. /\ r.new = NoId /\ r.placed = "none" /\ r.spec = s
        /\ e.new = NoId /\ e.placed = "none" /\ e.spec = s
      BY DEF Blank
  <2>2. Goto(t, "snapshotting", r) \/ Goto(t, "done", e)
      BY <1>6 DEF PostReplace
  <2>. HIDE DEF r, e
  <2>. QED
      BY <1>4, <2>1, <2>2
<1>7. CASE Recycle(t)
  <2>1. pc'[t] = "idle" /\ task'[t] = Blank
      BY <1>0, <1>7, GotoAt DEF Recycle
  <2>2. LaunchRule("idle", Blank) /\ Blank.new = NoId
      BY BlankRule DEF Blank
  <2>. QED
      BY <2>1, <2>2 DEF NamesWindow
<1>. QED
    BY <1>2, <1>3, <1>5, <1>6, <1>7 DEF Post

\* The invariant of launches is inductive: handles keep their window, so what a request knows
\* does not change while others run.
LEMMA LaunchInvNext == LaunchInv /\ [Next]_vars => LaunchInv'
<1>. SUFFICES ASSUME LaunchInv, [Next]_vars PROVE LaunchInv'
    OBVIOUS
<1>1. TypeOK /\ TypeOK' /\ StoreStep
    BY NextType, NextIsStoreStep DEF LaunchInv
<1>2. ASSUME NEW u \in Tasks, pc'[u] = pc[u], task'[u] = task[u]
      PROVE  LaunchRule(pc'[u], task'[u]) /\ NamesWindow(task[u])'
  <2>1. LaunchRule(pc[u], task[u]) /\ NamesWindow(task[u])
      BY DEF LaunchInv
  <2>2. task[u].new # NoId => NamesWindow(task[u])'
      BY <1>1, <1>2, <2>1, StoreStable DEF NamesWindow
  <2>. QED
      BY <1>2, <2>1, <2>2 DEF NamesWindow
<1>3. ASSUME NEW t \in Tasks, Post(t) \/ Run(t) \/ Recycle(t),
             NEW u \in Tasks
      PROVE  LaunchRule(pc'[u], task'[u]) /\ NamesWindow(task[u])'
  <2>1. CASE u = t
      BY <1>1, <1>3, <2>1, RunLaunches, PostLaunches
  <2>2. CASE u # t
      BY <1>1, <1>2, <1>3, <2>2, OneMoves
  <2>. QED
      BY <2>1, <2>2
<1>4. CASE \E t \in Tasks : Post(t) \/ Run(t) \/ Recycle(t)
    BY <1>1, <1>3, <1>4 DEF LaunchInv
<1>5. CASE (\E w \in Refs : Desktop(w)) \/ UNCHANGED vars
  <2>1. UNCHANGED <<pc, task>>
      BY <1>5 DEF Desktop, WindowMoves, vars
  <2>. QED
      BY <1>1, <1>2, <2>1 DEF LaunchInv
<1>6. CASE Restart
  <2>1. \A u \in Tasks : pc'[u] = "idle" /\ task'[u] = Blank
      BY <1>6 DEF Restart
  <2>2. LaunchRule("idle", Blank) /\ Blank.new = NoId
      BY BlankRule DEF Blank
  <2>. QED
      BY <1>1, <2>1, <2>2 DEF LaunchInv, NamesWindow
<1>. QED
    BY <1>4, <1>5, <1>6 DEF Next

\* The invariant of launches holds for every adapter.
LEMMA LaunchesConsistent == Spec => []LaunchInv
<1>1. Init => LaunchInv
    BY InitType, BlankRule DEF Init, LaunchInv, NamesWindow
<1>. QED
    BY <1>1, LaunchInvNext, PTL DEF Spec

\* A launch or a replacement moves a window that was there before only with force_place,
\* whatever the adapter recorded and whoever else holds the handle (launch.rs).
THEOREM MovedOnlyByForce == Spec => []PreexistingMovedOnlyByForce
<1>1. LaunchInv => PreexistingMovedOnlyByForce
    BY DEF LaunchInv, LaunchRule, NamesWindow, PreexistingMovedOnlyByForce
<1>. QED
    BY <1>1, LaunchesConsistent, PTL

\* Where the adapter records every open window before it starts the application, a launch with
\* require_fresh_surface returns a window that was not open when the launch began.
THEOREM FreshIsFresh ==
    ASSUME Recorded
    PROVE  Spec => []FreshLaunchIsFresh
<1>1. LaunchInv => FreshLaunchIsFresh
    BY DEF LaunchInv, LaunchRule, NamesWindow, FreshLaunchIsFresh
<1>. QED
    BY <1>1, LaunchesConsistent, PTL
=============================================================================
