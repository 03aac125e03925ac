------------------------ MODULE CaptureSessionsProofs ------------------------
(***************************************************************************)
(* Proofs about CaptureSessions, for any number of sessions and consumers,  *)
(* any history limit and either kind of adapter.                            *)
(***************************************************************************)
EXTENDS CaptureSessions, TLAPS

-----------------------------------------------------------------------------
(* Type correctness *)

\* The updates the handlers make to one runtime keep its type.
LEMMA CpuType ==
    ASSUME NEW f \in [Sessions -> Cpu], NEW s \in Sessions
    PROVE  /\ f[s] \in Cpu
           /\ f[s].error \in BOOLEAN /\ f[s].closing \in BOOLEAN /\ f[s].arena \in BOOLEAN
           /\ [f EXCEPT ![s].closing = TRUE] \in [Sessions -> Cpu]
           /\ [f EXCEPT ![s].error = TRUE] \in [Sessions -> Cpu]
           /\ [f EXCEPT ![s].closing = TRUE, ![s].error = TRUE] \in [Sessions -> Cpu]
           /\ [f EXCEPT ![s].overdue = TRUE] \in [Sessions -> Cpu]
           /\ [f EXCEPT ![s].worker = "ended"] \in [Sessions -> Cpu]
           /\ [f EXCEPT ![s].arena = FALSE, ![s].worker = "drained",
                        ![s].overdue = FALSE] \in [Sessions -> Cpu]
           /\ \A r \in Cpu : [f EXCEPT ![s] = r] \in [Sessions -> Cpu]
BY DEF Cpu

\* A fresh runtime has the type of a runtime.
LEMMA NewCpuType == NewCpu \in Cpu /\ [NewCpu EXCEPT !.arena = TRUE] \in Cpu
BY DEF NewCpu, Cpu

\* The updates the handlers make to one monitor keep its type.
LEMMA MonitorType ==
    ASSUME NEW f \in [Sessions -> Monitor], NEW s \in Sessions
    PROVE  /\ [f EXCEPT ![s].aborted = TRUE] \in [Sessions -> Monitor]
           /\ [f EXCEPT ![s].stored = TRUE] \in [Sessions -> Monitor]
           /\ \A a \in {"none", "await", "publish", "fail", "close", "done"} :
                [f EXCEPT ![s].at = a] \in [Sessions -> Monitor]
BY DEF Monitor

\* stop_capture keeps the type of the monitors.
LEMMA MonitorStopType ==
    ASSUME NEW f \in [Sessions -> Monitor], NEW s \in Sessions
    PROVE  [f EXCEPT ![s].aborted = @ \/ f[s].stored, ![s].stored = FALSE]
             \in [Sessions -> Monitor]
BY DEF Monitor

\* Firing startup_cancel keeps the type of the channels.
LEMMA CancelType ==
    ASSUME NEW f \in [Sessions -> [first: BOOLEAN, cancel: BOOLEAN]], NEW s \in Sessions
    PROVE  [f EXCEPT ![s].cancel = TRUE] \in [Sessions -> [first: BOOLEAN, cancel: BOOLEAN]]
OBVIOUS

\* Announcing the first frame keeps the type of the channels.
LEMMA FirstType ==
    ASSUME NEW f \in [Sessions -> [first: BOOLEAN, cancel: BOOLEAN]], NEW s \in Sessions,
           NEW b \in BOOLEAN
    PROVE  [f EXCEPT ![s].first = @ \/ b] \in [Sessions -> [first: BOOLEAN, cancel: BOOLEAN]]
OBVIOUS

\* The types of the variables that stopping a session writes.
StateType ==
  /\ record \in [Sessions -> {"absent"} \union Active \union Terminal]
  /\ cpu \in [Sessions -> Cpu]
  /\ startup \in [Sessions -> [first: BOOLEAN, cancel: BOOLEAN]]
  /\ monitor \in [Sessions -> Monitor]

\* stop_capture keeps the types of what it writes.
LEMMA StopType ==
    ASSUME TypeOK, NEW s \in Sessions,
           NEW l \in {"absent"} \union Active \union Terminal, StopCapture(s, l)
    PROVE  StateType'
BY CpuType, MonitorStopType, CancelType DEF TypeOK, StopCapture, StateType

\* remove_session keeps the types of what it writes.
LEMMA RemoveType ==
    ASSUME TypeOK, NEW s \in Sessions, RemoveSession(s)
    PROVE  StateType'
BY StopType DEF TypeOK, RemoveSession, StateType, Terminal

\* CpuStartup::drop keeps the types of what it writes.
LEMMA AbandonType ==
    ASSUME TypeOK, NEW s \in Sessions, AbandonStartup(s)
    PROVE  StateType'
BY StopType DEF TypeOK, AbandonStartup, StateType, Terminal

\* A published frame leaves a runtime.
LEMMA PublishType ==
    ASSUME TypeOK, NEW s \in Sessions, NEW o \in PublishOutcomes(s)
    PROVE  CpuPublish(s, o) \in Cpu
<1>1. cpu[s] \in Cpu
  BY DEF TypeOK
<1>2. o \in {"published", "dropped", "error"}
  BY DEF PublishOutcomes
<1>. QED BY <1>1, <1>2 DEF CpuPublish, Cpu

\* What the retirement callback does to the history and the map.
LEMMA RetireHistory ==
    ASSUME TypeOK, NEW s \in Sessions, Retire(s)
    PROVE  \/ /\ record[s] = "absent" /\ record' = record /\ retired' = retired
           \/ /\ record[s] # "absent"
              /\ \E all \in Seq(Sessions), over \in Nat :
                   /\ all = Append(retired, s) /\ over =< Len(all)
                   /\ Len(all) - over =< HistoryLimit
                   /\ retired' = SubSeq(all, over + 1, Len(all))
                   /\ retired' \in Seq(Sessions)
                   /\ Len(retired') = Len(all) - over
                   /\ \A i \in 1 .. Len(retired') : retired'[i] = all[over + i]
                   /\ record' = [t \in Sessions |->
                                   IF \E i \in 1 .. over : all[i] = t
                                   THEN "absent" ELSE record[t]]
<1>1. CASE record[s] = "absent"
  BY <1>1 DEF Retire
<1>2. CASE record[s] # "absent"
  <2>. DEFINE all == Append(retired, s)
              over == IF Len(all) > HistoryLimit THEN Len(all) - HistoryLimit ELSE 0
  <2>1. all \in Seq(Sessions) /\ Len(all) \in Nat
    BY DEF TypeOK
  <2>2. over \in Nat /\ over =< Len(all) /\ Len(all) - over =< HistoryLimit
    BY <2>1, CaptureAssumption
  <2>3. /\ retired' = SubSeq(all, over + 1, Len(all))
        /\ record' = [t \in Sessions |-> IF \E i \in 1 .. over : all[i] = t
                                         THEN "absent" ELSE record[t]]
    BY <1>2 DEF Retire
  <2>. HIDE DEF all, over
  <2>4. /\ retired' \in Seq(Sessions) /\ Len(retired') = Len(all) - over
        /\ \A i \in 1 .. Len(retired') : retired'[i] = all[over + i]
    <3>1. \A i \in over + 1 .. Len(all) : all[i] \in Sessions
      BY <2>1, <2>2
    <3>2. SubSeq(all, over + 1, Len(all)) = [i \in 1 .. Len(all) - over |-> all[over + i]]
      BY <2>1, <2>2
    <3>. QED
      BY <2>1, <2>2, <2>3, <3>1, <3>2
  <2>. QED
    BY <1>2, <2>1, <2>2, <2>3, <2>4 DEF all
<1>. QED
  BY <1>1, <1>2

\* Every step keeps the types.
LEMMA TypeStep == TypeOK /\ [Next]_vars => TypeOK'
<1>. SUFFICES ASSUME TypeOK, [Next]_vars PROVE TypeOK'
  OBVIOUS
<1>1. ASSUME NEW s \in Sessions, PostSynthetic(s) PROVE TypeOK'
  BY <1>1, CpuType, NewCpuType DEF TypeOK, PostSynthetic, Active
<1>2. ASSUME NEW s \in Sessions, PostSurface(s) PROVE TypeOK'
  BY <1>2, CpuType, NewCpuType DEF TypeOK, PostSurface, Active
<1>3. ASSUME NEW s \in Sessions, AdapterStarts(s) PROVE TypeOK'
  BY <1>3 DEF TypeOK, AdapterStarts
<1>4. ASSUME NEW s \in Sessions, AdapterReturns(s) PROVE TypeOK'
  BY <1>4, MonitorType DEF TypeOK, AdapterReturns
<1>5. ASSUME NEW s \in Sessions, AdapterFails(s) PROVE TypeOK'
  BY <1>5, RemoveType DEF TypeOK, AdapterFails, StateType
<1>6. ASSUME NEW s \in Sessions, AdapterUnsupported(s) PROVE TypeOK'
  BY <1>6, RemoveType DEF TypeOK, AdapterUnsupported, StateType
<1>7. ASSUME NEW s \in Sessions, AdapterOrphaned(s) PROVE TypeOK'
  BY <1>7 DEF TypeOK, AdapterOrphaned
<1>8. ASSUME NEW s \in Sessions, StoreTask(s) PROVE TypeOK'
  <2>1. monitor' \in [Sessions -> Monitor]
    <3>1. \/ monitor' = [monitor EXCEPT ![s].stored = TRUE]
          \/ monitor' = [monitor EXCEPT ![s].aborted = TRUE]
      BY <1>8 DEF StoreTask
    <3>2. /\ [monitor EXCEPT ![s].stored = TRUE] \in [Sessions -> Monitor]
          /\ [monitor EXCEPT ![s].aborted = TRUE] \in [Sessions -> Monitor]
      BY MonitorType DEF TypeOK
    <3>. QED
      BY <3>1, <3>2, Zenon
  <2>. QED
    BY <1>8, <2>1 DEF TypeOK, StoreTask
<1>9. ASSUME NEW s \in Sessions, FirstFrame(s) PROVE TypeOK'
  BY <1>9 DEF TypeOK, FirstFrame
<1>10. ASSUME NEW s \in Sessions, StartupCancelled(s) PROVE TypeOK'
  BY <1>10, AbandonType DEF TypeOK, StartupCancelled, StateType
<1>11. ASSUME NEW s \in Sessions, FirstFrameTimeout(s) PROVE TypeOK'
  BY <1>11, RemoveType DEF TypeOK, FirstFrameTimeout, StateType
<1>12. ASSUME NEW s \in Sessions, FinishStartup(s) PROVE TypeOK'
  BY <1>12, AbandonType DEF TypeOK, FinishStartup, StateType
<1>13. ASSUME NEW s \in Sessions, DropCreator(s) PROVE TypeOK'
  BY <1>13, AbandonType DEF TypeOK, DropCreator, StateType
<1>14. ASSUME NEW s \in Sessions, OwnedFails(s) PROVE TypeOK'
  BY <1>14 DEF TypeOK, OwnedFails
<1>15. ASSUME NEW s \in Sessions, OwnedInsert(s) PROVE TypeOK'
  BY <1>15, MonitorType DEF TypeOK, OwnedInsert, Active
<1>16. ASSUME NEW s \in Sessions, PublishFrame(s) PROVE TypeOK'
  <2>1. cpu' \in [Sessions -> Cpu]
    BY <1>16, CpuType, PublishType DEF TypeOK, PublishFrame
  <2>2. startup' \in [Sessions -> [first: BOOLEAN, cancel: BOOLEAN]]
    <3>1. \/ \E b \in BOOLEAN : startup' = [startup EXCEPT ![s].first = @ \/ b]
          \/ startup' = startup
      <4>1. ASSUME NEW o \in PublishOutcomes(s),
                   startup' = [startup EXCEPT ![s].first = @ \/ o = "published"]
            PROVE  \E b \in BOOLEAN : startup' = [startup EXCEPT ![s].first = @ \/ b]
        BY <4>1, Zenon
      <4>. QED
        BY <1>16, <4>1 DEF PublishFrame
    <3>2. startup \in [Sessions -> [first: BOOLEAN, cancel: BOOLEAN]]
      BY DEF TypeOK
    <3>. QED
      BY <3>1, <3>2, FirstType
  <2>3. record' \in [Sessions -> {"absent"} \union Active \union Terminal]
    BY <1>16 DEF TypeOK, PublishFrame, Active
  <2>4. source' \in [Sessions -> {"off", "live", "broken"}]
    BY <1>16 DEF TypeOK, PublishFrame
  <2>. QED
    BY <1>16, <2>1, <2>2, <2>3, <2>4 DEF TypeOK, PublishFrame
<1>17. ASSUME NEW s \in Sessions, MonitorWakes(s) PROVE TypeOK'
  <2>1. PICK n \in {"fail", "close", "publish"} : monitor' = [monitor EXCEPT ![s].at = n]
    BY <1>17 DEF MonitorWakes
  <2>2. monitor' \in [Sessions -> Monitor]
    BY <2>1, MonitorType DEF TypeOK
  <2>. QED
    BY <1>17, <2>2 DEF TypeOK, MonitorWakes
<1>18. ASSUME NEW s \in Sessions, MonitorHearsError(s) PROVE TypeOK'
  BY <1>18, MonitorType DEF TypeOK, MonitorHearsError, Awaiting
<1>19. ASSUME NEW s \in Sessions, MonitorPublishes(s) PROVE TypeOK'
  <2>1. cpu' \in [Sessions -> Cpu]
    BY <1>19, CpuType, PublishType DEF TypeOK, MonitorPublishes
  <2>2. PICK n \in {"fail", "await"} : monitor' = [monitor EXCEPT ![s].at = n]
    BY <1>19 DEF MonitorPublishes
  <2>3. monitor' \in [Sessions -> Monitor]
    BY <2>2, MonitorType DEF TypeOK
  <2>. QED
    BY <1>19, <2>1, <2>3 DEF TypeOK, MonitorPublishes
<1>20. ASSUME NEW s \in Sessions, MonitorFails(s) PROVE TypeOK'
  <2>1. cpu' \in [Sessions -> Cpu]
    BY <1>20, CpuType DEF TypeOK, MonitorFails
  <2>2. startup' \in [Sessions -> [first: BOOLEAN, cancel: BOOLEAN]]
    <3>1. \/ startup' = [startup EXCEPT ![s].cancel = TRUE]
          \/ startup' = startup
      BY <1>20 DEF MonitorFails
    <3>2. /\ startup \in [Sessions -> [first: BOOLEAN, cancel: BOOLEAN]]
          /\ [startup EXCEPT ![s].cancel = TRUE]
                \in [Sessions -> [first: BOOLEAN, cancel: BOOLEAN]]
      BY CancelType DEF TypeOK
    <3>. QED
      BY <3>1, <3>2, Zenon
  <2>3. monitor' \in [Sessions -> Monitor]
    BY <1>20, MonitorType DEF TypeOK, MonitorFails
  <2>4. record' \in [Sessions -> {"absent"} \union Active \union Terminal]
    BY <1>20 DEF TypeOK, MonitorFails, Terminal
  <2>. QED
    BY <1>20, <2>1, <2>2, <2>3, <2>4 DEF TypeOK, MonitorFails
<1>21. ASSUME NEW s \in Sessions, MonitorCloses(s) PROVE TypeOK'
  <2>1. cpu' \in [Sessions -> Cpu]
    BY <1>21, CpuType DEF TypeOK, MonitorCloses
  <2>2. startup' \in [Sessions -> [first: BOOLEAN, cancel: BOOLEAN]]
    <3>1. \/ startup' = [startup EXCEPT ![s].cancel = TRUE]
          \/ startup' = startup
      BY <1>21 DEF MonitorCloses
    <3>2. /\ startup \in [Sessions -> [first: BOOLEAN, cancel: BOOLEAN]]
          /\ [startup EXCEPT ![s].cancel = TRUE]
                \in [Sessions -> [first: BOOLEAN, cancel: BOOLEAN]]
      BY CancelType DEF TypeOK
    <3>. QED
      BY <3>1, <3>2, Zenon
  <2>3. monitor' \in [Sessions -> Monitor]
    BY <1>21, MonitorType DEF TypeOK, MonitorCloses
  <2>4. record' \in [Sessions -> {"absent"} \union Active \union Terminal]
    BY <1>21 DEF TypeOK, MonitorCloses, Terminal
  <2>. QED
    BY <1>21, <2>1, <2>2, <2>3, <2>4 DEF TypeOK, MonitorCloses
<1>22. ASSUME NEW s \in Sessions, MonitorAborted(s) PROVE TypeOK'
  BY <1>22, MonitorType DEF TypeOK, MonitorAborted
<1>23. ASSUME NEW s \in Sessions, DeleteSession(s) PROVE TypeOK'
  BY <1>23, StopType DEF TypeOK, DeleteSession, StateType, Terminal
<1>24. ASSUME NEW s \in Sessions, MaintainFails(s) PROVE TypeOK'
  BY <1>24, CpuType DEF TypeOK, MaintainFails
<1>25. ASSUME NEW s \in Sessions, MaintainDrains(s) PROVE TypeOK'
  <2>1. cpu' \in [Sessions -> Cpu]
    <3>1. \/ cpu' = [cpu EXCEPT ![s].arena = FALSE, ![s].worker = "drained",
                               ![s].overdue = FALSE]
          \/ cpu' = [cpu EXCEPT ![s].overdue = TRUE]
      BY <1>25 DEF MaintainDrains
    <3>2. cpu \in [Sessions -> Cpu]
      BY DEF TypeOK
    <3>. QED
      BY <3>1, <3>2, CpuType
  <2>. QED
    BY <1>25, <2>1 DEF TypeOK, MaintainDrains
<1>26. ASSUME NEW s \in Sessions, Retire(s) PROVE TypeOK'
  <2>1. cpu' \in [Sessions -> Cpu]
    BY <1>26, CpuType DEF TypeOK, Retire
  <2>2. record' \in [Sessions -> {"absent"} \union Active \union Terminal]
    BY <1>26 DEF TypeOK, Retire
  <2>3. retired' \in Seq(Sessions)
    BY <1>26, RetireHistory DEF TypeOK
  <2>. QED
    BY <1>26, <2>1, <2>2, <2>3 DEF TypeOK, Retire
<1>27. ASSUME NEW s \in Sessions, NEW t \in Sessions, OwnedFirstFrame(s, t) PROVE TypeOK'
  BY <1>27, CpuType, NewCpuType, MonitorType DEF TypeOK, OwnedFirstFrame
<1>28. ASSUME NEW c \in Consumers, NEW s \in Sessions, AskAccess(c, s) PROVE TypeOK'
  BY <1>28 DEF TypeOK, AskAccess
<1>29. ASSUME NEW c \in Consumers, OpenConnection(c) PROVE TypeOK'
  BY <1>29 DEF TypeOK, OpenConnection
<1>30. ASSUME NEW c \in Consumers, MapStorage(c) PROVE TypeOK'
  BY <1>30 DEF TypeOK, MapStorage
<1>31. ASSUME NEW c \in Consumers, Unmap(c) PROVE TypeOK'
  BY <1>31 DEF TypeOK, Unmap
<1>32. ASSUME NEW c \in Consumers, EndConnection(c) PROVE TypeOK'
  BY <1>32 DEF TypeOK, EndConnection
<1>33. CASE UNCHANGED vars
  BY <1>33 DEF TypeOK, vars
<1>. QED
  BY <1>1, <1>2, <1>3, <1>4, <1>5, <1>6, <1>7, <1>8, <1>9, <1>10, <1>11, <1>12, <1>13,
     <1>14, <1>15, <1>16, <1>17, <1>18, <1>19, <1>20, <1>21, <1>22, <1>23, <1>24,
     <1>25, <1>26, <1>27, <1>28, <1>29, <1>30, <1>31, <1>32, <1>33 DEF Next

-----------------------------------------------------------------------------
(* The inductive invariant of one session *)

\* ActiveIffOpen, NoOrphan, PushedStreamEndsSession and RetainedUntilRetired
\* for session s, and what keeps them: an id that is not in use is pristine,
\* a polled session between its first frame and its insert is open and
\* unknown to everybody, an abort is only sent to a session that is over, and
\* an announced first frame means that there is storage.
SessionInv(s) ==
  /\ creator[s] = "idle" =>
       /\ record[s] = "absent" /\ cpu[s].worker = "none"
       /\ ~cpu[s].closing /\ ~cpu[s].arena
       /\ monitor[s].at = "none" /\ ~monitor[s].aborted /\ ~startup[s].first
  /\ creator[s] = "inserting" =>
       /\ record[s] = "absent" /\ cpu[s].worker = "run"
       /\ ~cpu[s].closing /\ cpu[s].arena /\ ~monitor[s].aborted
  /\ creator[s] \in {"fallback", "err", "dropped"} => record[s] \notin Active
  /\ creator[s] \in {"fallback", "inserting"} => adapter # "pushes"
  /\ creator[s] = "got" => startup[s].first
  /\ startup[s].first /\ record[s] \in Active => record[s] = "ready" /\ cpu[s].arena
  /\ record[s] # "absent" => (record[s] \in Active <=> ~cpu[s].closing)
  /\ monitor[s].aborted => record[s] \notin Active
  /\ adapter = "pushes" /\ monitor[s].at = "done" => record[s] \notin Active
  /\ cpu[s].worker \in {"run", "drained"} /\ creator[s] # "inserting" => record[s] # "absent"
  /\ cpu[s].worker \in {"drained", "ended"} => cpu[s].closing

\* A step leaves session t alone.
Same(t) ==
  /\ record'[t] = record[t] /\ cpu'[t] = cpu[t] /\ creator'[t] = creator[t]
  /\ startup'[t] = startup[t] /\ monitor'[t] = monitor[t] /\ adapter' = adapter

\* A session that a step does not touch keeps its invariant.
LEMMA SameInv == ASSUME NEW t, SessionInv(t), Same(t) PROVE SessionInv(t)'
BY DEF SessionInv, Same

\* A step touches no session but s.
Elsewhere(s) == \A t \in Sessions \ {s} : Same(t)

\* A step does not free the storage of session s.
ArenaKept(s) == cpu[s].arena => cpu'[s].arena

\* A step keeps the error of session s and reports success only about a ready
\* session.
Sound(s) ==
  /\ cpu[s].worker # "none" /\ cpu[s].error
       => cpu'[s].worker # "none" /\ cpu'[s].error
  /\ creator[s] # "ok" /\ creator'[s] = "ok"
       => record'[s] = "ready" /\ cpu'[s].arena /\ ~cpu'[s].closing

\* A step is sound for session s, does not retire it and does not forget that
\* it was retired.
Kept(s) ==
  /\ Sound(s)
  /\ (record'[s] # "absent" /\ cpu'[s].worker = "ended")
       <=> (record[s] # "absent" /\ cpu[s].worker = "ended")

\* AdapterStarts keeps the invariant of its session and touches no other.
LEMMA InvAdapterStarts ==
    ASSUME TypeOK, NEW s \in Sessions, SessionInv(s), AdapterStarts(s)
    PROVE  SessionInv(s)' /\ Elsewhere(s) /\ Kept(s) /\ ArenaKept(s)
BY DEF TypeOK, SessionInv, AdapterStarts, Elsewhere, Same, Kept, Sound, ArenaKept

\* AdapterReturns keeps the invariant of its session and touches no other.
LEMMA InvAdapterReturns ==
    ASSUME TypeOK, NEW s \in Sessions, SessionInv(s), AdapterReturns(s)
    PROVE  SessionInv(s)' /\ Elsewhere(s) /\ Kept(s) /\ ArenaKept(s)
BY DEF TypeOK, SessionInv, AdapterReturns, Elsewhere, Same, Kept, Sound, ArenaKept,
   Monitor

\* AdapterOrphaned keeps the invariant of its session and touches no other.
LEMMA InvAdapterOrphaned ==
    ASSUME TypeOK, NEW s \in Sessions, SessionInv(s), AdapterOrphaned(s)
    PROVE  SessionInv(s)' /\ Elsewhere(s) /\ Kept(s) /\ ArenaKept(s)
BY DEF TypeOK, SessionInv, AdapterOrphaned, Elsewhere, Same, Kept, Sound, ArenaKept

\* FirstFrame keeps the invariant of its session and touches no other.
LEMMA InvFirstFrame ==
    ASSUME TypeOK, NEW s \in Sessions, SessionInv(s), FirstFrame(s)
    PROVE  SessionInv(s)' /\ Elsewhere(s) /\ Kept(s) /\ ArenaKept(s)
BY DEF TypeOK, SessionInv, FirstFrame, Elsewhere, Same, Kept, Sound, ArenaKept

\* OwnedFails keeps the invariant of its session and touches no other.
LEMMA InvOwnedFails ==
    ASSUME TypeOK, NEW s \in Sessions, SessionInv(s), OwnedFails(s)
    PROVE  SessionInv(s)' /\ Elsewhere(s) /\ Kept(s) /\ ArenaKept(s)
BY DEF TypeOK, SessionInv, OwnedFails, Elsewhere, Same, Kept, Sound, ArenaKept

\* OwnedInsert keeps the invariant of its session and touches no other.
LEMMA InvOwnedInsert ==
    ASSUME TypeOK, NEW s \in Sessions, SessionInv(s), OwnedInsert(s)
    PROVE  SessionInv(s)' /\ Elsewhere(s) /\ Kept(s) /\ ArenaKept(s)
BY DEF TypeOK, SessionInv, OwnedInsert, Elsewhere, Same, Kept, Sound, ArenaKept,
   Active, Monitor

\* MonitorWakes keeps the invariant of its session and touches no other.
LEMMA InvMonitorWakes ==
    ASSUME TypeOK, NEW s \in Sessions, SessionInv(s), MonitorWakes(s)
    PROVE  SessionInv(s)' /\ Elsewhere(s) /\ Kept(s) /\ ArenaKept(s)
BY DEF TypeOK, SessionInv, MonitorWakes, Elsewhere, Same, Kept, Sound, ArenaKept,
   Monitor, Awaiting

\* MonitorHearsError keeps the invariant of its session and touches no other.
LEMMA InvMonitorHearsError ==
    ASSUME TypeOK, NEW s \in Sessions, SessionInv(s), MonitorHearsError(s)
    PROVE  SessionInv(s)' /\ Elsewhere(s) /\ Kept(s) /\ ArenaKept(s)
BY DEF TypeOK, SessionInv, MonitorHearsError, Elsewhere, Same, Kept, Sound, ArenaKept,
   Monitor, Awaiting

\* MonitorAborted keeps the invariant of its session and touches no other.
LEMMA InvMonitorAborted ==
    ASSUME TypeOK, NEW s \in Sessions, SessionInv(s), MonitorAborted(s)
    PROVE  SessionInv(s)' /\ Elsewhere(s) /\ Kept(s) /\ ArenaKept(s)
BY DEF TypeOK, SessionInv, MonitorAborted, Elsewhere, Same, Kept, Sound, ArenaKept,
   Monitor, Active

\* MaintainFails keeps the invariant of its session and touches no other.
LEMMA InvMaintainFails ==
    ASSUME TypeOK, NEW s \in Sessions, SessionInv(s), MaintainFails(s)
    PROVE  SessionInv(s)' /\ Elsewhere(s) /\ Kept(s) /\ ArenaKept(s)
BY DEF TypeOK, SessionInv, MaintainFails, Elsewhere, Same, Kept, Sound, ArenaKept, Cpu

\* PostSynthetic keeps the invariant of its session and touches no other.
LEMMA InvPostSynthetic ==
    ASSUME TypeOK, NEW s \in Sessions, SessionInv(s), PostSynthetic(s)
    PROVE  SessionInv(s)' /\ Elsewhere(s) /\ Kept(s) /\ ArenaKept(s)
BY DEF TypeOK, SessionInv, PostSynthetic, Elsewhere, Same, Kept, Sound, ArenaKept,
   Active, NewCpu

\* PostSurface keeps the invariant of its session and touches no other.
LEMMA InvPostSurface ==
    ASSUME TypeOK, NEW s \in Sessions, SessionInv(s), PostSurface(s)
    PROVE  SessionInv(s)' /\ Elsewhere(s) /\ Kept(s) /\ ArenaKept(s)
BY DEF TypeOK, SessionInv, PostSurface, Elsewhere, Same, Kept, Sound, ArenaKept,
   Active, NewCpu

\* StoreTask keeps the invariant of its session and touches no other.
LEMMA InvStoreTask ==
    ASSUME TypeOK, NEW s \in Sessions, SessionInv(s), StoreTask(s)
    PROVE  SessionInv(s)' /\ Elsewhere(s) /\ Kept(s) /\ ArenaKept(s)
<1>1. CASE record[s] \in Active
  BY <1>1 DEF TypeOK, SessionInv, StoreTask, Elsewhere, Same, Kept, Sound, ArenaKept,
     Active, Monitor
<1>2. CASE record[s] \notin Active
  BY <1>2 DEF TypeOK, SessionInv, StoreTask, Elsewhere, Same, Kept, Sound, ArenaKept,
     Active, Monitor
<1>. QED
  BY <1>1, <1>2

\* MaintainDrains keeps the invariant of its session and touches no other.
LEMMA InvMaintainDrains ==
    ASSUME TypeOK, NEW s \in Sessions, SessionInv(s), MaintainDrains(s)
    PROVE  SessionInv(s)' /\ Elsewhere(s) /\ Kept(s)
<1>1. /\ record' = record /\ creator' = creator /\ startup' = startup /\ monitor' = monitor
      /\ adapter' = adapter /\ cpu[s].worker = "run" /\ cpu[s].closing
  BY DEF MaintainDrains
<1>2. /\ \A t \in Sessions \ {s} : cpu'[t] = cpu[t]
      /\ cpu'[s].closing = cpu[s].closing /\ cpu'[s].error = cpu[s].error
      /\ cpu'[s].worker \in {"run", "drained"}
  <2>1. \/ cpu' = [cpu EXCEPT ![s].arena = FALSE, ![s].worker = "drained",
                             ![s].overdue = FALSE]
        \/ cpu' = [cpu EXCEPT ![s].overdue = TRUE]
    BY DEF MaintainDrains
  <2>2. CASE cpu' = [cpu EXCEPT ![s].overdue = TRUE]
    BY <1>1, <2>2 DEF TypeOK, Cpu
  <2>3. CASE cpu' = [cpu EXCEPT ![s].arena = FALSE, ![s].worker = "drained",
                              ![s].overdue = FALSE]
    BY <1>1, <2>3 DEF TypeOK, Cpu
  <2>. QED
    BY <2>1, <2>2, <2>3
<1>. QED
  BY <1>1, <1>2 DEF SessionInv, Elsewhere, Same, Kept, Sound

\* MonitorFails keeps the invariant of its session and touches no other.
LEMMA InvMonitorFails ==
    ASSUME TypeOK, NEW s \in Sessions, SessionInv(s), MonitorFails(s)
    PROVE  SessionInv(s)' /\ Elsewhere(s) /\ Kept(s) /\ ArenaKept(s)
<1>1. /\ creator' = creator /\ adapter' = adapter /\ monitor[s].at \notin {"none", "done"}
  BY DEF MonitorFails
<1>2. /\ monitor'[s].at = "done" /\ monitor'[s].aborted = monitor[s].aborted
      /\ \A t \in Sessions \ {s} : monitor'[t] = monitor[t]
  BY DEF MonitorFails, TypeOK, Monitor
<1>3. CASE record[s] = "absent"
  <2>1. record' = record /\ cpu' = cpu /\ startup' = startup
    BY <1>3 DEF MonitorFails
  <2>. QED
    BY <1>1, <1>2, <1>3, <2>1 DEF SessionInv, Elsewhere, Same, Kept, Sound, ArenaKept,
       Active
<1>4. CASE record[s] # "absent"
  <2>1. /\ record'[s] = "failed" /\ cpu'[s].closing = TRUE
        /\ cpu'[s].worker = cpu[s].worker /\ cpu'[s].arena = cpu[s].arena
        /\ startup'[s].first = startup[s].first
        /\ cpu[s].error => cpu'[s].error
        /\ \A t \in Sessions \ {s} :
              record'[t] = record[t] /\ cpu'[t] = cpu[t] /\ startup'[t] = startup[t]
    BY <1>4 DEF MonitorFails, TypeOK, Cpu
  <2>. QED
    BY <1>1, <1>2, <1>4, <2>1 DEF SessionInv, Elsewhere, Same, Kept, Sound, ArenaKept,
       Active
<1>. QED
  BY <1>3, <1>4

\* MonitorCloses keeps the invariant of its session and touches no other.
LEMMA InvMonitorCloses ==
    ASSUME TypeOK, NEW s \in Sessions, SessionInv(s), MonitorCloses(s)
    PROVE  SessionInv(s)' /\ Elsewhere(s) /\ Kept(s) /\ ArenaKept(s)
<1>1. /\ creator' = creator /\ adapter' = adapter /\ monitor[s].at \notin {"none", "done"}
  BY DEF MonitorCloses
<1>2. /\ monitor'[s].at = "done" /\ monitor'[s].aborted = monitor[s].aborted
      /\ \A t \in Sessions \ {s} : monitor'[t] = monitor[t]
  BY DEF MonitorCloses, TypeOK, Monitor
<1>3. CASE record[s] = "absent"
  <2>1. record' = record /\ cpu' = cpu /\ startup' = startup
    BY <1>3 DEF MonitorCloses
  <2>. QED
    BY <1>1, <1>2, <1>3, <2>1 DEF SessionInv, Elsewhere, Same, Kept, Sound, ArenaKept,
       Active
<1>4. CASE record[s] # "absent"
  <2>1. /\ record'[s] = "closed" /\ cpu'[s].closing = TRUE
        /\ cpu'[s].worker = cpu[s].worker /\ cpu'[s].arena = cpu[s].arena
        /\ startup'[s].first = startup[s].first
        /\ cpu'[s].error = cpu[s].error
        /\ \A t \in Sessions \ {s} :
              record'[t] = record[t] /\ cpu'[t] = cpu[t] /\ startup'[t] = startup[t]
    BY <1>4 DEF MonitorCloses, TypeOK, Cpu
  <2>. QED
    BY <1>1, <1>2, <1>4, <2>1 DEF SessionInv, Elsewhere, Same, Kept, Sound, ArenaKept,
       Active
<1>. QED
  BY <1>3, <1>4

\* Publishing never reopens, ends or heals a runtime, nor takes its storage.
LEMMA PublishEffect ==
    ASSUME TypeOK, NEW s \in Sessions, NEW o \in PublishOutcomes(s)
    PROVE  /\ CpuPublish(s, o).closing = cpu[s].closing
           /\ CpuPublish(s, o).worker = cpu[s].worker
           /\ cpu[s].arena => CpuPublish(s, o).arena
           /\ cpu[s].error => CpuPublish(s, o).error
           /\ o = "published" => CpuPublish(s, o).arena
<1>1. cpu[s] \in Cpu
  BY DEF TypeOK
<1>2. o \in {"published", "dropped", "error"}
  BY DEF PublishOutcomes
<1>. QED
  BY <1>1, <1>2 DEF CpuPublish, Cpu

\* MonitorPublishes keeps the invariant of its session and touches no other.
LEMMA InvMonitorPublishes ==
    ASSUME TypeOK, NEW s \in Sessions, SessionInv(s), MonitorPublishes(s)
    PROVE  SessionInv(s)' /\ Elsewhere(s) /\ Kept(s) /\ ArenaKept(s)
<1>1. /\ record' = record /\ creator' = creator /\ adapter' = adapter /\ startup' = startup
      /\ monitor[s].at = "publish"
  BY DEF MonitorPublishes
<1>2. /\ monitor'[s].at \in {"fail", "await"} /\ monitor'[s].aborted = monitor[s].aborted
      /\ \A t \in Sessions \ {s} : monitor'[t] = monitor[t]
  BY DEF MonitorPublishes, TypeOK, Monitor
<1>3. /\ cpu'[s].closing = cpu[s].closing /\ cpu'[s].worker = cpu[s].worker
      /\ cpu[s].arena => cpu'[s].arena
      /\ cpu[s].error => cpu'[s].error
      /\ \A t \in Sessions \ {s} : cpu'[t] = cpu[t]
  BY PublishEffect DEF MonitorPublishes, TypeOK
<1>. QED
  BY <1>1, <1>2, <1>3 DEF SessionInv, Elsewhere, Same, Kept, Sound, ArenaKept

\* PublishFrame keeps the invariant of its session and touches no other.
LEMMA InvPublishFrame ==
    ASSUME TypeOK, NEW s \in Sessions, SessionInv(s), PublishFrame(s)
    PROVE  SessionInv(s)' /\ Elsewhere(s) /\ Kept(s) /\ ArenaKept(s)
<1>1. creator' = creator /\ adapter' = adapter /\ monitor' = monitor
  BY DEF PublishFrame
<1>2. CASE record[s] \notin Active
  BY <1>1, <1>2 DEF PublishFrame, SessionInv, Elsewhere, Same, Kept, Sound, ArenaKept
<1>3. CASE record[s] \in Active
  <2>1. PICK o \in PublishOutcomes(s) :
          /\ cpu' = [cpu EXCEPT ![s] = CpuPublish(s, o)]
          /\ record' = [record EXCEPT ![s] = IF o = "published" THEN "ready" ELSE @]
          /\ startup' = [startup EXCEPT ![s].first = @ \/ o = "published"]
    BY <1>3 DEF PublishFrame
  <2>2. /\ cpu'[s] = CpuPublish(s, o)
        /\ record'[s] = IF o = "published" THEN "ready" ELSE record[s]
        /\ \A t \in Sessions \ {s} : record'[t] = record[t] /\ cpu'[t] = cpu[t]
    BY <2>1 DEF TypeOK
  <2>3. \A t \in Sessions \ {s} : startup'[t] = startup[t]
    BY <2>1 DEF TypeOK
  <2>4. startup'[s].first => startup[s].first \/ o = "published"
    BY <2>1 DEF TypeOK
  <2>5. startup[s].first => startup'[s].first
    BY <2>1 DEF TypeOK
  <2>. QED
    BY <1>1, <1>3, <2>2, <2>3, <2>4, <2>5, PublishEffect DEF SessionInv, Elsewhere,
       Same, Kept, Sound, ArenaKept, Active
<1>. QED
  BY <1>2, <1>3

\* What stop_capture changes, field by field.
LEMMA StopEffect ==
    ASSUME TypeOK, NEW s \in Sessions, NEW l, StopCapture(s, l)
    PROVE  /\ record'[s] = l /\ cpu'[s].closing = TRUE
           /\ cpu'[s].worker = cpu[s].worker /\ cpu'[s].arena = cpu[s].arena
           /\ cpu'[s].error = cpu[s].error /\ cpu'[s].overdue = cpu[s].overdue
           /\ monitor'[s].at = monitor[s].at /\ startup'[s].first = startup[s].first
           /\ \A t \in Sessions \ {s} :
                /\ record'[t] = record[t] /\ cpu'[t] = cpu[t]
                /\ startup'[t] = startup[t] /\ monitor'[t] = monitor[t]
<1>1. /\ record'[s] = l /\ cpu'[s].closing = TRUE
      /\ cpu'[s].worker = cpu[s].worker /\ cpu'[s].arena = cpu[s].arena
      /\ cpu'[s].error = cpu[s].error /\ cpu'[s].overdue = cpu[s].overdue
      /\ startup'[s].first = startup[s].first
      /\ \A t \in Sessions \ {s} :
            record'[t] = record[t] /\ cpu'[t] = cpu[t] /\ startup'[t] = startup[t]
  BY DEF StopCapture, TypeOK, Cpu
<1>2. /\ monitor'[s].at = monitor[s].at
      /\ \A t \in Sessions \ {s} : monitor'[t] = monitor[t]
  BY DEF StopCapture, TypeOK, Monitor
<1>. QED
  BY <1>1, <1>2

\* A handler that stops a present session keeps the invariant, whatever its
\* create request answers.
LEMMA Stopped ==
    ASSUME TypeOK, NEW s \in Sessions, SessionInv(s), record[s] # "absent",
           NEW l \in Terminal, StopCapture(s, l), adapter' = adapter,
           creator' = [creator EXCEPT ![s] = creator'[s]],
           creator'[s] \in {creator[s], "err", "dropped", "fallback"},
           creator'[s] = "fallback" => adapter # "pushes"
    PROVE  SessionInv(s)' /\ Elsewhere(s) /\ Kept(s) /\ ArenaKept(s)
<1>1. \A t \in Sessions \ {s} : creator'[t] = creator[t]
  BY DEF TypeOK
<1>. QED
  BY <1>1, StopEffect DEF SessionInv, Elsewhere, Same, Kept, Sound, ArenaKept, Active,
     Terminal

\* AdapterFails keeps the invariant of its session and touches no other.
LEMMA InvAdapterFails ==
    ASSUME TypeOK, NEW s \in Sessions, SessionInv(s), AdapterFails(s)
    PROVE  SessionInv(s)' /\ Elsewhere(s) /\ Kept(s) /\ ArenaKept(s)
<1>1. CASE record[s] = "absent"
  BY <1>1 DEF AdapterFails, RemoveSession, TypeOK, SessionInv, Elsewhere, Same, Kept,
     Sound, ArenaKept, Active
<1>2. CASE record[s] # "absent"
  BY <1>2, Stopped DEF AdapterFails, RemoveSession, TypeOK, Terminal
<1>. QED
  BY <1>1, <1>2

\* AdapterUnsupported keeps the invariant of its session and touches no other.
LEMMA InvAdapterUnsupported ==
    ASSUME TypeOK, NEW s \in Sessions, SessionInv(s), AdapterUnsupported(s)
    PROVE  SessionInv(s)' /\ Elsewhere(s) /\ Kept(s) /\ ArenaKept(s)
<1>1. CASE record[s] = "absent"
  BY <1>1 DEF AdapterUnsupported, RemoveSession, TypeOK, SessionInv, Elsewhere, Same,
     Kept, Sound, ArenaKept, Active
<1>2. CASE record[s] # "absent"
  BY <1>2, Stopped DEF AdapterUnsupported, RemoveSession, TypeOK, Terminal
<1>. QED
  BY <1>1, <1>2

\* FirstFrameTimeout keeps the invariant of its session and touches no other.
LEMMA InvFirstFrameTimeout ==
    ASSUME TypeOK, NEW s \in Sessions, SessionInv(s), FirstFrameTimeout(s)
    PROVE  SessionInv(s)' /\ Elsewhere(s) /\ Kept(s) /\ ArenaKept(s)
<1>1. CASE record[s] = "absent"
  BY <1>1 DEF FirstFrameTimeout, RemoveSession, TypeOK, SessionInv, Elsewhere, Same,
     Kept, Sound, ArenaKept, Active
<1>2. CASE record[s] # "absent"
  BY <1>2, Stopped DEF FirstFrameTimeout, RemoveSession, TypeOK, Terminal
<1>. QED
  BY <1>1, <1>2

\* StartupCancelled keeps the invariant of its session and touches no other.
LEMMA InvStartupCancelled ==
    ASSUME TypeOK, NEW s \in Sessions, SessionInv(s), StartupCancelled(s)
    PROVE  SessionInv(s)' /\ Elsewhere(s) /\ Kept(s) /\ ArenaKept(s)
<1>1. CASE record[s] = "absent"
  BY <1>1 DEF StartupCancelled, AbandonStartup, TypeOK, SessionInv, Elsewhere, Same,
     Kept, Sound, ArenaKept, Active, Terminal
<1>2. CASE record[s] \in Active
  BY <1>2, Stopped DEF StartupCancelled, AbandonStartup, TypeOK, Terminal, Active
<1>3. CASE record[s] \in Terminal
  BY <1>3, Stopped DEF StartupCancelled, AbandonStartup, TypeOK, Terminal, Active
<1>. QED
  BY <1>1, <1>2, <1>3 DEF TypeOK

\* FinishStartup keeps the invariant of its session and touches no other.
LEMMA InvFinishStartup ==
    ASSUME TypeOK, NEW s \in Sessions, SessionInv(s), FinishStartup(s)
    PROVE  SessionInv(s)' /\ Elsewhere(s) /\ Kept(s) /\ ArenaKept(s)
<1>1. CASE record[s] = "absent"
  BY <1>1 DEF FinishStartup, AbandonStartup, TypeOK, SessionInv, Elsewhere, Same, Kept,
     Sound, ArenaKept, Active, Terminal
<1>2. CASE record[s] \in Active
  BY <1>2 DEF FinishStartup, TypeOK, SessionInv, Elsewhere, Same, Kept, Sound,
     ArenaKept, Active
<1>3. CASE record[s] \in Terminal
  BY <1>3, Stopped DEF FinishStartup, AbandonStartup, TypeOK, Terminal, Active
<1>. QED
  BY <1>1, <1>2, <1>3 DEF TypeOK

\* DropCreator keeps the invariant of its session and touches no other.
LEMMA InvDropCreator ==
    ASSUME TypeOK, NEW s \in Sessions, SessionInv(s), DropCreator(s)
    PROVE  SessionInv(s)' /\ Elsewhere(s) /\ Kept(s) /\ ArenaKept(s)
<1>1. CASE record[s] = "absent"
  BY <1>1 DEF DropCreator, AbandonStartup, TypeOK, SessionInv, Elsewhere, Same, Kept,
     Sound, ArenaKept, Active, Terminal
<1>2. CASE record[s] \in Active
  BY <1>2, Stopped DEF DropCreator, AbandonStartup, TypeOK, Terminal, Active
<1>3. CASE record[s] \in Terminal
  BY <1>3, Stopped DEF DropCreator, AbandonStartup, TypeOK, Terminal, Active
<1>. QED
  BY <1>1, <1>2, <1>3 DEF TypeOK

\* DeleteSession keeps the invariant of its session and touches no other.
LEMMA InvDeleteSession ==
    ASSUME TypeOK, NEW s \in Sessions, SessionInv(s), DeleteSession(s)
    PROVE  SessionInv(s)' /\ Elsewhere(s) /\ Kept(s) /\ ArenaKept(s)
<1>1. creator' = [creator EXCEPT ![s] = creator'[s]]
  BY DEF DeleteSession, TypeOK
<1>2. creator[s] # "fallback" \/ adapter # "pushes"
  BY DEF SessionInv
<1>. QED
  BY <1>1, <1>2, Stopped DEF DeleteSession, Terminal

\* The polled path moves from the closed session s to the fresh session u.
LEMMA InvOwnedFirstFrame ==
    ASSUME TypeOK, NEW s \in Sessions, NEW u \in Sessions, SessionInv(s), SessionInv(u),
           OwnedFirstFrame(s, u)
    PROVE  /\ SessionInv(s)' /\ SessionInv(u)' /\ \A t \in Sessions \ {s, u} : Same(t)
           /\ Kept(s) /\ Kept(u) /\ ArenaKept(s) /\ ArenaKept(u)
<1>1. /\ s # u /\ creator[s] = "fallback" /\ creator[u] = "idle"
      /\ record' = record /\ startup' = startup /\ adapter' = adapter
      /\ creator'[s] = "err" /\ creator'[u] = "inserting"
      /\ \A t \in Sessions \ {s, u} : creator'[t] = creator[t]
  BY DEF OwnedFirstFrame, TypeOK
<1>2. /\ cpu'[u] = [NewCpu EXCEPT !.arena = TRUE]
      /\ \A t \in Sessions \ {u} : cpu'[t] = cpu[t]
  BY DEF OwnedFirstFrame, TypeOK
<1>3. /\ monitor'[u].at = "await" /\ monitor'[u].aborted = monitor[u].aborted
      /\ \A t \in Sessions \ {u} : monitor'[t] = monitor[t]
  BY DEF OwnedFirstFrame, TypeOK, Monitor
<1>4. /\ cpu'[u].worker = "run" /\ cpu'[u].closing = FALSE /\ cpu'[u].arena = TRUE
  BY <1>2 DEF NewCpu
<1>5. \A t \in Sessions \ {s, u} : Same(t)
  BY <1>1, <1>2, <1>3 DEF Same
<1>6. SessionInv(s)' /\ Kept(s) /\ ArenaKept(s)
  BY <1>1, <1>2, <1>3 DEF SessionInv, Kept, Sound, ArenaKept
<1>7. SessionInv(u)' /\ Kept(u) /\ ArenaKept(u)
  BY <1>1, <1>3, <1>4 DEF SessionInv, Kept, Sound, ArenaKept, Active
<1>. QED
  BY <1>5, <1>6, <1>7

\* Retirement keeps every invariant: the records that leave the map have ended.
LEMMA InvRetire ==
    ASSUME TypeOK, NEW s \in Sessions, \A t \in Sessions : SessionInv(t), HistoryIsExact,
           Retire(s)
    PROVE  /\ \A t \in Sessions : SessionInv(t)'
           /\ HistoryIsExact'
           /\ \A t \in Sessions : ArenaKept(t)
           /\ \A t \in Sessions : Sound(t)
<1>1. /\ cpu[s].worker = "drained" /\ creator' = creator /\ startup' = startup
      /\ monitor' = monitor /\ adapter' = adapter
  BY DEF Retire
<1>2. /\ cpu'[s].worker = "ended" /\ cpu'[s].closing = cpu[s].closing
      /\ cpu'[s].arena = cpu[s].arena /\ cpu'[s].error = cpu[s].error
      /\ \A t \in Sessions \ {s} : cpu'[t] = cpu[t]
  BY DEF Retire, TypeOK, Cpu
<1>3. record[s] # "absent" /\ creator[s] # "inserting"
  BY <1>1 DEF SessionInv
<1>4. PICK all \in Seq(Sessions), over \in Nat :
        /\ all = Append(retired, s) /\ over =< Len(all)
        /\ Len(all) - over =< HistoryLimit
        /\ retired' \in Seq(Sessions)
        /\ Len(retired') = Len(all) - over
        /\ \A i \in 1 .. Len(retired') : retired'[i] = all[over + i]
        /\ record' = [t \in Sessions |-> IF \E i \in 1 .. over : all[i] = t
                                         THEN "absent" ELSE record[t]]
  BY <1>3, RetireHistory
<1>5. /\ Len(all) = Len(retired) + 1 /\ Len(retired) \in Nat
      /\ all[Len(all)] = s
      /\ \A i \in 1 .. Len(retired) : all[i] = retired[i]
      /\ DOMAIN retired = 1 .. Len(retired)
  BY <1>4 DEF TypeOK
<1>6. \A i \in 1 .. Len(retired) :
        retired[i] # s /\ cpu[retired[i]].worker = "ended" /\ record[retired[i]] # "absent"
  BY <1>1, <1>5 DEF HistoryIsExact, TypeOK
<1>7. \A i, j \in 1 .. Len(all) : all[i] = all[j] => i = j
  BY <1>5, <1>6 DEF HistoryIsExact
<1>8. \A t \in Sessions :
        /\ record'[t] = IF \E i \in 1 .. over : all[i] = t THEN "absent" ELSE record[t]
        /\ (\E i \in 1 .. over : all[i] = t) => cpu'[t].worker = "ended"
  <2>1. \A i \in 1 .. over : i \in 1 .. Len(retired) \/ all[i] = s
    BY <1>4, <1>5
  <2>2. \A t \in Sessions :
          record'[t] = IF \E i \in 1 .. over : all[i] = t THEN "absent" ELSE record[t]
    BY <1>4
  <2>3. ASSUME NEW t \in Sessions, NEW i \in 1 .. over, all[i] = t
        PROVE  cpu'[t].worker = "ended"
    <3>1. CASE i \in 1 .. Len(retired)
      <4>1. t # s /\ cpu[t].worker = "ended"
        BY <1>5, <1>6, <2>3, <3>1
      <4>. QED
        BY <1>2, <4>1
    <3>2. CASE all[i] = s
      BY <1>2, <2>3, <3>2
    <3>. QED
      BY <2>1, <3>1, <3>2
  <2>. QED
    BY <2>2, <2>3
<1>9. \A t \in Sessions : SessionInv(t)'
  <2>. SUFFICES ASSUME NEW t \in Sessions PROVE SessionInv(t)'
    OBVIOUS
  <2>1. SessionInv(t) /\ SessionInv(s)
    OBVIOUS
  <2>2. /\ record'[t] = record[t] \/ (record'[t] = "absent" /\ cpu'[t].worker = "ended")
        /\ cpu'[t].closing = cpu[t].closing /\ cpu'[t].arena = cpu[t].arena
        /\ \/ cpu'[t].worker = cpu[t].worker
           \/ cpu[t].worker = "drained" /\ cpu'[t].worker = "ended"
    BY <1>1, <1>2, <1>8
  <2>. QED
    BY <1>1, <2>1, <2>2 DEF SessionInv, Active
<1>10. HistoryIsExact'
  <2>1. DOMAIN retired' = 1 .. Len(retired') /\ Len(retired') =< HistoryLimit
    BY <1>4
  <2>2. \A i, j \in 1 .. Len(retired') : retired'[i] = retired'[j] => i = j
    <3>. SUFFICES ASSUME NEW i \in 1 .. Len(retired'), NEW j \in 1 .. Len(retired'),
                         retired'[i] = retired'[j]
                  PROVE  i = j
      OBVIOUS
    <3>0. Len(all) \in Nat /\ over \in Nat /\ Len(retired') = Len(all) - over
      BY <1>4
    <3>1. /\ over + i \in 1 .. Len(all)
          /\ over + j \in 1 .. Len(all)
      BY <3>0
    <3>3. all[over + i] = all[over + j]
      BY <1>4
    <3>2. over + i = over + j
      BY <1>7, <3>1, <3>3
    <3>. QED
      BY <3>0, <3>2
  <2>3. ASSUME NEW t \in Sessions
        PROVE  (\E i \in 1 .. Len(retired') : retired'[i] = t)
                 <=> record'[t] # "absent" /\ cpu'[t].worker = "ended"
    <3>1. ASSUME NEW i \in 1 .. Len(retired'), retired'[i] = t
          PROVE  record'[t] # "absent" /\ cpu'[t].worker = "ended"
      <4>0. Len(all) \in Nat /\ over \in Nat /\ Len(retired') = Len(all) - over
        BY <1>4
      <4>1. all[over + i] = t /\ over + i \in 1 .. Len(all) /\ over + i > over
        <5>1. all[over + i] = t
          BY <1>4, <3>1
        <5>. QED
          BY <4>0, <5>1
      <4>2. ~ \E k \in 1 .. over : all[k] = t
        <5>. SUFFICES ASSUME NEW k \in 1 .. over, all[k] = t PROVE FALSE
          OBVIOUS
        <5>1. k \in 1 .. Len(all)
          BY <1>4
        <5>2. k = over + i
          BY <1>7, <4>1, <5>1
        <5>. QED
          BY <4>1, <5>2
      <4>3. t = s \/ \E k \in 1 .. Len(retired) : t = retired[k]
        BY <1>5, <4>1
      <4>4. /\ record[s] # "absent" /\ cpu'[s].worker = "ended"
            /\ \A k \in 1 .. Len(retired) :
                 record[retired[k]] # "absent" /\ cpu'[retired[k]].worker = "ended"
        BY <1>2, <1>3, <1>6, <1>5 DEF TypeOK
      <4>. QED
        BY <1>8, <4>2, <4>3, <4>4
    <3>2. ASSUME record'[t] # "absent", cpu'[t].worker = "ended"
          PROVE  \E i \in 1 .. Len(retired') : retired'[i] = t
      <4>1. record[t] # "absent" /\ ~ \E k \in 1 .. over : all[k] = t
        BY <1>8, <3>2
      <4>2. t = s \/ \E k \in 1 .. Len(retired) : t = retired[k]
        BY <1>2, <1>5, <3>2, <4>1 DEF HistoryIsExact
      <4>3. PICK k \in 1 .. Len(all) : all[k] = t
        BY <1>5, <4>2
      <4>4. k > over
        BY <4>1, <4>3
      <4>5. k - over \in 1 .. Len(retired') /\ over + (k - over) = k
        <5>1. Len(all) \in Nat /\ over \in Nat /\ Len(retired') = Len(all) - over
          BY <1>4
        <5>. QED
          BY <4>4, <5>1
      <4>. QED
        BY <1>4, <4>3, <4>5
    <3>. QED
      BY <3>1, <3>2
  <2>. QED
    BY <2>1, <2>2, <2>3 DEF HistoryIsExact
<1>. QED
  BY <1>1, <1>2, <1>9, <1>10 DEF ArenaKept, Sound

-----------------------------------------------------------------------------
(* The inductive invariant of the registry *)

\* Every session's invariant, with the history and the consumers' storage.
RegistryInv ==
  /\ TypeOK
  /\ \A s \in Sessions : SessionInv(s)
  /\ HistoryIsExact
  /\ StorageOutlivesUsers

\* What a step establishes: the invariant, and soundness for every session.
StepGoal ==
  /\ \A t \in Sessions : SessionInv(t)' /\ Sound(t)
  /\ HistoryIsExact'
  /\ StorageOutlivesUsers'

\* Storage that nobody frees stays with its users.
LEMMA UsersStep ==
    ASSUME TypeOK, StorageOutlivesUsers, conn' = conn, held' = held,
           \A t \in Sessions : ArenaKept(t)
    PROVE  StorageOutlivesUsers'
BY DEF TypeOK, StorageOutlivesUsers, ArenaKept

\* A session that a step leaves alone is sound, not retired and keeps its

\* storage.
LEMMA SameKept == ASSUME NEW t, Same(t) PROVE Kept(t) /\ ArenaKept(t)
BY DEF Same, Kept, Sound, ArenaKept

\* A step that retires nothing keeps the history exact.
LEMMA HistoryStep ==
    ASSUME HistoryIsExact, retired' = retired, \A t \in Sessions : Kept(t)
    PROVE  HistoryIsExact'
BY DEF HistoryIsExact, Kept

\* A handler that works on one session and keeps its storage.
LEMMA LocalStep ==
    ASSUME RegistryInv, NEW s \in Sessions, SessionInv(s)', Elsewhere(s), Kept(s),
           ArenaKept(s), conn' = conn, held' = held, retired' = retired
    PROVE  StepGoal
<1>1. \A t \in Sessions : Kept(t) /\ ArenaKept(t)
  BY SameKept DEF Elsewhere
<1>2. \A t \in Sessions : SessionInv(t)'
  BY SameInv DEF Elsewhere, RegistryInv
<1>. QED
  BY <1>1, <1>2, UsersStep, HistoryStep DEF RegistryInv, StepGoal, Kept

\* A step of a consumer touches no session.
LEMMA ConsumerStep ==
    ASSUME RegistryInv, \A t \in Sessions : Same(t), retired' = retired,
           StorageOutlivesUsers'
    PROVE  StepGoal
<1>1. \A t \in Sessions : Kept(t)
  BY SameKept
<1>2. \A t \in Sessions : SessionInv(t)'
  BY SameInv DEF RegistryInv
<1>. QED
  BY <1>1, <1>2, HistoryStep DEF RegistryInv, StepGoal, Kept

\* Every step keeps the invariant and is sound for every session.
LEMMA RegistryStep ==
    ASSUME RegistryInv, [Next]_vars
    PROVE  StepGoal
<1>. USE DEF RegistryInv
<1>1. ASSUME NEW s \in Sessions, PostSynthetic(s) PROVE StepGoal
  <2>1. conn' = conn /\ held' = held /\ retired' = retired
    BY <1>1 DEF PostSynthetic
  <2>. QED
    BY <1>1, <2>1, InvPostSynthetic, LocalStep
<1>2. ASSUME NEW s \in Sessions, PostSurface(s) PROVE StepGoal
  <2>1. conn' = conn /\ held' = held /\ retired' = retired
    BY <1>2 DEF PostSurface
  <2>. QED
    BY <1>2, <2>1, InvPostSurface, LocalStep
<1>3. ASSUME NEW s \in Sessions, AdapterStarts(s) PROVE StepGoal
  <2>1. conn' = conn /\ held' = held /\ retired' = retired
    BY <1>3 DEF AdapterStarts
  <2>. QED
    BY <1>3, <2>1, InvAdapterStarts, LocalStep
<1>4. ASSUME NEW s \in Sessions, AdapterReturns(s) PROVE StepGoal
  <2>1. conn' = conn /\ held' = held /\ retired' = retired
    BY <1>4 DEF AdapterReturns
  <2>. QED
    BY <1>4, <2>1, InvAdapterReturns, LocalStep
<1>5. ASSUME NEW s \in Sessions, AdapterFails(s) PROVE StepGoal
  <2>1. conn' = conn /\ held' = held /\ retired' = retired
    BY <1>5 DEF AdapterFails
  <2>. QED
    BY <1>5, <2>1, InvAdapterFails, LocalStep
<1>6. ASSUME NEW s \in Sessions, AdapterUnsupported(s) PROVE StepGoal
  <2>1. conn' = conn /\ held' = held /\ retired' = retired
    BY <1>6 DEF AdapterUnsupported
  <2>. QED
    BY <1>6, <2>1, InvAdapterUnsupported, LocalStep
<1>7. ASSUME NEW s \in Sessions, AdapterOrphaned(s) PROVE StepGoal
  <2>1. conn' = conn /\ held' = held /\ retired' = retired
    BY <1>7 DEF AdapterOrphaned
  <2>. QED
    BY <1>7, <2>1, InvAdapterOrphaned, LocalStep
<1>8. ASSUME NEW s \in Sessions, StoreTask(s) PROVE StepGoal
  <2>1. conn' = conn /\ held' = held /\ retired' = retired
    BY <1>8 DEF StoreTask
  <2>. QED
    BY <1>8, <2>1, InvStoreTask, LocalStep
<1>9. ASSUME NEW s \in Sessions, FirstFrame(s) PROVE StepGoal
  <2>1. conn' = conn /\ held' = held /\ retired' = retired
    BY <1>9 DEF FirstFrame
  <2>. QED
    BY <1>9, <2>1, InvFirstFrame, LocalStep
<1>10. ASSUME NEW s \in Sessions, StartupCancelled(s) PROVE StepGoal
  <2>1. conn' = conn /\ held' = held /\ retired' = retired
    BY <1>10 DEF StartupCancelled
  <2>. QED
    BY <1>10, <2>1, InvStartupCancelled, LocalStep
<1>11. ASSUME NEW s \in Sessions, FirstFrameTimeout(s) PROVE StepGoal
  <2>1. conn' = conn /\ held' = held /\ retired' = retired
    BY <1>11 DEF FirstFrameTimeout
  <2>. QED
    BY <1>11, <2>1, InvFirstFrameTimeout, LocalStep
<1>12. ASSUME NEW s \in Sessions, FinishStartup(s) PROVE StepGoal
  <2>1. conn' = conn /\ held' = held /\ retired' = retired
    BY <1>12 DEF FinishStartup
  <2>. QED
    BY <1>12, <2>1, InvFinishStartup, LocalStep
<1>13. ASSUME NEW s \in Sessions, DropCreator(s) PROVE StepGoal
  <2>1. conn' = conn /\ held' = held /\ retired' = retired
    BY <1>13 DEF DropCreator
  <2>. QED
    BY <1>13, <2>1, InvDropCreator, LocalStep
<1>14. ASSUME NEW s \in Sessions, OwnedFails(s) PROVE StepGoal
  <2>1. conn' = conn /\ held' = held /\ retired' = retired
    BY <1>14 DEF OwnedFails
  <2>. QED
    BY <1>14, <2>1, InvOwnedFails, LocalStep
<1>15. ASSUME NEW s \in Sessions, OwnedInsert(s) PROVE StepGoal
  <2>1. conn' = conn /\ held' = held /\ retired' = retired
    BY <1>15 DEF OwnedInsert
  <2>. QED
    BY <1>15, <2>1, InvOwnedInsert, LocalStep
<1>16. ASSUME NEW s \in Sessions, PublishFrame(s) PROVE StepGoal
  <2>1. conn' = conn /\ held' = held /\ retired' = retired
    BY <1>16 DEF PublishFrame
  <2>. QED
    BY <1>16, <2>1, InvPublishFrame, LocalStep
<1>17. ASSUME NEW s \in Sessions, MonitorWakes(s) PROVE StepGoal
  <2>1. conn' = conn /\ held' = held /\ retired' = retired
    BY <1>17 DEF MonitorWakes
  <2>. QED
    BY <1>17, <2>1, InvMonitorWakes, LocalStep
<1>18. ASSUME NEW s \in Sessions, MonitorHearsError(s) PROVE StepGoal
  <2>1. conn' = conn /\ held' = held /\ retired' = retired
    BY <1>18 DEF MonitorHearsError
  <2>. QED
    BY <1>18, <2>1, InvMonitorHearsError, LocalStep
<1>19. ASSUME NEW s \in Sessions, MonitorPublishes(s) PROVE StepGoal
  <2>1. conn' = conn /\ held' = held /\ retired' = retired
    BY <1>19 DEF MonitorPublishes
  <2>. QED
    BY <1>19, <2>1, InvMonitorPublishes, LocalStep
<1>20. ASSUME NEW s \in Sessions, MonitorFails(s) PROVE StepGoal
  <2>1. conn' = conn /\ held' = held /\ retired' = retired
    BY <1>20 DEF MonitorFails
  <2>. QED
    BY <1>20, <2>1, InvMonitorFails, LocalStep
<1>21. ASSUME NEW s \in Sessions, MonitorCloses(s) PROVE StepGoal
  <2>1. conn' = conn /\ held' = held /\ retired' = retired
    BY <1>21 DEF MonitorCloses
  <2>. QED
    BY <1>21, <2>1, InvMonitorCloses, LocalStep
<1>22. ASSUME NEW s \in Sessions, MonitorAborted(s) PROVE StepGoal
  <2>1. conn' = conn /\ held' = held /\ retired' = retired
    BY <1>22 DEF MonitorAborted
  <2>. QED
    BY <1>22, <2>1, InvMonitorAborted, LocalStep
<1>23. ASSUME NEW s \in Sessions, DeleteSession(s) PROVE StepGoal
  <2>1. conn' = conn /\ held' = held /\ retired' = retired
    BY <1>23 DEF DeleteSession
  <2>. QED
    BY <1>23, <2>1, InvDeleteSession, LocalStep
<1>24. ASSUME NEW s \in Sessions, MaintainFails(s) PROVE StepGoal
  <2>1. conn' = conn /\ held' = held /\ retired' = retired
    BY <1>24 DEF MaintainFails
  <2>. QED
    BY <1>24, <2>1, InvMaintainFails, LocalStep
<1>25. ASSUME NEW s \in Sessions, MaintainDrains(s) PROVE StepGoal
  <2>1. /\ SessionInv(s)' /\ Elsewhere(s) /\ Kept(s)
        /\ conn' = conn /\ held' = held /\ retired' = retired
    BY <1>25, InvMaintainDrains DEF MaintainDrains
  <2>2. \A t \in Sessions : Kept(t)
    BY <2>1, SameKept DEF Elsewhere
  <2>3. \A t \in Sessions : SessionInv(t)'
    BY <2>1, SameInv DEF Elsewhere
  <2>4. StorageOutlivesUsers'
    <3>1. \A t \in Sessions \ {s} : cpu'[t].arena = cpu[t].arena
      BY <2>1 DEF Elsewhere, Same
    <3>2. CASE cpu[s].arena /\ Users(s) # {}
      <4>1. cpu' = [cpu EXCEPT ![s].overdue = TRUE]
        BY <1>25, <3>2 DEF MaintainDrains
      <4>2. cpu'[s].arena = cpu[s].arena
        BY <4>1 DEF TypeOK, Cpu
      <4>. QED
        BY <2>1, <3>1, <4>2, UsersStep DEF ArenaKept
    <3>3. CASE ~(cpu[s].arena /\ Users(s) # {})
      <4>1. \A c \in Consumers : conn[c] # s /\ held[c] # s
        BY <3>3, CaptureAssumption DEF StorageOutlivesUsers, Users
      <4>. QED
        BY <2>1, <3>1, <4>1 DEF StorageOutlivesUsers, TypeOK
    <3>. QED
      BY <3>2, <3>3
  <2>. QED
    BY <2>1, <2>2, <2>3, <2>4, HistoryStep DEF StepGoal, Kept
<1>26. ASSUME NEW s \in Sessions, Retire(s) PROVE StepGoal
  <2>1. conn' = conn /\ held' = held
    BY <1>26 DEF Retire
  <2>. QED
    BY <1>26, <2>1, InvRetire, UsersStep DEF StepGoal
<1>27. ASSUME NEW s \in Sessions, NEW t \in Sessions, OwnedFirstFrame(s, t) PROVE StepGoal
  <2>1. conn' = conn /\ held' = held /\ retired' = retired
    BY <1>27 DEF OwnedFirstFrame
  <2>2. /\ SessionInv(s)' /\ SessionInv(t)' /\ \A u \in Sessions \ {s, t} : Same(u)
        /\ Kept(s) /\ Kept(t) /\ ArenaKept(s) /\ ArenaKept(t)
    BY <1>27, InvOwnedFirstFrame
  <2>3. \A u \in Sessions : Kept(u) /\ ArenaKept(u)
    BY <2>2, SameKept
  <2>4. \A u \in Sessions : SessionInv(u)'
    BY <2>2, SameInv
  <2>. QED
    BY <2>1, <2>3, <2>4, UsersStep, HistoryStep DEF StepGoal, Kept
<1>28. ASSUME NEW c \in Consumers, NEW s \in Sessions, AskAccess(c, s) PROVE StepGoal
  BY <1>28, ConsumerStep DEF AskAccess, Same, StorageOutlivesUsers
<1>29. ASSUME NEW c \in Consumers, OpenConnection(c) PROVE StepGoal
  <2>1. StorageOutlivesUsers'
    BY <1>29, CaptureAssumption DEF OpenConnection, StorageOutlivesUsers, TypeOK
  <2>. QED
    BY <1>29, <2>1, ConsumerStep DEF OpenConnection, Same
<1>30. ASSUME NEW c \in Consumers, MapStorage(c) PROVE StepGoal
  <2>1. StorageOutlivesUsers'
    BY <1>30, CaptureAssumption DEF MapStorage, StorageOutlivesUsers, TypeOK
  <2>. QED
    BY <1>30, <2>1, ConsumerStep DEF MapStorage, Same
<1>31. ASSUME NEW c \in Consumers, Unmap(c) PROVE StepGoal
  <2>1. StorageOutlivesUsers'
    BY <1>31, CaptureAssumption DEF Unmap, StorageOutlivesUsers, TypeOK
  <2>. QED
    BY <1>31, <2>1, ConsumerStep DEF Unmap, Same
<1>32. ASSUME NEW c \in Consumers, EndConnection(c) PROVE StepGoal
  <2>1. StorageOutlivesUsers'
    BY <1>32, CaptureAssumption DEF EndConnection, StorageOutlivesUsers, TypeOK
  <2>. QED
    BY <1>32, <2>1, ConsumerStep DEF EndConnection, Same
<1>33. CASE UNCHANGED vars
  BY <1>33, ConsumerStep DEF vars, Same, StorageOutlivesUsers
<1>. QED
  BY <1>1, <1>2, <1>3, <1>4, <1>5, <1>6, <1>7, <1>8, <1>9, <1>10, <1>11, <1>12, <1>13,
     <1>14, <1>15, <1>16, <1>17, <1>18, <1>19, <1>20, <1>21, <1>22, <1>23, <1>24,
     <1>25, <1>26, <1>27, <1>28, <1>29, <1>30, <1>31, <1>32, <1>33 DEF Next

\* The initial state satisfies the invariant.
LEMMA RegistryInit == Init => RegistryInv
<1>. SUFFICES ASSUME Init PROVE RegistryInv
  OBVIOUS
<1>1. TypeOK
  BY DEF Init, TypeOK, Cpu, Monitor
<1>2. \A s \in Sessions : SessionInv(s)
  BY DEF Init, SessionInv, Active
<1>3. HistoryIsExact
  BY CaptureAssumption DEF Init, HistoryIsExact
<1>4. StorageOutlivesUsers
  BY DEF Init, StorageOutlivesUsers
<1>. QED
  BY <1>1, <1>2, <1>3, <1>4 DEF RegistryInv

\* The invariant is inductive.
LEMMA RegistryNext == RegistryInv /\ [Next]_vars => RegistryInv'
BY TypeStep, RegistryStep DEF RegistryInv, StepGoal

\* The invariant holds in every reachable state.
LEMMA RegistryAlways == Spec => []RegistryInv
BY RegistryInit, RegistryNext, PTL DEF Spec

-----------------------------------------------------------------------------
(* Theorems *)

\* The registry, the runtimes and the tasks keep their types.
THEOREM CaptureTypeCorrect == Spec => []TypeOK
<1>1. RegistryInv => TypeOK
  BY DEF RegistryInv
<1>. QED
  BY <1>1, RegistryAlways, PTL

\* The record and the runtime agree on whether a session is over, whatever
\* order the handlers run in.
THEOREM RegistryAgrees == Spec => []ActiveIffOpen
<1>1. RegistryInv => ActiveIffOpen
  BY DEF RegistryInv, SessionInv, ActiveIffOpen
<1>. QED
  BY <1>1, RegistryAlways, PTL

\* A dropped or failed create request leaves no live session behind.
THEOREM NothingOrphaned == Spec => []NoOrphan
<1>1. RegistryInv => NoOrphan
  BY DEF RegistryInv, SessionInv, NoOrphan
<1>. QED
  BY <1>1, RegistryAlways, PTL

\* With an adapter that pushes frames, the end of the monitor always finds or
\* makes the session over.
THEOREM MonitorEndsSession == Spec => []PushedStreamEndsSession
<1>1. RegistryInv => PushedStreamEndsSession
  BY DEF RegistryInv, SessionInv, PushedStreamEndsSession, EndedStreamEndsSession
<1>. QED
  BY <1>1, RegistryAlways, PTL

\* A record leaves the registry only after its storage has retired.
THEOREM RecordsRetained == Spec => []RetainedUntilRetired
<1>1. RegistryInv => RetainedUntilRetired
  BY DEF RegistryInv, SessionInv, RetainedUntilRetired
<1>. QED
  BY <1>1, RegistryAlways, PTL

\* The history is bounded and lists exactly the retired sessions in the map.
THEOREM HistoryExact == Spec => []HistoryIsExact
<1>1. RegistryInv => HistoryIsExact
  BY DEF RegistryInv
<1>. QED
  BY <1>1, RegistryAlways, PTL

\* No consumer is left with freed storage.
THEOREM StorageSafe == Spec => []StorageOutlivesUsers
<1>1. RegistryInv => StorageOutlivesUsers
  BY DEF RegistryInv
<1>. QED
  BY <1>1, RegistryAlways, PTL

\* A create request reports success only about a session that is ready.
THEOREM SuccessIsReady == Spec => SuccessMeansReady
<1>1. RegistryInv /\ [Next]_vars =>
        [\A s \in Sessions :
           creator[s] # "ok" /\ creator'[s] = "ok"
             => record'[s] = "ready" /\ cpu'[s].arena /\ ~cpu'[s].closing]_vars
  BY RegistryStep DEF StepGoal, Sound
<1>. QED
  BY <1>1, RegistryAlways, PTL DEF Spec, SuccessMeansReady

\* A session that was reported failed is never reported closed, draining or
\* ready afterwards.
THEOREM FailureIsKept == Spec => FailureKept
<1>1. RegistryInv /\ [Next]_vars =>
        [\A s \in Sessions :
           Status(s) = "failed" => Status(s)' \in {"failed", "recovery_required"}]_vars
  <2>. SUFFICES ASSUME RegistryInv, [Next]_vars, NEW s \in Sessions, Status(s) = "failed"
                PROVE  Status(s)' \in {"failed", "recovery_required"}
    OBVIOUS
  <2>1. cpu[s] \in Cpu /\ cpu'[s] \in Cpu
    BY RegistryNext DEF RegistryInv, TypeOK
  <2>2. cpu[s].worker # "none" /\ cpu[s].error
    BY <2>1 DEF Status, Cpu
  <2>3. cpu'[s].worker # "none" /\ cpu'[s].error
    BY <2>2, RegistryStep DEF StepGoal, Sound
  <2>. QED
    BY <2>1, <2>3 DEF Status, Cpu
<1>. QED
  BY <1>1, RegistryAlways, PTL DEF Spec, FailureKept

\* Records, storage and history agree in every state: the three facts above together.
THEOREM RegistryIsConsistent == Spec => []RegistryConsistent
BY RegistryAgrees, RecordsRetained, HistoryExact, PTL DEF RegistryConsistent

\* Streams, monitors and storage follow their session in every state.
THEOREM ResourcesFollow == Spec => []ResourcesFollowSessions
BY NothingOrphaned, MonitorEndsSession, StorageSafe, PTL DEF ResourcesFollowSessions

\* What create and the status report about a session's start is true and stays told.
THEOREM AnswersAreTrue == Spec => StartupAnswers
BY SuccessIsReady, FailureIsKept DEF StartupAnswers
=============================================================================
