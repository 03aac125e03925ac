------------------------ MODULE PublicationsProofs ------------------------
(***************************************************************************)
(* Proofs about Publications, for every number of exports, republications  *)
(* and requests in flight.                                                 *)
(*                                                                         *)
(* A half and the record that names it are changed by different threads,   *)
(* so the invariant says, for each stage of a record, what its half may    *)
(* still be (HalfInv), and for each stage of the attach, what it knows of  *)
(* the remote host (AttachInv).                                            *)
(***************************************************************************)
EXTENDS Publications, TLAPS

Jobs == [at: JobStates, for: {"nobody", "api", "attach", "dropped"},
         dir: BOOLEAN, executor: BOOLEAN, stuck: BOOLEAN]
Parts == [exe: {"task", "worker"}, run: RunStates, stop: BOOLEAN, cancelled: BOOLEAN,
          cause: {"none", "stop", "other"},
          said: {"starting", "listening", "running", "ended"},
          heard: {"starting", "listening", "running", "ended"}, up: BOOLEAN,
          outcome: {"none", "report", "failed", "killed"}]
Links == [control: {"off", "up", "down"}, media: {"off", "up", "down"},
          peers: SUBSET (Exports \X Reps)]
Attaches == [at: {"search", "session", "export", "posted", "forward", "republish", "publish",
                  "hold", "unrep", "unexport", "unsession", "undo", "undosession",
                  "done", "failed", "killed"},
             session: BOOLEAN, export: Exports \union {None}, rep: Reps \union {None},
             lost: BOOLEAN]

\* What the record j of a half says of the half f: nothing runs before the request starts it
\* or after it failed, and a stop that was answered has ended the half or told it to end.
RecordRule(j, f) ==
  /\ j.at \in {"none", "auth", "make", "failed"} => f.run = "none"
  /\ j.at = "stop" /\ f.exe = "worker" => f.run = "gone" \/ f.stop
  /\ j.at = "gone" => f.run = "gone" \/ j.stuck \/ f.stop

\* The flags of a task: it is marked cancelled before it is told to stop, and a failure that
\* the stop caused is not kept.
TaskRule(f) ==
  f.exe = "task" =>
    /\ f.stop \/ f.cause = "stop" => f.cancelled
    /\ f.run = "gone" /\ f.cause = "stop" => f.outcome # "failed"

\* An export that was deleted is gone, with its directory and its input executor.
ExportRule(j, f) == j.at = "gone" => f.run = "gone" /\ ~j.dir /\ ~j.executor

\* A republication that was answered has been up, and one that is up has had a peer.
RepRule(j, f, linked) ==
  /\ j.at # "auth"
  /\ j.at \in {"failed", "gone"} => ~j.dir
  /\ j.at = "in" => f.up
  /\ f.up => linked

HalfInv(h) ==
  /\ RecordRule(job[h], half[h])
  /\ TaskRule(half[h])
  /\ h \in Exports => ExportRule(job[h], half[h])
  /\ h \in Reps => RepRule(job[h], half[h], Peers(h) # {})

Early == {"search", "session", "export"}
Working == {"export", "posted", "forward", "republish", "publish", "hold", "unrep", "unexport",
            "unsession", "undo", "undosession"}
Knowing == {"forward", "republish", "publish", "hold", "unrep", "unexport", "undo"}
Ended == {"done", "failed", "killed"}

\* What the attach knows is what it made: the session, the one export it asked for, and the
\* republication.
AttachInv ==
  /\ cli.at \in {"search", "session"} => session = "none"
  /\ cli.at \in Working => cli.session
  /\ cli.at \in Knowing => cli.export \in Exports /\ job[cli.export].for = "attach"
  /\ cli.at \in {"publish", "hold", "unrep"} => cli.rep \in Reps
  /\ cli.at \in Early \union {"posted"} => cli.export = None
  /\ cli.at \in Early => \A x \in Exports : job[x].for # "attach"
  /\ \A x, y \in Exports : job[x].for = "attach" /\ job[y].for = "attach" => x = y
  /\ \A x \in Exports : job[x].for = "attach" => job[x].at # "none"
  /\ link.control = "off" => cli.at \in {"search", "failed"}
  /\ link.control = "down" => cli.lost \/ cli.at \in Ended
  /\ cli.at \in {"undosession", "failed"} /\ ~cli.lost =>
       \A x \in Exports : job[x].for = "attach" => job[x].at \in {"failed", "gone"}
  /\ cli.at = "failed" /\ ~cli.lost => session # "live"

PublicationsInv == TypeOK /\ (\A h \in Halves : HalfInv(h)) /\ AttachInv

JobsOK == job \in [Halves -> Jobs]
PartsOK == half \in [Halves -> Parts]
LinkOK == link \in Links
AttachOK == cli \in Attaches

\* The type invariant, one part for each variable.
LEMMA TypeParts ==
  TypeOK <=> /\ session \in {"none", "live", "closed"} /\ granted \in BOOLEAN
             /\ JobsOK /\ PartsOK /\ LinkOK /\ AttachOK
BY DEF TypeOK, JobsOK, PartsOK, LinkOK, AttachOK, Jobs, Parts, Links, Attaches

\* A half that is changed to another one of the right kind.
LEMMA PutPart ==
  ASSUME PartsOK, NEW h \in Halves, NEW f \in Parts, half' = [half EXCEPT ![h] = f]
  PROVE  PartsOK' /\ half'[h] = f /\ \A g \in Halves \ {h} : half'[g] = half[g]
BY DEF PartsOK

\* Saying a phase changes the two fields of the status only.
LEMMA SayType ==
  ASSUME NEW f \in Parts, NEW p \in {"starting", "listening", "running", "ended"}
  PROVE  /\ Say(f, p) \in Parts
         /\ Say(f, p).run = f.run /\ Say(f, p).exe = f.exe /\ Say(f, p).stop = f.stop
         /\ Say(f, p).cancelled = f.cancelled /\ Say(f, p).cause = f.cause
         /\ Say(f, p).outcome = f.outcome /\ Say(f, p).up = f.up
BY DEF Say, Parts

\* A half that a request starts has a clean record.
LEMMA NewHalfType ==
  ASSUME NEW e \in {"task", "worker"}
  PROVE  /\ NewHalf(e) \in Parts /\ [NoHalf EXCEPT !.exe = e] \in Parts
         /\ NewHalf(e).exe = e /\ NewHalf(e).run = "spawn" /\ ~NewHalf(e).stop
         /\ NewHalf(e).cause = "none" /\ ~NewHalf(e).up
         /\ [NoHalf EXCEPT !.exe = e].exe = e /\ [NoHalf EXCEPT !.exe = e].run = "none"
         /\ ~[NoHalf EXCEPT !.exe = e].stop /\ [NoHalf EXCEPT !.exe = e].cause = "none"
         /\ ~[NoHalf EXCEPT !.exe = e].up
BY DEF NewHalf, NoHalf, Parts, RunStates

\* The change of the record and of the half of h by one step.
Put(h, j, f) ==
  /\ j \in Jobs /\ f \in Parts
  /\ job' = [job EXCEPT ![h] = j]
  /\ half' = [half EXCEPT ![h] = f]

\* A step that changes one half keeps the types and the other halves.
LEMMA PutKeeps ==
  ASSUME JobsOK, PartsOK, NEW h \in Halves, NEW j, NEW f, Put(h, j, f)
  PROVE  /\ JobsOK' /\ PartsOK' /\ job'[h] = j /\ half'[h] = f
         /\ \A g \in Halves \ {h} : job'[g] = job[g] /\ half'[g] = half[g]
BY DEF Put, JobsOK, PartsOK

\* A record and a half that are as HalfInv says.
Good(h, j, f) ==
  /\ Put(h, j, f)
  /\ RecordRule(j, f) /\ TaskRule(f)
  /\ h \in Exports => ExportRule(j, f)
  /\ h \in Reps => RepRule(j, f, Peers(h) # {})
OneHalf(h) == \E j, f : Good(h, j, f)

\* A half that is over keeps what was asked of it.
Ends(f, r, c, o) == [f EXCEPT !.run = r, !.cause = c, !.outcome = o]

\* Nothing else of the half changes.
LEMMA OverPart ==
  ASSUME NEW f \in Parts, NEW r \in {"over", "gone"}, NEW c \in {"stop", "other"},
         NEW o \in {"none", "report", "failed", "killed"}
  PROVE  /\ Ends(f, r, c, o) \in Parts
         /\ Ends(f, r, c, o).run = r /\ Ends(f, r, c, o).cause = c /\ Ends(f, r, c, o).outcome = o
         /\ Ends(f, r, c, o).exe = f.exe /\ Ends(f, r, c, o).stop = f.stop
         /\ Ends(f, r, c, o).cancelled = f.cancelled /\ Ends(f, r, c, o).up = f.up
<1>1. Ends(f, r, c, o) \in Parts
  BY ZenonT(40) DEF Ends, Parts, RunStates
<1>. QED  BY <1>1 DEF Ends, Parts

\* A half that ends: it had been started, its record is past the start, and the stop flag
\* of a task that it ends for came after the cancelled flag.
LEMMA GoodOver ==
  ASSUME JobsOK, PartsOK, NEW h \in Halves, HalfInv(h), half[h].run # "none", half[h].run # "gone",
         NEW c \in {"stop", "other"}, NEW o \in {"report", "failed"}, c = "stop" => half[h].stop,
         half' = [half EXCEPT ![h] = Ends(half[h], "over", c, o)],
         job' = job
  PROVE  OneHalf(h)
<1>. DEFINE g == Ends(half[h], "over", c, o)
<1>1. /\ g \in Parts /\ g.run = "over" /\ g.cause = c /\ g.outcome = o
      /\ g.exe = half[h].exe /\ g.stop = half[h].stop /\ g.cancelled = half[h].cancelled
      /\ g.up = half[h].up
  BY OverPart DEF PartsOK
<1>2. Put(h, job[h], g)
  BY <1>1 DEF Put, JobsOK
<1>. HIDE DEF g
<1>3. RecordRule(job[h], g) /\ (h \in Exports => ExportRule(job[h], g))
  BY <1>1 DEF HalfInv, RecordRule, ExportRule
<1>4. TaskRule(g) /\ (h \in Reps => RepRule(job[h], g, Peers(h) # {}))
  BY <1>1 DEF HalfInv, TaskRule, RepRule
<1>. QED  BY <1>2, <1>3, <1>4 DEF OneHalf, Good

\* A half that is killed is gone: only the stop of a child or of a launchd job kills it.
LEMMA GoodKilled ==
  ASSUME JobsOK, PartsOK, NEW h \in Halves, HalfInv(h), half[h].exe = "worker",
         job[h].at \in {"cancel", "stop"}, NEW j \in Jobs, j = [job[h] EXCEPT !.at = "stop"],
         half' = [half EXCEPT ![h] = Ends(half[h], "gone", "stop", "killed")],
         job' = [job EXCEPT ![h] = j]
  PROVE  OneHalf(h)
<1>. DEFINE g == Ends(half[h], "gone", "stop", "killed")
<1>1. /\ g \in Parts /\ g.run = "gone" /\ g.exe = half[h].exe /\ g.up = half[h].up
  BY OverPart DEF PartsOK
<1>2. Put(h, j, g)
  BY <1>1 DEF Put
<1>3. j.at = "stop" /\ j.dir = job[h].dir
  BY DEF JobsOK, Jobs
<1>. HIDE DEF g
<1>4. RecordRule(j, g) /\ ExportRule(j, g) /\ TaskRule(g)
  BY <1>1, <1>3 DEF RecordRule, ExportRule, TaskRule
<1>5. h \in Reps => RepRule(j, g, Peers(h) # {})
  BY <1>1, <1>3 DEF HalfInv, RepRule
<1>. QED  BY <1>2, <1>4, <1>5 DEF OneHalf, Good

\* A half stopped or ended by a thread of the daemon or of its own: the record and the half
\* it names still agree (task.rs, worker.rs, launchd.rs, export_registry.rs).
LEMMA HalfChanges ==
  ASSUME JobsOK, PartsOK, NEW h \in Halves, HalfInv(h), HalfStep(h)
  PROVE  OneHalf(h)
<1>0. job[h] \in Jobs /\ half[h] \in Parts
  BY DEF JobsOK, PartsOK
<1>. DEFINE j == job[h]
            f == half[h]
<1>00. job = [job EXCEPT ![h] = j] /\ half = [half EXCEPT ![h] = f]
  BY DEF JobsOK, PartsOK
<1>. USE DEF Good, HalfInv
<1>1. CASE ReadStatus(h)
  <2>. DEFINE g == [f EXCEPT !.heard = f.said]
  <2>1. Put(h, j, g)
    BY <1>0, <1>00, <1>1 DEF ReadStatus, Parts, Put
  <2>2. /\ g.exe = f.exe /\ g.run = f.run /\ g.stop = f.stop /\ g.cancelled = f.cancelled
        /\ g.cause = f.cause /\ g.up = f.up /\ g.outcome = f.outcome
    BY <1>0 DEF Parts
  <2>. HIDE DEF g
  <2>3. Good(h, j, g)
    BY <2>1, <2>2 DEF RecordRule, TaskRule, ExportRule, RepRule
  <2>. QED  BY <2>3 DEF OneHalf
<1>2. CASE DropClient(h)
  <2>. DEFINE i == [j EXCEPT !.for = "dropped", !.at = IF j.at = "auth" THEN "failed" ELSE j.at]
  <2>0. i \in Jobs /\ i.at = (IF j.at = "auth" THEN "failed" ELSE j.at) /\ i.dir = j.dir
    BY <1>0 DEF Jobs, JobStates
  <2>1. job' = [job EXCEPT ![h] = i] /\ half' = half
    BY <1>2 DEF DropClient
  <2>2. Put(h, i, f)
    BY <1>0, <1>00, <2>0, <2>1 DEF Put
  <2>3. j.at \in {"auth", "make", "wait"}
    BY <1>2 DEF DropClient
  <2>. HIDE DEF i
  <2>4. Good(h, i, f)
    BY <2>0, <2>2, <2>3 DEF RecordRule, TaskRule, ExportRule, RepRule
  <2>. QED  BY <2>4 DEF OneHalf
<1>3. CASE ApiClose(h)
  <2>. DEFINE i == [j EXCEPT !.at = "cancel"]
  <2>1. Put(h, i, f) /\ i.at = "cancel" /\ j.at = "in"
    BY <1>0, <1>00, <1>3 DEF ApiClose, CloseRecord, Jobs, JobStates, Put
  <2>. HIDE DEF i
  <2>2. Good(h, i, f)
    BY <2>1 DEF RecordRule, TaskRule, ExportRule, RepRule
  <2>. QED  BY <2>2 DEF OneHalf
<1>4. CASE CancelHalf(h)
  <2>1. CASE /\ f.exe = "task" /\ half' = [half EXCEPT ![h].cancelled = TRUE]
             /\ job' = [job EXCEPT ![h].at = "stop"]
    <3>. DEFINE i == [j EXCEPT !.at = "stop"]
                g == [f EXCEPT !.cancelled = TRUE]
    <3>1. i \in Jobs /\ i.at = "stop" /\ i.dir = j.dir
      BY <1>0 DEF Jobs, JobStates
    <3>2. /\ g \in Parts /\ g.exe = "task" /\ g.run = f.run /\ g.cancelled /\ g.cause = f.cause
          /\ g.up = f.up /\ g.outcome = f.outcome
      BY <1>0, <2>1 DEF Parts
    <3>3. Put(h, i, g)
      BY <2>1, <3>1, <3>2 DEF Put
    <3>. HIDE DEF i, g
    <3>4. Good(h, i, g)
      BY <2>1, <3>1, <3>2, <3>3 DEF RecordRule, TaskRule, ExportRule, RepRule
    <3>. QED  BY <3>4 DEF OneHalf
  <2>2. CASE /\ f.exe = "worker"
             /\ half' = [half EXCEPT ![h] =
                  IF f.run \in {"spawn", "media", "listen"}
                  THEN [f EXCEPT !.run = "gone", !.cause = "stop", !.outcome = "killed"]
                  ELSE [f EXCEPT !.stop = TRUE]]
             /\ job' = [job EXCEPT ![h].at = "stop"]
    <3>. DEFINE i == [j EXCEPT !.at = "stop"]
                g == [f EXCEPT !.stop = TRUE]
    <3>1. i \in Jobs /\ i.at = "stop" /\ i.dir = j.dir
      BY <1>0 DEF Jobs, JobStates
    <3>2. CASE f.run \in {"spawn", "media", "listen"}
      BY <1>4, <2>2, <3>1, <3>2, GoodKilled DEF CancelHalf, Ends
    <3>3. CASE f.run \notin {"spawn", "media", "listen"}
      <4>1. g \in Parts /\ g.exe = "worker" /\ g.stop /\ g.up = f.up
        BY <1>0, <2>2 DEF Parts
      <4>2. Put(h, i, g)
        BY <2>2, <3>1, <3>3, <4>1 DEF Put
      <4>. HIDE DEF i, g
      <4>3. Good(h, i, g)
        BY <3>1, <4>1, <4>2 DEF RecordRule, TaskRule, ExportRule, RepRule
      <4>. QED  BY <4>3 DEF OneHalf
    <3>. QED  BY <3>2, <3>3
  <2>3. CASE /\ h \in Reps
             /\ job' = [job EXCEPT ![h] = [j EXCEPT !.at = "gone", !.dir = FALSE, !.stuck = TRUE]]
             /\ half' = half
    <3>. DEFINE i == [j EXCEPT !.at = "gone", !.dir = FALSE, !.stuck = TRUE]
    <3>1. i \in Jobs /\ i.at = "gone" /\ ~i.dir /\ i.stuck
      BY <1>0 DEF Jobs, JobStates
    <3>2. Put(h, i, f)
      BY <1>0, <1>00, <2>3, <3>1 DEF Put
    <3>3. h \notin Exports
      BY <2>3, PublicationsAssumption
    <3>. HIDE DEF i
    <3>4. Good(h, i, f)
      BY <3>1, <3>2, <3>3 DEF RecordRule, RepRule
    <3>. QED  BY <3>4 DEF OneHalf
  <2>. QED  BY <1>4, <2>1, <2>2, <2>3 DEF CancelHalf
<1>5. CASE StopTask(h)
  <2>. DEFINE g == [f EXCEPT !.stop = TRUE, !.cancelled = TRUE]
  <2>1. /\ g \in Parts /\ g.exe = f.exe /\ g.run = f.run /\ g.cancelled /\ g.stop /\ g.cause = f.cause
        /\ g.up = f.up /\ g.outcome = f.outcome
    BY <1>0 DEF Parts
  <2>2. Put(h, j, g)
    BY <1>0, <1>00, <1>5, <2>1 DEF StopTask, Put
  <2>. HIDE DEF g
  <2>3. Good(h, j, g)
    BY <2>1, <2>2 DEF RecordRule, TaskRule, ExportRule, RepRule
  <2>. QED  BY <2>3 DEF OneHalf
<1>6. CASE StopReturns(h)
  <2>. DEFINE i == [j EXCEPT !.at = "gone", !.dir = FALSE, !.executor = FALSE]
  <2>1. i \in Jobs /\ i.at = "gone" /\ ~i.dir /\ ~i.executor
    BY <1>0 DEF Jobs, JobStates
  <2>2. Put(h, i, f)
    BY <1>0, <1>00, <1>6, <2>1 DEF StopReturns, Put
  <2>3. f.run = "gone" \/ (f.exe = "worker" /\ h \in Reps /\ h \notin Exports /\ f.stop)
    BY <1>6, PublicationsAssumption DEF StopReturns, RecordRule
  <2>. HIDE DEF i
  <2>4. Good(h, i, f)
    BY <2>1, <2>2, <2>3 DEF RecordRule, ExportRule, RepRule
  <2>. QED  BY <2>4 DEF OneHalf
<1>7. CASE Interrupted(h)
  BY <1>7, GoodOver DEF Interrupted, Over, Ends
<1>8. CASE LinkLost(h)
  BY <1>8, GoodOver DEF LinkLost, Over, Ends
<1>9. CASE HalfFails(h)
  BY <1>9, GoodOver DEF HalfFails, Over, Ends
<1>10. CASE HalfExits(h)
  <2>. DEFINE o == IF f.exe = "task" /\ f.outcome = "failed" /\ f.cancelled THEN "none" ELSE f.outcome
              e == [f EXCEPT !.run = "gone",
                             !.outcome = IF f.exe = "task" /\ f.outcome = "failed" /\ f.cancelled
                                         THEN "none" ELSE f.outcome]
              g == Say(e, "ended")
  <2>0. o \in {"none", "report", "failed", "killed"}
    BY <1>0 DEF Parts
  <2>1. /\ e \in Parts /\ e.run = "gone" /\ e.outcome = o /\ e.exe = f.exe /\ e.stop = f.stop
        /\ e.cancelled = f.cancelled /\ e.cause = f.cause /\ e.up = f.up
    <3>1. e = [f EXCEPT !.run = "gone", !.outcome = o]
      OBVIOUS
    <3>. HIDE DEF o, e
    <3>2. e \in Parts
      BY <1>0, <2>0, <3>1, ZenonT(40) DEF Parts, RunStates
    <3>. QED  BY <1>0, <3>1, <3>2 DEF Parts
  <2>2. half' = [half EXCEPT ![h] = g] /\ f.run = "over"
    BY <1>10 DEF HalfExits
  <2>. HIDE DEF e
  <2>3. /\ g \in Parts /\ g.run = "gone" /\ g.outcome = o /\ g.exe = f.exe /\ g.stop = f.stop
        /\ g.cancelled = f.cancelled /\ g.cause = f.cause /\ g.up = f.up
    BY <2>1, SayType
  <2>. HIDE DEF g
  <2>4. Put(h, j, g)
    BY <1>0, <1>00, <1>10, <2>2, <2>3 DEF HalfExits, Put
  <2>5. Good(h, j, g)
    BY <2>2, <2>3, <2>4 DEF RecordRule, TaskRule, ExportRule, RepRule
  <2>. QED  BY <2>5 DEF OneHalf
<1>. QED  BY <1>1, <1>2, <1>3, <1>4, <1>5, <1>6, <1>7, <1>8, <1>9, <1>10 DEF HalfStep

\* A record that moves on with its half as it is: the new stage must allow what the half does.
LEMMA GoodJob ==
  ASSUME JobsOK, PartsOK, NEW h \in Halves, HalfInv(h), NEW j \in Jobs,
         job' = [job EXCEPT ![h] = j], half' = half,
         RecordRule(j, half[h]),
         h \in Exports => ExportRule(j, half[h]),
         h \in Reps => RepRule(j, half[h], Peers(h) # {})
  PROVE  OneHalf(h)
<1>1. Put(h, j, half[h])
  BY DEF Put, PartsOK
<1>. QED  BY <1>1 DEF OneHalf, Good, HalfInv

\* A half that goes on with its record as it is: the run must stay one that the record allows.
LEMMA GoodHalf ==
  ASSUME JobsOK, PartsOK, NEW h \in Halves, HalfInv(h), NEW f \in Parts,
         half' = [half EXCEPT ![h] = f], job' = job,
         half[h].run \notin {"none", "gone"}, f.run \notin {"none", "gone"},
         f.exe = half[h].exe, f.stop = half[h].stop, f.cancelled = half[h].cancelled,
         f.cause = half[h].cause, f.up = half[h].up \/ (f.up = TRUE /\ Peers(h) # {})
  PROVE  OneHalf(h)
<1>1. Put(h, job[h], f)
  BY DEF Put, JobsOK
<1>2. RecordRule(job[h], f) /\ (h \in Exports => ExportRule(job[h], f))
  BY DEF HalfInv, RecordRule, ExportRule
<1>3. TaskRule(f)
  BY DEF HalfInv, TaskRule
<1>4. h \in Reps => RepRule(job[h], f, Peers(h) # {})
  BY DEF HalfInv, RepRule, PartsOK, Parts
<1>. QED  BY <1>1, <1>2, <1>3, <1>4 DEF OneHalf, Good

\* A record and a half that a request has just made, with nothing running behind it yet or
\* with the half it has started.
LEMMA GoodNew ==
  ASSUME NEW h \in Halves, NEW j \in Jobs, NEW f \in Parts,
         job' = [job EXCEPT ![h] = j], half' = [half EXCEPT ![h] = f],
         j.at = "wait" \/ (j.at \in {"auth", "make"} /\ f.run = "none"),
         h \in Reps => j.at # "auth",
         ~f.stop, f.cause = "none", ~f.up
  PROVE  OneHalf(h)
<1>1. Put(h, j, f)
  BY DEF Put
<1>. QED  BY <1>1 DEF OneHalf, Good, RecordRule, TaskRule, ExportRule, RepRule

\* The steps of an export keep its record and its half in agreement (export_registry.rs).
LEMMA ExportChanges ==
  ASSUME JobsOK, PartsOK, NEW x \in Exports, HalfInv(x), ExportStep(x)
  PROVE  OneHalf(x) \/ UNCHANGED <<job, half>>
<1>. x \in Halves /\ x \notin Reps
  BY PublicationsAssumption DEF Halves
<1>0. job[x] \in Jobs /\ half[x] \in Parts
  BY DEF JobsOK, PartsOK
<1>. DEFINE j == job[x]
            f == half[x]
<1>1. ASSUME NEW who \in {"api", "attach"}, NEW e \in Executions, NEW i \in BOOLEAN,
             PostExport(x, who, e, i)
      PROVE  OneHalf(x)
  <2>. DEFINE k == [NoJob EXCEPT !.at = IF i THEN "auth" ELSE "make", !.for = who, !.executor = i]
  <2>1. k \in Jobs /\ k.at \in {"auth", "make"}
    BY <1>1 DEF NoJob, Jobs, JobStates
  <2>2. e \in {"task", "worker"}
    BY PublicationsAssumption
  <2>3. job' = [job EXCEPT ![x] = k] /\ half' = [half EXCEPT ![x] = [NoHalf EXCEPT !.exe = e]]
    BY <1>1 DEF PostExport
  <2>. HIDE DEF k
  <2>. QED  BY <2>1, <2>2, <2>3, GoodNew, NewHalfType
<1>2. CASE AuthorizeExport(x)
  <2>. DEFINE k == [j EXCEPT !.at = IF granted THEN "make" ELSE "failed"]
  <2>1. k \in Jobs /\ k.at \in {"make", "failed"} /\ j.at = "auth"
    BY <1>0, <1>2 DEF AuthorizeExport, Jobs, JobStates
  <2>2. job' = [job EXCEPT ![x] = k] /\ half' = half
    BY <1>2 DEF AuthorizeExport
  <2>. HIDE DEF k
  <2>3. RecordRule(k, f) /\ ExportRule(k, f)
    BY <2>1 DEF HalfInv, RecordRule, ExportRule
  <2>. QED  BY <2>1, <2>2, <2>3, GoodJob
<1>3. CASE StartExport(x)
  <2>. DEFINE k == [j EXCEPT !.at = "wait", !.dir = TRUE]
              n == [NewHalf("task") EXCEPT !.run = "listen"]
              g == IF f.exe = "task" THEN Say(n, "listening") ELSE NewHalf("worker")
  <2>1. k \in Jobs /\ k.at = "wait"
    BY <1>0 DEF Jobs, JobStates
  <2>2. n \in Parts /\ ~n.stop /\ n.cause = "none" /\ ~n.up
    BY DEF NewHalf, Parts, RunStates
  <2>. HIDE DEF n
  <2>3. g \in Parts /\ ~g.stop /\ g.cause = "none" /\ ~g.up
    BY <2>2, SayType, NewHalfType
  <2>4. job' = [job EXCEPT ![x] = k] /\ half' = [half EXCEPT ![x] = g]
    BY <1>3 DEF StartExport, n
  <2>. HIDE DEF k, g
  <2>. QED  BY <2>1, <2>3, <2>4, GoodNew
<1>4. CASE StartExportFails(x)
  <2>. DEFINE k == [j EXCEPT !.at = "failed", !.executor = FALSE]
  <2>1. k \in Jobs /\ k.at = "failed" /\ j.at = "make"
    BY <1>0, <1>4 DEF StartExportFails, Jobs, JobStates
  <2>2. job' = [job EXCEPT ![x] = k] /\ half' = half
    BY <1>4 DEF StartExportFails
  <2>. HIDE DEF k
  <2>3. RecordRule(k, f) /\ ExportRule(k, f)
    BY <2>1 DEF HalfInv, RecordRule, ExportRule
  <2>. QED  BY <2>1, <2>2, <2>3, GoodJob
<1>5. CASE InsertExport(x)
  <2>. DEFINE k == [j EXCEPT !.at = "in"]
  <2>1. k \in Jobs /\ k.at = "in"
    BY <1>0 DEF Jobs, JobStates
  <2>2. job' = [job EXCEPT ![x] = k] /\ half' = half
    BY <1>5 DEF InsertExport
  <2>. HIDE DEF k
  <2>3. RecordRule(k, f) /\ ExportRule(k, f)
    BY <2>1 DEF RecordRule, ExportRule
  <2>. QED  BY <2>1, <2>2, <2>3, GoodJob
<1>6. ASSUME NEW r \in {"media", "listen", "running"}, NEW p \in {"listening", "running"},
             half' = [half EXCEPT ![x] = Say([f EXCEPT !.run = r], p)], job' = job,
             f.run \notin {"none", "gone"}
      PROVE  OneHalf(x)
  <2>. DEFINE n == [f EXCEPT !.run = r]
              g == Say(n, p)
  <2>1. /\ n \in Parts /\ n.run = r /\ n.exe = f.exe /\ n.stop = f.stop
        /\ n.cancelled = f.cancelled /\ n.cause = f.cause /\ n.up = f.up
    BY <1>0 DEF Parts, RunStates
  <2>2. half' = [half EXCEPT ![x] = g]
    BY <1>6
  <2>. HIDE DEF n
  <2>3. /\ g \in Parts /\ g.run = r /\ g.exe = f.exe /\ g.stop = f.stop
        /\ g.cancelled = f.cancelled /\ g.cause = f.cause /\ g.up = f.up
    BY <2>1, SayType
  <2>. HIDE DEF g
  <2>. QED  BY <1>6, <2>2, <2>3, GoodHalf
<1>7. CASE Bind(x)
  BY <1>6, <1>7 DEF Bind
<1>8. CASE EgressReady(x)
  BY <1>6, <1>8 DEF EgressReady
<1>9. CASE KillChild(x)
  <2>1. j = [j EXCEPT !.at = "stop"]
    BY <1>0, <1>9 DEF KillChild, Jobs
  <2>2. job' = [job EXCEPT ![x] = j]
    BY <1>9 DEF KillChild, JobsOK
  <2>. QED  BY <1>0, <1>9, <2>1, <2>2, GoodKilled DEF KillChild, Ends
<1>10. CASE SourceClosed(x)
  BY <1>10, GoodOver DEF SourceClosed, Over, Ends
<1>11. CASE ExportAnswered(x)
  BY <1>11 DEF ExportAnswered
<1>. QED
  BY <1>1, <1>2, <1>3, <1>4, <1>5, <1>7, <1>8, <1>9, <1>10, <1>11
  DEF ExportStep, ApiExport, ExportRemote

\* The steps of a republication keep its record and its half in agreement
\* (routes/publications.rs, task.rs, launchd.rs).
LEMMA RepChanges ==
  ASSUME JobsOK, PartsOK, NEW r \in Reps, HalfInv(r),
         \/ StartRepublish(r) \/ StartRepublishFails(r) \/ ConnectFails(r) \/ PublicationUp(r)
         \/ InsertRepublication(r) \/ RepublishGivesUp(r) \/ RepublishAnswered(r)
  PROVE  OneHalf(r) \/ UNCHANGED <<job, half>>
<1>. r \in Halves /\ r \notin Exports
  BY PublicationsAssumption DEF Halves
<1>0. job[r] \in Jobs /\ half[r] \in Parts
  BY DEF JobsOK, PartsOK
<1>. DEFINE j == job[r]
            f == half[r]
<1>1. CASE StartRepublish(r)
  <2>. DEFINE k == [j EXCEPT !.at = "wait"]
  <2>1. k \in Jobs /\ k.at = "wait"
    BY <1>0 DEF Jobs, JobStates
  <2>2. f.exe \in {"task", "worker"}
    BY <1>0 DEF Parts
  <2>3. job' = [job EXCEPT ![r] = k] /\ half' = [half EXCEPT ![r] = NewHalf(f.exe)]
    BY <1>1 DEF StartRepublish
  <2>. HIDE DEF k
  <2>. QED  BY <2>1, <2>2, <2>3, GoodNew, NewHalfType
<1>2. CASE StartRepublishFails(r)
  <2>. DEFINE k == [j EXCEPT !.at = "failed", !.dir = FALSE]
  <2>1. k \in Jobs /\ k.at = "failed" /\ ~k.dir /\ j.at = "make"
    BY <1>0, <1>2 DEF StartRepublishFails, Jobs, JobStates
  <2>2. job' = [job EXCEPT ![r] = k] /\ half' = half
    BY <1>2 DEF StartRepublishFails
  <2>. HIDE DEF k
  <2>3. RecordRule(k, f) /\ RepRule(k, f, Peers(r) # {})
    BY <2>1 DEF HalfInv, RecordRule, RepRule
  <2>. QED  BY <2>1, <2>2, <2>3, GoodJob
<1>3. CASE ConnectFails(r)
  BY <1>3, GoodOver DEF ConnectFails, Ends
<1>4. CASE PublicationUp(r)
  <2>. DEFINE n == [f EXCEPT !.run = "running", !.up = TRUE]
              g == Say(n, "running")
  <2>1. /\ n \in Parts /\ n.run = "running" /\ n.exe = f.exe /\ n.stop = f.stop
        /\ n.cancelled = f.cancelled /\ n.cause = f.cause /\ n.up = TRUE
    BY <1>0 DEF Parts, RunStates
  <2>2. /\ half' = [half EXCEPT ![r] = g] /\ job' = job /\ f.run = "linked" /\ Peers(r) # {}
    BY <1>4 DEF PublicationUp
  <2>. HIDE DEF n
  <2>3. /\ g \in Parts /\ g.run = "running" /\ g.exe = f.exe /\ g.stop = f.stop
        /\ g.cancelled = f.cancelled /\ g.cause = f.cause /\ g.up = TRUE
    BY <2>1, SayType
  <2>. HIDE DEF g
  <2>. QED  BY <2>2, <2>3, GoodHalf
<1>5. CASE InsertRepublication(r)
  <2>. DEFINE k == [j EXCEPT !.at = "in"]
  <2>1. k \in Jobs /\ k.at = "in"
    BY <1>0 DEF Jobs, JobStates
  <2>2. job' = [job EXCEPT ![r] = k] /\ half' = half /\ f.up
    BY <1>5 DEF InsertRepublication, Published
  <2>. HIDE DEF k
  <2>3. RecordRule(k, f) /\ RepRule(k, f, Peers(r) # {})
    BY <2>1, <2>2 DEF HalfInv, RecordRule, RepRule
  <2>. QED  BY <2>1, <2>2, <2>3, GoodJob
<1>6. CASE RepublishGivesUp(r)
  <2>. DEFINE k == [j EXCEPT !.at = "cancel"]
  <2>1. k \in Jobs /\ k.at = "cancel"
    BY <1>0 DEF Jobs, JobStates
  <2>2. job' = [job EXCEPT ![r] = k] /\ half' = half
    BY <1>6 DEF RepublishGivesUp
  <2>. HIDE DEF k
  <2>3. RecordRule(k, f) /\ RepRule(k, f, Peers(r) # {})
    BY <2>1, <2>2 DEF HalfInv, RecordRule, RepRule
  <2>. QED  BY <2>1, <2>2, <2>3, GoodJob
<1>7. CASE RepublishAnswered(r)
  BY <1>7 DEF RepublishAnswered
<1>. QED  BY <1>1, <1>2, <1>3, <1>4, <1>5, <1>6, <1>7

\* So does the attach's request for one.
LEMMA RepAsked ==
  ASSUME JobsOK, PartsOK, AttachInv, NEW r \in Reps, NEW d \in BOOLEAN, RepublishLocal(r, d)
  PROVE  OneHalf(r)
<1>. r \in Halves
  BY DEF Halves
<1>. DEFINE k == [NoJob EXCEPT !.at = "make", !.for = "attach", !.dir = d]
            e == half[cli.export].exe
<1>1. k \in Jobs /\ k.at = "make"
  BY DEF NoJob, Jobs, JobStates
<1>2. cli.export \in Halves
  BY DEF RepublishLocal, AttachInv, Knowing, Halves
<1>3. e \in {"task", "worker"}
  BY <1>2 DEF PartsOK, Parts
<1>4. job' = [job EXCEPT ![r] = k] /\ half' = [half EXCEPT ![r] = [NoHalf EXCEPT !.exe = e]]
  BY DEF RepublishLocal, PostRepublish
<1>. HIDE DEF k, e
<1>. QED  BY <1>1, <1>3, <1>4, GoodNew, NewHalfType

\* A record that is taken out of the map is stopped next.
LEMMA CloseChanges ==
  ASSUME JobsOK, PartsOK, NEW h \in Halves, HalfInv(h), CloseRecord(h), half' = half
  PROVE  OneHalf(h)
<1>. DEFINE k == [job[h] EXCEPT !.at = "cancel"]
<1>1. k \in Jobs /\ k.at = "cancel"
  BY DEF JobsOK, Jobs, JobStates
<1>2. job' = [job EXCEPT ![h] = k] /\ job[h].at = "in"
  BY DEF CloseRecord
<1>. HIDE DEF k
<1>3. RecordRule(k, half[h]) /\ ExportRule(k, half[h])
  BY <1>1 DEF RecordRule, ExportRule
<1>4. h \in Reps => RepRule(k, half[h], Peers(h) # {})
  BY <1>1, <1>2 DEF HalfInv, RepRule
<1>. QED  BY <1>1, <1>2, <1>3, <1>4, GoodJob

\* A half that no step touches keeps its invariant: peers are only ever added.
LEMMA HalfKept ==
  ASSUME NEW h \in Halves, HalfInv(h), job'[h] = job[h], half'[h] = half[h],
         link.peers \subseteq link'.peers
  PROVE  HalfInv(h)'
<1>1. Peers(h) # {} => Peers(h)' # {}
  BY DEF Peers
<1>. QED  BY <1>1 DEF HalfInv, RepRule

\* A step that changes one record and the half it names keeps the types and the invariant
\* of all halves.
LEMMA OneHalfKeeps ==
  ASSUME JobsOK, PartsOK, \A h \in Halves : HalfInv(h), NEW h \in Halves, OneHalf(h),
         link.peers \subseteq link'.peers
  PROVE  /\ JobsOK' /\ PartsOK' /\ \A g \in Halves : HalfInv(g)'
         /\ \A g \in Halves \ {h} : job'[g] = job[g] /\ half'[g] = half[g]
<1>1. PICK j, f : Good(h, j, f)
  BY DEF OneHalf
<1>2. /\ JobsOK' /\ PartsOK' /\ job'[h] = j /\ half'[h] = f
      /\ \A g \in Halves \ {h} : job'[g] = job[g] /\ half'[g] = half[g]
  BY <1>1, PutKeeps DEF Good
<1>3. Peers(h) # {} => Peers(h)' # {}
  BY DEF Peers
<1>4. HalfInv(h)'
  BY <1>1, <1>2, <1>3 DEF Good, HalfInv, RepRule
<1>5. ASSUME NEW g \in Halves \ {h} PROVE HalfInv(g)'
  BY <1>2, HalfKept
<1>. QED  BY <1>2, <1>4, <1>5

\* The connection of an ingress half changes two halves: the egress half that accepts it too,
\* or the ingress alone when nothing accepts (UnixStream::connect in task.rs).
LEMMA ConnectKeeps ==
  ASSUME JobsOK, PartsOK, \A h \in Halves : HalfInv(h), NEW r \in Reps, NEW x \in Exports, Connect(r, x)
  PROVE  /\ job' = job /\ link.peers \subseteq link'.peers
         /\ PartsOK' /\ \A g \in Halves : HalfInv(g)'
<1>. r \in Halves /\ x \in Halves /\ r # x /\ x \notin Reps /\ r \notin Exports
  BY PublicationsAssumption DEF Halves
<1>. DEFINE a == [half[r] EXCEPT !.run = "linked"]
            b == [half[x] EXCEPT !.run = "linked"]
<1>1. CASE /\ half[x].run = "listen" /\ half[r].run = "spawn"
           /\ half' = [half EXCEPT ![r].run = "linked", ![x].run = "linked"]
           /\ link' = [link EXCEPT !.peers = @ \union {<<x, r>>}] /\ job' = job
  <2>1. /\ half'[r] = a /\ half'[x] = b /\ \A g \in Halves \ {r, x} : half'[g] = half[g]
        /\ half' \in [Halves -> Parts]
    <3>1. a \in Parts /\ b \in Parts
      BY DEF PartsOK, Parts, RunStates
    <3>2. half' = [[half EXCEPT ![r] = a] EXCEPT ![x] = b]
      BY <1>1 DEF PartsOK
    <3>. HIDE DEF a, b
    <3>. QED  BY <3>1, <3>2 DEF PartsOK
  <2>2. /\ a.exe = half[r].exe /\ a.stop = half[r].stop /\ a.cancelled = half[r].cancelled
        /\ a.cause = half[r].cause /\ a.up = half[r].up /\ a.run = "linked"
    BY DEF PartsOK, Parts
  <2>3. /\ b.exe = half[x].exe /\ b.stop = half[x].stop /\ b.cancelled = half[x].cancelled
        /\ b.cause = half[x].cause /\ b.up = half[x].up /\ b.run = "linked"
    BY DEF PartsOK, Parts
  <2>. HIDE DEF a, b
  <2>4. link.peers \subseteq link'.peers
    BY <1>1
  <2>5. HalfInv(r)'
    <3>1. Peers(r) # {} => Peers(r)' # {}
      BY <2>4 DEF Peers
    <3>. QED  BY <1>1, <2>1, <2>2, <3>1 DEF HalfInv, RecordRule, TaskRule, RepRule
  <2>6. HalfInv(x)'
    BY <1>1, <2>1, <2>3 DEF HalfInv, RecordRule, TaskRule, ExportRule
  <2>7. \A g \in Halves \ {r, x} : HalfInv(g)'
    BY <1>1, <2>1, <2>4, HalfKept
  <2>. QED  BY <1>1, <2>1, <2>4, <2>5, <2>6, <2>7 DEF PartsOK
<1>2. CASE /\ half[r].run = "spawn" /\ job' = job /\ link' = link
           /\ half' = [half EXCEPT ![r] = Ends(half[r], "over", "other", "failed")]
  <2>1. OneHalf(r)
    BY <1>2, GoodOver
  <2>. QED  BY <1>2, <2>1, OneHalfKeeps
<1>. QED  BY <1>1, <1>2 DEF Connect, Ends

\* Every step keeps the types of the records and of the halves, what each record says of its
\* half, and the peers that were linked.
LEMMA HalvesStep ==
  ASSUME TypeOK, \A h \in Halves : HalfInv(h), AttachInv, Next
  PROVE  JobsOK' /\ PartsOK' /\ (\A h \in Halves : HalfInv(h)') /\ link.peers \subseteq link'.peers
<1>. DEFINE Goal == /\ JobsOK' /\ PartsOK' /\ (\A h \in Halves : HalfInv(h)')
                    /\ link.peers \subseteq link'.peers
<1>0. JobsOK /\ PartsOK /\ LinkOK
  BY TypeParts
<1>1. ASSUME UNCHANGED <<job, half>>, link'.peers = link.peers PROVE Goal
  <2>1. \A h \in Halves : HalfInv(h)'
    BY <1>1, HalfKept
  <2>. QED  BY <1>0, <1>1, <2>1 DEF JobsOK, PartsOK
<1>2. ASSUME NEW h \in Halves, OneHalf(h), link'.peers = link.peers PROVE Goal
  BY <1>0, <1>2, OneHalfKeeps
<1>. HIDE DEF Goal
<1>3. ASSUME NEW h \in Halves, HalfStep(h) PROVE Goal
  <2>1. link' = link
    BY <1>3 DEF HalfStep, ReadStatus, DropClient, ApiClose, CancelHalf, StopTask, StopReturns, Interrupted,
       LinkLost, HalfFails, HalfExits
  <2>. QED  BY <1>0, <1>2, <1>3, <2>1, HalfChanges
<1>4. ASSUME NEW x \in Exports, ExportStep(x) PROVE Goal
  <2>1. link' = link
    BY <1>4 DEF ExportStep, ApiExport, ExportRemote, AuthorizeExport, StartExport, StartExportFails,
       InsertExport, Bind, EgressReady, KillChild, SourceClosed, ExportAnswered
  <2>2. x \in Halves
    BY DEF Halves
  <2>. QED  BY <1>0, <1>1, <1>2, <1>4, <2>1, <2>2, ExportChanges
<1>5. ASSUME NEW r \in Reps,
             \/ StartRepublish(r) \/ StartRepublishFails(r) \/ ConnectFails(r) \/ PublicationUp(r)
             \/ InsertRepublication(r) \/ RepublishGivesUp(r) \/ RepublishAnswered(r)
      PROVE  Goal
  <2>1. link'.peers = link.peers
    BY <1>0, <1>5 DEF StartRepublish, StartRepublishFails, ConnectFails, PublicationUp, InsertRepublication,
       RepublishGivesUp, RepublishAnswered, LinkOK, Links
  <2>2. r \in Halves
    BY DEF Halves
  <2>. QED  BY <1>0, <1>1, <1>2, <1>5, <2>1, <2>2, RepChanges
<1>6. ASSUME NEW r \in Reps, NEW d \in BOOLEAN, RepublishLocal(r, d) PROVE Goal
  <2>1. link' = link /\ r \in Halves
    BY <1>6 DEF RepublishLocal, Halves
  <2>. QED  BY <1>0, <1>2, <1>6, <2>1, RepAsked
<1>7. ASSUME NEW r \in Reps, NEW x \in Exports, Connect(r, x) PROVE Goal
  BY <1>0, <1>7, ConnectKeeps DEF Goal, JobsOK
<1>8. ASSUME CloseRepublication \/ CloseExport PROVE Goal
  <2>1. link' = link /\ half' = half
    BY <1>8 DEF CloseRepublication, CloseExport
  <2>2. CASE UNCHANGED job
    BY <1>1, <2>1, <2>2
  <2>3. CASE CloseRecord(cli.rep) /\ cli.rep \in Reps
    BY <1>0, <1>2, <2>1, <2>3, CloseChanges DEF Halves
  <2>4. CASE CloseRecord(cli.export) /\ cli.export \in Exports
    BY <1>0, <1>2, <2>1, <2>4, CloseChanges DEF Halves
  <2>. QED  BY <1>8, <2>2, <2>3, <2>4 DEF CloseRepublication, CloseExport, AttachInv, Knowing
<1>9. ASSUME \/ SearchRemote \/ SearchFails \/ CreateRemoteSession \/ ControlDown \/ CallFails
             \/ StartForward \/ StartForwardFails \/ LeaveRunning \/ Interrupt
             \/ CloseSession \/ KillAttach \/ Approve \/ SessionEnds
      PROVE  Goal
  <2>1. UNCHANGED <<job, half>> /\ link'.peers = link.peers
    BY <1>0, <1>9 DEF SearchRemote, SearchFails, CreateRemoteSession, ControlDown, CallFails, StartForward,
       StartForwardFails, LeaveRunning, Interrupt, CloseSession, KillAttach, Approve, SessionEnds,
       LinkOK, Links
  <2>. QED  BY <1>1, <2>1
<1>. QED
  BY <1>3, <1>4, <1>5, <1>6, <1>7, <1>8, <1>9 DEF Next, RepStep, AttachStep, Goal

\* The steps that are not the attach's own leave what it asked for where it was, or bring it
\* further: a failed or a deleted export stays so.
Calm ==
  \A x \in Exports :
    /\ job'[x].for = "attach" <=> job[x].for = "attach"
    /\ job[x].for = "attach" => job'[x].at # "none"
    /\ job[x].for = "attach" /\ job[x].at \in {"failed", "gone"} => job'[x].at \in {"failed", "gone"}

Aside == Calm /\ UNCHANGED <<link, cli>> /\ (session' = session \/ (session = "live" /\ session' = "closed"))

\* Such a step keeps what the attach knows.
LEMMA AsideKeeps == ASSUME AttachInv, Aside PROVE AttachInv'
<1>1. \A x \in Exports : job'[x].for = "attach" <=> job[x].for = "attach"
  BY DEF Aside, Calm
<1>2. \A x \in Exports : job[x].for = "attach" => job'[x].at # "none"
  BY DEF Aside, Calm
<1>3. \A x \in Exports : job[x].for = "attach" /\ job[x].at \in {"failed", "gone"} => job'[x].at \in {"failed", "gone"}
  BY DEF Aside, Calm
<1>. QED
  BY <1>1, <1>2, <1>3 DEF AttachInv, Aside

\* The threads of the halves, and the requests of other clients, are such steps.
LEMMA HalvesAside ==
  ASSUME JobsOK, AttachInv, NEW h \in Halves, HalfStep(h)
  PROVE  Aside
<1>0. \A x \in Exports : x \in Halves /\ job[x] \in Jobs
  BY DEF JobsOK, Halves
<1>1. CASE ReadStatus(h) \/ StopTask(h) \/ Interrupted(h) \/ LinkLost(h) \/ HalfFails(h) \/ HalfExits(h)
  <2>1. UNCHANGED <<session, job, link, cli>>
    BY <1>1 DEF ReadStatus, StopTask, Interrupted, LinkLost, HalfFails, HalfExits
  <2>. QED  BY <2>1 DEF Aside, Calm, AttachInv
<1>2. CASE DropClient(h)
  BY <1>0, <1>2 DEF DropClient, Aside, Calm, AttachInv, JobsOK, Jobs
<1>3. CASE ApiClose(h)
  BY <1>0, <1>3 DEF ApiClose, CloseRecord, Aside, Calm, AttachInv, JobsOK, Jobs
<1>4. CASE CancelHalf(h)
  <2>. DEFINE i == [job[h] EXCEPT !.at = "stop"]
              g == [job[h] EXCEPT !.at = "gone", !.dir = FALSE, !.stuck = TRUE]
  <2>1. i.at = "stop" /\ g.at = "gone" /\ i.for = job[h].for /\ g.for = job[h].for
    BY DEF JobsOK, Jobs
  <2>2. job' = [job EXCEPT ![h] = i] \/ job' = [job EXCEPT ![h] = g]
    BY <1>4 DEF CancelHalf
  <2>3. job[h].at = "cancel" /\ UNCHANGED <<session, link, cli>>
    BY <1>4 DEF CancelHalf
  <2>. HIDE DEF i, g
  <2>. QED  BY <1>0, <2>1, <2>2, <2>3 DEF Aside, Calm, AttachInv, JobsOK
<1>5. CASE StopReturns(h)
  BY <1>0, <1>5 DEF StopReturns, Aside, Calm, AttachInv, JobsOK, Jobs
<1>. QED  BY <1>1, <1>2, <1>3, <1>4, <1>5 DEF HalfStep

\* So are those of an export.
LEMMA ExportsAside ==
  ASSUME JobsOK, AttachInv, NEW x \in Exports,
         \/ \E e \in Executions, i \in BOOLEAN : ApiExport(x, e, i)
         \/ AuthorizeExport(x) \/ StartExport(x) \/ StartExportFails(x) \/ InsertExport(x)
         \/ Bind(x) \/ EgressReady(x) \/ KillChild(x) \/ SourceClosed(x)
  PROVE  Aside
<1>0. \A y \in Exports : y \in Halves /\ job[y] \in Jobs
  BY DEF JobsOK, Halves
<1>1. CASE Bind(x) \/ EgressReady(x) \/ KillChild(x) \/ SourceClosed(x)
  <2>1. UNCHANGED <<session, job, link, cli>>
    BY <1>1 DEF Bind, EgressReady, KillChild, SourceClosed
  <2>. QED  BY <2>1 DEF Aside, Calm, AttachInv
<1>2. ASSUME NEW e \in Executions, NEW i \in BOOLEAN, ApiExport(x, e, i) PROVE Aside
  <2>. DEFINE k == [NoJob EXCEPT !.at = IF i THEN "auth" ELSE "make", !.for = "api", !.executor = i]
  <2>1. k.for = "api" /\ job' = [job EXCEPT ![x] = k] /\ UNCHANGED <<session, link, cli>> /\ job[x].at = "none"
    BY <1>2 DEF ApiExport, PostExport, NoJob
  <2>. HIDE DEF k
  <2>. QED  BY <1>0, <2>1 DEF Aside, Calm, AttachInv, JobsOK
<1>3. CASE AuthorizeExport(x)
  BY <1>0, <1>3 DEF AuthorizeExport, Aside, Calm, AttachInv, JobsOK, Jobs
<1>4. CASE StartExport(x)
  BY <1>0, <1>4 DEF StartExport, Aside, Calm, AttachInv, JobsOK, Jobs
<1>5. CASE StartExportFails(x)
  BY <1>0, <1>5 DEF StartExportFails, Aside, Calm, AttachInv, JobsOK, Jobs
<1>6. CASE InsertExport(x)
  BY <1>0, <1>6 DEF InsertExport, Aside, Calm, AttachInv, JobsOK, Jobs
<1>. QED  BY <1>1, <1>2, <1>3, <1>4, <1>5, <1>6

\* And those of a republication.
LEMMA RepsAside ==
  ASSUME JobsOK, AttachInv, NEW r \in Reps,
         \/ StartRepublish(r) \/ StartRepublishFails(r) \/ ConnectFails(r) \/ PublicationUp(r)
         \/ InsertRepublication(r) \/ RepublishGivesUp(r)
  PROVE  Aside
<1>1. \A y \in Exports : y \in Halves /\ y # r
  BY PublicationsAssumption DEF Halves
<1>2. (\A y \in Exports : job'[y] = job[y]) /\ UNCHANGED <<session, link, cli>>
  BY <1>1 DEF StartRepublish, StartRepublishFails, ConnectFails, PublicationUp, InsertRepublication,
     RepublishGivesUp, JobsOK
<1>. QED  BY <1>2 DEF Aside, Calm, AttachInv

\* What a step of the attach on its own state has to keep, the records of its export being the same.
LEMMA AttachAsks ==
  ASSUME TypeOK, AttachInv,
         \/ SearchRemote \/ SearchFails \/ CreateRemoteSession \/ ControlDown \/ CallFails
         \/ StartForward \/ StartForwardFails \/ LeaveRunning \/ Interrupt \/ CloseSession \/ KillAttach
         \/ \E r \in Reps : RepublishAnswered(r)
         \/ \E x \in Exports : ExportAnswered(x)
  PROVE  AttachInv' /\ LinkOK' /\ AttachOK'
<1>0. /\ job' = job /\ link \in Links /\ cli \in Attaches
      /\ session \in {"none", "live", "closed"}
  BY TypeParts DEF SearchRemote, SearchFails, CreateRemoteSession, ControlDown, CallFails, StartForward,
     StartForwardFails, LeaveRunning, Interrupt, CloseSession, KillAttach, RepublishAnswered, ExportAnswered,
     LinkOK, AttachOK
<1>. USE DEF AttachInv, Working, Knowing, Early, Ended
<1>1. CASE SearchRemote
  <2>1. LinkOK' /\ AttachOK' /\ link'.control = "up" /\ cli'.at = "session" /\ cli'.session = cli.session
        /\ cli'.export = cli.export /\ cli'.rep = cli.rep /\ cli'.lost = cli.lost /\ session' = session
        /\ cli.at = "search"
    BY <1>0, <1>1 DEF SearchRemote, Links, Attaches, LinkOK, AttachOK
  <2>. QED  BY <1>0, <2>1
<1>2. CASE SearchFails
  <2>1. LinkOK' /\ AttachOK' /\ link' = link /\ cli'.at = "failed" /\ cli'.session = cli.session
        /\ cli'.export = cli.export /\ cli'.rep = cli.rep /\ cli'.lost = cli.lost /\ session' = session
        /\ cli.at = "search"
    BY <1>0, <1>2 DEF SearchFails, Links, Attaches, LinkOK, AttachOK
  <2>. QED  BY <1>0, <2>1
<1>3. CASE CreateRemoteSession
  <2>1. LinkOK' /\ AttachOK' /\ link' = link /\ cli'.at = "export" /\ cli'.session
        /\ cli'.export = cli.export /\ cli'.rep = cli.rep /\ cli'.lost = cli.lost /\ session' = "live"
        /\ cli.at = "session"
    BY <1>0, <1>3 DEF CreateRemoteSession, Links, Attaches, LinkOK, AttachOK
  <2>. QED  BY <1>0, <2>1
<1>4. CASE ControlDown
  <2>1. LinkOK' /\ AttachOK' /\ link'.control = "down" /\ cli'.at = cli.at /\ cli'.session = cli.session
        /\ cli'.export = cli.export /\ cli'.rep = cli.rep /\ cli'.lost /\ session' = session
    BY <1>0, <1>4 DEF ControlDown, Links, Attaches, LinkOK, AttachOK
  <2>. QED  BY <1>0, <2>1
<1>5. ASSUME cli' = [cli EXCEPT !.at = Undo], cli.at \notin {"search"} \union Ended, session' = session,
             link'.control = link.control, LinkOK',
             \/ cli.at \in {"session", "export", "posted"} /\ link.control = "down"
             \/ cli.at \in {"forward", "publish"}
             \/ cli.at = "posted" /\ \E x \in Exports : job[x].for = "attach" /\ job[x].at = "failed"
      PROVE  AttachInv' /\ LinkOK' /\ AttachOK'
  <2>1. Undo \in {"undo", "undosession", "failed"}
    BY DEF Undo
  <2>2. /\ AttachOK' /\ cli'.at = Undo /\ cli'.session = cli.session
        /\ cli'.export = cli.export /\ cli'.rep = cli.rep /\ cli'.lost = cli.lost
    BY <1>0, <1>5, <2>1 DEF Attaches, AttachOK
  <2>3. CASE cli.at \in {"forward", "publish"}
    <3>1. Undo = "undo"
      BY <2>3, PublicationsAssumption DEF Undo, Halves
    <3>. QED  BY <1>0, <1>5, <2>2, <2>3, <3>1
  <2>4. CASE cli.at = "posted" /\ \E x \in Exports : job[x].for = "attach" /\ job[x].at = "failed"
    <3>1. Undo = "undosession"
      BY <2>4 DEF Undo
    <3>2. \A x \in Exports : job[x].for = "attach" => job[x].at \in {"failed", "gone"}
      BY <2>4
    <3>. QED  BY <1>0, <1>5, <2>2, <2>4, <3>1, <3>2
  <2>5. CASE cli.at \in {"session", "export", "posted"} /\ link.control = "down"
    <3>1. cli.lost /\ cli.export = None
      BY <2>5
    <3>2. Undo = (IF cli.session THEN "undosession" ELSE "failed")
      BY <3>1 DEF Undo
    <3>. QED  BY <1>0, <1>5, <2>2, <2>5, <3>1, <3>2
  <2>. QED  BY <1>5, <2>3, <2>4, <2>5
<1>6. CASE CallFails
  BY <1>0, <1>5, <1>6 DEF CallFails, LinkOK
<1>7. CASE StartForward
  <2>1. LinkOK' /\ AttachOK' /\ link'.control = link.control /\ cli'.at = "republish" /\ cli'.session = cli.session
        /\ cli'.export = cli.export /\ cli'.rep = cli.rep /\ cli'.lost = cli.lost /\ session' = session
        /\ cli.at = "forward"
    BY <1>0, <1>7 DEF StartForward, Links, Attaches, LinkOK, AttachOK
  <2>. QED  BY <1>0, <2>1
<1>8. CASE StartForwardFails
  BY <1>0, <1>5, <1>8 DEF StartForwardFails, LinkOK
<1>9. CASE LeaveRunning
  <2>1. LinkOK' /\ AttachOK' /\ link'.control = "down" /\ cli'.at = "done" /\ session' = session
    BY <1>0, <1>9 DEF LeaveRunning, Links, Attaches, LinkOK, AttachOK
  <2>. QED  BY <1>0, <2>1
<1>10. CASE Interrupt
  <2>1. LinkOK' /\ AttachOK' /\ link' = link /\ cli'.at = "unrep" /\ cli'.session = cli.session
        /\ cli'.export = cli.export /\ cli'.rep = cli.rep /\ cli'.lost = cli.lost /\ session' = session
        /\ cli.at = "hold"
    BY <1>0, <1>10 DEF Interrupt, Links, Attaches, LinkOK, AttachOK
  <2>. QED  BY <1>0, <2>1
<1>11. CASE CloseSession
  <2>1. LinkOK' /\ AttachOK' /\ link'.control = "down" /\ cli'.session = cli.session
        /\ cli'.at = (IF cli.at = "undosession" THEN "failed" ELSE "done")
        /\ cli'.export = cli.export /\ cli'.rep = cli.rep /\ cli'.lost = cli.lost
        /\ cli.at \in {"unsession", "undosession"}
        /\ session' = IF link.control = "up" THEN "closed" ELSE session
    BY <1>0, <1>11 DEF CloseSession, Links, Attaches, LinkOK, AttachOK
  <2>2. link.control = "up" \/ cli.lost
    BY <1>0, <2>1 DEF Links
  <2>. QED  BY <1>0, <2>1, <2>2
<1>12. CASE KillAttach
  <2>1. LinkOK' /\ AttachOK' /\ link'.control = "down" /\ cli'.at = "killed" /\ session' = session
    BY <1>0, <1>12 DEF KillAttach, Links, Attaches, LinkOK, AttachOK
  <2>. QED  BY <1>0, <2>1
<1>13. ASSUME NEW r \in Reps, RepublishAnswered(r) PROVE AttachInv' /\ LinkOK' /\ AttachOK'
  <2>1. CASE cli' = [cli EXCEPT !.at = "hold"] /\ link' = link
    <3>1. LinkOK' /\ AttachOK' /\ link' = link /\ cli'.at = "hold" /\ cli'.session = cli.session
          /\ cli'.export = cli.export /\ cli'.rep = cli.rep /\ cli'.lost = cli.lost /\ session' = session
          /\ cli.at = "publish"
      BY <1>0, <1>13, <2>1 DEF RepublishAnswered, Links, Attaches, LinkOK, AttachOK
    <3>. QED  BY <1>0, <3>1
  <2>2. CASE cli' = [cli EXCEPT !.at = Undo] /\ link' = [link EXCEPT !.media = "down"]
    <3>1. cli.at = "publish" /\ session' = session
      BY <1>13 DEF RepublishAnswered
    <3>2. LinkOK' /\ link'.control = link.control
      BY <1>0, <2>2 DEF Links, LinkOK
    <3>. QED  BY <1>5, <2>2, <3>1, <3>2
  <2>. QED  BY <1>13, <2>1, <2>2 DEF RepublishAnswered
<1>14. ASSUME NEW x \in Exports, ExportAnswered(x) PROVE AttachInv' /\ LinkOK' /\ AttachOK'
  <2>1. CASE cli' = [cli EXCEPT !.at = "forward", !.export = x]
    <3>1. LinkOK' /\ AttachOK' /\ link' = link /\ cli'.at = "forward" /\ cli'.session = cli.session
          /\ cli'.export = x /\ cli'.rep = cli.rep /\ cli'.lost = cli.lost /\ session' = session
          /\ cli.at = "posted" /\ job[x].for = "attach"
      BY <1>0, <1>14, <2>1 DEF ExportAnswered, Links, Attaches, LinkOK, AttachOK
    <3>. QED  BY <1>0, <3>1
  <2>2. CASE job[x].at = "failed" /\ cli' = [cli EXCEPT !.at = Undo]
    BY <1>0, <1>5, <1>14, <2>2 DEF ExportAnswered, LinkOK
  <2>. QED  BY <1>14, <2>1, <2>2 DEF ExportAnswered
<1>. QED
  BY <1>1, <1>2, <1>3, <1>4, <1>6, <1>7, <1>8, <1>9, <1>10, <1>11, <1>12, <1>13, <1>14

\* The requests of the attach that change a record: the export it asks for is the only one
\* that is its own, and it deletes that one.
LEMMA AttachActs ==
  ASSUME TypeOK, AttachInv,
         \/ \E x \in Exports, e \in Executions, i \in BOOLEAN : ExportRemote(x, e, i)
         \/ \E r \in Reps, d \in BOOLEAN : RepublishLocal(r, d)
         \/ CloseRepublication \/ CloseExport
  PROVE  AttachInv' /\ LinkOK' /\ AttachOK'
<1>0. /\ link' = link /\ session' = session /\ link \in Links /\ cli \in Attaches /\ JobsOK /\ LinkOK'
      /\ \A y \in Exports : y \in Halves /\ y \notin Reps /\ job[y] \in Jobs
  BY TypeParts, PublicationsAssumption
  DEF ExportRemote, RepublishLocal, CloseRepublication, CloseExport, LinkOK, AttachOK, JobsOK, Halves
<1>. USE DEF AttachInv, Working, Knowing, Early, Ended
<1>1. ASSUME NEW x \in Exports, NEW e \in Executions, NEW i \in BOOLEAN, ExportRemote(x, e, i)
      PROVE  AttachInv' /\ AttachOK'
  <2>. DEFINE k == [NoJob EXCEPT !.at = IF i THEN "auth" ELSE "make", !.for = "attach", !.executor = i]
  <2>1. k.for = "attach" /\ k.at \in {"auth", "make"}
    BY DEF NoJob
  <2>2. job' = [job EXCEPT ![x] = k] /\ cli.at = "export"
    BY <1>1 DEF ExportRemote, PostExport
  <2>3. /\ AttachOK' /\ cli'.at = "posted" /\ cli'.session = cli.session
        /\ cli'.export = cli.export /\ cli'.rep = cli.rep /\ cli'.lost = cli.lost
    BY <1>0, <1>1 DEF ExportRemote, Attaches, AttachOK
  <2>. HIDE DEF k
  <2>4. \A y \in Exports : job'[y] = IF y = x THEN k ELSE job[y]
    BY <1>0, <2>2 DEF JobsOK
  <2>. QED  BY <1>0, <2>1, <2>2, <2>3, <2>4
<1>2. ASSUME NEW r \in Reps, NEW d \in BOOLEAN, RepublishLocal(r, d)
      PROVE  AttachInv' /\ AttachOK'
  <2>1. /\ AttachOK' /\ cli'.at = "publish" /\ cli'.session = cli.session /\ cli.at = "republish"
        /\ cli'.export = cli.export /\ cli'.rep = r /\ cli'.lost = cli.lost
    BY <1>0, <1>2 DEF RepublishLocal, Attaches, AttachOK
  <2>2. \A y \in Exports : job'[y] = job[y]
    BY <1>0, <1>2 DEF RepublishLocal, PostRepublish, JobsOK
  <2>. QED  BY <1>0, <2>1, <2>2
<1>3. CASE CloseRepublication
  <2>1. CASE CloseRecord(cli.rep) /\ cli' = cli /\ cli.rep \in Reps
    <3>1. \A y \in Exports : job'[y] = job[y]
      BY <1>0, <2>1 DEF CloseRecord, JobsOK
    <3>. QED  BY <1>0, <2>1, <3>1 DEF AttachOK
  <2>2. CASE cli' = [cli EXCEPT !.at = "unexport"] /\ job' = job
    <3>1. /\ AttachOK' /\ cli'.at = "unexport" /\ cli'.session = cli.session /\ cli.at = "unrep"
          /\ cli'.export = cli.export /\ cli'.rep = cli.rep /\ cli'.lost = cli.lost
      BY <1>0, <1>3, <2>2 DEF CloseRepublication, Attaches, AttachOK
    <3>. QED  BY <1>0, <2>2, <3>1
  <2>. QED  BY <1>3, <2>1, <2>2 DEF CloseRepublication
<1>4. CASE CloseExport
  <2>0. cli.at \in {"unexport", "undo"} /\ cli.export \in Exports
    BY <1>4 DEF CloseExport
  <2>1. CASE CloseRecord(cli.export) /\ cli' = cli
    <3>. DEFINE i == [job[cli.export] EXCEPT !.at = "cancel"]
    <3>1. i.at = "cancel" /\ i.for = job[cli.export].for
      BY <1>0, <2>0 DEF Jobs
    <3>2. job' = [job EXCEPT ![cli.export] = i]
      BY <2>1 DEF CloseRecord
    <3>. HIDE DEF i
    <3>3. \A y \in Exports : job'[y] = IF y = cli.export THEN i ELSE job[y]
      BY <1>0, <3>2 DEF JobsOK
    <3>. QED  BY <1>0, <2>0, <2>1, <3>1, <3>3 DEF AttachOK
  <2>2. CASE /\ cli' = [cli EXCEPT !.at = IF cli.at = "undo" THEN "undosession" ELSE "unsession"]
             /\ job' = job
             /\ link.control = "down" \/ job[cli.export].at \in {"gone", "failed"}
    <3>1. /\ AttachOK' /\ cli'.at = (IF cli.at = "undo" THEN "undosession" ELSE "unsession")
          /\ cli'.session = cli.session /\ cli'.export = cli.export /\ cli'.rep = cli.rep
          /\ cli'.lost = cli.lost
      BY <1>0, <2>2 DEF Attaches, AttachOK
    <3>2. cli.lost \/ job[cli.export].at \in {"gone", "failed"}
      BY <2>0, <2>2
    <3>3. cli.lost \/ \A x \in Exports : job[x].for = "attach" => job[x].at \in {"failed", "gone"}
      BY <2>0, <3>2
    <3>. QED  BY <1>0, <2>0, <2>2, <3>1, <3>3
  <2>. QED  BY <1>4, <2>1, <2>2 DEF CloseExport
<1>. QED  BY <1>0, <1>1, <1>2, <1>3, <1>4

\* Every step keeps what the attach knows, and the types of its own state.
LEMMA AttachKeeps ==
  ASSUME TypeOK, AttachInv, Next
  PROVE  AttachInv' /\ LinkOK' /\ AttachOK'
<1>0. JobsOK /\ LinkOK /\ AttachOK
  BY TypeParts
<1>1. ASSUME Aside PROVE AttachInv' /\ LinkOK' /\ AttachOK'
  BY <1>0, <1>1, AsideKeeps DEF Aside, LinkOK, AttachOK
<1>2. ASSUME NEW r \in Reps, NEW x \in Exports, Connect(r, x) PROVE AttachInv' /\ LinkOK' /\ AttachOK'
  <2>1. /\ link' = link \/ link' = [link EXCEPT !.peers = @ \union {<<x, r>>}]
        /\ UNCHANGED <<session, job, cli>>
    BY <1>2 DEF Connect
  <2>2. LinkOK' /\ link'.control = link.control
    BY <1>0, <2>1 DEF LinkOK, Links
  <2>. QED  BY <1>0, <2>1, <2>2 DEF AttachInv, AttachOK
<1>3. CASE Approve
  BY <1>0, <1>3 DEF Approve, AttachInv, LinkOK, AttachOK
<1>4. CASE SessionEnds
  <2>1. Aside
    BY <1>4 DEF SessionEnds, Aside, Calm, AttachInv
  <2>. QED  BY <1>1, <2>1
<1>5. ASSUME NEW h \in Halves, HalfStep(h) PROVE AttachInv' /\ LinkOK' /\ AttachOK'
  BY <1>0, <1>1, <1>5, HalvesAside
<1>6. ASSUME NEW x \in Exports, ExportStep(x) PROVE AttachInv' /\ LinkOK' /\ AttachOK'
  BY <1>0, <1>1, <1>6, ExportsAside, AttachAsks, AttachActs DEF ExportStep
<1>7. ASSUME NEW r \in Reps, RepStep(r) PROVE AttachInv' /\ LinkOK' /\ AttachOK'
  BY <1>0, <1>1, <1>2, <1>7, RepsAside, AttachAsks, AttachActs DEF RepStep
<1>8. CASE AttachStep
  BY <1>8, AttachAsks, AttachActs DEF AttachStep
<1>. QED  BY <1>3, <1>4, <1>5, <1>6, <1>7, <1>8 DEF Next

\* The session's states, and the operator's approval.
LEMMA SessionType ==
  ASSUME session \in {"none", "live", "closed"}, granted \in BOOLEAN, Next
  PROVE  (session \in {"none", "live", "closed"} /\ granted \in BOOLEAN)'
<1>1. ASSUME NEW h \in Halves, HalfStep(h) PROVE UNCHANGED <<session, granted>>
  BY <1>1 DEF HalfStep, ReadStatus, DropClient, ApiClose, CancelHalf, StopTask, StopReturns, Interrupted,
     LinkLost, HalfFails, HalfExits
<1>2. ASSUME NEW x \in Exports, ExportStep(x) PROVE UNCHANGED <<session, granted>>
  BY <1>2 DEF ExportStep, ApiExport, ExportRemote, AuthorizeExport, StartExport, StartExportFails,
     InsertExport, Bind, EgressReady, KillChild, SourceClosed, ExportAnswered
<1>3. ASSUME NEW r \in Reps, RepStep(r) PROVE UNCHANGED <<session, granted>>
  BY <1>3 DEF RepStep, RepublishLocal, StartRepublish, StartRepublishFails, ConnectFails, PublicationUp,
     InsertRepublication, RepublishGivesUp, RepublishAnswered, Connect
<1>4. CASE AttachStep
  <2>1. CASE CreateRemoteSession \/ CloseSession
    BY <2>1 DEF CreateRemoteSession, CloseSession
  <2>2. CASE \/ SearchRemote \/ SearchFails \/ ControlDown \/ CallFails \/ StartForward \/ StartForwardFails
             \/ LeaveRunning \/ Interrupt \/ CloseRepublication \/ CloseExport \/ KillAttach
    BY <2>2 DEF SearchRemote, SearchFails, ControlDown, CallFails, StartForward, StartForwardFails,
       LeaveRunning, Interrupt, CloseRepublication, CloseExport, KillAttach
  <2>. QED  BY <1>4, <2>1, <2>2 DEF AttachStep
<1>5. CASE Approve \/ SessionEnds
  BY <1>5 DEF Approve, SessionEnds
<1>. QED  BY <1>1, <1>2, <1>3, <1>4, <1>5 DEF Next

\* Nothing runs and nothing is known at the start.
LEMMA PublicationsInitially == Init => PublicationsInv
<1>. SUFFICES ASSUME Init PROVE PublicationsInv
  OBVIOUS
<1>1. NoJob \in Jobs /\ NoJob.at = "none" /\ NoJob.for = "nobody"
  BY DEF NoJob, Jobs, JobStates
<1>2. NoHalf \in Parts /\ NoHalf.run = "none" /\ ~NoHalf.stop /\ NoHalf.cause = "none" /\ ~NoHalf.up
  BY DEF NoHalf, NewHalf, Parts, RunStates
<1>3. TypeOK
  BY <1>1, <1>2, TypeParts DEF Init, JobsOK, PartsOK, LinkOK, AttachOK, Links, Attaches
<1>4. ASSUME NEW h \in Halves PROVE HalfInv(h)
  BY <1>1, <1>2 DEF Init, HalfInv, RecordRule, TaskRule, ExportRule, RepRule
<1>5. AttachInv
  BY <1>1 DEF Init, AttachInv, Working, Knowing, Early, Halves
<1>. QED  BY <1>3, <1>4, <1>5 DEF PublicationsInv

\* The inductive invariant.
LEMMA PublicationsAlways == Spec => []PublicationsInv
<1>1. PublicationsInv /\ Next => PublicationsInv'
  <2>. SUFFICES ASSUME PublicationsInv, Next PROVE PublicationsInv'
    OBVIOUS
  <2>1. TypeOK /\ (\A h \in Halves : HalfInv(h)) /\ AttachInv
    BY DEF PublicationsInv
  <2>2. JobsOK' /\ PartsOK' /\ (\A h \in Halves : HalfInv(h)')
    BY <2>1, HalvesStep
  <2>3. AttachInv' /\ LinkOK' /\ AttachOK'
    BY <2>1, AttachKeeps
  <2>4. (session \in {"none", "live", "closed"} /\ granted \in BOOLEAN)'
    BY <2>1, TypeParts, SessionType
  <2>5. TypeOK'
    BY <2>2, <2>3, <2>4 DEF TypeOK, JobsOK, PartsOK, LinkOK, AttachOK, Jobs, Parts, Links, Attaches
  <2>. QED  BY <2>2, <2>3, <2>5 DEF PublicationsInv
<1>2. PublicationsInv /\ UNCHANGED vars => PublicationsInv'
  <2>. SUFFICES ASSUME PublicationsInv, UNCHANGED vars PROVE PublicationsInv'
    OBVIOUS
  <2>1. TypeOK' /\ AttachInv'
    BY DEF PublicationsInv, vars, TypeOK, AttachInv
  <2>2. ASSUME NEW h \in Halves PROVE HalfInv(h)'
    BY HalfKept DEF PublicationsInv, vars
  <2>. QED  BY <2>1, <2>2 DEF PublicationsInv
<1>. QED  BY <1>1, <1>2, PublicationsInitially, PTL DEF Spec

\* Neither half of a bridge outlives its record, a deleted export is gone, and an attach that
\* fails takes back what it made, for every number of exports, republications and clients.
THEOREM BridgeNeverLeaks == Spec => []NothingLeaks
<1>1. PublicationsInv => NothingLeaks
  <2>. SUFFICES ASSUME PublicationsInv PROVE NothingLeaks
    OBVIOUS
  <2>1. TypeOK /\ (\A h \in Halves : HalfInv(h)) /\ AttachInv /\ JobsOK
    BY TypeParts DEF PublicationsInv
  <2>2. ASSUME NEW h \in Halves, Alive(h)
        PROVE  job[h].at \in {"wait", "in", "cancel", "stop"} \/ job[h].stuck \/ half[h].stop
    <3>1. job[h].at \in JobStates
      BY <2>1 DEF JobsOK, Jobs
    <3>. QED  BY <2>1, <2>2, <3>1 DEF Alive, HalfInv, RecordRule, JobStates
  <2>3. ClosedIsGone
    BY <2>1 DEF ClosedIsGone, HalfInv, ExportRule, Alive, Halves
  <2>4. FailedAttachCleansUp
    BY <2>1 DEF FailedAttachCleansUp, AttachInv
  <2>. QED  BY <2>1, <2>2, <2>3, <2>4 DEF NothingLeaks, NoOrphanHalf
<1>. QED  BY <1>1, PublicationsAlways, PTL

\* A half that was stopped on request does not end as failed, and a republication is answered
\* only when its half came up over a link, for every instance.
THEOREM StatusesAreTrue == Spec => []StatusTellsTruth
<1>1. PublicationsInv => StatusTellsTruth
  <2>. SUFFICES ASSUME PublicationsInv PROVE StatusTellsTruth
    OBVIOUS
  <2>1. \A h \in Halves : HalfInv(h)
    BY DEF PublicationsInv
  <2>2. StoppedIsNotFailed
    BY <2>1 DEF StoppedIsNotFailed, HalfInv, TaskRule
  <2>3. AnsweredWasUp
    BY <2>1 DEF AnsweredWasUp, HalfInv, RepRule, Halves
  <2>. QED  BY <2>2, <2>3 DEF StatusTellsTruth
<1>. QED  BY <1>1, PublicationsAlways, PTL
=============================================================================
