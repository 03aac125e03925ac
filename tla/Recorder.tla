------------------------------ MODULE Recorder ------------------------------
(***************************************************************************)
(* `porthole record`: create a capture session, open a movie file, connect *)
(* to the session's track, write its frames in order until the requested   *)
(* duration is covered, finish the file and close the session.             *)
(***************************************************************************)
EXTENDS Integers, Sequences

CONSTANTS
  Retained,    \* the frames the track keeps for a reader that is behind
  RecordFor,   \* the requested duration, in ticks
  MaxFrames    \* bound: the frames the session publishes

ASSUME RecorderAssumption ==
  /\ {Retained, RecordFor, MaxFrames} \subseteq Nat /\ Retained > 0 /\ RecordFor > 0

VARIABLES
  track,    \* the session's track: when each frame was taken, and whether it ended
  session,  \* whether the daemon has the session: "none", "open" or "closed"
  rec,      \* the recorder
  rclock    \* the clock, in ticks

recorderVars == <<track, session, rec, rclock>>

\* --best-effort: a gap is counted instead of ending the recording.
NewRecorder(bestEffort) ==
  [bestEffort |-> bestEffort, pc |-> "create", after |-> 0, first |-> 0, last |-> 0, frames |-> 0, padded |-> 0,
   lapped |-> 0, deadline |-> 0, result |-> "none", why |-> "none"]

Newest == Len(track.taken)
Oldest == IF Newest > Retained THEN Newest - Retained + 1 ELSE 1

(***************************************************************************)
(* The session, and time.                                                  *)
(***************************************************************************)
PublishFrame ==
  /\ session = "open" /\ ~track.ended /\ Newest < MaxFrames
  /\ track' = [track EXCEPT !.taken = Append(@, rclock)]
  /\ UNCHANGED <<session, rec, rclock>>

\* The track closes or its configuration changes under the recorder.
TrackEnds ==
  /\ session = "open" /\ ~track.ended
  /\ track' = [track EXCEPT !.ended = TRUE]
  /\ UNCHANGED <<session, rec, rclock>>

\* Time matters from just before the recording until its deadline is behind.
RecordingHorizon == IF rec.deadline = 0 THEN 1 ELSE rec.deadline + 1
RecorderTimePasses ==
  /\ rec.pc # "over" /\ rclock < RecordingHorizon
  /\ rclock' = rclock + 1
  /\ UNCHANGED <<track, session, rec>>

(***************************************************************************)
(* record_surface_with                                                     *)
(***************************************************************************)
RecordOver(result, why) == [rec EXCEPT !.pc = "over", !.result = result, !.why = why]
RecordFailed == [rec EXCEPT !.pc = "close", !.result = "error"]

\* The POST is answered, refused before a session exists, or its answer is lost.
BeginSession ==
  /\ rec.pc = "create"
  /\ \/ session' = "open" /\ rec' = [rec EXCEPT !.pc = "lookup"]
     \/ session' = "open" /\ rec' = RecordOver("error", "create")
     \/ UNCHANGED session /\ rec' = RecordOver("error", "refused")
  /\ UNCHANGED <<track, rclock>>

\* The GET that follows it; when it fails nobody closes the session.
LookUpSession ==
  /\ rec.pc = "lookup"
  /\ \/ rec' = [rec EXCEPT !.pc = "open"]
     \/ rec' = RecordOver("error", "lookup")
  /\ UNCHANGED <<track, session, rclock>>

\* Mutant of OpenMovie: the early return that forgets the session.
OpenMovieOrReturn ==
  /\ rec.pc = "open"
  /\ \/ rec' = [rec EXCEPT !.pc = "connect"]
     \/ rec' = RecordOver("error", "writer")
  /\ UNCHANGED <<track, session, rclock>>

\* The writer takes BGRA of a sufficient stride, or refuses.
OpenMovie ==
  /\ rec.pc = "open"
  /\ (rec' = [rec EXCEPT !.pc = "connect"] \/ rec' = RecordFailed)
  /\ UNCHANGED <<track, session, rclock>>

\* connect_cpu: the session is presented, the video track selected, a consumer of one frame admitted.
ConnectConsumer ==
  /\ rec.pc = "connect"
  /\ (rec' = [rec EXCEPT !.pc = "acquire", !.deadline = rclock + RecordFor] \/ rec' = RecordFailed)
  /\ UNCHANGED <<track, session, rclock>>

\* The next frame of the track: written at its time since the first one, and released.
WriteFrame ==
  /\ rec.pc = "acquire" /\ rec.after < Newest /\ rec.after + 1 >= Oldest
  /\ LET cursor == rec.after + 1
         first == IF rec.frames = 0 THEN track.taken[cursor] ELSE rec.first
         pts == track.taken[cursor] - first
         r == [rec EXCEPT !.after = cursor, !.first = first, !.last = pts, !.frames = @ + 1]
     IN \/ rec' = IF pts >= RecordFor THEN [r EXCEPT !.pc = "finish"] ELSE r
        \/ rec' = RecordFailed
  /\ UNCHANGED <<track, session, rclock>>

\* Mutant of Lapped: the recording goes on after the oldest frame that is left.
LappedPastOldest ==
  /\ rec.pc = "acquire" /\ rec.after + 1 < Oldest
  /\ rec' = IF rec.bestEffort THEN [rec EXCEPT !.lapped = @ + (Oldest - 1 - rec.after), !.after = Oldest]
            ELSE RecordFailed
  /\ UNCHANGED <<track, session, rclock>>

\* The track dropped frames the recorder had not read.
Lapped ==
  /\ rec.pc = "acquire" /\ rec.after + 1 < Oldest
  /\ rec' = IF rec.bestEffort THEN [rec EXCEPT !.lapped = @ + (Oldest - 1 - rec.after), !.after = Oldest - 1]
            ELSE RecordFailed
  /\ UNCHANGED <<track, session, rclock>>

\* Mutant of Empty: the movie ends with the last picture.
EmptyUnpadded ==
  /\ rec.pc = "acquire" /\ rec.after = Newest /\ ~track.ended
  /\ rec' = IF rclock < rec.deadline THEN [rec EXCEPT !.pc = "wait"]
            ELSE IF rec.frames = 0 THEN RecordFailed ELSE [rec EXCEPT !.pc = "finish"]
  /\ UNCHANGED <<track, session, rclock>>

\* Mutant of Empty: the wait goes on until there is a frame.
EmptyUntilFrame ==
  /\ rec.pc = "acquire" /\ rec.after = Newest /\ ~track.ended
  /\ rec' = IF rclock < rec.deadline \/ rec.frames = 0 THEN [rec EXCEPT !.pc = "wait"]
            ELSE IF rec.last < RecordFor THEN [rec EXCEPT !.pc = "finish", !.last = RecordFor, !.padded = 1]
            ELSE [rec EXCEPT !.pc = "finish"]
  /\ UNCHANGED <<track, session, rclock>>

\* Nothing new.  Past the deadline the last picture is repeated at the requested duration.
Empty ==
  /\ rec.pc = "acquire" /\ rec.after = Newest /\ ~track.ended
  /\ rec' = IF rclock < rec.deadline THEN [rec EXCEPT !.pc = "wait"]
            ELSE IF rec.frames = 0 THEN RecordFailed
            ELSE IF rec.last < RecordFor THEN [rec EXCEPT !.pc = "finish", !.last = RecordFor, !.padded = 1]
            ELSE [rec EXCEPT !.pc = "finish"]
  /\ UNCHANGED <<track, session, rclock>>

\* Closed, or reconfigured: an error, with or without unread frames.
TrackOver ==
  /\ rec.pc = "acquire" /\ track.ended
  /\ rec' = RecordFailed
  /\ UNCHANGED <<track, session, rclock>>

\* The wait ends on data, on the track's end, after 100 ms at most, or with an error.
WaitReady ==
  /\ rec.pc = "wait"
  /\ (rec' = [rec EXCEPT !.pc = "acquire"] \/ rec' = RecordFailed)
  /\ UNCHANGED <<track, session, rclock>>

FinishMovie ==
  /\ rec.pc = "finish"
  /\ rec' = [rec EXCEPT !.pc = "close", !.result = "ok"]
  /\ UNCHANGED <<track, session, rclock>>

FinishFails ==
  /\ rec.pc = "finish"
  /\ rec' = RecordFailed
  /\ UNCHANGED <<track, session, rclock>>

\* The DELETE; its failure is reported unless the recording failed already.
EndSession ==
  /\ rec.pc = "close"
  /\ \/ session' = "closed" /\ rec' = RecordOver(rec.result, "none")
     \/ UNCHANGED session /\ rec' = RecordOver("error", "close")
  /\ UNCHANGED <<track, rclock>>
-----------------------------------------------------------------------------
RecorderInit ==
  /\ track = [taken |-> <<>>, ended |-> FALSE]
  /\ session = "none"
  /\ \E bestEffort \in BOOLEAN : rec = NewRecorder(bestEffort)
  /\ rclock = 0

RecorderStep == \/ BeginSession \/ LookUpSession \/ OpenMovie \/ ConnectConsumer \/ WriteFrame \/ Lapped
                \/ Empty \/ TrackOver \/ WaitReady \/ FinishMovie \/ FinishFails \/ EndSession

RecorderNext == RecorderStep \/ PublishFrame \/ TrackEnds \/ RecorderTimePasses

\* The command keeps running and time passes; the session owes nobody a frame.
RecorderFairness == WF_recorderVars(RecorderStep) /\ WF_recorderVars(RecorderTimePasses)

RecorderSpec == RecorderInit /\ [][RecorderNext]_recorderVars /\ RecorderFairness
-----------------------------------------------------------------------------
\* The state of a recording has its shape.
RecorderTypeOK ==
  /\ session \in {"none", "open", "closed"}
  /\ rec.pc \in {"create", "lookup", "open", "connect", "acquire", "wait", "finish", "close", "over"}
  /\ rec.result \in {"none", "ok", "error"}
  /\ {rec.after, rec.frames, rec.lapped} \subseteq 0..MaxFrames
  /\ rclock \in 0..(RecordFor + 2)

\* No frame is silently lost: every frame up to the last one read is in the movie or counted as
\* lapped, and without --best-effort none is lapped.
EveryFrameAccounted == /\ rec.frames + rec.lapped = rec.after
                       /\ (~rec.bestEffort => rec.lapped = 0)

\* A movie that is reported recorded has a picture at or after the requested duration.
CoversDuration == rec.result = "ok" => rec.last >= RecordFor

\* A recorder that ends leaves no session behind, whatever failed on the way, unless the close
\* itself failed or the session was never known to it: the answer to the create, or the look-up
\* after it, was lost.
NoSessionLeft ==
  (rec.pc = "over" /\ session = "open") => rec.why \in {"create", "lookup", "close"}

\* A recording ends: frames that never come, come too fast or stop coming do not hold it.
RecordingEnds == <>(rec.pc = "over")
=============================================================================
