------------------------- MODULE MCCaptureSessions -------------------------
(***************************************************************************)
(* Instances of CaptureSessions for TLC.  Two sessions and a history of    *)
(* one make the second retirement evict the first; one setup connection    *)
(* per session makes the second consumer meet the limit.                   *)
(***************************************************************************)
EXTENDS CaptureSessions, TLC

\* Two scenarios share a run.  "two": both sessions at once, whoever creates them, and no
\* consumer.  "consumer": a consumer comes and goes, while the sessions with a stream
\* follow each other.
VARIABLE scenario

Streaming == {s \in Sessions : creator'[s] \notin {"idle", "ok", "err", "dropped"} \/ source'[s] # "off"}

InScenario ==
  \/ scenario = "two" /\ \A c \in Consumers : asked'[c] = None
  \/ scenario = "consumer" /\ Cardinality(Streaming) <= 1

MCInit == scenario \in {"two", "consumer"} /\ Init
MCSpec == MCInit /\ [][Next /\ InScenario /\ UNCHANGED scenario]_<<vars, scenario>>

Symmetry == Permutations(Sessions)
=============================================================================
