---------------------------- MODULE MCSurfaces ----------------------------
(* Small instances of Surfaces for TLC. *)
EXTENDS Surfaces, TLC

CONSTANTS i1, i2, w1, w2, t1, t2

\* Ids, windows and request slots are interchangeable.
Symmetry == Permutations(Ids) \cup Permutations(Refs) \cup Permutations(Tasks)

\* Handles and windows come up in order, and the second slot is taken only beside the
\* first: another order only renames them.
InOrder ==
    /\ pc[t2] = "idle" /\ pc'[t2] # "idle" => pc[t1] # "idle"
    /\ hstate'[i2] # "absent" => hstate'[i1] # "absent"
    /\ window'[w2] # "unborn" => window'[w1] # "unborn"
OrderedInit == Init /\ (window[w2] # "unborn" => window[w1] # "unborn")
OrderedSpec == OrderedInit /\ [][Next /\ InOrder]_vars
OrderedFairSpec == OrderedSpec /\ \A t \in Tasks : WF_vars(Run(t))

Body(k, fr, fo, p, d, c) ==
    [kind |-> k, fresh |-> fr, force |-> fo, placement |-> p, dismiss |-> d, confidence |-> c]

\* Launch bodies that between them reach every branch of the launch pipeline.
MacSpecs ==
    {Body("process", TRUE, FALSE, "rect", FALSE, "strong"),
     Body("process", FALSE, TRUE, "rect", FALSE, "weak"),
     Body("artifact", FALSE, FALSE, "absent", TRUE, "plausible")}

WindowsSpecs ==
    {Body("process", TRUE, FALSE, "rect", FALSE, "strong"),
     Body("process", TRUE, TRUE, "empty", FALSE, "strong"),
     Body("process", FALSE, FALSE, "absent", TRUE, "weak")}
=============================================================================
