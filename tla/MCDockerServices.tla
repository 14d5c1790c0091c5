-------------------------- MODULE MCDockerServices --------------------------
(* DockerServices for TLC: the bounded scenarios that one run explores. *)
EXTENDS DockerServices

CONSTANTS n1, h1, c1, c2, s1, s2, r1, r2, e1, d1

MCNetwork == {n1, h1}
MCHostNetwork == {h1}
MCContainer == {c1, c2}
MCPlain == {c1}
MCSession == {s1, s2}
MCRequest == {r1, r2}
MCCall == MCSession \cup MCRequest
MCEverything == {e1}
MCDeactivation == {d1}

\* Calls of one kind differ in their names only.
Symmetry == Permutations(MCSession) \cup Permutations(MCRequest)

Bounds(prompt, starts, requests, all, changes, faults, crashes) ==
    [prompt |-> prompt, starts |-> starts, requests |-> requests, all |-> all,
     changes |-> changes, faults |-> faults, crashes |-> crashes]

\* Every part in turn is interleaved with the others, with one failure, change or crash.
MCScenario == {
    Bounds({"startup", "events", "proxy", "deletion", "request"}, 2, 0, 0, 0, 0, 1),
    Bounds({"startup", "events", "proxy", "deletion", "request"}, 1, 1, 0, 0, 1, 0),
    Bounds({"volume", "events", "proxy", "deletion", "request"}, 1, 1, 0, 0, 1, 0),
    Bounds({"volume", "startup", "proxy", "deletion", "request"}, 1, 1, 0, 1, 0, 0),
    Bounds({"volume", "startup", "events", "request"}, 2, 0, 1, 0, 1, 0),
    Bounds({"volume", "startup", "events", "proxy", "request"}, 2, 1, 0, 0, 1, 0),
    Bounds({"volume", "startup", "events", "proxy", "request"}, 1, 2, 1, 0, 0, 0),
    Bounds({"volume", "startup", "events", "proxy", "deletion"}, 1, 2, 0, 1, 0, 0)
}
=============================================================================
