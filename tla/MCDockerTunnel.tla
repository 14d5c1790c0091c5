--------------------------- MODULE MCDockerTunnel ---------------------------
(***************************************************************************)
(* The refreshes, network updates, stops and ports of the runs.            *)
(***************************************************************************)
EXTENDS DockerTunnel

CONSTANTS j1, j2, u1, u2, s1, n1, p1, p2
=============================================================================
