----------------------- MODULE MCBackgroundServices -----------------------
(***************************************************************************)
(* Three sessions, one of them without an HTTP server; the two timers are  *)
(* one and two minutes, so that sessions can come and go at every point of *)
(* the count.                                                              *)
(***************************************************************************)
EXTENDS BackgroundServices

CONSTANTS s1, s2, s3

WithServer == {s1, s2}
=============================================================================
