--------------------------- MODULE SessionBroker ---------------------------
(***************************************************************************)
(* What the UI operation bridge promises to the clients of its local API:  *)
(* a request is handed to the one UI session that is current, at most      *)
(* once; it is settled once; and it does not outlive that session, so no   *)
(* request is left waiting for a session that is gone.  UiBridge is the    *)
(* detailed module that is checked to implement this one.                  *)
(***************************************************************************)

CONSTANTS
    Channel,   \* the UI sessions
    Request,   \* the requests clients make
    None       \* no session

VARIABLES
    current,   \* the session requests are handed to, or None
    job        \* job[r]: "new", "with session", "ok" or "failed"

vars == <<current, job>>

TypeOK ==
    /\ current \in Channel \cup {None}
    /\ job \in [Request -> {"new", "with session", "ok", "failed"}]

Init ==
    /\ current = None
    /\ job = [r \in Request |-> "new"]

\* A request that is never handed to a session.
Refuse(r) ==
    /\ job[r] = "new"
    /\ job' = [job EXCEPT ![r] = "failed"]
    /\ UNCHANGED current

Hand(r) ==
    /\ job[r] = "new"
    /\ current # None
    /\ job' = [job EXCEPT ![r] = "with session"]
    /\ UNCHANGED current

Settle(r) ==
    /\ job[r] = "with session"
    /\ \E outcome \in {"ok", "failed"} : job' = [job EXCEPT ![r] = outcome]
    /\ UNCHANGED current

\* The current session changes: everything it was asked fails with it.
Switch(c) ==
    /\ c # current
    /\ current' = c
    /\ job' = [r \in Request |->
                 IF job[r] = "with session" THEN "failed" ELSE job[r]]

Next ==
    \/ \E r \in Request : Refuse(r) \/ Hand(r) \/ Settle(r)
    \/ \E c \in Channel \cup {None} : Switch(c)

Spec == Init /\ [][Next]_vars

=============================================================================
