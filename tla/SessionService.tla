---------------------------- MODULE SessionService ----------------------------
(***************************************************************************)
(* What the API server promises its clients about a session, abstracted    *)
(* from the goroutines behind it: a session is created once, may ask for   *)
(* the approval of a plan, ends, and only then are its row and its log     *)
(* written, either of which may fail.  A server that crashes leaves the    *)
(* session as it is.  SessionServer implements this module.                *)
(***************************************************************************)
EXTENDS Naturals

CONSTANTS
    Session,        \* the sessions
    None            \* no session, no outcome

VARIABLES
    stage,          \* Session -> how far the session is
    row,            \* Session -> the state the database holds, or None
    outcome,        \* Session -> how Run ended, or None
    logged          \* the sessions whose action log is saved

serviceVars == <<stage, row, outcome, logged>>

Stage == {"none", "running", "ended", "updated", "saved", "dead"}
Outcome == {"completed", "failed"}

ServiceInit ==
    /\ stage = [s \in Session |-> "none"]
    /\ row = [s \in Session |-> None]
    /\ outcome = [s \in Session |-> None]
    /\ logged = {}

\* POST /sessions: the row is inserted before the goroutine is started.
Create(s) ==
    /\ stage[s] = "none"
    /\ stage' = [stage EXCEPT ![s] = "running"]
    /\ row' = [row EXCEPT ![s] = "running"]
    /\ UNCHANGED <<outcome, logged>>

\* Run returns; the end was put on the event channel before.
End(s, o) ==
    /\ stage[s] = "running"
    /\ stage' = [stage EXCEPT ![s] = "ended"]
    /\ outcome' = [outcome EXCEPT ![s] = o]
    /\ UNCHANGED <<row, logged>>

\* A write to the database may fail: without the first the session looks as if
\* it ran for ever.
UpdateRow(s, ok) ==
    /\ stage[s] = "ended"
    /\ stage' = [stage EXCEPT ![s] = "updated"]
    /\ row' = IF ok THEN [row EXCEPT ![s] = outcome[s]] ELSE row
    /\ UNCHANGED <<outcome, logged>>

SaveLog(s, ok) ==
    /\ stage[s] = "updated"
    /\ stage' = [stage EXCEPT ![s] = "saved"]
    /\ logged' = IF ok THEN logged \cup {s} ELSE logged
    /\ UNCHANGED <<row, outcome>>

\* The server stops.
Die(s) ==
    /\ stage[s] \notin {"none", "dead"}
    /\ stage' = [stage EXCEPT ![s] = "dead"]
    /\ UNCHANGED <<row, outcome, logged>>

\* To a client that waits, a session that died or whose row was not written is
\* one that takes no further step.
Advance(s) == (\E o \in Outcome : End(s, o)) \/ UpdateRow(s, TRUE) \/ SaveLog(s, TRUE)

ServiceNext ==
    \E s \in Session : Create(s) \/ Advance(s) \/ UpdateRow(s, FALSE) \/ SaveLog(s, FALSE) \/ Die(s)

ServiceSpec == ServiceInit /\ [][ServiceNext]_serviceVars

=============================================================================
