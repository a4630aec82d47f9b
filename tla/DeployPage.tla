------------------------------ MODULE DeployPage ------------------------------
(***************************************************************************)
(* The page that launches a deployment: the wizard from a repository to a  *)
(* prompt, the requests that create a session, the confirmation of its     *)
(* plan, and the WebSocket that streams the session with its reconnection. *)
(*                                                                         *)
(* Every request is split into its start and the arrival of its answer, so *)
(* that the user and the other requests can step in between.  What the     *)
(* user types, the event list, the messages and the connection badge are   *)
(* left out: no guard but "is it empty" reads them.                        *)
(***************************************************************************)
EXTENDS SessionStream, FiniteSets

CONSTANTS
    MaxScans        \* bound on the scans in flight

VARIABLES
    mounted,            \* whether the page is shown
    phase,
    phaseRef,           \* the phase the callbacks of the sockets see
    settled,            \* history: an end or an error was shown since the last launch
    scan,               \* whether a scan result is held
    reposLoading,       \* whether the list of repositories is on its way
    scans,              \* number of scans in flight
    launch,             \* Session -> where handleDeploy is
    team,               \* whether a team is known
    sessionId,          \* the session shown, or None
    plan,               \* the session whose plan is shown, or None
    confirm             \* the confirm request in flight, or None

phaseVars == <<phase, phaseRef, settled>>
wizardVars == <<scan, reposLoading, scans>>
launchVars == <<launch, team>>
shownVars == <<sessionId, plan>>
pageVars == <<mounted, phaseVars, wizardVars, launchVars, confirm, shownVars>>
vars == <<pageVars, streamVars, serviceVars>>

Phase == {"repo", "repos", "scanning", "pick", "prompt", "creating", "streaming",
          "awaiting_confirm", "building", "done", "error"}

\* A page opened from GitHub's redirect loads the repositories at once.
Init ==
    /\ ServiceInit
    /\ StreamInit
    /\ mounted = TRUE
    /\ \/ phase = "repo" /\ reposLoading = FALSE
       \/ phase = "repos" /\ reposLoading = TRUE
    /\ phaseRef = phase
    /\ settled = FALSE
    /\ scan = FALSE
    /\ scans = 0
    /\ launch = [s \in Session |-> "none"]
    /\ team = FALSE
    /\ sessionId = None
    /\ plan = None
    /\ confirm = None

-----------------------------------------------------------------------------
(* Rendering: which panel, and so which control, the user can reach.       *)

RepoPanel == mounted /\ phase \in {"repo", "repos", "scanning"}
PickPanel == mounted /\ phase = "pick" /\ scan
PromptPanel == mounted /\ phase = "prompt"
isLivePhase == phase \in {"streaming", "awaiting_confirm", "building"}
PlanPanel == mounted /\ phase = "awaiting_confirm" /\ plan # None /\ confirm = None
DonePanel == mounted /\ phase = "done"
ErrorPanel == mounted /\ phase = "error"

\* The effect that updates phaseRef follows the render with the new phase, and
\* is done at the latest before the next one.  A page that was left keeps no
\* state.
setPhase(p) ==
    IF mounted
    THEN /\ phase' = p
         /\ phaseRef' = phase
         /\ settled' = ((settled /\ p # "creating") \/ p \in {"done", "error"})
    ELSE UNCHANGED phaseVars

syncPhaseRef ==
    /\ mounted
    /\ phaseRef # phase
    /\ phaseRef' = phase
    /\ UNCHANGED <<mounted, phase, settled, wizardVars, launchVars, confirm, streamVars, shownVars,
                   serviceVars>>

-----------------------------------------------------------------------------
(* The wizard. *)

\* A failure sends the user back to the first panel, wherever she is by now.
loadRepos(ok) ==
    /\ reposLoading
    /\ reposLoading' = FALSE
    /\ IF ok THEN UNCHANGED phaseVars ELSE setPhase("repo")
    /\ UNCHANGED <<mounted, scan, scans, launchVars, confirm, streamVars,
                   shownVars, serviceVars>>

\* The button is disabled while a scan runs, the Enter key is not.
handleScan ==
    /\ RepoPanel
    /\ scans < MaxScans
    /\ scans' = scans + 1
    /\ setPhase("scanning")
    /\ UNCHANGED <<mounted, scan, reposLoading, launchVars, confirm, streamVars,
                   shownVars, serviceVars>>

\* The answer to a scan: options, none of them, or a failure.
runScan(found) ==
    /\ scans > 0
    /\ scans' = scans - 1
    /\ scan' = IF found = "error" THEN scan ELSE found = "options"
    /\ setPhase(CASE found = "options" -> "pick" [] found = "none" -> "prompt"
                  [] found = "error" -> "error")
    /\ UNCHANGED <<mounted, reposLoading, launchVars, confirm, streamVars,
                   shownVars, serviceVars>>

promptOnly ==
    /\ RepoPanel
    /\ setPhase("prompt")
    /\ UNCHANGED <<mounted, wizardVars, launchVars, confirm, streamVars,
                   shownVars, serviceVars>>

handlePickDone ==
    /\ PickPanel
    /\ setPhase("prompt")
    /\ UNCHANGED <<mounted, wizardVars, launchVars, confirm, streamVars,
                   shownVars, serviceVars>>

back ==
    /\ PromptPanel
    /\ setPhase(IF scan THEN "pick" ELSE "repo")
    /\ UNCHANGED <<mounted, wizardVars, launchVars, confirm, streamVars,
                   shownVars, serviceVars>>

\* Deploy again, or try again after an error.  The socket is closed, if there
\* is one; the reconnection timer and the requests in flight are not.
resetDeploy ==
    /\ DonePanel \/ ErrorPanel
    /\ setPhase("repo")
    /\ scan' = FALSE
    /\ sessionId' = None
    /\ plan' = None
    /\ conn' = Closing(conn)
    /\ UNCHANGED <<mounted, reposLoading, scans, launchVars, confirm,
                   intentionalClose, wsRef, reconnectTimer, published, serviceVars>>

-----------------------------------------------------------------------------
(* The stream and its reconnection. *)

\* Mutant of recheck: a check that fails is not tried again.
recheckOnce(c, ok) ==
    /\ conn[c].at = "checking"
    /\ IF ok /\ row[conn[c].sid] = "running"
       THEN connectStream(c, conn[c].sid)
       ELSE conn' = [conn EXCEPT ![c] = Free] /\ UNCHANGED <<wsRef, reconnectTimer>>
    /\ IF ok /\ row[conn[c].sid] # "running"
       THEN setPhase(IF row[conn[c].sid] = "completed" THEN "done" ELSE "error")
       ELSE UNCHANGED phaseVars
    /\ UNCHANGED <<mounted, wizardVars, launchVars, confirm,
                   intentionalClose, published, shownVars, serviceVars>>

\* Mutant of recheck: a session that failed is taken for one that still runs.
recheckCompleted(c, ok) ==
    /\ conn[c].at = "checking"
    /\ IF ok /\ row[conn[c].sid] = "completed"
       THEN /\ setPhase("done")
            /\ conn' = [conn EXCEPT ![c] = Free]
            /\ UNCHANGED <<wsRef, reconnectTimer>>
       ELSE connectStream(c, conn[c].sid) /\ UNCHANGED phaseVars
    /\ UNCHANGED <<mounted, wizardVars, launchVars, confirm,
                   intentionalClose, published, shownVars, serviceVars>>

\* The answer, or a failure of the request.
recheck(c, ok) ==
    LET s == conn[c].sid
    IN  /\ conn[c].at = "checking"
        /\ \/ /\ ~ok \/ row[s] = "running"
              /\ connectStream(c, s)
              /\ UNCHANGED phaseVars
           \/ /\ ok /\ row[s] # "running"
              /\ setPhase(IF row[s] = "completed" THEN "done" ELSE "error")
              /\ conn' = [conn EXCEPT ![c] = Free]
              /\ UNCHANGED <<wsRef, reconnectTimer>>
        /\ UNCHANGED <<mounted, wizardVars, launchVars, confirm,
                       intentionalClose, published, shownVars, serviceVars>>

onmessage(c) ==
    LET e == Head(conn[c].inbox)
    IN  /\ conn[c].at \in Open
        /\ conn[c].inbox # <<>>
        /\ IF e = "plan"
           THEN /\ plan' = IF mounted THEN conn[c].sid ELSE plan
                /\ setPhase("awaiting_confirm")
                /\ conn' = [conn EXCEPT ![c].inbox = Tail(@)]
                /\ UNCHANGED intentionalClose
           ELSE /\ setPhase(e)
                /\ intentionalClose' = TRUE
                /\ conn' = [conn EXCEPT ![c] = [@ EXCEPT !.at = "closing", !.inbox = <<>>]]
                /\ UNCHANGED plan
        /\ UNCHANGED <<mounted, wizardVars, launchVars, confirm, wsRef,
                       reconnectTimer, published, sessionId, serviceVars>>

\* Mutant of onclose: the error handler schedules a reconnection too.
oncloseAndError(c) ==
    /\ conn[c].at \in Socket
    /\ IF ~intentionalClose /\ phaseRef \notin {"done", "error"}
       THEN \E d \in Conn \ {c} :
               /\ conn[d] = Free
               /\ conn' = [conn EXCEPT ![c] = [@ EXCEPT !.at = "timer", !.inbox = <<>>],
                                       ![d] = [at |-> "timer", sid |-> conn[c].sid, inbox |-> <<>>]]
               /\ reconnectTimer' = d
       ELSE /\ conn' = [conn EXCEPT ![c] = Free]
            /\ UNCHANGED reconnectTimer
    /\ wsRef' = IF wsRef = c THEN None ELSE wsRef
    /\ UNCHANGED <<mounted, phaseVars, wizardVars, launchVars, confirm,
                   intentionalClose, published, shownVars, serviceVars>>

\* The socket is closed by either side, refused or lost; what was not delivered
\* is gone.
onclose(c) ==
    /\ conn[c].at \in Socket
    /\ IF ~intentionalClose /\ phaseRef \notin {"done", "error"}
       THEN scheduleReconnect(c)
       ELSE /\ conn' = [conn EXCEPT ![c] = Free]
            /\ UNCHANGED reconnectTimer
    /\ wsRef' = IF wsRef = c THEN None ELSE wsRef
    /\ UNCHANGED <<mounted, phaseVars, wizardVars, launchVars, confirm,
                   intentionalClose, published, shownVars, serviceVars>>

\* Leaving the page cleans up the timer and the socket that are known.  Its
\* state is dropped: of the requests in flight only those that can still open a
\* stream matter.
unmount ==
    /\ mounted
    /\ mounted' = FALSE
    /\ intentionalClose' = TRUE
    /\ conn' = Closing(Cleared)
    /\ reconnectTimer' = None
    /\ phase' = "repo" /\ phaseRef' = "repo" /\ settled' = FALSE
    /\ scan' = FALSE /\ reposLoading' = FALSE /\ scans' = 0
    /\ sessionId' = None /\ plan' = None /\ confirm' = None
    /\ UNCHANGED <<launchVars, wsRef, published, serviceVars>>

-----------------------------------------------------------------------------
(* Launching. *)

handleDeploy(s) ==
    /\ PromptPanel
    /\ launch[s] = "none"
    /\ launch' = [launch EXCEPT ![s] = "team"]
    /\ setPhase("creating")
    /\ plan' = None
    /\ intentionalClose' = FALSE
    /\ UNCHANGED <<mounted, wizardVars, team, confirm, wsRef, reconnectTimer,
                   conn, published, sessionId, serviceVars>>

\* A refusal ends in an error; a request that fails is not caught, and the page
\* stays as it is.
ensureTeam(s, answer) ==
    /\ launch[s] = "team"
    /\ team => answer = "ok"
    /\ team' = (answer = "ok")
    /\ launch' = [launch EXCEPT ![s] = IF answer = "ok" THEN "post" ELSE "over"]
    /\ IF answer = "refused" THEN setPhase("error") ELSE UNCHANGED phaseVars
    /\ UNCHANGED <<mounted, wizardVars, confirm, streamVars, shownVars,
                   serviceVars>>

\* 402: the wallet is asked for a signature, and the request is repeated.
payAndRetry(s) ==
    /\ launch[s] = "post"
    /\ launch' = [launch EXCEPT ![s] = "pay"]
    /\ UNCHANGED <<mounted, phaseVars, wizardVars, team, confirm, streamVars, shownVars,
                   serviceVars>>

\* The server creates the session and starts its goroutine.
createSession(s) ==
    /\ launch[s] \in {"post", "pay"}
    /\ Create(s)
    /\ launch' = [launch EXCEPT ![s] = "created"]
    /\ UNCHANGED <<mounted, phaseVars, wizardVars, team, confirm, streamVars,
                   shownVars>>

\* A refusal, a signature that is not given, or a request or an answer lost.
launchFails(s) ==
    /\ launch[s] \in {"post", "pay", "created"}
    /\ launch' = [launch EXCEPT ![s] = "over"]
    /\ setPhase("error")
    /\ UNCHANGED <<mounted, wizardVars, team, confirm, streamVars, shownVars,
                   serviceVars>>

\* The answer opens the stream, even for a page that was left.
launched(s) ==
    /\ launch[s] = "created"
    /\ launch' = [launch EXCEPT ![s] = "over"]
    /\ sessionId' = IF mounted THEN s ELSE sessionId
    /\ setPhase("streaming")
    /\ \E c \in Conn : conn[c] = Free /\ connectStream(c, s)
    /\ UNCHANGED <<mounted, wizardVars, team, confirm, intentionalClose,
                   published, plan, serviceVars>>

-----------------------------------------------------------------------------
(* Confirming the plan. *)

\* The server confirms a session that is registered, whatever the request says:
\* it is until runAgentSession returns, which is after the log is saved.
handleConfirm(approved) ==
    /\ PlanPanel
    /\ sessionId # None
    /\ confirm' = [sid |-> sessionId, approved |-> approved,
                    ok |-> stage[sessionId] \in {"running", "ended", "updated", "saved"}]
    /\ UNCHANGED <<mounted, phaseVars, wizardVars, launchVars, streamVars, shownVars,
                   serviceVars>>

\* The answer; the request or its answer may be lost.
confirmed(ok) ==
    /\ confirm # None
    /\ ok => confirm.ok
    /\ confirm' = None
    /\ setPhase(IF ok /\ confirm.approved THEN "building" ELSE "error")
    /\ conn' = IF ok /\ ~confirm.approved THEN Closing(conn) ELSE conn
    /\ UNCHANGED <<mounted, wizardVars, launchVars, intentionalClose, wsRef,
                   reconnectTimer, published, shownVars, serviceVars>>

-----------------------------------------------------------------------------
User ==
    \/ handleScan \/ promptOnly \/ handlePickDone \/ back \/ resetDeploy \/ unmount
    \/ \E s \in Session : handleDeploy(s)
    \/ \E approved \in BOOLEAN : handleConfirm(approved)

Answers ==
    \/ \E ok \in BOOLEAN : loadRepos(ok) \/ confirmed(ok)
    \/ \E found \in {"options", "none", "error"} : runScan(found)
    \/ \E s \in Session :
          \/ \E answer \in {"ok", "refused", "failed"} : ensureTeam(s, answer)
          \/ payAndRetry(s) \/ launchFails(s) \/ launched(s)

Stream ==
    \E c \in Conn :
        \/ onmessage(c) \/ onclose(c) \/ (fire(c) /\ UNCHANGED pageVars)
        \/ \E ok \in BOOLEAN : recheck(c, ok)

Server == (\E s \in Session : createSession(s)) \/ (ServerStep /\ UNCHANGED pageVars)

Next == syncPhaseRef \/ User \/ Answers \/ Stream \/ Server

Spec == Init /\ [][Next]_vars

\* The browser runs its timers and callbacks, the server answers, and of all the
\* checks that are tried again one gets through.  Nothing is assumed of the user.
FairSpec ==
    /\ Spec
    /\ \A c \in Conn :
          /\ WF_vars((fire(c) \/ serve(c)) /\ UNCHANGED pageVars)
          /\ WF_vars(onmessage(c) \/ (Ending(c) /\ onclose(c)))
          /\ WF_vars(\E ok \in BOOLEAN : recheck(c, ok))
          /\ SF_vars(recheck(c, TRUE))

-----------------------------------------------------------------------------
(* Properties. *)

\* Every variable holds a value of its type.
TypeOK ==
    /\ mounted \in BOOLEAN
    /\ phase \in Phase /\ phaseRef \in Phase /\ settled \in BOOLEAN
    /\ scan \in BOOLEAN /\ reposLoading \in BOOLEAN /\ scans \in 0 .. MaxScans
    /\ launch \in [Session -> {"none", "team", "post", "pay", "created", "over"}]
    /\ team \in BOOLEAN
    /\ sessionId \in Session \cup {None}
    /\ plan \in Session \cup {None}
    /\ confirm \in {None} \cup [sid : Session, approved : BOOLEAN, ok : BOOLEAN]
    /\ StreamTypeOK

Launched == {s \in Session : launch[s] # "none"}

\* A page with one launch that shows a running deployment and has not been told
\* of its end is connected to it, or is about to connect again.
NeverGivesUp ==
    mounted /\ isLivePhase /\ ~settled /\ Cardinality(Launched) = 1 =>
        \E c \in Conn : conn[c].at # "free" /\ conn[c].sid \in Launched

\* A page that waits to connect again to a session that is over has shown an end
\* or comes to show one, unless it is left: no order of failing checks, refused
\* sockets and logs not yet saved keeps it reconnecting for ever.
LostStreamSettles ==
    \A c \in Conn :
        conn[c].at = "timer" /\ row[conn[c].sid] \in Outcome ~> ~mounted \/ settled

=============================================================================
