------------------------------ MODULE SessionPage ------------------------------
(***************************************************************************)
(* The page of one session: it loads the row, and the log of a session     *)
(* that is over, streams a session that runs, and lets the user approve or *)
(* cancel a plan.  The page is loaded again when the user signs in again.  *)
(***************************************************************************)
EXTENDS SessionStream

CONSTANTS
    sessionId,          \* the session of the page
    Load                \* identities of loads in flight, one per time signed in

VARIABLES
    mounted,
    isAuthenticated,
    isConnected,        \* whether a wallet is connected
    loading,
    error,
    shown,              \* the state of the session shown, or None
    log,                \* whether the action log is shown
    plan,               \* whether a plan is shown
    confirming,         \* the answer being sent, or None
    wsStatus,
    load,               \* Load -> where a load is
    logFetch,           \* whether the log is fetched after a done event
    cancelled           \* history: the user cancelled a plan

authVars == <<isAuthenticated, isConnected>>
loadVars == <<loading, error, load>>
dataVars == <<shown, log, logFetch>>
planVars == <<plan, confirming, cancelled>>
pageVars == <<mounted, authVars, loadVars, dataVars, planVars, wsStatus>>
vars == <<pageVars, streamVars, serviceVars>>

ASSUME SessionIdAssumption == sessionId \in Session

\* The page is opened on a session that was created before; sign-in has
\* finished or not.
Init ==
    /\ StreamInit
    /\ stage = [s \in Session |-> "running"]
    /\ row = [s \in Session |-> "running"]
    /\ outcome = [s \in Session |-> None]
    /\ logged = {}
    /\ mounted = TRUE
    /\ isConnected \in BOOLEAN
    /\ isAuthenticated = FALSE
    /\ loading = isConnected
    /\ error = FALSE
    /\ shown = None
    /\ log = FALSE
    /\ plan = FALSE
    /\ confirming = None
    /\ wsStatus = "connecting"
    /\ load = [l \in Load |-> "none"]
    /\ logFetch = FALSE
    /\ cancelled = FALSE

\* A page that was left keeps no state.
Set(var, value) == IF mounted THEN value ELSE var

\* What is rendered: the session, unless it is loading, refused or missing.
SessionView == mounted /\ ~loading /\ isAuthenticated /\ ~error
PlanPanel == SessionView /\ plan /\ confirming = None

\* The live stream, with the badge that shows wsStatus.
LivePanel == SessionView /\ shown = "running"

-----------------------------------------------------------------------------
(* Loading. *)

\* The wallet is connected, and the page waits for the sign-in.
connectWallet ==
    /\ mounted /\ ~isConnected
    /\ isConnected' = TRUE
    /\ UNCHANGED <<mounted, isAuthenticated, loadVars, dataVars, planVars, wsStatus, streamVars,
                   serviceVars>>

\* The user is signed in: the effect loads the session.
signIn ==
    /\ mounted /\ isConnected /\ ~isAuthenticated
    /\ isAuthenticated' = TRUE
    /\ loading' = TRUE
    /\ error' = FALSE
    /\ \E l \in Load : load[l] = "none" /\ load' = [load EXCEPT ![l] = "session"]
    /\ UNCHANGED <<mounted, isConnected, dataVars, planVars, wsStatus, streamVars, serviceVars>>

\* The clean-up of the effect.  Nothing sets intentionalClose back.
CleanUp ==
    /\ intentionalClose' = TRUE
    /\ conn' = Closing(Cleared)
    /\ reconnectTimer' = None
    /\ UNCHANGED <<wsRef, published>>

\* The token is gone: the user signs out, it expires, or the wallet disconnects.
signOut(disconnected) ==
    /\ mounted /\ isAuthenticated
    /\ isAuthenticated' = FALSE
    /\ isConnected' = ~disconnected
    /\ loading' = (loading /\ ~disconnected)
    /\ CleanUp
    /\ UNCHANGED <<mounted, error, load, dataVars, planVars, wsStatus, serviceVars>>

\* The state of a page that is left is dropped; the loads go on.
leave ==
    /\ mounted
    /\ mounted' = FALSE
    /\ IF isAuthenticated THEN CleanUp ELSE UNCHANGED streamVars
    /\ isAuthenticated' = FALSE /\ isConnected' = FALSE
    /\ loading' = FALSE /\ error' = FALSE
    /\ shown' = None /\ log' = FALSE /\ logFetch' = FALSE
    /\ plan' = FALSE /\ confirming' = None /\ cancelled' = FALSE
    /\ wsStatus' = "disconnected"
    /\ UNCHANGED <<load, serviceVars>>

\* The row of the session.  A session that runs is streamed, whoever is signed
\* in by now.
loadSession(l) ==
    LET s == row[sessionId]
    IN  /\ load[l] = "session"
        /\ shown' = Set(shown, s)
        /\ IF s = "running"
           THEN /\ \E c \in Conn : conn[c] = Free /\ connectStream(c, sessionId)
                /\ wsStatus' = Set(wsStatus, "connecting")
                /\ loading' = FALSE
                /\ load' = [load EXCEPT ![l] = "over"]
           ELSE /\ load' = [load EXCEPT ![l] = "log"]
                /\ UNCHANGED <<wsRef, reconnectTimer, conn, wsStatus, loading>>
        /\ UNCHANGED <<mounted, authVars, error, log, logFetch, planVars, intentionalClose,
                       published, serviceVars>>

\* A log that is not found is not an error.
loadLog(l) ==
    /\ load[l] = "log"
    /\ load' = [load EXCEPT ![l] = "over"]
    /\ log' = Set(log, log \/ sessionId \in logged)
    /\ loading' = FALSE
    /\ UNCHANGED <<mounted, authVars, error, shown, logFetch, planVars, wsStatus, streamVars,
                   serviceVars>>

loadFails(l) ==
    /\ load[l] \in {"session", "log"}
    /\ load' = [load EXCEPT ![l] = "over"]
    /\ error' = Set(error, TRUE)
    /\ loading' = FALSE
    /\ UNCHANGED <<mounted, authVars, dataVars, planVars, wsStatus, streamVars, serviceVars>>

-----------------------------------------------------------------------------
(* The stream. *)

onopen(c) ==
    /\ serve(c)
    /\ wsStatus' = Set(wsStatus, "connected")
    /\ UNCHANGED <<mounted, authVars, loadVars, dataVars, planVars>>

onmessage(c) ==
    LET e == Head(conn[c].inbox)
    IN  /\ conn[c].at \in Open
        /\ conn[c].inbox # <<>>
        /\ IF e = "plan"
           THEN /\ plan' = Set(plan, TRUE)
                /\ conn' = [conn EXCEPT ![c].inbox = Tail(@)]
                /\ UNCHANGED <<shown, wsStatus, logFetch, intentionalClose>>
           ELSE /\ shown' = IF shown = None THEN None
                            ELSE IF e = "done" THEN "completed" ELSE "failed"
                /\ wsStatus' = Set(wsStatus, "disconnected")
                /\ logFetch' = Set(logFetch, logFetch \/ e = "done")
                /\ intentionalClose' = TRUE
                /\ conn' = [conn EXCEPT ![c] = [@ EXCEPT !.at = "closing", !.inbox = <<>>]]
                /\ UNCHANGED plan
        /\ UNCHANGED <<mounted, authVars, loadVars, log, confirming, cancelled, wsRef,
                       reconnectTimer, published, serviceVars>>

\* The log is asked for once, and may not be saved yet.
fetchLog ==
    /\ logFetch
    /\ logFetch' = FALSE
    /\ log' \in {log, log \/ sessionId \in logged}
    /\ UNCHANGED <<mounted, authVars, loadVars, shown, planVars, wsStatus, streamVars,
                   serviceVars>>

onclose(c) ==
    /\ conn[c].at \in Socket
    /\ IF ~intentionalClose
       THEN scheduleReconnect(c) /\ wsStatus' = Set(wsStatus, "reconnecting")
       ELSE /\ conn' = [conn EXCEPT ![c] = Free]
            /\ UNCHANGED <<reconnectTimer, wsStatus>>
    /\ wsRef' = IF wsRef = c THEN None ELSE wsRef
    /\ UNCHANGED <<mounted, authVars, loadVars, dataVars, planVars, intentionalClose,
                   published, serviceVars>>

\* Mutant of recheck: a check that fails is taken for a session that failed.
recheckFailed(c, ok) ==
    /\ conn[c].at = "checking"
    /\ shown' = Set(shown, IF ok THEN row[sessionId] ELSE "failed")
    /\ IF ok /\ row[sessionId] = "running"
       THEN connectStream(c, sessionId) /\ wsStatus' = Set(wsStatus, "connecting")
       ELSE /\ conn' = [conn EXCEPT ![c] = IF ok THEN [@ EXCEPT !.at = "log"] ELSE Free]
            /\ wsStatus' = Set(wsStatus, "disconnected")
            /\ UNCHANGED <<wsRef, reconnectTimer>>
    /\ UNCHANGED <<mounted, authVars, loadVars, log, logFetch, planVars, intentionalClose,
                   published, serviceVars>>

\* Mutant of recheck: a check that fails leaves the status as it is.
recheckSilently(c, ok) ==
    /\ conn[c].at = "checking"
    /\ shown' = IF ok THEN Set(shown, row[sessionId]) ELSE shown
    /\ IF ok /\ row[sessionId] = "running"
       THEN connectStream(c, sessionId) /\ wsStatus' = Set(wsStatus, "connecting")
       ELSE /\ conn' = [conn EXCEPT ![c] = IF ok THEN [@ EXCEPT !.at = "log"] ELSE Free]
            /\ wsStatus' = IF ok THEN Set(wsStatus, "disconnected") ELSE wsStatus
            /\ UNCHANGED <<wsRef, reconnectTimer>>
    /\ UNCHANGED <<mounted, authVars, loadVars, log, logFetch, planVars, intentionalClose,
                   published, serviceVars>>

\* Unlike the deploy page, a check that fails is not tried again.
recheck(c, ok) ==
    LET s == row[sessionId]
    IN  /\ conn[c].at = "checking"
        /\ shown' = IF ok THEN Set(shown, s) ELSE shown
        /\ \/ /\ ok /\ s = "running"
              /\ connectStream(c, sessionId)
              /\ wsStatus' = Set(wsStatus, "connecting")
           \/ /\ ~(ok /\ s = "running")
              /\ conn' = [conn EXCEPT ![c] = IF ok THEN [@ EXCEPT !.at = "log"] ELSE Free]
              /\ wsStatus' = Set(wsStatus, "disconnected")
              /\ UNCHANGED <<wsRef, reconnectTimer>>
        /\ UNCHANGED <<mounted, authVars, loadVars, log, logFetch, planVars, intentionalClose,
                       published, serviceVars>>

recheckLog(c) ==
    /\ conn[c].at = "log"
    /\ conn' = [conn EXCEPT ![c] = Free]
    /\ log' \in {log, Set(log, log \/ sessionId \in logged)}
    /\ UNCHANGED <<mounted, authVars, loadVars, shown, logFetch, planVars, wsStatus,
                   intentionalClose, wsRef, reconnectTimer, published, serviceVars>>

-----------------------------------------------------------------------------
(* Confirming the plan. *)

handleConfirm(approved) ==
    /\ PlanPanel
    /\ confirming' = [approved |-> approved]
    /\ UNCHANGED <<mounted, authVars, loadVars, dataVars, plan, cancelled, wsStatus, streamVars,
                   serviceVars>>

\* Any answer will do, a refusal too; without one the plan is hidden all the same.
confirmed(answered) ==
    /\ confirming # None
    /\ confirming' = None
    /\ plan' = FALSE
    /\ IF answered /\ ~confirming.approved
       THEN /\ shown' = IF shown = None THEN None ELSE "failed"
            /\ cancelled' = TRUE
            /\ conn' = Closing(conn)
       ELSE UNCHANGED <<shown, cancelled, conn>>
    /\ UNCHANGED <<mounted, authVars, loadVars, log, logFetch, wsStatus, intentionalClose,
                   wsRef, reconnectTimer, published, serviceVars>>

-----------------------------------------------------------------------------
User ==
    \/ connectWallet \/ signIn \/ leave
    \/ \E disconnected \in BOOLEAN : signOut(disconnected)
    \/ \E approved \in BOOLEAN : handleConfirm(approved)

Answers ==
    \/ \E l \in Load : loadSession(l) \/ loadLog(l) \/ loadFails(l)
    \/ fetchLog
    \/ \E answered \in BOOLEAN : confirmed(answered)

Stream ==
    \E c \in Conn :
        \/ onopen(c) \/ onmessage(c) \/ onclose(c) \/ recheckLog(c)
        \/ \E ok \in BOOLEAN : recheck(c, ok)
        \/ fire(c) /\ UNCHANGED pageVars

Server ==
    \E s \in Session :
        /\ publishPlan(s) \/ publishEnd(s) \/ (Advance(s) /\ UNCHANGED streamVars)
        /\ UNCHANGED pageVars

Next == User \/ Answers \/ Stream \/ Server

Spec == Init /\ [][Next]_vars

-----------------------------------------------------------------------------
(* Properties. *)

\* Every variable holds a value of its type.
TypeOK ==
    /\ StreamTypeOK
    /\ \A b \in {mounted, isAuthenticated, isConnected, loading, error, log, plan, logFetch,
                 cancelled} : b \in BOOLEAN
    /\ shown \in {None, "running"} \cup Outcome
    /\ confirming \in {None} \cup [approved : BOOLEAN]
    /\ wsStatus \in {"connecting", "connected", "reconnecting", "disconnected"}
    /\ load \in [Load -> {"none", "session", "log", "over"}]

\* The page shows a session as over only when it is, whichever of a late load, a
\* check and an event told it so last; or when the user has cancelled a plan.
EndShownIsEnd == shown \in Outcome => outcome[sessionId] # None \/ cancelled

LoadedOnce == \A l, m \in Load : load[l] # "none" /\ load[m] # "none" => l = m

\* While the page shows a session that runs and does not say that it is
\* disconnected, there is a socket or a timer: it never seems to be live when
\* nothing more can arrive.  It takes a second sign-in to break this.
StatusIsHonest ==
    LivePanel /\ wsStatus # "disconnected" /\ LoadedOnce =>
        \E c \in Conn : conn[c].at # "free"

=============================================================================
