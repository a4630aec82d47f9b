---------------------------- MODULE SessionStream ----------------------------
(***************************************************************************)
(* A page's stream of a session: the sockets it opens to the server, the   *)
(* timer that opens the next one, and the bus that publishes a session's   *)
(* events to the sockets that are subscribed.  The two pages that stream a *)
(* session share this code almost word for word; what they do with an      *)
(* event or a close is theirs.                                             *)
(***************************************************************************)
EXTENDS SessionService, Sequences

CONSTANTS
    Conn,           \* identities of streams: a socket, then its reconnection timer
    ClientCap       \* capacity of a subscriber's channel, 64 in the code

ASSUME StreamAssumptions ==
    /\ None \notin Session \cup Conn \cup Outcome \cup {"running"}
    /\ ClientCap \in Nat

VARIABLES
    intentionalClose,
    wsRef,              \* the last socket opened, while it is one, or None
    reconnectTimer,     \* the last timer started, while it runs, or None
    conn,               \* Conn -> a timer, a socket, or Free
    published           \* the sessions whose end the forwarder has published

streamVars == <<intentionalClose, wsRef, reconnectTimer, conn, published>>

Event == {"plan", "done", "error"}

\* The server closes a socket that is served once its inbox is empty.
Open == {"subscribed", "served"}
Socket == {"connecting", "closing"} \cup Open
Free == [at |-> "free", sid |-> None, inbox |-> <<>>]

StreamInit ==
    /\ intentionalClose = FALSE
    /\ wsRef = None
    /\ reconnectTimer = None
    /\ conn = [c \in Conn |-> Free]
    /\ published = {}

StreamTypeOK ==
    /\ intentionalClose \in BOOLEAN
    /\ wsRef \in Conn \cup {None} /\ reconnectTimer \in Conn \cup {None}
    /\ conn \in [Conn -> [at : {"free", "timer", "checking", "log"} \cup Socket,
                          sid : Session \cup {None}, inbox : Seq(Event)]]
    /\ published \subseteq Session

-----------------------------------------------------------------------------
(* The page. *)

\* wsRef.current?.close()
Closing(conns) ==
    [c \in Conn |-> IF c = wsRef
                    THEN [conns[c] EXCEPT !.at = "closing", !.inbox = <<>>] ELSE conns[c]]

\* clearTimeout(reconnectTimerRef.current), whatever session the timer is for.
Cleared == [c \in Conn |-> IF c = reconnectTimer THEN Free ELSE conn[c]]

connectStream(c, s) ==
    /\ conn' = [Cleared EXCEPT ![c] = [at |-> "connecting", sid |-> s, inbox |-> <<>>]]
    /\ wsRef' = c
    /\ reconnectTimer' = None

\* The part of scheduleReconnect that starts the timer, in place of the socket.
scheduleReconnect(c) ==
    /\ conn' = [conn EXCEPT ![c] = [@ EXCEPT !.at = "timer", !.inbox = <<>>]]
    /\ reconnectTimer' = c

\* The timer fires, and asks for the state of the session if it still matters.
fire(c) ==
    /\ conn[c].at = "timer"
    /\ conn' = [conn EXCEPT ![c] = IF intentionalClose THEN Free ELSE [@ EXCEPT !.at = "checking"]]
    /\ reconnectTimer' = IF reconnectTimer = c THEN None ELSE reconnectTimer
    /\ UNCHANGED <<intentionalClose, wsRef, published, serviceVars>>

-----------------------------------------------------------------------------
(* The server. *)

\* The stream of a session whose row is not running is its log, sent as a done
\* event if it is saved.
serve(c) ==
    LET s == conn[c].sid
    IN  /\ conn[c].at = "connecting"
        /\ conn' = [conn EXCEPT ![c] =
              IF row[s] = "running" THEN [@ EXCEPT !.at = "subscribed"]
              ELSE [@ EXCEPT !.at = "served", !.inbox = IF s \in logged THEN <<"done">> ELSE <<>>]]
        /\ UNCHANGED <<intentionalClose, wsRef, reconnectTimer, published, serviceVars>>

\* The event reaches the subscribers whose channel is not full.
Publish(s, e) ==
    conn' = [c \in Conn |->
        IF conn[c].at = "subscribed" /\ conn[c].sid = s /\ Len(conn[c].inbox) < ClientCap
        THEN [conn[c] EXCEPT !.inbox = Append(@, e),
                             !.at = IF e = "plan" THEN @ ELSE "served"]
        ELSE conn[c]]

\* The forwarder lags behind Run, and may publish after the row was written.
Forwarding(s) == stage[s] \in {"running", "ended", "updated", "saved"} /\ s \notin published

publishPlan(s) ==
    /\ Forwarding(s)
    /\ Publish(s, "plan")
    /\ UNCHANGED <<intentionalClose, wsRef, reconnectTimer, published, serviceVars>>

\* The end is the last event, and is put on the channel before Run returns.
publishEnd(s) ==
    /\ Forwarding(s) /\ stage[s] # "running"
    /\ published' = published \cup {s}
    /\ Publish(s, IF outcome[s] = "completed" THEN "done" ELSE "error")
    /\ UNCHANGED <<intentionalClose, wsRef, reconnectTimer, serviceVars>>

ServerStep ==
    \/ \E s \in Session :
          publishPlan(s) \/ publishEnd(s) \/ (Advance(s) /\ UNCHANGED streamVars)
    \/ \E c \in Conn : serve(c)

\* One side has closed the socket already.
Ending(c) == conn[c].at = "closing" \/ (conn[c].at = "served" /\ conn[c].inbox = <<>>)

-----------------------------------------------------------------------------
(* Properties. *)

\* However often the stream is lost, a session has one of a socket, a timer and
\* a check: two chains of reconnections would each deliver every event.  The
\* deploy page has this; the session page, which loads again after a second
\* sign-in, may open a second stream then.
OneStreamPerSession ==
    \A c, d \in Conn : conn[c].at # "free" /\ conn[c].sid = conn[d].sid => c = d

=============================================================================
