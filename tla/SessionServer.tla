---------------------------- MODULE SessionServer ----------------------------
(***************************************************************************)
(* One agent session inside the API server: the goroutine that runs it,    *)
(* the forwarder that publishes its events on the bus, the WebSocket       *)
(* clients that stream them, the confirm requests, the rows of the         *)
(* database and the attestation that follows.  Sessions share nothing but  *)
(* the two registries, in which each has its own entry.                    *)
(*                                                                         *)
(* A crash loses everything but the database; nothing is resumed when the  *)
(* server is started again.                                                *)
(***************************************************************************)
EXTENDS AgentSession, Absent

CONSTANTS
    Client,         \* WebSocket connections to the session's stream
    ClientCap,      \* capacity of a subscriber's channel, 64 in the code
    HasWalletKey,   \* whether a key for attestations is configured
    DbMayFail,      \* whether a write to the database may fail
    MaxCrashes      \* bound on the crashes of the server

ASSUME ServerAssumptions ==
    /\ ClientCap \in Nat
    /\ HasWalletKey \in BOOLEAN
    /\ DbMayFail \in BOOLEAN
    /\ MaxCrashes \in Nat
    /\ None \notin {"running", "completed", "failed"}

VARIABLES
    goroutine,      \* where runAgentSession is
    registered,     \* whether sessionRegistry holds the session
    asked,          \* Caller -> what became of its confirm request
    subs,           \* the clients whose channel the bus holds
    chan,           \* Client -> its channel
    stream,         \* Client -> where streamSession is
    seen,           \* history: Client -> the actions and the end it was sent
    row,            \* database: the state of the session's row, or None
    log,            \* database: the saved action log, or None
    provider,       \* database: whether the selected provider was saved
    attestation,    \* database: the actions of the saved attestation, or None
    attesting,      \* where submitAttestation is
    onChain,        \* the actions attested on the chain, or None
    crashes,
    dbFailed,       \* history: whether a write to the database failed
    endLost         \* history: the clients for whom a full channel lost the end

serverVars == <<goroutine, registered>>
streamVars == <<subs, chan, stream, seen, endLost>>
dbVars == <<row, log, provider, attestation, dbFailed>>
attestVars == <<attesting, onChain>>
vars == <<agentVars, serverVars, asked, streamVars, dbVars, attestVars, crashes>>

Init ==
    /\ AgentInit
    /\ goroutine = "none"
    /\ registered = FALSE
    /\ asked = [c \in Caller |-> "no"]
    /\ subs = {}
    /\ chan = [c \in Client |-> <<>>]
    /\ stream = [c \in Client |-> "idle"]
    /\ seen = [c \in Client |-> <<>>]
    /\ row = None
    /\ log = None
    /\ provider = FALSE
    /\ attestation = None
    /\ attesting = "none"
    /\ onChain = None
    /\ crashes = 0
    /\ dbFailed = FALSE
    /\ endLost = {}

\* A write to the database that sets var to value, or fails.
Write(var, var1, value) ==
    \/ var1 = value /\ UNCHANGED dbFailed
    \/ DbMayFail /\ var1 = var /\ dbFailed' = TRUE

-----------------------------------------------------------------------------
(* The session's goroutine. *)

\* Mutant of createSession: the goroutine is started though the insert failed.
createUnwritten ==
    /\ goroutine = "none"
    /\ row' \in {None, "running"}
    /\ goroutine' = "starting"
    /\ UNCHANGED <<agentVars, registered, asked, streamVars, log, provider,
                   attestation, dbFailed, attestVars, crashes>>

createSession ==
    /\ row = None
    /\ row' = "running"
    /\ goroutine' = "starting"
    /\ UNCHANGED <<agentVars, registered, asked, streamVars, log, provider,
                   attestation, dbFailed, attestVars, crashes>>

\* The request has been answered when the goroutine gets here.
register ==
    /\ goroutine = "starting"
    /\ registered' = TRUE
    /\ goroutine' = "running"
    /\ UNCHANGED <<agentVars, asked, streamVars, dbVars, attestVars, crashes>>

run ==
    /\ goroutine = "running"
    /\ Run
    /\ goroutine' = IF pc' = "returned" THEN "updateState" ELSE "running"
    /\ endLost' = IF pc' = "returned" /\ events' = events THEN Client ELSE endLost
    /\ UNCHANGED <<registered, asked, subs, chan, stream, seen, dbVars, attestVars,
                   crashes>>

\* Mutant of updateSessionState: a session that failed is left as it is.
updateIfCompleted ==
    /\ goroutine = "updateState"
    /\ row' = IF state = "completed" THEN state ELSE row
    /\ goroutine' = "saveLog"
    /\ UNCHANGED <<agentVars, registered, asked, streamVars, log, provider,
                   attestation, dbFailed, attestVars, crashes>>

updateSessionState ==
    /\ goroutine = "updateState"
    /\ Write(row, row', state)
    /\ goroutine' = "saveLog"
    /\ UNCHANGED <<agentVars, registered, asked, streamVars, log, provider,
                   attestation, attestVars, crashes>>

saveActionLog ==
    /\ goroutine = "saveLog"
    /\ Write(log, log', actions)
    /\ goroutine' = "saveProvider"
    /\ UNCHANGED <<agentVars, registered, asked, streamVars, row, provider,
                   attestation, attestVars, crashes>>

saveProviderSelection ==
    /\ goroutine = "saveProvider"
    /\ IF selectedProvider THEN Write(provider, provider', TRUE) ELSE UNCHANGED <<provider, dbFailed>>
    /\ goroutine' = "leaving"
    /\ UNCHANGED <<agentVars, registered, asked, streamVars, row, log, attestation,
                   attestVars, crashes>>

\* Mutant of leave: a failed session is attested too.
leaveAttesting ==
    /\ goroutine = "leaving"
    /\ attesting' = IF HasWalletKey THEN "submit" ELSE attesting
    /\ registered' = FALSE
    /\ goroutine' = "ended"
    /\ UNCHANGED <<agentVars, asked, streamVars, dbVars, onChain, crashes>>

\* Start the attestation of a completed session and leave the registry.
leave ==
    /\ goroutine = "leaving"
    /\ attesting' = IF state = "completed" /\ HasWalletKey THEN "submit" ELSE attesting
    /\ registered' = FALSE
    /\ goroutine' = "ended"
    /\ UNCHANGED <<agentVars, asked, streamVars, dbVars, onChain, crashes>>

-----------------------------------------------------------------------------
(* The attestation's goroutine. *)

submitAttestation(accepted) ==
    /\ attesting = "submit"
    /\ attesting' = IF accepted THEN "save" ELSE "ended"
    /\ onChain' = IF accepted THEN actions ELSE onChain
    /\ UNCHANGED <<agentVars, serverVars, asked, streamVars, dbVars, crashes>>

\* The transaction is saved whether its receipt was found in time or not.
saveAttestation ==
    /\ attesting = "save"
    /\ Write(attestation, attestation', actions)
    /\ attesting' = "ended"
    /\ UNCHANGED <<agentVars, serverVars, asked, streamVars, row, log, provider,
                   onChain, crashes>>

-----------------------------------------------------------------------------
(* The confirm requests. *)

\* The request finds the live session, or is refused.
confirmSession(c) ==
    /\ asked[c] = "no"
    /\ asked' = [asked EXCEPT ![c] =
          IF registered THEN "found"
          ELSE IF row = None THEN "not found"
          ELSE IF row # "running" THEN "conflict" ELSE "gone"]
    /\ UNCHANGED <<agentVars, serverVars, streamVars, dbVars, attestVars, crashes>>

confirm(c) ==
    /\ asked[c] = "found"
    /\ Confirm(c)
    /\ UNCHANGED <<serverVars, asked, streamVars, dbVars, attestVars, crashes>>

-----------------------------------------------------------------------------
(* The bus and the clients. *)

\* Mutant of Published: the channel is in the list of subscribers twice.
PublishedTwice(c, event) ==
    IF c \in subs /\ Len(chan[c]) < ClientCap THEN chan[c] \o <<event, event>> ELSE chan[c]

\* Mutant of Published: one place of the channel is kept free.
PublishedShort(c, event) ==
    IF c \in subs /\ Len(chan[c]) + 1 < ClientCap THEN Append(chan[c], event) ELSE chan[c]

\* A subscriber's channel that is full loses the event.
Published(c, event) ==
    IF c \in subs /\ Len(chan[c]) < ClientCap THEN Append(chan[c], event) ELSE chan[c]

\* The forwarder outlives Run: nothing closes the event channel.
publish ==
    /\ goroutine \notin {"none", "starting", "crashed"}
    /\ receive
    /\ chan' = [c \in Client |-> Published(c, Head(events))]
    /\ endLost' = IF IsEnd(Head(events))
                  THEN endLost \cup {c \in subs : Len(chan[c]) >= ClientCap} ELSE endLost
    /\ UNCHANGED <<serverVars, asked, subs, stream, seen, dbVars, attestVars, crashes>>

\* streamSession reads the row before it subscribes.
openStream(c) ==
    /\ stream[c] = "idle"
    /\ row # None
    /\ stream' = [stream EXCEPT ![c] = IF row = "running" THEN "live" ELSE "over"]
    /\ UNCHANGED <<agentVars, serverVars, asked, subs, chan, seen, endLost, dbVars,
                   attestVars, crashes>>

\* The stream of a finished session is its log, if there is one.
sendLog(c) ==
    /\ stream[c] = "over"
    /\ seen' = [seen EXCEPT ![c] =
          IF log = None THEN @ ELSE Append(@, [type |-> "done", index |-> 0])]
    /\ stream' = [stream EXCEPT ![c] = "closed"]
    /\ UNCHANGED <<agentVars, serverVars, asked, subs, chan, endLost, dbVars, attestVars,
                   crashes>>

subscribe(c) ==
    /\ stream[c] = "live"
    /\ subs' = subs \cup {c}
    /\ chan' = [chan EXCEPT ![c] = <<>>]
    /\ stream' = [stream EXCEPT ![c] = "subscribed"]
    /\ UNCHANGED <<agentVars, serverVars, asked, seen, endLost, dbVars, attestVars, crashes>>

Matters(event) == event.type = "action" \/ IsEnd(event)

\* The stream ends, and the client unsubscribes, after done or error.
sendEvent(c) ==
    LET event == Head(chan[c])
    IN  /\ stream[c] = "subscribed"
        /\ chan[c] # <<>>
        /\ seen' = [seen EXCEPT ![c] = IF Matters(event) THEN Append(@, event) ELSE @]
        /\ chan' = [chan EXCEPT ![c] = Tail(@)]
        /\ stream' = [stream EXCEPT ![c] = IF IsEnd(event) THEN "closed" ELSE @]
        /\ subs' = IF IsEnd(event) THEN subs \ {c} ELSE subs
        /\ UNCHANGED <<agentVars, serverVars, asked, endLost, dbVars, attestVars, crashes>>

\* The client goes away: the request's context ends, or a write fails.
disconnect(c) ==
    /\ stream[c] \in {"live", "over", "subscribed"}
    /\ stream' = [stream EXCEPT ![c] = "gone"]
    /\ subs' = subs \ {c}
    /\ UNCHANGED <<agentVars, serverVars, asked, chan, seen, endLost, dbVars, attestVars,
                   crashes>>

-----------------------------------------------------------------------------
crash ==
    /\ crashes < MaxCrashes
    /\ crashes' = crashes + 1
    /\ goroutine' = IF goroutine = "none" THEN "none" ELSE "crashed"
    /\ registered' = FALSE
    /\ attesting' = "ended"
    /\ subs' = {}
    /\ stream' = [c \in Client |-> IF stream[c] \in {"idle", "closed"} THEN stream[c] ELSE "gone"]
    /\ asked' = [c \in Caller |-> IF asked[c] = "found" THEN "lost" ELSE asked[c]]
    /\ UNCHANGED <<agentVars, chan, seen, endLost, dbVars, onChain>>

Goroutine ==
    register \/ run \/ updateSessionState \/ saveActionLog \/ saveProviderSelection \/ leave

Attestation == (\E accepted \in BOOLEAN : submitAttestation(accepted)) \/ saveAttestation

Handler(c) == openStream(c) \/ sendLog(c) \/ subscribe(c) \/ sendEvent(c)

Next ==
    \/ createSession
    \/ Goroutine
    \/ Attestation
    \/ \E c \in Caller : confirmSession(c) \/ confirm(c)
    \/ publish
    \/ \E c \in Client : Handler(c) \/ disconnect(c)
    \/ crash

Spec == Init /\ [][Next]_vars

\* Goroutines that can take a step are scheduled, and the model, the tools and
\* the timer answer.  Nothing makes a user call an endpoint or go away.
FairSpec ==
    /\ Spec
    /\ WF_vars(Goroutine)
    /\ WF_vars(publish)
    /\ \A c \in Client : WF_vars((sendLog(c) \/ subscribe(c) \/ sendEvent(c)))

-----------------------------------------------------------------------------
(* Properties. *)

\* Every variable holds a value of its type.
TypeOK ==
    /\ AgentTypeOK
    /\ goroutine \in {"none", "starting", "running", "updateState", "saveLog",
                      "saveProvider", "leaving", "ended", "crashed"}
    /\ registered \in BOOLEAN
    /\ asked \in [Caller -> {"no", "found", "not found", "conflict", "gone", "lost"}]
    /\ subs \subseteq Client
    /\ chan \in [Client -> Seq(Event)]
    /\ \A c \in Client : Len(chan[c]) <= ClientCap
    /\ stream \in [Client -> {"idle", "live", "over", "subscribed", "closed", "gone"}]
    /\ seen \in [Client -> Seq(Event)]
    /\ row \in {None, "running", "completed", "failed"}
    /\ provider \in BOOLEAN
    /\ attesting \in {"none", "submit", "save", "ended"}
    /\ crashes \in 0 .. MaxCrashes
    /\ dbFailed \in BOOLEAN
    /\ endLost \subseteq Client

\* The events that were or will be sent to a client, oldest first.
InFlight(c) ==
    (seen[c] \o chan[c]) \o (IF c \in subs THEN events ELSE <<>>)

\* The actions among the events of s come one after the other.
InOrder(s) ==
    \A i, j \in DOMAIN s : i < j /\ s[i].index > 0 /\ s[j].index > 0 => s[i].index < s[j].index

\* Whatever was lost at a full channel, a client is sent the actions in the
\* order in which they were recorded, none twice, and nothing after the end.
StreamInOrder ==
    \A c \in Client :
        /\ InOrder(InFlight(c))
        /\ \A i \in DOMAIN seen[c] : IsEnd(seen[c][i]) => i = Len(seen[c])

\* Whatever is attested on the chain belongs to a completed session and to all
\* of its actions.  Unless a write failed, the log from which anyone can
\* recompute it was saved before: no crash leaves an attestation without a log.
AttestedIsLogged ==
    onChain # None =>
        /\ state = "completed"
        /\ onChain = actions
        /\ ~dbFailed => log = onChain /\ row = "completed"

\* The outcome of a session is written once, and is the outcome of Run.
OutcomeIsFinal ==
    [][/\ row \in {"completed", "failed"} => row' = row
       /\ row' # row /\ row # None => row' = state
       /\ log # None => log' = log]_vars

\* How far the session is for those who see only its row, its outcome and its log.
Stage ==
    CASE goroutine = "none" -> "none"
      [] goroutine \in {"starting", "running"} -> "running"
      [] goroutine = "updateState" -> "ended"
      [] goroutine = "saveLog" -> "updated"
      [] goroutine \in {"saveProvider", "leaving", "ended"} -> "saved"
      [] goroutine = "crashed" -> "dead"

OneSession == {"session"}

Service == INSTANCE SessionService WITH
    Session <- OneSession,
    stage <- [s \in OneSession |-> Stage],
    row <- [s \in OneSession |-> row],
    outcome <- [s \in OneSession |-> IF pc = "returned" THEN state ELSE None],
    logged <- IF log = None THEN {} ELSE OneSession

\* To its clients the server is the service that the pages are built on: the
\* outcome is decided once, then the row is written, then the log, whatever
\* the goroutines, the failing writes and the crash do in between.
ServiceImplemented == Service!ServiceSpec

\* A session that was created gets its outcome and its log, unless the server
\* crashes or a write fails: no wait for the user and no model that stops
\* calling tools keeps its row running.
SessionSettles ==
    row = "running" ~>
        \/ row \in {"completed", "failed"} /\ log = actions
        \/ crashes > 0
        \/ dbFailed

\* A subscriber whose stream will still end: the session runs, or its end is on
\* its way.
EndComes(c) ==
    /\ stream[c] = "subscribed"
    /\ \/ pc # "returned"
       \/ \E i \in DOMAIN events : IsEnd(events[i])
       \/ \E i \in DOMAIN chan[c] : IsEnd(chan[c][i])

\* The end of a session is passed on from Run to the event channel, from there to
\* each subscriber's channel and from there to the client: no step of the three
\* goroutines drops it, unless a full channel loses it or the client goes.
EndIsPassedOn ==
    [][\A c \in Client :
          EndComes(c) => EndComes(c)' \/ stream'[c] \in {"closed", "gone"} \/ c \in endLost']_vars

\* A client that is subscribed before Run returns is sent the end of the
\* stream, unless a full channel lost it or the server crashes.
SubscribedStreamEnds ==
    \A c \in Client :
        stream[c] = "subscribed" /\ pc # "returned" ~>
            stream[c] \in {"closed", "gone"} \/ c \in endLost \/ crashes > 0

=============================================================================
