------------------------------ MODULE PagesProofs ------------------------------
(***************************************************************************)
(* Proofs about the pages that follow a session, for any sessions, streams *)
(* and sizes of channels: the session page and the deploy page, which      *)
(* share SessionStream.  The module extends the first; a variable of the   *)
(* other that it does not have is declared here.  A theorem is about one   *)
(* page.                                                                   *)
(***************************************************************************)
EXTENDS SessionPage, FiniteSetTheorems, SequenceTheorems, TLAPS

-----------------------------------------------------------------------------
(* The streams. *)

StreamRecord ==
    [at : {"free", "timer", "checking", "log"} \cup Socket, sid : Session \cup {None},
     inbox : Seq(Event)]

\* The page's references point at a socket and at a timer, and every stream is
\* of some session.
StreamInv ==
    /\ StreamTypeOK
    /\ wsRef \in Conn => conn[wsRef].at \in Socket
    /\ reconnectTimer \in Conn => conn[reconnectTimer].at = "timer"
    /\ \A c \in Conn : conn[c].at # "free" <=> conn[c].sid \in Session

\* A step that opens no stream and moves none to another session.
NoNewStream ==
    \A c \in Conn : conn'[c].at # "free" => conn[c].at # "free" /\ conn'[c].sid = conn[c].sid

LEMMA FreeIsStream == Free \in StreamRecord /\ Free.at = "free" /\ Free.sid \notin Session
<1>1. <<>> \in Seq(Event)
  OBVIOUS
<1>2. QED
  BY <1>1, StreamAssumptions DEF Free, StreamRecord

\* One stream x of the session of c, or none, comes in the place of c, and the
\* references keep to sockets and timers.
LEMMA OneMoves ==
    ASSUME StreamInv, NEW c \in Conn, conn[c].at # "free", NEW x \in StreamRecord,
           x.at = "free" => x = Free, x.at # "free" => x.sid = conn[c].sid,
           conn' = [conn EXCEPT ![c] = x],
           intentionalClose' \in BOOLEAN, published' \subseteq Session,
           wsRef' = None \/ (wsRef' = wsRef /\ (wsRef = c => x.at \in Socket)),
           \/ reconnectTimer' = None
           \/ reconnectTimer' = c /\ x.at = "timer"
           \/ reconnectTimer' = reconnectTimer /\ (reconnectTimer = c => x.at = "timer")
    PROVE  StreamInv' /\ NoNewStream
<1>1. /\ conn \in [Conn -> StreamRecord] /\ None \notin Conn
      /\ wsRef \in Conn \cup {None} /\ reconnectTimer \in Conn \cup {None}
  BY StreamAssumptions DEF StreamInv, StreamTypeOK, StreamRecord
<1>2. conn' \in [Conn -> StreamRecord] /\ conn'[c] = x /\ \A d \in Conn \ {c} : conn'[d] = conn[d]
  BY <1>1
<1>3. StreamTypeOK'
  BY <1>1, <1>2 DEF StreamTypeOK, StreamRecord
<1>4. wsRef' \in Conn => conn'[wsRef'].at \in Socket
  BY <1>1, <1>2 DEF StreamInv
<1>5. reconnectTimer' \in Conn => conn'[reconnectTimer'].at = "timer"
  BY <1>1, <1>2 DEF StreamInv
<1>6. NoNewStream
  BY <1>2 DEF NoNewStream
<1>7. \A d \in Conn : conn'[d].at # "free" <=> conn'[d].sid \in Session
  BY <1>2, FreeIsStream DEF StreamInv
<1>8. QED
  BY <1>3, <1>4, <1>5, <1>6, <1>7 DEF StreamInv

LEMMA FireKeeps ==
    ASSUME StreamInv, NEW c \in Conn, fire(c)
    PROVE  StreamInv' /\ NoNewStream
<1>1. /\ conn[c].at = "timer" /\ conn[c] \in StreamRecord
      /\ intentionalClose \in BOOLEAN /\ published \subseteq Session
      /\ None \notin Conn
  BY StreamAssumptions DEF fire, StreamInv, StreamTypeOK, StreamRecord
<1> DEFINE x == IF intentionalClose THEN Free ELSE [conn[c] EXCEPT !.at = "checking"]
<1>2. /\ x \in StreamRecord /\ (x.at = "free" => x = Free)
      /\ x.at # "free" => x.sid = conn[c].sid
  BY <1>1, FreeIsStream DEF StreamRecord
<1>3. /\ conn' = [conn EXCEPT ![c] = x]
      /\ UNCHANGED <<intentionalClose, wsRef, published>>
      /\ reconnectTimer' = IF reconnectTimer = c THEN None ELSE reconnectTimer
  BY DEF fire
<1>4. wsRef # c
  BY <1>1 DEF StreamInv, Socket, Open
<1> HIDE DEF x
<1>5. QED
  BY <1>1, <1>2, <1>3, <1>4, OneMoves

LEMMA ServeKeeps ==
    ASSUME StreamInv, NEW c \in Conn, serve(c)
    PROVE  StreamInv' /\ NoNewStream
<1>1. /\ conn[c].at = "connecting" /\ conn[c] \in StreamRecord
      /\ intentionalClose \in BOOLEAN /\ published \subseteq Session
  BY DEF serve, StreamInv, StreamTypeOK, StreamRecord
<1> DEFINE s == conn[c].sid
           x == IF row[s] = "running" THEN [conn[c] EXCEPT !.at = "subscribed"]
                ELSE [conn[c] EXCEPT !.at = "served",
                                     !.inbox = IF s \in logged THEN <<"done">> ELSE <<>>]
<1>2. <<"done">> \in Seq(Event) /\ <<>> \in Seq(Event)
  BY DEF Event
<1>3. x \in StreamRecord /\ x.sid = conn[c].sid /\ x.at \in Socket /\ x.at # "free"
  BY <1>1, <1>2 DEF StreamRecord, Socket, Open
<1>4. /\ conn' = [conn EXCEPT ![c] = x]
      /\ UNCHANGED <<intentionalClose, wsRef, published, reconnectTimer>>
  BY DEF serve
<1>5. reconnectTimer # c
  BY <1>1 DEF StreamInv
<1> HIDE DEF x
<1>6. QED
  BY <1>1, <1>3, <1>4, <1>5, OneMoves

\* The close of a socket that schedules no reconnection.
LEMMA FreeKeeps ==
    ASSUME StreamInv, NEW c \in Conn, conn[c].at \notin {"free", "timer"},
           conn' = [conn EXCEPT ![c] = Free],
           wsRef' = None \/ (wsRef' = wsRef /\ wsRef # c),
           UNCHANGED <<intentionalClose, reconnectTimer, published>>
    PROVE  StreamInv' /\ NoNewStream
<1>1. intentionalClose \in BOOLEAN /\ published \subseteq Session /\ reconnectTimer # c
  BY DEF StreamInv, StreamTypeOK
<1>2. QED
  BY <1>1, FreeIsStream, OneMoves

LEMMA ScheduleKeeps ==
    ASSUME StreamInv, NEW c \in Conn, conn[c].at \in Socket, scheduleReconnect(c),
           wsRef' = IF wsRef = c THEN None ELSE wsRef,
           UNCHANGED <<intentionalClose, published>>
    PROVE  StreamInv' /\ NoNewStream
<1>1. /\ conn[c] \in StreamRecord /\ conn[c].at # "free"
      /\ intentionalClose \in BOOLEAN /\ published \subseteq Session
  BY DEF StreamInv, StreamTypeOK, StreamRecord, Socket, Open
<1> DEFINE x == [conn[c] EXCEPT !.at = "timer", !.inbox = <<>>]
<1>2. <<>> \in Seq(Event)
  OBVIOUS
<1>3. x \in StreamRecord /\ x.sid = conn[c].sid /\ x.at = "timer"
  BY <1>1, <1>2 DEF StreamRecord
<1>4. conn' = [conn EXCEPT ![c] = x] /\ reconnectTimer' = c
  BY DEF scheduleReconnect
<1> HIDE DEF x
<1>5. QED
  BY <1>1, <1>3, <1>4, OneMoves

\* The socket takes an event out of its inbox, or is closed by an end.
LEMMA MessageKeeps ==
    ASSUME StreamInv, NEW c \in Conn, conn[c].at \in Open, conn[c].inbox # <<>>,
           \/ conn' = [conn EXCEPT ![c].inbox = Tail(@)]
           \/ conn' = [conn EXCEPT ![c] = [@ EXCEPT !.at = "closing", !.inbox = <<>>]],
           intentionalClose' \in BOOLEAN, UNCHANGED <<wsRef, reconnectTimer, published>>
    PROVE  StreamInv' /\ NoNewStream
<1>1. /\ conn[c] \in StreamRecord /\ conn[c].at # "free" /\ published \subseteq Session
      /\ reconnectTimer # c
  BY DEF StreamInv, StreamTypeOK, StreamRecord, Socket, Open
<1>2. conn[c].inbox \in Seq(Event)
  BY <1>1 DEF StreamRecord
<1>3. Tail(conn[c].inbox) \in Seq(Event) /\ <<>> \in Seq(Event)
  BY <1>2
<1> DEFINE Fine(x) == /\ x \in StreamRecord /\ x.sid = conn[c].sid
                      /\ x.at \in Socket /\ x.at # "free"
<1>4. /\ Fine([conn[c] EXCEPT !.inbox = Tail(@)])
      /\ Fine([conn[c] EXCEPT !.at = "closing", !.inbox = <<>>])
  BY <1>1, <1>3 DEF StreamRecord, Socket, Open
<1>5. \E x : Fine(x) /\ conn' = [conn EXCEPT ![c] = x]
  BY <1>4
<1>6. QED
  BY <1>1, <1>5, OneMoves

LEMMA PublishKeeps ==
    ASSUME StreamInv, NEW s \in Session, NEW e \in Event, Publish(s, e),
           UNCHANGED <<intentionalClose, wsRef, reconnectTimer>>, published' \subseteq Session
    PROVE  /\ StreamInv' /\ NoNewStream
           /\ \A c \in Conn : \/ conn'[c] = conn[c]
                              \/ /\ conn[c].at = "subscribed" /\ conn[c].sid = s
                                 /\ conn'[c].at \in Open /\ conn'[c].sid = s
                                 /\ conn'[c].inbox = Append(conn[c].inbox, e)
<1>1. conn \in [Conn -> StreamRecord] /\ None \notin Conn
  BY StreamAssumptions DEF StreamInv, StreamTypeOK, StreamRecord
<1> DEFINE y(c) == [conn[c] EXCEPT !.inbox = Append(@, e),
                                   !.at = IF e = "plan" THEN @ ELSE "served"]
<1>2. ASSUME NEW c \in Conn
      PROVE  \/ conn'[c] = conn[c]
             \/ conn[c].at = "subscribed" /\ conn[c].sid = s /\ conn'[c] = y(c)
  BY DEF Publish
<1>3. ASSUME NEW c \in Conn, conn[c].at = "subscribed"
      PROVE  /\ y(c) \in StreamRecord /\ y(c).at \in Open /\ y(c).sid = conn[c].sid
             /\ y(c).inbox = Append(conn[c].inbox, e)
  <2>1. conn[c] \in StreamRecord
    BY <1>1
  <2>2. Append(conn[c].inbox, e) \in Seq(Event)
    BY <2>1 DEF StreamRecord
  <2>3. QED
    BY <1>3, <2>1, <2>2 DEF StreamRecord, Socket, Open
<1> HIDE DEF y
<1>4. ASSUME NEW c \in Conn
      PROVE  /\ conn'[c] \in StreamRecord
             /\ conn'[c].sid = conn[c].sid /\ (conn'[c].at # "free" <=> conn[c].at # "free")
             /\ conn[c].at = "timer" => conn'[c].at = "timer"
             /\ conn[c].at \in Socket => conn'[c].at \in Socket
  <2>1. conn[c] \in StreamRecord
    BY <1>1
  <2>2. QED
    BY <1>2, <1>3, <2>1 DEF Socket, Open
<1>5. conn' = [c \in Conn |-> conn'[c]]
  BY DEF Publish
<1>6. conn' \in [Conn -> StreamRecord]
  BY <1>4, <1>5
<1>7. StreamTypeOK'
  BY <1>6 DEF StreamInv, StreamTypeOK, StreamRecord
<1>8. StreamInv' /\ NoNewStream
  BY <1>4, <1>7 DEF StreamInv, NoNewStream
<1>9. QED
  BY <1>2, <1>3, <1>8

\* The page closes its last socket, and may clear its last timer.
LEMMA CloseKeeps ==
    ASSUME StreamInv, UNCHANGED <<wsRef, published>>, intentionalClose' \in BOOLEAN,
           \/ conn' = Closing(conn) /\ reconnectTimer' = reconnectTimer
           \/ conn' = Closing(Cleared) /\ reconnectTimer' = None
    PROVE  /\ StreamInv' /\ NoNewStream
           /\ \A c \in Conn :
                 \/ conn'[c] = conn[c]
                 \/ conn'[c] = Free /\ conn[c].at = "timer"
                 \/ /\ conn[c].at \in Socket
                    /\ conn'[c].at = "closing" /\ conn'[c].inbox = <<>>
<1>1. conn \in [Conn -> StreamRecord] /\ None \notin Conn
  BY StreamAssumptions DEF StreamInv, StreamTypeOK, StreamRecord
<1> DEFINE y(c) == [conn[c] EXCEPT !.at = "closing", !.inbox = <<>>]
<1>2. conn' = [c \in Conn |-> conn'[c]]
  BY DEF Closing
<1>3. ASSUME NEW c \in Conn
      PROVE  \/ conn'[c] = conn[c] /\ (c = reconnectTimer => reconnectTimer' = reconnectTimer)
             \/ conn'[c] = Free /\ conn[c].at = "timer" /\ reconnectTimer' = None
             \/ conn[c].at \in Socket /\ conn'[c] = y(c)
  <2>1. Cleared[c] = IF c = reconnectTimer THEN Free ELSE conn[c]
    BY DEF Cleared
  <2>2. wsRef = c => conn[c].at \in Socket /\ reconnectTimer # c
    BY DEF StreamInv, Socket, Open
  <2>3. reconnectTimer = c => conn[c].at = "timer"
    BY DEF StreamInv
  <2>4. CASE conn' = Closing(conn) /\ reconnectTimer' = reconnectTimer
    BY <2>2, <2>4 DEF Closing
  <2>5. CASE conn' = Closing(Cleared) /\ reconnectTimer' = None
    BY <2>1, <2>2, <2>3, <2>5 DEF Closing
  <2>6. QED
    BY <2>4, <2>5
<1>4. ASSUME NEW c \in Conn, conn[c].at \in Socket
      PROVE  /\ y(c) \in StreamRecord /\ y(c).at = "closing" /\ y(c).sid = conn[c].sid
             /\ y(c).inbox = <<>>
  <2>1. conn[c] \in StreamRecord /\ <<>> \in Seq(Event)
    BY <1>1
  <2>2. QED
    BY <2>1 DEF StreamRecord, Socket
<1> HIDE DEF y
<1>5. ASSUME NEW c \in Conn
      PROVE  /\ conn'[c] \in StreamRecord
             /\ conn'[c].at # "free" => conn[c].at # "free" /\ conn'[c].sid = conn[c].sid
             /\ conn'[c].at = "free" => conn'[c].sid \notin Session
             /\ conn[c].at \in Socket => conn'[c].at \in Socket
             /\ reconnectTimer' = c => conn'[c].at = "timer"
  <2>1. "timer" \notin Socket /\ "closing" \in Socket /\ "free" \notin Socket
    BY DEF Socket, Open
  <2>2. reconnectTimer' = c => reconnectTimer = c
    BY <1>1
  <2>3. reconnectTimer = c => conn[c].at = "timer"
    BY DEF StreamInv
  <2>4. conn[c].at = "free" => conn[c].sid \notin Session
    BY DEF StreamInv
  <2>5. QED
    BY <1>1, <1>3, <1>4, <2>1, <2>2, <2>3, <2>4, FreeIsStream
<1>6. conn' \in [Conn -> StreamRecord]
  BY <1>2, <1>5
<1>7. StreamTypeOK'
  BY <1>6 DEF StreamInv, StreamTypeOK, StreamRecord
<1>8. NoNewStream
  BY <1>5 DEF NoNewStream
<1>9. StreamInv'
  BY <1>5, <1>7, <1>8 DEF StreamInv, NoNewStream
<1>10. QED
  BY <1>3, <1>4, <1>8, <1>9

LEMMA ConnectKeeps ==
    ASSUME StreamInv, NEW c \in Conn, NEW s \in Session, connectStream(c, s),
           UNCHANGED <<intentionalClose, published>>
    PROVE  /\ StreamInv'
           /\ conn'[c] = [at |-> "connecting", sid |-> s, inbox |-> <<>>]
           /\ \A d \in Conn \ {c} : conn'[d] = conn[d] \/ conn'[d] = Free
<1>1. conn \in [Conn -> StreamRecord] /\ None \notin Conn
  BY StreamAssumptions DEF StreamInv, StreamTypeOK, StreamRecord
<1> DEFINE x == [at |-> "connecting", sid |-> s, inbox |-> <<>>]
<1>2. x \in StreamRecord /\ x.at \in Socket /\ x.at # "free" /\ x.sid \in Session
  <2>1. <<>> \in Seq(Event)
    OBVIOUS
  <2>2. QED
    BY <2>1 DEF StreamRecord, Socket, Open
<1>3. conn' = [Cleared EXCEPT ![c] = x] /\ wsRef' = c /\ reconnectTimer' = None
  BY DEF connectStream
<1>4. Cleared \in [Conn -> StreamRecord]
      /\ \A d \in Conn : Cleared[d] = conn[d] \/ Cleared[d] = Free
  BY <1>1, FreeIsStream DEF Cleared
<1> HIDE DEF x
<1>5. /\ conn' \in [Conn -> StreamRecord] /\ conn'[c] = x
      /\ \A d \in Conn \ {c} : conn'[d] = conn[d] \/ conn'[d] = Free
  BY <1>2, <1>3, <1>4
<1>6. StreamTypeOK'
  BY <1>3, <1>5 DEF StreamInv, StreamTypeOK, StreamRecord
<1>7. StreamInv'
  BY <1>1, <1>2, <1>3, <1>5, <1>6, FreeIsStream DEF StreamInv
<1>8. QED
  BY <1>5, <1>7 DEF x

LEMMA StreamsStart == StreamInit => StreamInv /\ \A c \in Conn : conn[c].at = "free"
<1>1. SUFFICES ASSUME StreamInit PROVE StreamInv /\ \A c \in Conn : conn[c].at = "free"
  OBVIOUS
<1>2. /\ conn \in [Conn -> StreamRecord]
      /\ \A c \in Conn : conn[c].at = "free" /\ conn[c].sid \notin Session
  BY <1>1, FreeIsStream DEF StreamInit
<1>3. QED
  BY <1>1, <1>2, StreamAssumptions DEF StreamInit, StreamInv, StreamTypeOK, StreamRecord

-----------------------------------------------------------------------------
(* The session page: what it shows as over is over. *)

\* A session that has ended, or whose row says so, has an outcome.
ServiceInv ==
    /\ stage \in [Session -> Stage]
    /\ row \in [Session -> {"running"} \cup Outcome]
    /\ outcome \in [Session -> Outcome \cup {None}]
    /\ \A s \in Session :
          stage[s] \in {"ended", "updated", "saved"} \/ row[s] # "running" => outcome[s] \in Outcome

OutcomesStay == \A s \in Session : outcome[s] \in Outcome => outcome'[s] \in Outcome

LEMMA AdvanceKeeps ==
    ASSUME ServiceInv, NEW s \in Session, Advance(s)
    PROVE  ServiceInv' /\ OutcomesStay
<1>1. ASSUME NEW o \in Outcome, End(s, o)
      PROVE  ServiceInv' /\ OutcomesStay
  BY <1>1 DEF End, ServiceInv, Stage, OutcomesStay
<1>2. ASSUME UpdateRow(s, TRUE)
      PROVE  ServiceInv' /\ OutcomesStay
  BY <1>2 DEF UpdateRow, ServiceInv, Stage, OutcomesStay
<1>3. ASSUME SaveLog(s, TRUE)
      PROVE  ServiceInv' /\ OutcomesStay
  BY <1>3 DEF SaveLog, ServiceInv, Stage, OutcomesStay
<1>4. QED
  BY <1>1, <1>2, <1>3 DEF Advance

\* An end is in the inbox of a socket only after its session has ended.
TellsOfEnd(c) == \E i \in DOMAIN conn[c].inbox : conn[c].inbox[i] # "plan"

InboxInv ==
    \A c \in Conn : TellsOfEnd(c) => conn[c].sid \in Session /\ outcome[conn[c].sid] \in Outcome

\* A step after which the inboxes hold no event that they did not hold before.
NoNewEvent ==
    \A c \in Conn :
        \/ conn'[c].inbox = <<>>
        \/ /\ conn'[c].sid = conn[c].sid
           /\ \/ conn'[c].inbox = conn[c].inbox
              \/ conn[c].inbox # <<>> /\ conn'[c].inbox = Tail(conn[c].inbox)

LEMMA InboxKept ==
    ASSUME StreamInv, InboxInv, NoNewEvent, OutcomesStay
    PROVE  InboxInv'
<1> SUFFICES ASSUME NEW c \in Conn, TellsOfEnd(c)'
             PROVE  conn'[c].sid \in Session /\ outcome'[conn'[c].sid] \in Outcome
  BY DEF InboxInv
<1>1. conn[c].inbox \in Seq(Event)
  BY DEF StreamInv, StreamTypeOK
<1>2. conn'[c].inbox # <<>> /\ \E i \in DOMAIN conn'[c].inbox : conn'[c].inbox[i] # "plan"
  BY DEF TellsOfEnd
<1>3. conn'[c].sid = conn[c].sid /\ TellsOfEnd(c)
  <2>1. CASE conn'[c].sid = conn[c].sid /\ conn'[c].inbox = conn[c].inbox
    BY <1>2, <2>1 DEF TellsOfEnd
  <2>2. CASE /\ conn'[c].sid = conn[c].sid
             /\ conn[c].inbox # <<>> /\ conn'[c].inbox = Tail(conn[c].inbox)
    <3>1. \A i \in DOMAIN Tail(conn[c].inbox) :
             i + 1 \in DOMAIN conn[c].inbox /\ Tail(conn[c].inbox)[i] = conn[c].inbox[i + 1]
      BY <1>1, <2>2
    <3>2. QED
      BY <1>2, <2>2, <3>1 DEF TellsOfEnd
  <2>3. QED
    BY <1>2, <2>1, <2>2 DEF NoNewEvent
<1>4. QED
  BY <1>3 DEF InboxInv, OutcomesStay

OwnStreams == \A c \in Conn : conn[c].at # "free" => conn[c].sid = sessionId

ShownInv == shown \in Outcome => outcome[sessionId] \in Outcome \/ cancelled

ViewInv == StreamInv /\ ServiceInv /\ InboxInv /\ OwnStreams /\ ShownInv

\* A step that leaves the session's service alone, brings no event and moves
\* no stream to another session.
LEMMA QuietView ==
    ASSUME ViewInv, StreamInv', NoNewEvent, UNCHANGED serviceVars, OwnStreams', ShownInv'
    PROVE  ViewInv'
<1>1. OutcomesStay /\ ServiceInv'
  BY DEF ViewInv, ServiceInv, serviceVars, OutcomesStay
<1>2. InboxInv'
  BY <1>1, InboxKept DEF ViewInv
<1>3. QED
  BY <1>1, <1>2 DEF ViewInv

LEMMA StreamsStayOwn == OwnStreams /\ NoNewStream => OwnStreams'
BY DEF OwnStreams, NoNewStream

LEMMA StillView ==
    ASSUME ViewInv, UNCHANGED <<streamVars, serviceVars>>, ShownInv'
    PROVE  ViewInv'
<1>1. StreamInv' /\ OwnStreams' /\ NoNewEvent
  BY DEF ViewInv, StreamInv, StreamTypeOK, OwnStreams, NoNewEvent, streamVars
<1>2. QED
  BY <1>1, QuietView

LEMMA CleanUpView ==
    ASSUME ViewInv, CleanUp \/ UNCHANGED streamVars, UNCHANGED serviceVars, ShownInv'
    PROVE  ViewInv'
<1>1. CASE UNCHANGED streamVars
  BY <1>1, StillView
<1>2. CASE CleanUp
  <2>1. /\ StreamInv' /\ NoNewStream
        /\ \A c \in Conn :
              \/ conn'[c] = conn[c]
              \/ conn'[c] = Free /\ conn[c].at = "timer"
              \/ conn[c].at \in Socket /\ conn'[c].at = "closing" /\ conn'[c].inbox = <<>>
    BY <1>2, CloseKeeps DEF CleanUp, ViewInv
  <2>2. NoNewEvent
    BY <2>1 DEF NoNewEvent, Free
  <2>3. OwnStreams'
    BY <2>1, StreamsStayOwn DEF ViewInv
  <2>4. QED
    BY <2>1, <2>2, <2>3, QuietView
<1>3. QED
  BY <1>1, <1>2

LEMMA UserView == ViewInv /\ User => ViewInv'
<1> SUFFICES ASSUME ViewInv, User PROVE ViewInv'
  OBVIOUS
<1>1. /\ CleanUp \/ UNCHANGED streamVars
      /\ UNCHANGED serviceVars
      /\ shown' = None \/ UNCHANGED <<shown, cancelled>>
  BY DEF User, connectWallet, signIn, leave, signOut, handleConfirm, dataVars, planVars
<1>2. ShownInv'
  BY <1>1, StreamAssumptions DEF ViewInv, ShownInv, serviceVars
<1>3. QED
  BY <1>1, <1>2, CleanUpView

LEMMA AnswersView == ViewInv /\ Answers => ViewInv'
<1> SUFFICES ASSUME ViewInv, Answers PROVE ViewInv'
  OBVIOUS
<1>1. ASSUME NEW l \in Load, loadSession(l)
      PROVE  ViewInv'
  <2>1. sessionId \in Session /\ UNCHANGED serviceVars /\ UNCHANGED cancelled
    BY <1>1, SessionIdAssumption DEF loadSession, planVars
  <2>2. shown' = shown \/ shown' = row[sessionId]
    BY <1>1 DEF loadSession, Set
  <2>3. ShownInv'
    BY <2>1, <2>2 DEF ViewInv, ShownInv, ServiceInv, Outcome, serviceVars
  <2>4. CASE row[sessionId] = "running"
    <3>1. PICK c \in Conn : conn[c] = Free /\ connectStream(c, sessionId)
      BY <1>1, <2>4 DEF loadSession
    <3>2. UNCHANGED <<intentionalClose, published>>
      BY <1>1 DEF loadSession
    <3>3. /\ StreamInv'
          /\ conn'[c] = [at |-> "connecting", sid |-> sessionId, inbox |-> <<>>]
          /\ \A d \in Conn \ {c} : conn'[d] = conn[d] \/ conn'[d] = Free
      BY <2>1, <3>1, <3>2, ConnectKeeps DEF ViewInv
    <3>4. NoNewEvent /\ OwnStreams'
      BY <3>3 DEF NoNewEvent, OwnStreams, ViewInv, Free
    <3>5. QED
      BY <2>1, <2>3, <3>3, <3>4, QuietView
  <2>5. CASE row[sessionId] # "running"
    BY <1>1, <2>1, <2>3, <2>5, StillView DEF loadSession, streamVars
  <2>6. QED
    BY <2>4, <2>5
<1>2. ASSUME NEW l \in Load, loadLog(l) \/ loadFails(l)
      PROVE  ViewInv'
  <2>1. UNCHANGED <<streamVars, serviceVars, shown, cancelled>>
    BY <1>2 DEF loadLog, loadFails, planVars, dataVars
  <2>2. ShownInv'
    BY <2>1 DEF ViewInv, ShownInv, serviceVars
  <2>3. QED
    BY <2>1, <2>2, StillView
<1>3. ASSUME fetchLog
      PROVE  ViewInv'
  <2>1. UNCHANGED <<streamVars, serviceVars, shown, cancelled>>
    BY <1>3 DEF fetchLog, planVars
  <2>2. ShownInv'
    BY <2>1 DEF ViewInv, ShownInv, serviceVars
  <2>3. QED
    BY <2>1, <2>2, StillView
<1>4. ASSUME NEW answered \in BOOLEAN, confirmed(answered)
      PROVE  ViewInv'
  <2>1. UNCHANGED <<serviceVars, intentionalClose, wsRef, reconnectTimer, published>>
    BY <1>4 DEF confirmed
  <2>2. UNCHANGED <<shown, cancelled, conn>> \/ (cancelled' = TRUE /\ conn' = Closing(conn))
    BY <1>4 DEF confirmed
  <2>3. ShownInv'
    BY <2>1, <2>2 DEF ViewInv, ShownInv, serviceVars
  <2>4. CASE UNCHANGED conn
    BY <2>1, <2>3, <2>4, StillView DEF streamVars
  <2>5. CASE conn' = Closing(conn)
    <3>1. intentionalClose' \in BOOLEAN
      BY <2>1 DEF ViewInv, StreamInv, StreamTypeOK
    <3>2. /\ StreamInv' /\ NoNewStream
          /\ \A c \in Conn :
                \/ conn'[c] = conn[c]
                \/ conn'[c] = Free /\ conn[c].at = "timer"
                \/ conn[c].at \in Socket /\ conn'[c].at = "closing" /\ conn'[c].inbox = <<>>
      BY <2>1, <2>5, <3>1, CloseKeeps DEF ViewInv
    <3>3. NoNewEvent
      BY <3>2 DEF NoNewEvent, Free
    <3>4. OwnStreams'
      BY <3>2, StreamsStayOwn DEF ViewInv
    <3>5. QED
      BY <2>1, <2>3, <3>2, <3>3, <3>4, QuietView
  <2>6. QED
    BY <2>2, <2>4, <2>5
<1>5. QED
  BY <1>1, <1>2, <1>3, <1>4 DEF Answers

\* What is served to a socket that opens: the end of a session that is not
\* running.
LEMMA ServeInbox ==
    ASSUME StreamInv, ServiceInv, InboxInv, NEW c \in Conn, serve(c)
    PROVE  InboxInv'
<1> DEFINE s == conn[c].sid
           x == IF row[s] = "running" THEN [conn[c] EXCEPT !.at = "subscribed"]
                ELSE [conn[c] EXCEPT !.at = "served",
                                     !.inbox = IF s \in logged THEN <<"done">> ELSE <<>>]
<1>1. conn \in [Conn -> StreamRecord] /\ conn[c] \in StreamRecord /\ s \in Session
  BY DEF StreamInv, StreamTypeOK, StreamRecord, serve
<1>2. conn' = [conn EXCEPT ![c] = x] /\ outcome' = outcome
  BY DEF serve, serviceVars
<1>3. x.sid = s
  BY <1>1 DEF StreamRecord
<1>4. row[s] = "running" => x.inbox = conn[c].inbox
  BY <1>1 DEF StreamRecord
<1>5. row[s] # "running" => outcome[s] \in Outcome
  BY <1>1 DEF ServiceInv
<1> HIDE DEF x
<1>6. conn'[c] = x /\ \A d \in Conn \ {c} : conn'[d] = conn[d]
  BY <1>1, <1>2
<1>7. ASSUME NEW d \in Conn, TellsOfEnd(d)'
      PROVE  conn'[d].sid \in Session /\ outcome'[conn'[d].sid] \in Outcome
  <2>1. CASE d # c
    <3>1. TellsOfEnd(d)
      BY <1>6, <1>7, <2>1 DEF TellsOfEnd
    <3>2. QED
      BY <1>2, <1>6, <2>1, <3>1 DEF InboxInv
  <2>2. CASE d = c /\ row[s] = "running"
    <3>1. TellsOfEnd(c)
      BY <1>4, <1>6, <1>7, <2>2 DEF TellsOfEnd
    <3>2. QED
      BY <1>1, <1>2, <1>3, <1>6, <2>2, <3>1 DEF InboxInv
  <2>3. CASE d = c /\ row[s] # "running"
    BY <1>1, <1>2, <1>3, <1>5, <1>6, <2>3
  <2>4. QED
    BY <2>1, <2>2, <2>3
<1>8. QED
  BY <1>7 DEF InboxInv

\* What is published is a plan, or the end of a session that has ended.
LEMMA PublishInbox ==
    ASSUME StreamInv, InboxInv, OutcomesStay, NEW s \in Session, NEW e \in Event,
           e = "plan" \/ outcome[s] \in Outcome,
           \A c \in Conn : \/ conn'[c] = conn[c]
                           \/ /\ conn[c].at = "subscribed" /\ conn[c].sid = s
                              /\ conn'[c].at \in Open /\ conn'[c].sid = s
                              /\ conn'[c].inbox = Append(conn[c].inbox, e)
    PROVE  InboxInv'
<1> SUFFICES ASSUME NEW c \in Conn, TellsOfEnd(c)'
             PROVE  conn'[c].sid \in Session /\ outcome'[conn'[c].sid] \in Outcome
  BY DEF InboxInv
<1>1. CASE conn'[c] = conn[c]
  <2>1. TellsOfEnd(c)
    BY <1>1 DEF TellsOfEnd
  <2>2. QED
    BY <1>1, <2>1 DEF InboxInv, OutcomesStay
<1>2. CASE /\ conn[c].sid = s /\ conn'[c].sid = s
           /\ conn'[c].inbox = Append(conn[c].inbox, e)
  <2>1. conn[c].inbox \in Seq(Event)
    BY DEF StreamInv, StreamTypeOK
  <2>2. \A i \in DOMAIN Append(conn[c].inbox, e) :
           \/ i \in DOMAIN conn[c].inbox /\ Append(conn[c].inbox, e)[i] = conn[c].inbox[i]
           \/ Append(conn[c].inbox, e)[i] = e
    BY <2>1
  <2>3. TellsOfEnd(c) \/ e # "plan"
    BY <1>2, <2>2 DEF TellsOfEnd
  <2>4. QED
    BY <1>2, <2>3 DEF InboxInv, OutcomesStay
<1>3. QED
  BY <1>1, <1>2

\* The service moves on, and publishes.
LEMMA ServerView == ViewInv /\ Server => ViewInv'
<1> SUFFICES ASSUME ViewInv, NEW s \in Session, UNCHANGED pageVars,
                    publishPlan(s) \/ publishEnd(s) \/ (Advance(s) /\ UNCHANGED streamVars)
             PROVE  ViewInv'
  BY DEF Server
<1>1. OutcomesStay => ShownInv'
  BY SessionIdAssumption DEF ViewInv, ShownInv, OutcomesStay, pageVars, dataVars, planVars
<1>2. ASSUME NEW e \in Event, Publish(s, e), e = "plan" \/ outcome[s] \in Outcome,
             UNCHANGED <<intentionalClose, wsRef, reconnectTimer, serviceVars>>,
             published' \subseteq Session
      PROVE  ViewInv'
  <2>1. /\ StreamInv' /\ NoNewStream
        /\ \A c \in Conn : \/ conn'[c] = conn[c]
                           \/ /\ conn[c].at = "subscribed" /\ conn[c].sid = s
                              /\ conn'[c].at \in Open /\ conn'[c].sid = s
                              /\ conn'[c].inbox = Append(conn[c].inbox, e)
    BY <1>2, PublishKeeps DEF ViewInv
  <2>2. OutcomesStay /\ ServiceInv'
    BY <1>2 DEF OutcomesStay, ViewInv, ServiceInv, serviceVars
  <2>3. InboxInv'
    BY <1>2, <2>1, <2>2, PublishInbox DEF ViewInv
  <2>4. OwnStreams'
    BY <2>1, StreamsStayOwn DEF ViewInv
  <2>5. QED
    BY <1>1, <2>1, <2>2, <2>3, <2>4 DEF ViewInv
<1>3. CASE publishPlan(s)
  <2>1. published' \subseteq Session
    BY <1>3 DEF publishPlan, ViewInv, StreamInv, StreamTypeOK
  <2>2. QED
    BY <1>2, <1>3, <2>1 DEF publishPlan, Event
<1>4. CASE publishEnd(s)
  <2>1. published' \subseteq Session /\ outcome[s] \in Outcome
    BY <1>4 DEF publishEnd, Forwarding, ViewInv, StreamInv, StreamTypeOK, ServiceInv
  <2>2. QED
    BY <1>2, <1>4, <2>1 DEF publishEnd, Forwarding, Event
<1>5. CASE Advance(s) /\ UNCHANGED streamVars
  <2>1. ServiceInv' /\ OutcomesStay
    BY <1>5, AdvanceKeeps DEF ViewInv
  <2>2. StreamInv' /\ OwnStreams' /\ NoNewEvent
    BY <1>5 DEF ViewInv, StreamInv, StreamTypeOK, OwnStreams, NoNewEvent, streamVars
  <2>3. QED
    BY <1>1, <2>1, <2>2, InboxKept DEF ViewInv
<1>6. QED
  BY <1>3, <1>4, <1>5

LEMMA MessageView ==
    ASSUME ViewInv, NEW c \in Conn, onmessage(c)
    PROVE  ViewInv'
<1> DEFINE e == Head(conn[c].inbox)
<1>1. /\ conn[c].at \in Open /\ conn[c].inbox # <<>> /\ conn[c].inbox \in Seq(Event)
      /\ UNCHANGED <<wsRef, reconnectTimer, published, serviceVars, cancelled>>
  BY DEF onmessage, ViewInv, StreamInv, StreamTypeOK
<1>2. \/ /\ conn' = [conn EXCEPT ![c].inbox = Tail(@)]
         /\ UNCHANGED <<shown, intentionalClose>>
      \/ /\ e # "plan" /\ intentionalClose' = TRUE
         /\ conn' = [conn EXCEPT ![c] = [@ EXCEPT !.at = "closing", !.inbox = <<>>]]
  BY DEF onmessage
<1>3. /\ \/ conn' = [conn EXCEPT ![c].inbox = Tail(@)]
         \/ conn' = [conn EXCEPT ![c] = [@ EXCEPT !.at = "closing", !.inbox = <<>>]]
      /\ intentionalClose' \in BOOLEAN
  BY <1>2 DEF ViewInv, StreamInv, StreamTypeOK
<1>4. StreamInv' /\ NoNewStream
  BY <1>1, <1>3, MessageKeeps DEF ViewInv
<1>5. conn[c].sid = sessionId
  BY <1>1 DEF ViewInv, OwnStreams, Open
<1>6. NoNewEvent
  <2>1. conn \in [Conn -> StreamRecord]
    BY DEF ViewInv, StreamInv, StreamTypeOK, StreamRecord
  <2>2. QED
    BY <1>1, <1>3, <2>1 DEF NoNewEvent, StreamRecord
<1>7. e # "plan" => outcome[sessionId] \in Outcome
  <2>1. 1 \in DOMAIN conn[c].inbox /\ conn[c].inbox[1] = e
    BY <1>1
  <2>2. QED
    BY <1>5, <2>1 DEF ViewInv, InboxInv, TellsOfEnd
<1>8. ShownInv'
  BY <1>1, <1>2, <1>7 DEF ViewInv, ShownInv, serviceVars
<1>9. OwnStreams'
  BY <1>4, StreamsStayOwn DEF ViewInv
<1>10. QED
  BY <1>1, <1>4, <1>6, <1>8, <1>9, QuietView

\* The check and the fetch of the log of a stream that was lost.
LEMMA RecheckView ==
    ASSUME ViewInv, NEW c \in Conn, recheckLog(c) \/ \E ok \in BOOLEAN : recheck(c, ok)
    PROVE  ViewInv'
<1>1. conn \in [Conn -> StreamRecord] /\ conn[c].at \in {"checking", "log"}
  BY DEF recheckLog, recheck, ViewInv, StreamInv, StreamTypeOK, StreamRecord
<1>2. UNCHANGED <<serviceVars, intentionalClose, published, cancelled>>
  BY DEF recheckLog, recheck, planVars
<1>3. shown' = shown \/ shown' = row[sessionId]
  BY DEF recheckLog, recheck, Set
<1>4. ShownInv'
  BY <1>2, <1>3, SessionIdAssumption DEF ViewInv, ShownInv, ServiceInv, Outcome, serviceVars
<1>5. CASE connectStream(c, sessionId)
  <2>1. /\ StreamInv'
        /\ conn'[c] = [at |-> "connecting", sid |-> sessionId, inbox |-> <<>>]
        /\ \A d \in Conn \ {c} : conn'[d] = conn[d] \/ conn'[d] = Free
    BY <1>2, <1>5, ConnectKeeps, SessionIdAssumption DEF ViewInv
  <2>2. NoNewEvent /\ OwnStreams'
    BY <2>1 DEF NoNewEvent, OwnStreams, ViewInv, Free
  <2>3. QED
    BY <1>2, <1>4, <2>1, <2>2, QuietView
<1>6. ASSUME NEW x \in {Free, [conn[c] EXCEPT !.at = "log"]}, conn' = [conn EXCEPT ![c] = x],
             UNCHANGED <<wsRef, reconnectTimer>>
      PROVE  ViewInv'
  <2>1. /\ x \in StreamRecord /\ (x.at # "free" => x.sid = conn[c].sid)
        /\ x.at = "free" => x = Free
        /\ x.inbox = <<>> \/ (x.inbox = conn[c].inbox /\ x.sid = conn[c].sid)
    <3>1. Free \in StreamRecord /\ Free.at = "free" /\ Free.inbox = <<>>
      BY FreeIsStream DEF Free
    <3>2. conn[c] \in StreamRecord
      BY <1>1
    <3> DEFINE y == [conn[c] EXCEPT !.at = "log"]
    <3>3. /\ y \in StreamRecord /\ y.sid = conn[c].sid /\ y.inbox = conn[c].inbox
          /\ y.at = "log"
      BY <3>2 DEF StreamRecord
    <3> HIDE DEF y
    <3>4. x = Free \/ x = y
      BY <1>6 DEF y
    <3>5. QED
      BY <3>1, <3>3, <3>4
  <2>2. wsRef # c /\ reconnectTimer # c
    BY <1>1 DEF ViewInv, StreamInv, Socket, Open
  <2>3. intentionalClose' \in BOOLEAN /\ published' \subseteq Session
    BY <1>2 DEF ViewInv, StreamInv, StreamTypeOK
  <2>4. StreamInv' /\ NoNewStream
    BY <1>1, <1>6, <2>1, <2>2, <2>3, OneMoves DEF ViewInv
  <2>5. NoNewEvent
    BY <1>1, <1>6, <2>1 DEF NoNewEvent
  <2>6. OwnStreams'
    BY <2>4, StreamsStayOwn DEF ViewInv
  <2>7. QED
    BY <1>2, <1>4, <2>4, <2>5, <2>6, QuietView
<1>7. CASE recheckLog(c)
  BY <1>6, <1>7 DEF recheckLog
<1>8. ASSUME NEW ok \in BOOLEAN, recheck(c, ok)
      PROVE  ViewInv'
  BY <1>5, <1>6, <1>8 DEF recheck
<1>9. QED
  BY <1>7, <1>8

LEMMA StreamView == ViewInv /\ Stream => ViewInv'
<1> SUFFICES ASSUME ViewInv, NEW c \in Conn,
                    \/ onopen(c) \/ onmessage(c) \/ onclose(c) \/ recheckLog(c)
                    \/ \E ok \in BOOLEAN : recheck(c, ok)
                    \/ fire(c) /\ UNCHANGED pageVars
             PROVE  ViewInv'
  BY DEF Stream
<1>1. conn \in [Conn -> StreamRecord]
  BY DEF ViewInv, StreamInv, StreamTypeOK, StreamRecord
<1>2. ASSUME UNCHANGED <<shown, cancelled, serviceVars>>
      PROVE  ShownInv'
  BY <1>2 DEF ViewInv, ShownInv, serviceVars
<1>3. CASE onopen(c)
  <2>1. /\ serve(c) /\ UNCHANGED <<shown, cancelled, serviceVars>>
    BY <1>3 DEF onopen, serve, dataVars, planVars
  <2>2. StreamInv' /\ NoNewStream /\ InboxInv'
    BY <2>1, ServeKeeps, ServeInbox DEF ViewInv
  <2>3. ServiceInv'
    BY <2>1 DEF ViewInv, ServiceInv, serviceVars
  <2>4. QED
    BY <1>2, <2>1, <2>2, <2>3, StreamsStayOwn DEF ViewInv
<1>4. CASE onclose(c)
  <2>1. /\ conn[c].at \in Socket
        /\ UNCHANGED <<shown, cancelled, serviceVars, intentionalClose, published>>
        /\ wsRef' = IF wsRef = c THEN None ELSE wsRef
        /\ \/ scheduleReconnect(c)
           \/ conn' = [conn EXCEPT ![c] = Free] /\ UNCHANGED reconnectTimer
    BY <1>4 DEF onclose, dataVars, planVars
  <2>2. StreamInv' /\ NoNewStream
    <3>1. CASE scheduleReconnect(c)
      BY <2>1, <3>1, ScheduleKeeps DEF ViewInv
    <3>2. CASE conn' = [conn EXCEPT ![c] = Free] /\ UNCHANGED reconnectTimer
      <4>1. conn[c].at \notin {"free", "timer"} /\ (wsRef' = None \/ (wsRef' = wsRef /\ wsRef # c))
        BY <2>1 DEF Socket, Open
      <4>2. QED
        BY <2>1, <3>2, <4>1, FreeKeeps DEF ViewInv
    <3>3. QED
      BY <2>1, <3>1, <3>2
  <2>3. NoNewEvent
    <3>1. conn[c] \in StreamRecord
      BY <1>1
    <3>2. Free.inbox = <<>> /\ [conn[c] EXCEPT !.at = "timer", !.inbox = <<>>].inbox = <<>>
      BY <3>1 DEF Free, StreamRecord
    <3>3. \E x : x.inbox = <<>> /\ conn' = [conn EXCEPT ![c] = x]
      BY <2>1, <3>2 DEF scheduleReconnect
    <3>4. QED
      BY <1>1, <3>3 DEF NoNewEvent
  <2>4. QED
    BY <1>2, <2>1, <2>2, <2>3, StreamsStayOwn, QuietView DEF ViewInv
<1>5. CASE fire(c) /\ UNCHANGED pageVars
  <2>1. StreamInv' /\ NoNewStream /\ UNCHANGED <<shown, cancelled, serviceVars>>
    BY <1>5, FireKeeps DEF ViewInv, fire, pageVars, dataVars, planVars
  <2>2. NoNewEvent
    BY <1>1, <1>5 DEF NoNewEvent, fire, Free, StreamRecord
  <2>3. QED
    BY <1>2, <2>1, <2>2, StreamsStayOwn, QuietView DEF ViewInv
<1>6. QED
  BY <1>3, <1>4, <1>5, MessageView, RecheckView

LEMMA InitView == Init => ViewInv
<1> SUFFICES ASSUME Init PROVE ViewInv
  OBVIOUS
<1>1. StreamInv /\ \A c \in Conn : conn[c] = Free
  BY StreamsStart DEF Init, StreamInit
<1>2. ServiceInv
  BY StreamAssumptions DEF Init, ServiceInv, Stage, Outcome
<1>3. InboxInv /\ OwnStreams
  BY <1>1 DEF InboxInv, TellsOfEnd, OwnStreams, Free
<1>4. ShownInv
  BY StreamAssumptions DEF Init, ShownInv
<1>5. QED
  BY <1>1, <1>2, <1>3, <1>4 DEF ViewInv

LEMMA NextView == ViewInv /\ [Next]_vars => ViewInv'
<1>1. ASSUME ViewInv, UNCHANGED vars PROVE ViewInv'
  <2>1. UNCHANGED <<streamVars, serviceVars>> /\ ShownInv'
    BY <1>1 DEF vars, pageVars, dataVars, planVars, ViewInv, ShownInv, serviceVars
  <2>2. QED
    BY <1>1, <2>1, StillView
<1>2. QED
  BY <1>1, UserView, AnswersView, StreamView, ServerView DEF Next

LEMMA ViewHolds == Spec => []ViewInv
BY InitView, NextView, PTL DEF Spec

\* For any sessions, streams and loads, whichever of a late load, a check and
\* an event told the page last, a session that it shows as over has ended, or
\* the user has cancelled its plan.
THEOREM ShownEndsAreEnds == Spec => []EndShownIsEnd
<1>1. ViewInv => EndShownIsEnd
  BY StreamAssumptions DEF ViewInv, ShownInv, EndShownIsEnd
<1>2. QED
  BY <1>1, ViewHolds, PTL

-----------------------------------------------------------------------------
(* The session page: it never seems live when nothing more can arrive. *)

Vacant == \A c \in Conn : conn[c].at = "free"
Idle == \A l \in Load : load[l] \in {"none", "over"}

\* Of a page that was signed in once: it has one stream at most, none while it
\* loads, and none that goes on once it has closed its stream on purpose.
Honest ==
    /\ \A c, d \in Conn : conn[c].at # "free" /\ conn[d].at # "free" => c = d
    /\ intentionalClose \/ ~Vacant => Idle
    /\ intentionalClose =>
          wsStatus = "disconnected" /\ \A c \in Conn : conn[c].at \in {"free", "closing"}
    /\ \A c \in Conn : conn[c].at = "log" => wsStatus = "disconnected"
    /\ Vacant => wsStatus = "disconnected" \/ shown # "running"

SignedInOnce == mounted /\ isAuthenticated /\ LoadedOnce

\* A page that has not loaded yet has no stream.
Fresh ==
    (\A l \in Load : load[l] = "none") =>
        Vacant /\ ~intentionalClose /\ shown # "running" /\ ~isAuthenticated

StatusInv ==
    /\ ViewInv
    /\ load \in [Load -> {"none", "session", "log", "over"}]
    /\ Fresh
    /\ SignedInOnce => Honest

\* The page's one stream c moves to another place.
LEMMA OneHonest ==
    ASSUME Honest, NEW c \in Conn, conn[c].at # "free", UNCHANGED load,
           \A d \in Conn \ {c} : conn'[d].at # "free" => conn[d].at # "free",
           intentionalClose' => wsStatus' = "disconnected" /\ conn'[c].at \in {"free", "closing"},
           conn'[c].at = "log" => wsStatus' = "disconnected",
           conn'[c].at = "free" => wsStatus' = "disconnected" \/ shown' # "running"
    PROVE  Honest'
<1>1. \A d \in Conn \ {c} : conn'[d].at = "free"
  BY DEF Honest
<1>2. Idle /\ Idle'
  BY DEF Honest, Vacant, Idle
<1>3. QED
  BY <1>1, <1>2 DEF Honest, Vacant

\* Nothing of the stream changes, and the page does not go to show a session
\* that runs.
LEMMA StillHonest ==
    ASSUME Honest, UNCHANGED <<intentionalClose, wsStatus>>,
           \A c \in Conn : conn'[c].at = conn[c].at,
           \A l \in Load : load'[l] \in {"none", "over"} \/ load'[l] = load[l]
                           \/ (load[l] = "session" /\ load'[l] = "log"),
           shown' = shown \/ shown' # "running"
    PROVE  Honest'
<1>1. Vacant' <=> Vacant
  BY DEF Vacant
<1>2. Idle => Idle'
  BY DEF Idle
<1>3. QED
  BY <1>1, <1>2 DEF Honest

\* A page that is signed in once was so before, unless it signs in.
LEMMA OnceBefore ==
    ASSUME load \in [Load -> {"none", "session", "log", "over"}], SignedInOnce',
           \A l \in Load : load'[l] = "none" => load[l] = "none",
           mounted' => mounted, isAuthenticated' => isAuthenticated
    PROVE  SignedInOnce
BY DEF SignedInOnce, LoadedOnce

LEMMA UserHonest ==
    ASSUME StatusInv, User
    PROVE  StatusInv'
<1> USE DEF StatusInv
<1>1. ViewInv'
  BY UserView
<1>2. CASE signIn
  <2>1. PICK l \in Load : load[l] = "none" /\ load' = [load EXCEPT ![l] = "session"]
    BY <1>2 DEF signIn
  <2>2. /\ load' \in [Load -> {"none", "session", "log", "over"}] /\ Fresh'
        /\ load'[l] = "session"
    BY <2>1 DEF Fresh
  <2>3. ASSUME SignedInOnce' PROVE Honest'
    <3>1. \A m \in Load : load[m] = "none"
      BY <2>1, <2>2, <2>3 DEF SignedInOnce, LoadedOnce
    <3>2. Vacant /\ ~intentionalClose /\ shown # "running"
      BY <3>1 DEF Fresh
    <3>3. UNCHANGED <<conn, intentionalClose, shown, wsStatus>>
      BY <1>2 DEF signIn, streamVars, dataVars
    <3>4. Vacant'
      BY <3>2, <3>3 DEF Vacant
    <3>5. QED
      BY <3>2, <3>3, <3>4 DEF Honest, Vacant
  <2>4. QED
    BY <1>1, <2>2, <2>3
<1>3. CASE connectWallet \/ \E approved \in BOOLEAN : handleConfirm(approved)
  <2>1. UNCHANGED <<load, conn, intentionalClose, shown, wsStatus, isAuthenticated, mounted>>
    BY <1>3 DEF connectWallet, handleConfirm, loadVars, streamVars, dataVars, authVars
  <2>2. Fresh' /\ (SignedInOnce' => SignedInOnce)
    BY <2>1 DEF Fresh, Vacant, SignedInOnce, LoadedOnce
  <2>3. Honest => Honest'
    BY <2>1, StillHonest
  <2>4. QED
    BY <1>1, <2>1, <2>2, <2>3
<1>4. CASE leave \/ \E disconnected \in BOOLEAN : signOut(disconnected)
  <2>1. UNCHANGED load /\ ~isAuthenticated'
    BY <1>4 DEF leave, signOut
  <2>2. isAuthenticated \/ (UNCHANGED streamVars /\ shown' = None)
    BY <1>4 DEF leave, signOut
  <2>3. Fresh'
    BY <2>1, <2>2, StreamAssumptions DEF Fresh, Vacant, streamVars
  <2>4. QED
    BY <1>1, <2>1, <2>3 DEF SignedInOnce
<1>5. QED
  BY <1>2, <1>3, <1>4 DEF User

LEMMA LoadHonest ==
    ASSUME StatusInv, NEW l \in Load, loadSession(l)
    PROVE  StatusInv'
<1> USE DEF StatusInv
<1>1. ViewInv'
  BY AnswersView DEF Answers
<1>2. /\ load[l] = "session" /\ UNCHANGED <<mounted, isAuthenticated, intentionalClose>>
      /\ shown' = IF mounted THEN row[sessionId] ELSE shown
      /\ \E x \in {"over", "log"} : load' = [load EXCEPT ![l] = x]
      /\ conn \in [Conn -> StreamRecord]
  BY DEF loadSession, authVars, Set, ViewInv, StreamInv, StreamTypeOK, StreamRecord
<1>3. /\ load' \in [Load -> {"none", "session", "log", "over"}] /\ load'[l] \in {"over", "log"}
      /\ \A m \in Load \ {l} : load'[m] = load[m]
  BY <1>2
<1>4. Fresh'
  BY <1>3 DEF Fresh
<1>5. ASSUME SignedInOnce' PROVE Honest'
  <2>1. SignedInOnce
    BY <1>2, <1>3, <1>5, OnceBefore
  <2>2. Vacant /\ ~intentionalClose
    BY <1>2, <2>1 DEF Honest, Idle
  <2>3. CASE row[sessionId] = "running"
    <3>1. PICK c \in Conn : conn[c] = Free /\ connectStream(c, sessionId)
      BY <2>3 DEF loadSession
    <3>2. /\ wsStatus' = "connecting" /\ load'[l] = "over"
      BY <1>2, <2>1, <2>3 DEF loadSession, Set, SignedInOnce
    <3>3. /\ conn'[c].at = "connecting"
          /\ \A d \in Conn \ {c} : conn'[d].at = "free"
      <4>1. UNCHANGED <<intentionalClose, published>>
        BY DEF loadSession
      <4>2. /\ conn'[c] = [at |-> "connecting", sid |-> sessionId, inbox |-> <<>>]
            /\ \A d \in Conn \ {c} : conn'[d] = conn[d] \/ conn'[d] = Free
        BY <3>1, <4>1, ConnectKeeps, SessionIdAssumption DEF ViewInv
      <4>3. QED
        BY <2>2, <4>2 DEF Vacant, Free
    <3>4. Idle'
      BY <1>2, <1>3, <2>1, <3>2 DEF SignedInOnce, LoadedOnce, Idle
    <3>5. QED
      BY <1>2, <2>2, <3>2, <3>3, <3>4 DEF Honest, Vacant
  <2>4. CASE row[sessionId] # "running"
    <3>1. UNCHANGED <<conn, wsStatus>> /\ load'[l] = "log" /\ shown' # "running"
      BY <1>2, <1>3, <2>1, <2>4 DEF loadSession, SignedInOnce
    <3>2. QED
      BY <1>2, <1>3, <2>1, <3>1, StillHonest
  <2>5. QED
    BY <2>3, <2>4
<1>6. QED
  BY <1>1, <1>3, <1>4, <1>5

LEMMA AnswersHonest ==
    ASSUME StatusInv, Answers
    PROVE  StatusInv'
<1> USE DEF StatusInv
<1>1. ViewInv'
  BY AnswersView
<1>2. ASSUME NEW l \in Load, loadLog(l) \/ loadFails(l)
      PROVE  StatusInv'
  <2>1. /\ UNCHANGED <<mounted, isAuthenticated, streamVars, shown, wsStatus>>
        /\ load[l] \in {"session", "log"} /\ load' = [load EXCEPT ![l] = "over"]
    BY <1>2 DEF loadLog, loadFails, authVars, dataVars
  <2>2. /\ load' \in [Load -> {"none", "session", "log", "over"}] /\ load'[l] = "over"
        /\ \A m \in Load \ {l} : load'[m] = load[m]
    BY <2>1
  <2>3. Fresh'
    BY <2>2 DEF Fresh
  <2>4. SignedInOnce' => SignedInOnce
    BY <2>1, <2>2, OnceBefore
  <2>5. Honest => Honest'
    BY <2>1, <2>2, StillHonest DEF streamVars
  <2>6. QED
    BY <1>1, <2>2, <2>3, <2>4, <2>5
<1>3. ASSUME UNCHANGED <<mounted, isAuthenticated, load, wsStatus, intentionalClose>>,
             shown' = shown \/ shown' # "running", \A c \in Conn : conn'[c].at = conn[c].at
      PROVE  StatusInv'
  <2>1. Fresh' /\ (SignedInOnce' => SignedInOnce)
    BY <1>3 DEF Fresh, Vacant, SignedInOnce, LoadedOnce
  <2>2. Honest => Honest'
    BY <1>3, StillHonest
  <2>3. QED
    BY <1>1, <1>3, <2>1, <2>2
<1>4. CASE fetchLog
  BY <1>3, <1>4 DEF fetchLog, authVars, loadVars, streamVars
<1>5. ASSUME NEW answered \in BOOLEAN, confirmed(answered)
      PROVE  StatusInv'
  <2>1. /\ UNCHANGED <<mounted, isAuthenticated, load, wsStatus, intentionalClose, wsRef,
                       reconnectTimer, published>>
        /\ shown' = shown \/ shown' # "running"
        /\ UNCHANGED conn \/ conn' = Closing(conn)
    BY <1>5, StreamAssumptions DEF confirmed, authVars, loadVars
  <2>2. CASE UNCHANGED conn
    BY <1>3, <2>1, <2>2
  <2>3. CASE conn' = Closing(conn)
    <3>1. intentionalClose' \in BOOLEAN
      BY <2>1 DEF ViewInv, StreamInv, StreamTypeOK
    <3>2. \A c \in Conn :
             \/ conn'[c] = conn[c]
             \/ conn'[c] = Free /\ conn[c].at = "timer"
             \/ conn[c].at \in Socket /\ conn'[c].at = "closing" /\ conn'[c].inbox = <<>>
      BY <2>1, <2>3, <3>1, CloseKeeps DEF ViewInv
    <3>3. \A c \in Conn : conn'[c].at = conn[c].at
                          \/ (conn[c].at \in Socket /\ conn'[c].at = "closing")
      <4> TAKE c \in Conn
      <4>1. c # wsRef => conn'[c] = conn[c]
        BY <2>3 DEF Closing
      <4>2. c = wsRef => conn[c].at \in Socket /\ conn[c].at # "timer"
        BY DEF ViewInv, StreamInv, Socket, Open
      <4>3. QED
        BY <3>2, <4>1, <4>2
    <3>4. Vacant' <=> Vacant
      BY <3>3 DEF Vacant, Socket, Open
    <3>5. Fresh' /\ (SignedInOnce' => SignedInOnce)
      BY <2>1, <3>4 DEF Fresh, SignedInOnce, LoadedOnce
    <3>6. Honest => Honest'
      BY <2>1, <3>3, <3>4 DEF Honest, Vacant, Idle, Socket, Open
    <3>7. QED
      BY <1>1, <2>1, <3>5, <3>6
  <2>4. QED
    BY <2>1, <2>2, <2>3
<1>6. QED
  BY <1>2, <1>4, <1>5, LoadHonest DEF Answers

LEMMA StreamHonest ==
    ASSUME StatusInv, Stream
    PROVE  StatusInv'
<1> USE DEF StatusInv
<1>1. ViewInv'
  BY StreamView
<1>2. PICK c \in Conn : \/ onopen(c) \/ onmessage(c) \/ onclose(c) \/ recheckLog(c)
                        \/ \E ok \in BOOLEAN : recheck(c, ok)
                        \/ fire(c) /\ UNCHANGED pageVars
  BY DEF Stream
<1>3. conn[c].at # "free" /\ UNCHANGED <<mounted, isAuthenticated, load>>
  BY <1>2 DEF onopen, serve, onmessage, onclose, recheckLog, recheck, fire, pageVars, authVars,
              loadVars, Socket, Open
<1>4. Fresh' /\ (SignedInOnce' => SignedInOnce)
  BY <1>3 DEF Fresh, Vacant, SignedInOnce, LoadedOnce
<1>5. conn \in [Conn -> StreamRecord] /\ conn[c] \in StreamRecord
  BY DEF ViewInv, StreamInv, StreamTypeOK, StreamRecord
<1>6. ASSUME SignedInOnce, Honest
      PROVE  Honest'
  <2>1. mounted
    BY <1>6 DEF SignedInOnce
  \* The stream moves, or is dropped, and the page says what has become of it.
  <2>2. ASSUME NEW x, conn' = [conn EXCEPT ![c] = x],
               intentionalClose' => wsStatus' = "disconnected" /\ x.at \in {"free", "closing"},
               x.at = "log" => wsStatus' = "disconnected",
               x.at = "free" => wsStatus' = "disconnected" \/ shown' # "running"
        PROVE  Honest'
    <3>1. conn'[c] = x /\ \A d \in Conn \ {c} : conn'[d] = conn[d]
      BY <1>5, <2>2
    <3>2. QED
      BY <1>3, <1>6, <2>2, <3>1, OneHonest
  <2>3. CASE onopen(c)
    <3>1. /\ wsStatus' = "connected" /\ ~intentionalClose /\ UNCHANGED intentionalClose
      BY <1>6, <2>1, <2>3 DEF onopen, serve, Set, Honest
    <3>2. \E x : conn' = [conn EXCEPT ![c] = x] /\ x.at \in {"subscribed", "served"}
      <4>1. /\ [conn[c] EXCEPT !.at = "subscribed"].at = "subscribed"
            /\ \A i : [conn[c] EXCEPT !.at = "served", !.inbox = i].at = "served"
        BY <1>5 DEF StreamRecord
      <4>2. QED
        BY <2>3, <4>1 DEF onopen, serve
    <3>3. QED
      BY <2>2, <3>1, <3>2
  <2>4. CASE onmessage(c)
    <3>1. conn[c].at \in Open /\ ~intentionalClose
      BY <1>6, <2>4 DEF onmessage, Honest, Open
    <3>2. CASE /\ conn' = [conn EXCEPT ![c].inbox = Tail(@)]
               /\ UNCHANGED <<intentionalClose>>
      <4> DEFINE x == [conn[c] EXCEPT !.inbox = Tail(@)]
      <4>1. x.at = conn[c].at
        BY <1>5 DEF StreamRecord
      <4>2. conn' = [conn EXCEPT ![c] = x]
        BY <3>2
      <4> HIDE DEF x
      <4>3. QED
        BY <2>2, <3>1, <3>2, <4>1, <4>2 DEF Open
    <3>3. CASE /\ conn' = [conn EXCEPT ![c] = [@ EXCEPT !.at = "closing", !.inbox = <<>>]]
               /\ wsStatus' = "disconnected"
      <4> DEFINE x == [conn[c] EXCEPT !.at = "closing", !.inbox = <<>>]
      <4>1. x.at = "closing"
        BY <1>5 DEF StreamRecord
      <4>2. conn' = [conn EXCEPT ![c] = x]
        BY <3>3
      <4> HIDE DEF x
      <4>3. QED
        BY <2>2, <3>3, <4>1, <4>2
    <3>4. QED
      BY <2>1, <2>4, <3>2, <3>3 DEF onmessage, Set
  <2>5. CASE onclose(c)
    <3>1. UNCHANGED intentionalClose
      BY <2>5 DEF onclose
    <3>2. CASE ~intentionalClose
      <4> DEFINE x == [conn[c] EXCEPT !.at = "timer", !.inbox = <<>>]
      <4>1. x.at = "timer"
        BY <1>5 DEF StreamRecord
      <4>2. conn' = [conn EXCEPT ![c] = x]
        BY <2>5, <3>2 DEF onclose, scheduleReconnect
      <4> HIDE DEF x
      <4>3. QED
        BY <2>2, <3>1, <3>2, <4>1, <4>2
    <3>3. CASE intentionalClose
      BY <1>6, <2>2, <2>5, <3>1, <3>3 DEF onclose, Free, Honest
    <3>4. QED
      BY <3>2, <3>3
  <2>6. CASE recheckLog(c)
    BY <1>6, <2>2, <2>6 DEF recheckLog, Free, Honest
  <2>7. ASSUME NEW ok \in BOOLEAN, recheck(c, ok)
        PROVE  Honest'
    <3>1. ~intentionalClose /\ UNCHANGED <<intentionalClose, published>>
      BY <1>6, <2>7 DEF recheck, Honest
    <3>2. CASE connectStream(c, sessionId)
      <4>1. /\ conn'[c] = [at |-> "connecting", sid |-> sessionId, inbox |-> <<>>]
            /\ \A d \in Conn \ {c} : conn'[d] = conn[d] \/ conn'[d] = Free
        BY <3>1, <3>2, ConnectKeeps, SessionIdAssumption DEF ViewInv
      <4>2. QED
        BY <1>3, <1>6, <3>1, <4>1, OneHonest DEF Free
    <3>3. CASE /\ conn' = [conn EXCEPT ![c] = IF ok THEN [@ EXCEPT !.at = "log"] ELSE Free]
               /\ wsStatus' = "disconnected"
      BY <2>2, <3>1, <3>3
    <3>4. QED
      BY <2>1, <2>7, <3>2, <3>3 DEF recheck, Set
  <2>8. CASE fire(c) /\ UNCHANGED pageVars
    <3>1. ~intentionalClose /\ UNCHANGED intentionalClose
      BY <1>6, <2>8 DEF fire, Honest
    <3> DEFINE x == [conn[c] EXCEPT !.at = "checking"]
    <3>2. x.at = "checking"
      BY <1>5 DEF StreamRecord
    <3>3. conn' = [conn EXCEPT ![c] = x]
      BY <2>8, <3>1 DEF fire
    <3> HIDE DEF x
    <3>4. QED
      BY <2>2, <3>1, <3>2, <3>3
  <2>9. QED
    BY <1>2, <2>3, <2>4, <2>5, <2>6, <2>7, <2>8
<1>7. QED
  BY <1>1, <1>3, <1>4, <1>6

LEMMA ServerHonest ==
    ASSUME StatusInv, Server
    PROVE  StatusInv'
<1> USE DEF StatusInv
<1>1. ViewInv'
  BY ServerView
<1>2. UNCHANGED <<mounted, isAuthenticated, load, wsStatus, shown, intentionalClose>>
  BY DEF Server, pageVars, authVars, loadVars, dataVars, publishPlan, publishEnd, streamVars
<1>3. PICK s \in Session : publishPlan(s) \/ publishEnd(s) \/ UNCHANGED streamVars
  BY DEF Server
<1>4. \A c \in Conn : \/ conn'[c].at = conn[c].at
                      \/ conn[c].at \in Open /\ conn'[c].at \in Open
  <2>1. ASSUME NEW e \in Event, Publish(s, e),
               UNCHANGED <<intentionalClose, wsRef, reconnectTimer>>, published' \subseteq Session
        PROVE  \A c \in Conn : \/ conn'[c].at = conn[c].at
                               \/ conn[c].at \in Open /\ conn'[c].at \in Open
    BY <2>1, PublishKeeps DEF ViewInv, Open
  <2>2. published \subseteq Session
    BY DEF ViewInv, StreamInv, StreamTypeOK
  <2>3. QED
    BY <1>3, <2>1, <2>2 DEF publishPlan, publishEnd, streamVars, Event
<1>5. Vacant' <=> Vacant
  BY <1>4 DEF Vacant, Open
<1>6. Fresh' /\ (SignedInOnce' => SignedInOnce)
  BY <1>2, <1>5 DEF Fresh, SignedInOnce, LoadedOnce
<1>7. Honest => Honest'
  BY <1>2, <1>4, <1>5 DEF Honest, Vacant, Idle, Open
<1>8. QED
  BY <1>1, <1>2, <1>6, <1>7

LEMMA StatusHolds == Spec => []StatusInv
<1>1. Init => StatusInv
  <2> SUFFICES ASSUME Init PROVE StatusInv
    OBVIOUS
  <2>1. load \in [Load -> {"none", "session", "log", "over"}] /\ ~SignedInOnce
    BY DEF Init, SignedInOnce
  <2>2. Fresh
    BY StreamAssumptions DEF Init, StreamInit, Free, Fresh, Vacant
  <2>3. ViewInv
    BY InitView
  <2>4. QED
    BY <2>1, <2>2, <2>3 DEF StatusInv
<1>2. StatusInv /\ [Next]_vars => StatusInv'
  <2>1. ASSUME StatusInv, UNCHANGED vars PROVE StatusInv'
    <3>1. ViewInv'
      BY <2>1, NextView DEF StatusInv
    <3>2. UNCHANGED <<mounted, isAuthenticated, load, wsStatus, shown, intentionalClose, conn>>
      BY <2>1 DEF vars, pageVars, authVars, loadVars, dataVars, streamVars
    <3>3. QED
      BY <2>1, <3>1, <3>2 DEF StatusInv, Fresh, Vacant, SignedInOnce, LoadedOnce, Honest, Idle
  <2>2. QED
    BY <2>1, UserHonest, AnswersHonest, StreamHonest, ServerHonest DEF Next
<1>3. QED
  BY <1>1, <1>2, PTL DEF Spec

\* For any streams and sizes of channels, a page that was signed in once and
\* shows a session that runs, and does not say that it is disconnected, has a
\* socket or a timer.
THEOREM BadgeIsHonest == Spec => []StatusIsHonest
<1>1. StatusInv => StatusIsHonest
  BY DEF StatusInv, SignedInOnce, Honest, Vacant, StatusIsHonest, LivePanel, SessionView
<1>2. QED
  BY <1>1, StatusHolds, PTL

-----------------------------------------------------------------------------
(* The deploy page: one stream per session, and no launch is given up. *)

CONSTANT MaxScans

VARIABLES phase, phaseRef, settled, scan, reposLoading, scans, launch, team, shownSession, confirm

D == INSTANCE DeployPage WITH sessionId <- shownSession

\* A session is streamed once its launch is over, by one stream.
LaunchInv ==
    /\ launch \in [Session -> {"none", "team", "post", "pay", "created", "over"}]
    /\ \A c \in Conn : conn[c].at # "free" => launch[conn[c].sid] = "over"
    /\ OneStreamPerSession

\* A page that is shown an end, or has closed its stream on purpose, is settled.
SettledInv ==
    mounted /\ (phase \in {"done", "error"} \/ phaseRef \in {"done", "error"} \/ intentionalClose)
       => settled

\* The phases of a session and the answer to its plan follow a launch.
BegunInv == D!Launched = {} => ~D!isLivePhase /\ confirm = None

\* The only launch is followed until it is settled, while it is shown to run
\* or an answer to its plan may show it so.
FollowedInv ==
    /\ mounted /\ ~settled /\ Cardinality(D!Launched) = 1
    /\ D!isLivePhase \/ confirm # None
    => ~Vacant

DeployInv ==
    /\ StreamInv /\ LaunchInv
    /\ settled \in BOOLEAN
    /\ SettledInv /\ BegunInv /\ FollowedInv
    /\ IsFiniteSet(D!Launched)

\* How the phases change in a step that launches nothing.
PhaseStep ==
    \/ UNCHANGED <<phase, phaseRef, settled>>
    \/ UNCHANGED <<phase, settled>> /\ phaseRef' = phase
    \/ /\ phaseRef' = phase /\ phase' # "creating"
       /\ settled' = (settled \/ phase' \in {"done", "error"})

LEMMA SetPhaseStep ==
    ASSUME NEW p, p # "creating", D!setPhase(p), settled \in BOOLEAN
    PROVE  /\ PhaseStep
           /\ mounted => phase' = p
           /\ mounted /\ p \in {"done", "error"} => settled'
           /\ ~mounted => UNCHANGED phase
BY DEF D!setPhase, D!phaseVars, PhaseStep

LEMMA LaunchKept ==
    ASSUME StreamInv, StreamInv', LaunchInv, NoNewStream,
           launch' \in [Session -> {"none", "team", "post", "pay", "created", "over"}],
           \A s \in Session : launch[s] = "over" => launch'[s] = "over"
    PROVE  LaunchInv'
<1>1. \A c \in Conn : conn'[c].at # "free" => launch'[conn'[c].sid] = "over"
  BY DEF LaunchInv, NoNewStream, StreamInv
<1>2. OneStreamPerSession'
  BY DEF LaunchInv, NoNewStream, StreamInv, OneStreamPerSession
<1>3. QED
  BY <1>1, <1>2 DEF LaunchInv

\* A step that launches nothing, frees a stream only if the page is settled by
\* then, and shows a session that runs only if there is a stream.
LEMMA DeployStep ==
    ASSUME DeployInv, StreamInv', LaunchInv', mounted' = mounted, PhaseStep,
           \A s \in Session : launch'[s] = "none" <=> launch[s] = "none",
           intentionalClose' => intentionalClose \/ (mounted => settled'),
           D!isLivePhase' => D!isLivePhase \/ confirm # None \/ ~Vacant',
           confirm' # None => confirm # None \/ D!isLivePhase,
           Vacant' => Vacant \/ (mounted => settled')
    PROVE  DeployInv'
<1>1. D!Launched' = D!Launched
  BY DEF D!Launched
<1>2. settled' \in BOOLEAN /\ (settled => settled')
  BY DEF DeployInv, PhaseStep
<1>3. SettledInv'
  BY <1>2 DEF DeployInv, SettledInv, PhaseStep
<1>4. ~Vacant' => D!Launched' # {}
  BY DEF Vacant, LaunchInv, StreamInv, D!Launched
<1>5. BegunInv'
  BY <1>1, <1>4 DEF DeployInv, BegunInv
<1>6. FollowedInv'
  BY <1>1, <1>2 DEF DeployInv, FollowedInv
<1>7. QED
  BY <1>1, <1>2, <1>3, <1>5, <1>6 DEF DeployInv

\* A step of the wizard, of a launch that is on its way, or of the server: the
\* streams stay.
LEMMA StillDeploy ==
    ASSUME DeployInv, UNCHANGED <<mounted, confirm, streamVars>>, PhaseStep,
           D!isLivePhase' => D!isLivePhase \/ confirm # None,
           launch' \in [Session -> {"none", "team", "post", "pay", "created", "over"}],
           \A s \in Session : /\ launch'[s] = "none" <=> launch[s] = "none"
                              /\ launch[s] = "over" => launch'[s] = "over"
    PROVE  DeployInv'
<1>1. StreamInv' /\ NoNewStream /\ (Vacant' <=> Vacant)
  BY DEF DeployInv, StreamInv, StreamTypeOK, NoNewStream, Vacant, streamVars
<1>2. LaunchInv'
  BY <1>1, LaunchKept DEF DeployInv
<1>3. QED
  BY <1>1, <1>2, DeployStep DEF streamVars

LEMMA LaunchDeploy ==
    ASSUME DeployInv, NEW s \in Session, D!handleDeploy(s)
    PROVE  DeployInv'
<1>1. /\ mounted /\ phase = "prompt" /\ launch[s] = "none"
      /\ launch' = [launch EXCEPT ![s] = "team"]
      /\ ~intentionalClose' /\ intentionalClose' \in BOOLEAN
      /\ UNCHANGED <<mounted, confirm, wsRef, reconnectTimer, conn, published>>
  BY DEF D!handleDeploy, D!PromptPanel
<1>2. phase' = "creating" /\ phaseRef' = "prompt" /\ settled' = FALSE
  BY <1>1 DEF D!handleDeploy, D!setPhase
<1>3. StreamInv' /\ NoNewStream
  BY <1>1 DEF DeployInv, StreamInv, StreamTypeOK, NoNewStream
<1>4. launch \in [Session -> {"none", "team", "post", "pay", "created", "over"}]
  BY DEF DeployInv, LaunchInv
<1>5. LaunchInv'
  BY <1>1, <1>3, <1>4, LaunchKept DEF DeployInv
<1>6. D!Launched' = D!Launched \cup {s} /\ s \notin D!Launched
  BY <1>1, <1>4 DEF D!Launched
<1>7. IsFiniteSet(D!Launched') /\ Cardinality(D!Launched') = Cardinality(D!Launched) + 1
  BY <1>6, FS_AddElement DEF DeployInv
<1>8. ~D!isLivePhase'
  BY <1>2 DEF D!isLivePhase
<1>9. BegunInv'
  BY <1>6 DEF BegunInv
<1>10. FollowedInv'
  <2>1. CASE D!Launched = {}
    BY <1>1, <1>8, <2>1 DEF DeployInv, BegunInv, FollowedInv
  <2>2. CASE D!Launched # {}
    <3>1. Cardinality(D!Launched) \in Nat /\ Cardinality(D!Launched) # 0
      BY <2>2, FS_CardinalityType, FS_EmptySet DEF DeployInv
    <3>2. QED
      BY <1>7, <3>1 DEF FollowedInv
  <2>3. QED
    BY <2>1, <2>2
<1>11. SettledInv' /\ settled' \in BOOLEAN
  BY <1>1, <1>2 DEF SettledInv
<1>12. QED
  BY <1>3, <1>5, <1>7, <1>9, <1>10, <1>11 DEF DeployInv

\* The page is left, or reset: it closes its last socket, if it has one.
LEMMA ClosingDeploy ==
    ASSUME DeployInv, UNCHANGED <<wsRef, published, launch>>, intentionalClose' \in BOOLEAN,
           \/ conn' = Closing(conn) /\ reconnectTimer' = reconnectTimer
           \/ conn' = Closing(Cleared) /\ reconnectTimer' = None
    PROVE  /\ StreamInv' /\ LaunchInv'
           /\ conn' = Closing(conn) => (Vacant' <=> Vacant)
<1>1. StreamInv' /\ NoNewStream
  BY CloseKeeps DEF DeployInv
<1>2. LaunchInv'
  BY <1>1, LaunchKept DEF DeployInv, LaunchInv
<1>3. ASSUME conn' = Closing(conn), NEW c \in Conn
      PROVE  conn'[c].at = "free" <=> conn[c].at = "free"
  <2>1. conn[c] \in StreamRecord
    BY DEF DeployInv, StreamInv, StreamTypeOK, StreamRecord
  <2>2. c = wsRef => conn[c].at # "free"
    BY DEF DeployInv, StreamInv, Socket, Open
  <2>3. c # wsRef => conn'[c] = conn[c]
    BY <1>3 DEF Closing
  <2>4. c = wsRef => conn'[c].at = "closing"
    BY <1>3, <2>1 DEF Closing, StreamRecord
  <2>5. QED
    BY <2>2, <2>3, <2>4
<1>4. QED
  BY <1>1, <1>2, <1>3 DEF Vacant

LEMMA UserDeploy == DeployInv /\ D!User => DeployInv'
<1> SUFFICES ASSUME DeployInv, D!User PROVE DeployInv'
  OBVIOUS
<1>1. /\ launch \in [Session -> {"none", "team", "post", "pay", "created", "over"}]
      /\ settled \in BOOLEAN
  BY DEF DeployInv, LaunchInv
<1>2. ASSUME NEW p \in {"scanning", "prompt", "pick", "repo"}, D!setPhase(p),
             UNCHANGED <<mounted, confirm, launch, D!streamVars>>
      PROVE  DeployInv'
  <2>1. PhaseStep /\ (D!isLivePhase' => D!isLivePhase)
    BY <1>1, <1>2, SetPhaseStep DEF D!isLivePhase
  <2>2. QED
    BY <1>1, <1>2, <2>1, StillDeploy DEF streamVars, D!streamVars
<1>3. CASE D!handleScan \/ D!promptOnly \/ D!handlePickDone \/ D!back
  BY <1>2, <1>3 DEF D!handleScan, D!promptOnly, D!handlePickDone, D!back, D!launchVars
<1>4. CASE D!resetDeploy
  <2>1. /\ D!setPhase("repo") /\ conn' = D!Closing(conn)
        /\ UNCHANGED <<mounted, launch, confirm, intentionalClose, wsRef, reconnectTimer,
                       published>>
    BY <1>4 DEF D!resetDeploy, D!launchVars
  <2>2. PhaseStep /\ (D!isLivePhase' => D!isLivePhase)
    BY <1>1, <2>1, SetPhaseStep DEF D!isLivePhase
  <2>3. conn' = Closing(conn)
    BY <2>1 DEF D!Closing, Closing
  <2>4. intentionalClose' \in BOOLEAN
    BY <2>1 DEF DeployInv, StreamInv, StreamTypeOK
  <2>5. StreamInv' /\ LaunchInv' /\ (Vacant' <=> Vacant)
    BY <2>1, <2>3, <2>4, ClosingDeploy
  <2>6. QED
    BY <2>1, <2>2, <2>5, DeployStep
<1>5. CASE D!unmount
  <2>1. /\ ~mounted' /\ mounted' \in BOOLEAN /\ intentionalClose' = TRUE
        /\ conn' = D!Closing(D!Cleared) /\ reconnectTimer' = None
        /\ phase' = "repo" /\ settled' = FALSE /\ confirm' = None
        /\ UNCHANGED <<launch, wsRef, published>>
    BY <1>5 DEF D!unmount, D!launchVars
  <2>2. conn' = Closing(Cleared)
    BY <2>1 DEF D!Closing, Closing, D!Cleared, Cleared, D!Free, Free
  <2>3. StreamInv' /\ LaunchInv'
    BY <2>1, <2>2, ClosingDeploy
  <2>4. D!Launched' = D!Launched /\ ~D!isLivePhase'
    BY <2>1 DEF D!Launched, D!isLivePhase
  <2>5. SettledInv' /\ BegunInv' /\ FollowedInv'
    BY <2>1, <2>4 DEF SettledInv, BegunInv, FollowedInv
  <2>6. QED
    BY <2>1, <2>3, <2>4, <2>5 DEF DeployInv
<1>6. ASSUME NEW approved \in BOOLEAN, D!handleConfirm(approved)
      PROVE  DeployInv'
  <2>1. /\ D!isLivePhase /\ UNCHANGED <<mounted, phase, phaseRef, settled, launch, conn,
                                        intentionalClose, wsRef, reconnectTimer, published>>
    BY <1>6 DEF D!handleConfirm, D!PlanPanel, D!isLivePhase, D!phaseVars, D!launchVars,
                D!streamVars
  <2>2. StreamInv' /\ LaunchInv' /\ (Vacant' <=> Vacant)
    BY <2>1 DEF DeployInv, StreamInv, StreamTypeOK, LaunchInv, OneStreamPerSession, Vacant
  <2>3. QED
    BY <2>1, <2>2, DeployStep DEF PhaseStep, D!isLivePhase
<1>7. QED
  BY <1>3, <1>4, <1>5, <1>6, LaunchDeploy DEF D!User

\* The answer to a launch opens a stream of a session that had none.
LEMMA LaunchedDeploy ==
    ASSUME DeployInv, NEW s \in Session, D!launched(s)
    PROVE  DeployInv'
<1>1. /\ launch[s] = "created" /\ launch' = [launch EXCEPT ![s] = "over"]
      /\ D!setPhase("streaming") /\ UNCHANGED <<mounted, confirm, intentionalClose, published>>
  BY DEF D!launched
<1>2. PICK c \in Conn : conn[c] = Free /\ connectStream(c, s)
  BY DEF D!launched, D!Free, Free, D!connectStream, connectStream, D!Cleared, Cleared
<1>3. launch \in [Session -> {"none", "team", "post", "pay", "created", "over"}]
  BY DEF DeployInv, LaunchInv
<1>4. /\ StreamInv'
      /\ conn'[c] = [at |-> "connecting", sid |-> s, inbox |-> <<>>]
      /\ \A d \in Conn \ {c} : conn'[d] = conn[d] \/ conn'[d] = Free
  BY <1>1, <1>2, ConnectKeeps DEF DeployInv
<1>5. /\ conn'[c].at = "connecting" /\ conn'[c].sid = s
      /\ \A d \in Conn \ {c} : conn'[d].at # "free" => conn[d].at # "free" /\ conn'[d] = conn[d]
  BY <1>4 DEF Free
<1>6. \A d \in Conn : conn[d].at # "free" => conn[d].sid # s /\ conn[d].sid \in Session
  BY <1>1 DEF DeployInv, LaunchInv, StreamInv
<1>7. LaunchInv'
  <2>1. launch' \in [Session -> {"none", "team", "post", "pay", "created", "over"}]
    BY <1>1, <1>3
  <2>2. \A d \in Conn : conn'[d].at # "free" => launch'[conn'[d].sid] = "over"
    BY <1>1, <1>3, <1>5, <1>6 DEF DeployInv, LaunchInv
  <2>3. \A d, e \in Conn : conn'[d].at # "free" /\ conn'[d].sid = conn'[e].sid => d = e
    <3>1. SUFFICES ASSUME NEW d \in Conn, NEW e \in Conn, conn'[d].at # "free",
                          conn'[d].sid = conn'[e].sid
                   PROVE  d = e
      OBVIOUS
    <3>2. conn'[e].at # "free"
      BY <1>4, <3>1 DEF StreamInv
    <3>3. QED
      BY <1>5, <1>6, <3>1, <3>2 DEF DeployInv, LaunchInv, OneStreamPerSession
  <2>4. QED
    BY <2>1, <2>2, <2>3 DEF LaunchInv, OneStreamPerSession
<1>8. PhaseStep
  BY <1>1, SetPhaseStep DEF DeployInv
<1>9. ~Vacant'
  BY <1>5 DEF Vacant
<1>10. \A t \in Session : launch'[t] = "none" <=> launch[t] = "none"
  BY <1>1, <1>3
<1>11. QED
  BY <1>1, <1>4, <1>7, <1>8, <1>9, <1>10, DeployStep

LEMMA AnswersDeploy == DeployInv /\ D!Answers => DeployInv'
<1> SUFFICES ASSUME DeployInv, D!Answers PROVE DeployInv'
  OBVIOUS
<1>1. /\ launch \in [Session -> {"none", "team", "post", "pay", "created", "over"}]
      /\ settled \in BOOLEAN
  BY DEF DeployInv, LaunchInv
<1>2. ASSUME NEW p \in {"repo", "pick", "prompt", "error"},
             D!setPhase(p) \/ UNCHANGED D!phaseVars,
             UNCHANGED <<mounted, confirm, D!streamVars>>,
             \/ UNCHANGED launch
             \/ \E s \in Session : \E x \in {"post", "pay", "over"} :
                   /\ launch[s] \notin {"none", "over"}
                   /\ launch' = [launch EXCEPT ![s] = x]
      PROVE  DeployInv'
  <2>1. PhaseStep /\ (D!isLivePhase' => D!isLivePhase)
    <3>1. CASE D!setPhase(p)
      BY <1>1, <3>1, SetPhaseStep DEF D!isLivePhase
    <3>2. CASE UNCHANGED D!phaseVars
      BY <3>2 DEF PhaseStep, D!phaseVars, D!isLivePhase
    <3>3. QED
      BY <1>2, <3>1, <3>2
  <2>2. /\ launch' \in [Session -> {"none", "team", "post", "pay", "created", "over"}]
        /\ \A s \in Session : /\ launch'[s] = "none" <=> launch[s] = "none"
                              /\ launch[s] = "over" => launch'[s] = "over"
    BY <1>1, <1>2
  <2>3. QED
    BY <1>2, <2>1, <2>2, StillDeploy DEF streamVars, D!streamVars
<1>3. ASSUME NEW ok \in BOOLEAN, D!loadRepos(ok)
      PROVE  DeployInv'
  BY <1>2, <1>3 DEF D!loadRepos, D!launchVars
<1>4. ASSUME NEW found \in {"options", "none", "error"}, D!runScan(found)
      PROVE  DeployInv'
  <2>1. \E p \in {"repo", "pick", "prompt", "error"} : D!setPhase(p)
    BY <1>4 DEF D!runScan
  <2>2. QED
    BY <1>2, <1>4, <2>1 DEF D!runScan, D!launchVars
<1>5. ASSUME NEW s \in Session, NEW answer \in {"ok", "refused", "failed"}, D!ensureTeam(s, answer)
      PROVE  DeployInv'
  BY <1>2, <1>5 DEF D!ensureTeam
<1>6. ASSUME NEW s \in Session, D!payAndRetry(s) \/ D!launchFails(s)
      PROVE  DeployInv'
  BY <1>2, <1>6 DEF D!payAndRetry, D!launchFails
<1>7. ASSUME NEW ok \in BOOLEAN, D!confirmed(ok)
      PROVE  DeployInv'
  <2>1. /\ confirm # None /\ confirm' = None
        /\ UNCHANGED <<mounted, launch, intentionalClose, wsRef, reconnectTimer, published>>
        /\ conn' = conn \/ conn' = Closing(conn)
    BY <1>7 DEF D!confirmed, D!launchVars, D!Closing, Closing
  <2>2. PhaseStep
    BY <1>1, <1>7, SetPhaseStep DEF D!confirmed
  <2>3. StreamInv' /\ LaunchInv' /\ (Vacant' <=> Vacant)
    <3>1. intentionalClose' \in BOOLEAN
      BY <2>1 DEF DeployInv, StreamInv, StreamTypeOK
    <3>2. CASE conn' = conn
      BY <2>1, <3>2 DEF DeployInv, StreamInv, StreamTypeOK, LaunchInv, OneStreamPerSession,
                        Vacant
    <3>3. CASE conn' = Closing(conn)
      BY <2>1, <3>1, <3>3, ClosingDeploy
    <3>4. QED
      BY <2>1, <3>2, <3>3
  <2>4. QED
    BY <2>1, <2>2, <2>3, DeployStep
<1>8. QED
  BY <1>3, <1>4, <1>5, <1>6, <1>7, LaunchedDeploy DEF D!Answers

\* The streams move in a step that launches nothing.
LEMMA MovedDeploy ==
    ASSUME DeployInv, StreamInv', NoNewStream, PhaseStep, UNCHANGED <<mounted, confirm, launch>>,
           intentionalClose' => intentionalClose \/ (mounted => settled'),
           D!isLivePhase' => D!isLivePhase \/ ~Vacant',
           Vacant' => Vacant \/ (mounted => settled')
    PROVE  DeployInv'
<1>1. LaunchInv'
  BY LaunchKept DEF DeployInv, LaunchInv
<1>2. QED
  BY <1>1, DeployStep

LEMMA MessageDeploy ==
    ASSUME DeployInv, NEW c \in Conn, D!onmessage(c)
    PROVE  DeployInv'
<1> DEFINE e == Head(conn[c].inbox)
<1>1. /\ conn[c].at \in Open /\ conn[c].inbox # <<>> /\ conn[c].inbox \in Seq(Event)
      /\ UNCHANGED <<mounted, confirm, launch, wsRef, reconnectTimer, published>>
  BY DEF D!onmessage, D!Open, Open, D!launchVars, DeployInv, StreamInv, StreamTypeOK
<1>2. e \in {"plan", "done", "error"}
  BY <1>1 DEF Event
<1>3. \/ /\ conn' = [conn EXCEPT ![c].inbox = Tail(@)]
         /\ D!setPhase("awaiting_confirm") /\ UNCHANGED intentionalClose
      \/ /\ conn' = [conn EXCEPT ![c] = [@ EXCEPT !.at = "closing", !.inbox = <<>>]]
         /\ e \in {"done", "error"} /\ D!setPhase(e) /\ intentionalClose' = TRUE
  BY <1>2 DEF D!onmessage
<1>4. StreamInv' /\ NoNewStream
  <2>1. intentionalClose' \in BOOLEAN
    BY <1>3 DEF DeployInv, StreamInv, StreamTypeOK
  <2>2. QED
    BY <1>1, <1>3, <2>1, MessageKeeps DEF DeployInv
<1>5. ~Vacant'
  <2>1. conn \in [Conn -> StreamRecord] /\ conn[c] \in StreamRecord
    BY DEF DeployInv, StreamInv, StreamTypeOK, StreamRecord
  <2>2. /\ [conn[c] EXCEPT !.inbox = Tail(@)].at = conn[c].at
        /\ [conn[c] EXCEPT !.at = "closing", !.inbox = <<>>].at = "closing"
    BY <2>1 DEF StreamRecord
  <2>3. conn'[c].at # "free"
    BY <1>1, <1>3, <2>1, <2>2 DEF Open
  <2>4. QED
    BY <2>3 DEF Vacant
<1> HIDE DEF e
<1>6. PhaseStep /\ (intentionalClose' => intentionalClose \/ (mounted => settled'))
  BY <1>3, SetPhaseStep DEF DeployInv
<1>7. QED
  BY <1>1, <1>4, <1>5, <1>6, MovedDeploy

LEMMA RecheckDeploy ==
    ASSUME DeployInv, NEW c \in Conn, NEW ok \in BOOLEAN, D!recheck(c, ok)
    PROVE  DeployInv'
<1> DEFINE s == conn[c].sid
<1>1. /\ conn[c].at = "checking" /\ s \in Session
      /\ UNCHANGED <<mounted, confirm, launch, intentionalClose, published>>
  BY DEF D!recheck, D!launchVars, DeployInv, StreamInv
<1>2. CASE D!connectStream(c, s) /\ UNCHANGED D!phaseVars
  <2>1. connectStream(c, s)
    BY <1>2 DEF D!connectStream, connectStream, D!Cleared, Cleared, D!Free, Free
  <2>2. /\ StreamInv' /\ conn'[c] = [at |-> "connecting", sid |-> s, inbox |-> <<>>]
        /\ \A d \in Conn \ {c} : conn'[d] = conn[d] \/ conn'[d] = Free
    BY <1>1, <2>1, ConnectKeeps DEF DeployInv
  <2>3. NoNewStream /\ ~Vacant'
    BY <1>1, <2>2 DEF NoNewStream, Vacant, Free
  <2>4. PhaseStep
    BY <1>2 DEF PhaseStep, D!phaseVars
  <2>5. QED
    BY <1>1, <2>2, <2>3, <2>4, MovedDeploy
<1>3. ASSUME NEW p \in {"done", "error"}, D!setPhase(p), conn' = [conn EXCEPT ![c] = D!Free],
             UNCHANGED <<wsRef, reconnectTimer>>
      PROVE  DeployInv'
  <2>1. conn' = [conn EXCEPT ![c] = Free] /\ wsRef # c
    BY <1>1, <1>3 DEF D!Free, Free, DeployInv, StreamInv, Socket, Open
  <2>2. StreamInv' /\ NoNewStream
    BY <1>1, <1>3, <2>1, FreeKeeps DEF DeployInv
  <2>3. /\ PhaseStep /\ (mounted => settled')
        /\ D!isLivePhase' => D!isLivePhase
    BY <1>3, SetPhaseStep DEF DeployInv, D!isLivePhase
  <2>4. QED
    BY <1>1, <2>2, <2>3, MovedDeploy
<1>4. QED
  BY <1>2, <1>3 DEF D!recheck

LEMMA StreamDeploy == DeployInv /\ D!Stream => DeployInv'
<1> SUFFICES ASSUME DeployInv, NEW c \in Conn,
                    \/ D!onclose(c)
                    \/ D!fire(c) /\ UNCHANGED D!pageVars
             PROVE  DeployInv'
  BY MessageDeploy, RecheckDeploy DEF D!Stream
<1>1. CASE D!onclose(c)
  <2>1. /\ conn[c].at \in Socket
        /\ UNCHANGED <<mounted, phase, phaseRef, settled, confirm, launch, intentionalClose,
                       published>>
        /\ wsRef' = IF wsRef = c THEN None ELSE wsRef
    BY <1>1 DEF D!onclose, D!Socket, Socket, D!Open, Open, D!phaseVars, D!launchVars
  <2>2. PhaseStep /\ (D!isLivePhase' => D!isLivePhase)
    BY <2>1 DEF PhaseStep, D!isLivePhase
  <2>3. CASE ~intentionalClose /\ phaseRef \notin {"done", "error"}
    <3>1. scheduleReconnect(c)
      BY <1>1, <2>3 DEF D!onclose, D!scheduleReconnect, scheduleReconnect
    <3>2. StreamInv' /\ NoNewStream
      BY <2>1, <3>1, ScheduleKeeps DEF DeployInv
    <3>3. ~Vacant'
      <4>1. conn \in [Conn -> StreamRecord] /\ conn[c] \in StreamRecord
        BY DEF DeployInv, StreamInv, StreamTypeOK, StreamRecord
      <4>2. [conn[c] EXCEPT !.at = "timer", !.inbox = <<>>].at = "timer"
        BY <4>1 DEF StreamRecord
      <4>3. conn'[c].at = "timer"
        BY <3>1, <4>1, <4>2 DEF scheduleReconnect
      <4>4. QED
        BY <4>3 DEF Vacant
    <3>4. QED
      BY <2>1, <2>2, <3>2, <3>3, MovedDeploy
  <2>4. CASE ~(~intentionalClose /\ phaseRef \notin {"done", "error"})
    <3>1. conn' = [conn EXCEPT ![c] = Free] /\ UNCHANGED reconnectTimer
      BY <1>1, <2>4 DEF D!onclose, D!Free, Free
    <3>2. conn[c].at \notin {"free", "timer"} /\ (wsRef' = None \/ (wsRef' = wsRef /\ wsRef # c))
      BY <2>1 DEF Socket, Open
    <3>3. StreamInv' /\ NoNewStream
      BY <2>1, <3>1, <3>2, FreeKeeps DEF DeployInv
    <3>4. mounted => settled'
      BY <2>1, <2>4 DEF DeployInv, SettledInv
    <3>5. QED
      BY <2>1, <2>2, <3>3, <3>4, MovedDeploy
  <2>5. QED
    BY <2>3, <2>4
<1>2. CASE D!fire(c) /\ UNCHANGED D!pageVars
  <2>1. fire(c) /\ UNCHANGED <<mounted, phase, phaseRef, settled, confirm, launch>>
    BY <1>2 DEF D!fire, fire, D!Free, Free, D!pageVars, D!phaseVars, D!launchVars,
                D!serviceVars, serviceVars
  <2>2. StreamInv' /\ NoNewStream
    BY <2>1, FireKeeps DEF DeployInv
  <2>3. PhaseStep /\ (D!isLivePhase' => D!isLivePhase) /\ UNCHANGED intentionalClose
    BY <2>1 DEF PhaseStep, D!isLivePhase, fire
  <2>4. Vacant' => (mounted => settled')
    <3>1. conn \in [Conn -> StreamRecord] /\ conn[c] \in StreamRecord
      BY DEF DeployInv, StreamInv, StreamTypeOK, StreamRecord
    <3>2. [conn[c] EXCEPT !.at = "checking"].at = "checking"
      BY <3>1 DEF StreamRecord
    <3>3. ~intentionalClose => conn'[c].at = "checking"
      BY <2>1, <3>1, <3>2 DEF fire
    <3>4. QED
      BY <2>1, <3>3 DEF Vacant, DeployInv, SettledInv
  <2>5. QED
    BY <2>1, <2>2, <2>3, <2>4, MovedDeploy
<1>3. QED
  BY <1>1, <1>2

LEMMA ServerDeploy == DeployInv /\ D!Server => DeployInv'
<1> SUFFICES ASSUME DeployInv, D!Server PROVE DeployInv'
  OBVIOUS
<1>1. ASSUME NEW s \in Session, D!createSession(s)
      PROVE  DeployInv'
  <2>1. /\ UNCHANGED <<mounted, confirm, streamVars>> /\ PhaseStep
        /\ D!isLivePhase' => D!isLivePhase
    BY <1>1 DEF D!createSession, D!streamVars, streamVars, D!phaseVars, PhaseStep, D!isLivePhase
  <2>2. launch[s] \in {"post", "pay"} /\ launch' = [launch EXCEPT ![s] = "created"]
    BY <1>1 DEF D!createSession
  <2>3. launch \in [Session -> {"none", "team", "post", "pay", "created", "over"}]
    BY DEF DeployInv, LaunchInv
  <2>4. /\ launch' \in [Session -> {"none", "team", "post", "pay", "created", "over"}]
        /\ \A t \in Session : /\ launch'[t] = "none" <=> launch[t] = "none"
                              /\ launch[t] = "over" => launch'[t] = "over"
    BY <2>2, <2>3
  <2>5. QED
    BY <2>1, <2>4, StillDeploy
<1>2. ASSUME D!ServerStep, UNCHANGED D!pageVars
      PROVE  DeployInv'
  <2>1. /\ UNCHANGED <<mounted, confirm, launch>> /\ PhaseStep
        /\ D!isLivePhase' => D!isLivePhase
    BY <1>2 DEF D!pageVars, D!phaseVars, D!launchVars, PhaseStep, D!isLivePhase
  <2>2. ASSUME NEW s \in Session, NEW e \in Event, Publish(s, e),
               UNCHANGED <<intentionalClose, wsRef, reconnectTimer>>, published' \subseteq Session
        PROVE  DeployInv'
    <3>1. StreamInv' /\ NoNewStream /\ (Vacant' => Vacant)
      BY <2>2, PublishKeeps DEF DeployInv, Vacant, Open
    <3>2. QED
      BY <2>1, <2>2, <3>1, MovedDeploy
  <2>3. published \subseteq Session
    BY DEF DeployInv, StreamInv, StreamTypeOK
  <2>4. ASSUME NEW s \in Session, D!publishPlan(s) \/ D!publishEnd(s)
        PROVE  DeployInv'
    <3>1. \E e \in Event : D!Publish(s, e)
      BY <2>4 DEF D!publishPlan, D!publishEnd, Event
    <3>2. PICK e \in Event : Publish(s, e)
      BY <3>1 DEF D!Publish, Publish
    <3>3. UNCHANGED <<intentionalClose, wsRef, reconnectTimer>> /\ published' \subseteq Session
      BY <2>3, <2>4 DEF D!publishPlan, D!publishEnd
    <3>4. QED
      BY <2>2, <3>2, <3>3
  <2>5. CASE UNCHANGED D!streamVars
    <3>1. /\ UNCHANGED streamVars
          /\ launch' \in [Session -> {"none", "team", "post", "pay", "created", "over"}]
      BY <2>1, <2>5 DEF D!streamVars, streamVars, DeployInv, LaunchInv
    <3>2. QED
      BY <2>1, <3>1, StillDeploy
  <2>6. ASSUME NEW c \in Conn, D!serve(c)
        PROVE  DeployInv'
    <3>1. serve(c)
      BY <2>6 DEF D!serve, serve, D!serviceVars, serviceVars
    <3>2. StreamInv' /\ NoNewStream
      BY <3>1, ServeKeeps DEF DeployInv
    <3>3. ~Vacant'
      <4>1. conn \in [Conn -> StreamRecord] /\ conn[c] \in StreamRecord
        BY DEF DeployInv, StreamInv, StreamTypeOK, StreamRecord
      <4>2. /\ [conn[c] EXCEPT !.at = "subscribed"].at = "subscribed"
            /\ \A i : [conn[c] EXCEPT !.at = "served", !.inbox = i].at = "served"
        BY <4>1 DEF StreamRecord
      <4>3. conn'[c].at \in {"subscribed", "served"}
        BY <3>1, <4>1, <4>2 DEF serve
      <4>4. QED
        BY <4>3 DEF Vacant
    <3>4. UNCHANGED intentionalClose
      BY <3>1 DEF serve
    <3>5. QED
      BY <2>1, <3>2, <3>3, <3>4, MovedDeploy
  <2>7. QED
    BY <1>2, <2>4, <2>5, <2>6 DEF D!ServerStep
<1>3. QED
  BY <1>1, <1>2 DEF D!Server

LEMMA SyncDeploy == DeployInv /\ D!syncPhaseRef => DeployInv'
<1> SUFFICES ASSUME DeployInv, D!syncPhaseRef PROVE DeployInv'
  OBVIOUS
<1>1. /\ UNCHANGED <<mounted, confirm, streamVars, launch>> /\ PhaseStep
      /\ D!isLivePhase' => D!isLivePhase
  BY DEF D!syncPhaseRef, D!streamVars, streamVars, D!launchVars, PhaseStep, D!isLivePhase
<1>2. launch' \in [Session -> {"none", "team", "post", "pay", "created", "over"}]
  BY <1>1 DEF DeployInv, LaunchInv
<1>3. QED
  BY <1>1, <1>2, StillDeploy

LEMMA DeployHolds == D!Spec => []DeployInv
<1>1. D!Init => DeployInv
  <2> SUFFICES ASSUME D!Init PROVE DeployInv
    OBVIOUS
  <2>1. StreamInit
    BY DEF D!Init, D!StreamInit, StreamInit, D!Free, Free
  <2>2. StreamInv /\ Vacant
    BY <2>1, StreamsStart DEF Vacant
  <2>3. D!Launched = {} /\ ~D!isLivePhase /\ confirm = None /\ settled = FALSE
    BY DEF D!Init, D!Launched, D!isLivePhase
  <2>4. phase \in {"repo", "repos"} /\ phaseRef = phase /\ ~intentionalClose
    BY <2>1 DEF D!Init, StreamInit
  <2>5. LaunchInv
    BY <2>2 DEF D!Init, LaunchInv, Vacant, OneStreamPerSession
  <2>6. IsFiniteSet(D!Launched)
    BY <2>3, FS_EmptySet
  <2>7. SettledInv /\ BegunInv /\ FollowedInv
    BY <2>3, <2>4 DEF SettledInv, BegunInv, FollowedInv
  <2>8. QED
    BY <2>2, <2>3, <2>5, <2>6, <2>7 DEF DeployInv
<1>2. DeployInv /\ [D!Next]_(D!vars) => DeployInv'
  <2>1. ASSUME DeployInv, UNCHANGED D!vars PROVE DeployInv'
    <3>1. /\ UNCHANGED <<mounted, confirm, streamVars, launch>> /\ PhaseStep
          /\ D!isLivePhase' => D!isLivePhase
      BY <2>1 DEF D!vars, D!pageVars, D!phaseVars, D!launchVars, D!streamVars, streamVars,
                  PhaseStep, D!isLivePhase
    <3>2. launch' \in [Session -> {"none", "team", "post", "pay", "created", "over"}]
      BY <2>1, <3>1 DEF DeployInv, LaunchInv
    <3>3. QED
      BY <2>1, <3>1, <3>2, StillDeploy
  <2>2. QED
    BY <2>1, SyncDeploy, UserDeploy, AnswersDeploy, StreamDeploy, ServerDeploy DEF D!Next
<1>3. QED
  BY <1>1, <1>2, PTL DEF D!Spec

\* For any sessions and streams: however often a stream is lost, and whatever
\* else is launched meanwhile, a session has one socket, timer or check.
THEOREM StreamsAreSingle == D!Spec => []OneStreamPerSession
<1>1. DeployInv => OneStreamPerSession
  BY DEF DeployInv, LaunchInv
<1>2. QED
  BY <1>1, DeployHolds, PTL

\* For any streams, sizes of channels and scans in flight: a page with one
\* launch that shows it running, and has not been told of its end, is connected
\* to it or is about to connect again.
THEOREM LaunchIsFollowed == D!Spec => []D!NeverGivesUp
<1>1. DeployInv => D!NeverGivesUp
  <2> SUFFICES ASSUME DeployInv, mounted, D!isLivePhase, ~settled, D!Cardinality(D!Launched) = 1
               PROVE  \E c \in Conn : conn[c].at # "free" /\ conn[c].sid \in D!Launched
    BY DEF D!NeverGivesUp
  <2>1. Cardinality(D!Launched) = 1
    BY DEF Cardinality, D!Cardinality
  <2>2. PICK c \in Conn : conn[c].at # "free"
    BY <2>1 DEF DeployInv, FollowedInv, Vacant
  <2>3. QED
    BY <2>2 DEF DeployInv, StreamInv, LaunchInv, D!Launched
<1>2. QED
  BY <1>1, DeployHolds, PTL

=============================================================================
