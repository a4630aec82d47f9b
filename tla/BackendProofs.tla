----------------------------- MODULE BackendProofs -----------------------------
(***************************************************************************)
(* Proofs about what the API server does for its users: the agent session  *)
(* and the server around it, the gate that has a session paid for, and     *)
(* signing in with a wallet, which share neither variables nor steps.      *)
(***************************************************************************)
EXTENDS SessionServer, PaymentGate, WalletSignIn, TLAPS

-----------------------------------------------------------------------------
(***************************************************************************)
(* Sessions, for any tools, clients, requests, capacities of the channels  *)
(* and numbers of turns and crashes.  The server takes the agent only      *)
(* through the agent's own steps, so that one invariant of the agent serves *)
(* both.                                                                   *)
(***************************************************************************)

(* The agent. *)

\* Where Run stands tells what is left to execute and whether it is over.
PcInv ==
    /\ pc = "model" => noToolTurns <= 2
    /\ pc \in {"model", "noTool"} => calls = <<>>
    /\ pc \in {"tool", "run", "plan", "record"} => calls # <<>>
    /\ state = "running" <=> pc # "returned"

\* The events wait in the order of their actions, and none is of an action that
\* is not recorded yet.
EventsInv ==
    /\ \A i \in DOMAIN events : events[i].index <= Len(actions)
    /\ InOrder(events)

AgentInv ==
    /\ AgentTypeOK
    /\ PcInv
    /\ ActionsFollowRequests
    /\ EndIsLast
    /\ EventsInv

LEMMA AgentStarts == AgentInit => AgentInv
<1> SUFFICES ASSUME AgentInit
             PROVE  AgentInv
  OBVIOUS
<1>1. AgentTypeOK
  <2>1. <<>> \in Seq(Tool) /\ <<>> \in Seq(Event) /\ Len(<<>>) = 0
        /\ <<>> \in Seq([tool : Tool, outcome : Outcome])
    OBVIOUS
  <2>2. Len(events) <= EventCap
    BY <2>1, AgentAssumptions DEF AgentInit
  <2>3. confirming \in [Caller -> {"idle", "closing", "returned", "panicked"}]
    BY DEF AgentInit
  <2>4. noToolTurns \in 0 .. 3 /\ turns \in Nat
    BY DEF AgentInit
  <2>5. calls \in Seq(Tool) /\ requested \in Seq(Tool) /\ events \in Seq(Event)
        /\ actions \in Seq([tool : Tool, outcome : Outcome])
    BY <2>1 DEF AgentInit
  <2>6. QED
    BY <2>2, <2>3, <2>4, <2>5, Zenon DEF AgentInit, AgentTypeOK, Outcome
<1>2. PcInv /\ EventsInv /\ ActionsFollowRequests /\ EndIsLast
  BY DEF AgentInit, PcInv, EventsInv, InOrder, ActionsFollowRequests, EndIsLast
<1>3. QED
  BY <1>1, <1>2 DEF AgentInv

\* What emit does to the channel, which may be full: nothing, or one event more.
LEMMA EmitType ==
    ASSUME AgentTypeOK, NEW type \in EventType, NEW n \in Nat, emit(type, n)
    PROVE  /\ events' \in Seq(Event) /\ Len(events') <= EventCap
           /\ events' = events \/ events' = Append(events, [type |-> type, index |-> n])
<1>1. [type |-> type, index |-> n] \in Event
  BY DEF Event
<1>2. QED
  BY <1>1, AgentAssumptions DEF emit, AgentTypeOK

\* A step of a session that still runs adds at most one event: of the action it
\* records, or of none, and an end only when Run returns with that outcome.
LEMMA EventsStep ==
    ASSUME AgentInv, pc # "returned", NEW e \in Event,
           events' = events \/ events' = Append(events, e),
           Len(actions') \in Nat, Len(actions) <= Len(actions'),
           e.index = 0 \/ (e.index = Len(actions') /\ Len(actions) < Len(actions')),
           IsEnd(e) => pc' = "returned" /\ (e.type = "done" <=> state' = "completed")
    PROVE  EventsInv' /\ EndIsLast'
<1>1. /\ events \in Seq(Event) /\ actions \in Seq([tool : Tool, outcome : Outcome])
      /\ \A i \in DOMAIN events : events[i] \in Event /\ ~IsEnd(events[i])
  BY DEF AgentInv, AgentTypeOK, EndIsLast
<1>2. e.index \in Nat /\ \A i \in DOMAIN events : events[i].index \in Nat
  BY <1>1 DEF Event
<1>3. CASE events' = events
  BY <1>1, <1>2, <1>3 DEF AgentInv, EventsInv, InOrder, EndIsLast
<1>4. CASE events' = Append(events, e)
  <2>1. /\ Len(events') = Len(events) + 1 /\ events'[Len(events) + 1] = e
        /\ DOMAIN events' = 1 .. Len(events) + 1 /\ DOMAIN events = 1 .. Len(events)
        /\ \A i \in DOMAIN events : events'[i] = events[i]
        /\ Len(events) \in Nat
    BY <1>1, <1>4
  <2>2. EventsInv'
    <3>1. \A i \in DOMAIN events : events[i].index <= Len(actions)
      BY DEF AgentInv, EventsInv
    <3>2. Len(actions) \in Nat
      BY <1>1
    <3>3. \A i \in DOMAIN events' : events'[i].index <= Len(actions')
      BY <1>2, <2>1, <3>1, <3>2
    <3>4. InOrder(events')
      BY <1>2, <2>1, <3>1, <3>2 DEF AgentInv, EventsInv, InOrder
    <3>5. QED
      BY <3>3, <3>4 DEF EventsInv, InOrder
  <2>3. EndIsLast'
    BY <1>1, <2>1 DEF EndIsLast
  <2>4. QED
    BY <2>2, <2>3
<1>5. QED
  BY <1>3, <1>4

\* A step that emits no action and neither asks for a call nor makes one.
LEMMA QuietStep ==
    ASSUME AgentInv, pc # "returned", UNCHANGED <<actions, calls, requested>>,
           NEW type \in EventType, emit(type, 0) \/ UNCHANGED events,
           type \in {"done", "error"} =>
               pc' = "returned" /\ (type = "done" <=> state' = "completed"),
           state' = "completed" => calls = <<>>
    PROVE  /\ events' \in Seq(Event) /\ Len(events') <= EventCap
           /\ ActionsFollowRequests' /\ EndIsLast' /\ EventsInv'
<1> DEFINE e == [type |-> type, index |-> 0]
<1>1. e \in Event /\ e.index = 0 /\ e.type = type
  BY DEF Event
<1>2. /\ events' \in Seq(Event) /\ Len(events') <= EventCap
      /\ events' = events \/ events' = Append(events, e)
  BY EmitType DEF AgentInv, AgentTypeOK
<1>3. Len(actions) \in Nat /\ Len(actions') = Len(actions)
  BY DEF AgentInv, AgentTypeOK
<1>4. EndIsLast' /\ EventsInv'
  <2> HIDE DEF e
  <2> QED BY <1>1, <1>2, <1>3, EventsStep DEF IsEnd
<1>5. ActionsFollowRequests'
  BY DEF AgentInv, ActionsFollowRequests
<1>6. QED
  BY <1>2, <1>4, <1>5

\* The steps of Run that record no action and ask for no call.
LEMMA QuietRun ==
    ASSUME AgentInv,
           \/ callClaudeFails \/ nudge \/ complete \/ refuseInput
           \/ \E says \in BOOLEAN : beginTool(says)
           \/ \E outcome \in Outcome : finishTool(outcome)
           \/ presentPlan \/ planConfirmed \/ planTimesOut
           \/ bootstrapFails
    PROVE  AgentInv'
<1> USE DEF confirmVars, emitIf
<1>1. PICK type \in EventType :
          /\ emit(type, 0) \/ UNCHANGED events
          /\ type \in {"done", "error"} =>
                 pc' = "returned" /\ (type = "done" <=> state' = "completed")
  <2>1. CASE callClaudeFails \/ bootstrapFails
    <3>1. emit("error", 0) /\ pc' = "returned" /\ state' = "failed"
      BY <2>1 DEF callClaudeFails, bootstrapFails, Fail
    <3>2. QED
      BY <3>1 DEF EventType
  <2>2. CASE complete
    <3>1. emit("done", 0) /\ pc' = "returned" /\ state' = "completed"
      BY <2>2 DEF complete
    <3>2. QED
      BY <3>1 DEF EventType
  <2>3. CASE presentPlan
    BY <2>3 DEF presentPlan, EventType
  <2>4. CASE \/ nudge \/ refuseInput \/ planConfirmed \/ planTimesOut
             \/ \E says \in BOOLEAN : beginTool(says)
             \/ \E outcome \in Outcome : finishTool(outcome)
    <3>1. emit("message", 0) \/ UNCHANGED events
      BY <2>4 DEF nudge, refuseInput, planConfirmed, planTimesOut,
                  beginTool, finishTool
    <3>2. QED
      BY <3>1 DEF EventType
  <2>5. QED
    BY <2>1, <2>2, <2>3, <2>4
<1>2. /\ pc # "returned"
      /\ UNCHANGED <<actions, calls, requested, noToolTurns, bootstrapping, turns, confirmCh,
                     confirming>>
      /\ selectedProvider' \in BOOLEAN /\ lastContainer' \in BOOLEAN
      /\ result' \in Outcome
  BY DEF callClaudeFails, bootstrapFails, complete, presentPlan,
         nudge, refuseInput, planConfirmed, planTimesOut,
         beginTool, finishTool, Outcome, AgentInv, AgentTypeOK
<1>3. /\ pc' \in {"model", "run", "plan", "record", "returned"}
      /\ pc' = "model" => pc = "noTool" /\ noToolTurns <= 2
      /\ pc' \in {"run", "plan", "record"} => pc \in {"tool", "run", "plan"}
      /\ pc' # "returned" => state' = state
      /\ pc' = "returned" => state' \in {"completed", "failed"}
      /\ state' = "completed" /\ state # "completed" => pc = "noTool"
  BY DEF callClaudeFails, bootstrapFails, Fail, complete,
         presentPlan, nudge, refuseInput, planConfirmed,
         planTimesOut, beginTool, finishTool
<1>4. PcInv'
  BY <1>2, <1>3 DEF AgentInv, PcInv
<1>5. state' = "completed" => calls = <<>>
  BY <1>2, <1>3 DEF AgentInv, PcInv
<1>6. /\ events' \in Seq(Event) /\ Len(events') <= EventCap
      /\ ActionsFollowRequests' /\ EndIsLast' /\ EventsInv'
  BY <1>1, <1>2, <1>5, QuietStep
<1>7. AgentTypeOK'
  <2>1. pc' \in {"model", "noTool", "tool", "run", "plan", "record", "bootFailed", "returned"}
        /\ state' \in {"running", "completed", "failed"}
    BY <1>3 DEF AgentInv, AgentTypeOK
  <2>2. QED
    BY <1>2, <1>6, <2>1, Zenon DEF AgentInv, AgentTypeOK
<1>8. QED
  BY <1>4, <1>6, <1>7 DEF AgentInv

\* Asking for calls when none is left.
LEMMA AskStep ==
    ASSUME AgentInv, calls = <<>>, NEW answer \in Seq(Tool),
           calls' = answer, requested' = requested \o answer, UNCHANGED actions,
           state' # "completed"
    PROVE  ActionsFollowRequests' /\ calls' \in Seq(Tool) /\ requested' \in Seq(Tool)
<1>1. /\ requested \in Seq(Tool) /\ Len(requested) \in Nat /\ Len(answer) \in Nat
      /\ actions \in Seq([tool : Tool, outcome : Outcome]) /\ Len(actions) \in Nat
      /\ DOMAIN actions = 1 .. Len(actions) /\ DOMAIN answer = 1 .. Len(answer)
  BY DEF AgentInv, AgentTypeOK
<1>2. Len(actions) = Len(requested) /\ \A i \in DOMAIN actions : actions[i].tool = requested[i]
  BY <1>1 DEF AgentInv, ActionsFollowRequests
<1>3. /\ requested' \in Seq(Tool) /\ Len(requested') = Len(requested) + Len(answer)
      /\ \A i \in 1 .. Len(requested) : requested'[i] = requested[i]
      /\ \A i \in 1 .. Len(answer) : requested'[Len(requested) + i] = answer[i]
  BY <1>1
<1>4. QED
  BY <1>1, <1>2, <1>3 DEF ActionsFollowRequests

LEMMA CallClaudeStep ==
    ASSUME AgentInv, NEW hasText \in BOOLEAN, NEW answer \in CallSeq,
           callClaude(hasText, answer)
    PROVE  AgentInv'
<1>1. answer \in Seq(Tool)
  BY AgentAssumptions DEF CallSeq
<1>2. /\ pc = "model" /\ calls = <<>> /\ noToolTurns <= 2 /\ state = "running"
      /\ emit("message", 0) \/ UNCHANGED events
      /\ calls' = answer /\ requested' = requested \o answer
      /\ UNCHANGED <<state, bootstrapping, result, actions, selectedProvider, lastContainer,
                     confirmCh, confirming>>
  BY DEF callClaude, emitIf, confirmVars, AgentInv, PcInv
<1>3. /\ answer = <<>> => pc' = "noTool" /\ noToolTurns' = noToolTurns + 1 /\ turns' = turns
      /\ answer # <<>> => pc' = "tool" /\ noToolTurns' = 0 /\ turns' = turns + 1
  BY DEF callClaude
<1>4. ActionsFollowRequests' /\ calls' \in Seq(Tool) /\ requested' \in Seq(Tool)
  BY <1>1, <1>2, AskStep
<1>5. /\ events' \in Seq(Event) /\ Len(events') <= EventCap
      /\ EndIsLast' /\ EventsInv'
  <2> DEFINE e == [type |-> "message", index |-> 0]
  <2>1. e \in Event /\ e.index = 0 /\ ~IsEnd(e)
    BY DEF Event, EventType, IsEnd
  <2>2. /\ events' \in Seq(Event) /\ Len(events') <= EventCap
        /\ events' = events \/ events' = Append(events, e)
    BY <1>2, EmitType DEF AgentInv, AgentTypeOK, EventType
  <2>3. Len(actions) \in Nat /\ actions' = actions
    BY <1>2 DEF AgentInv, AgentTypeOK
  <2> HIDE DEF e
  <2>4. QED
    BY <1>2, <2>1, <2>2, <2>3, EventsStep
<1>6. PcInv'
  BY <1>2, <1>3 DEF PcInv
<1>7. AgentTypeOK'
  <2>1. noToolTurns' \in 0 .. 3 /\ turns' \in Nat
        /\ pc' \in {"model", "noTool", "tool", "run", "plan", "record", "bootFailed", "returned"}
    BY <1>2, <1>3 DEF AgentInv, AgentTypeOK
  <2>2. QED
    BY <1>2, <1>4, <1>5, <2>1, Zenon DEF AgentInv, AgentTypeOK
<1>8. QED
  BY <1>4, <1>5, <1>6, <1>7 DEF AgentInv

LEMMA BootstrapStep ==
    ASSUME AgentInv, bootstrapInitialPlan
    PROVE  AgentInv'
<1>1. BootstrapTools \in Seq(Tool) /\ BootstrapTools # <<>>
  BY AgentAssumptions DEF bootstrapInitialPlan, CanBootstrap, BootstrapTools
<1>2. /\ pc = "noTool" /\ calls = <<>> /\ state = "running"
      /\ emit("message", 0) /\ pc' = "tool" /\ bootstrapping' = TRUE
      /\ calls' = BootstrapTools /\ requested' = requested \o BootstrapTools
      /\ UNCHANGED <<state, noToolTurns, result, actions, selectedProvider, lastContainer, turns,
                     confirmCh, confirming>>
  BY DEF bootstrapInitialPlan, confirmVars, AgentInv, PcInv
<1>3. ActionsFollowRequests' /\ calls' \in Seq(Tool) /\ requested' \in Seq(Tool)
  BY <1>1, <1>2, AskStep
<1>4. /\ events' \in Seq(Event) /\ Len(events') <= EventCap
      /\ EndIsLast' /\ EventsInv'
  <2> DEFINE e == [type |-> "message", index |-> 0]
  <2>1. e \in Event /\ e.index = 0 /\ ~IsEnd(e)
    BY DEF Event, EventType, IsEnd
  <2>2. /\ events' \in Seq(Event) /\ Len(events') <= EventCap
        /\ events' = events \/ events' = Append(events, e)
    BY <1>2, EmitType DEF AgentInv, AgentTypeOK, EventType
  <2>3. Len(actions) \in Nat /\ actions' = actions
    BY <1>2 DEF AgentInv, AgentTypeOK
  <2> HIDE DEF e
  <2>4. QED
    BY <1>2, <2>1, <2>2, <2>3, EventsStep
<1>5. PcInv'
  BY <1>1, <1>2 DEF PcInv
<1>6. AgentTypeOK'
  BY <1>2, <1>3, <1>4, Zenon DEF AgentInv, AgentTypeOK
<1>7. QED
  BY <1>3, <1>4, <1>5, <1>6 DEF AgentInv

\* The call at the head of the list becomes the next action.
LEMMA RecordStep ==
    ASSUME AgentInv, recordAction
    PROVE  AgentInv'
<1> DEFINE a == [tool |-> Head(calls), outcome |-> result]
           n == Len(actions) + 1
<1>1. /\ pc = "record" /\ calls # <<>> /\ state = "running"
      /\ calls \in Seq(Tool) /\ requested \in Seq(Tool) /\ result \in Outcome
      /\ actions \in Seq([tool : Tool, outcome : Outcome]) /\ Len(actions) \in Nat
  BY DEF recordAction, AgentInv, PcInv, AgentTypeOK
<1>2. /\ actions' = Append(actions, a) /\ emit("action", n) /\ calls' = Tail(calls)
      /\ pc' \in {"bootFailed", "model", "tool"}
      /\ pc' = "model" => Tail(calls) = <<>> /\ noToolTurns' = 0
      /\ pc' = "tool" => Tail(calls) # <<>>
      /\ pc' # "model" => noToolTurns' = noToolTurns
      /\ bootstrapping' \in BOOLEAN
      /\ UNCHANGED <<state, result, selectedProvider, lastContainer, turns, requested,
                     confirmCh, confirming>>
  BY DEF recordAction, confirmVars
<1>3. /\ Head(calls) \in Tool /\ Tail(calls) \in Seq(Tool) /\ Len(calls) \in Nat
      /\ Head(calls) = calls[1] /\ 1 \in DOMAIN calls /\ Len(Tail(calls)) = Len(calls) - 1
      /\ DOMAIN Tail(calls) = 1 .. Len(calls) - 1
      /\ \A i \in DOMAIN Tail(calls) : i + 1 \in DOMAIN calls /\ Tail(calls)[i] = calls[i + 1]
  BY <1>1
<1>4. a \in [tool : Tool, outcome : Outcome] /\ a.tool = calls[1]
  BY <1>1, <1>3
<1> HIDE DEF a
<1>5. /\ actions' \in Seq([tool : Tool, outcome : Outcome]) /\ Len(actions') = n
      /\ DOMAIN actions' = 1 .. n /\ actions'[n] = a
      /\ \A i \in 1 .. Len(actions) : actions'[i] = actions[i]
  BY <1>1, <1>2, <1>4
<1>6. ActionsFollowRequests'
  <2>1. /\ Len(actions) + Len(calls) = Len(requested)
        /\ \A i \in 1 .. Len(actions) : actions[i].tool = requested[i]
        /\ \A i \in DOMAIN calls : calls[i] = requested[Len(actions) + i]
    <3>1. DOMAIN actions = 1 .. Len(actions)
      BY <1>1
    <3>2. QED
      BY <3>1 DEF AgentInv, ActionsFollowRequests
  <2>2. Len(actions') + Len(calls') = Len(requested')
    <3>1. Len(calls') = Len(calls) - 1 /\ requested' = requested /\ Len(actions') = Len(actions) + 1
      BY <1>2, <1>3, <1>5
    <3>2. Len(calls) \in Nat /\ Len(actions) \in Nat /\ Len(actions) + Len(calls) = Len(requested)
      BY <1>1, <1>3, <2>1
    <3>3. QED
      BY <3>1, <3>2
  <2>3. \A i \in DOMAIN actions' : actions'[i].tool = requested'[i]
    <3>1. actions'[n].tool = requested'[n]
      BY <1>2, <1>3, <1>4, <1>5, <2>1
    <3>2. \A i \in 1 .. Len(actions) : actions'[i].tool = requested'[i]
      BY <1>2, <1>5, <2>1
    <3>3. \A i \in 1 .. n : i = n \/ i \in 1 .. Len(actions)
      BY <1>1
    <3>4. QED
      BY <1>5, <3>1, <3>2, <3>3
  <2>4. ASSUME NEW i \in DOMAIN calls'
        PROVE  calls'[i] = requested'[Len(actions') + i]
    <3>1. i \in Nat /\ i + 1 \in DOMAIN calls /\ calls'[i] = calls[i + 1]
      BY <1>2, <1>3, <2>4
    <3>2. calls[i + 1] = requested[Len(actions) + (i + 1)]
      BY <2>1, <3>1
    <3>3. Len(actions) + (i + 1) = Len(actions') + i
      BY <1>1, <1>5, <3>1
    <3>4. QED
      BY <1>2, <3>1, <3>2, <3>3
  <2>5. QED
    BY <1>1, <1>2, <2>2, <2>3, <2>4 DEF ActionsFollowRequests
<1>7. /\ events' \in Seq(Event) /\ Len(events') <= EventCap
      /\ EndIsLast' /\ EventsInv'
  <2> DEFINE e == [type |-> "action", index |-> n]
  <2>1. e \in Event /\ e.index = n /\ ~IsEnd(e)
    BY <1>1 DEF Event, EventType, IsEnd
  <2>2. /\ events' \in Seq(Event) /\ Len(events') <= EventCap
        /\ events' = events \/ events' = Append(events, e)
    BY <1>1, <1>2, EmitType DEF AgentInv, AgentTypeOK, EventType
  <2> HIDE DEF e
  <2>3. QED
    BY <1>1, <1>5, <2>1, <2>2, EventsStep
<1>8. PcInv'
  BY <1>1, <1>2 DEF PcInv
<1>9. AgentTypeOK'
  <2>1. pc' \in {"model", "noTool", "tool", "run", "plan", "record", "bootFailed", "returned"}
    BY <1>2
  <2>2. noToolTurns' \in 0 .. 3
    BY <1>2 DEF AgentInv, AgentTypeOK
  <2>3. calls' \in Seq(Tool)
    BY <1>2, <1>3
  <2>4. QED
    BY <1>2, <1>5, <1>7, <2>1, <2>2, <2>3, Zenon DEF AgentInv, AgentTypeOK
<1>10. QED
  BY <1>6, <1>7, <1>8, <1>9 DEF AgentInv

LEMMA RunStep ==
    ASSUME AgentInv, Run
    PROVE  AgentInv'
<1>1. ASSUME NEW hasText \in BOOLEAN, NEW answer \in CallSeq,
             callClaude(hasText, answer)
      PROVE  AgentInv'
  BY <1>1, CallClaudeStep
<1>2. CASE bootstrapInitialPlan
  BY <1>2, BootstrapStep
<1>3. CASE recordAction
  BY <1>3, RecordStep
<1>4. QED
  BY <1>1, <1>2, <1>3, QuietRun DEF Run

LEMMA ConfirmStep ==
    ASSUME AgentInv, NEW c \in Caller, Confirm(c)
    PROVE  AgentInv'
<1>1. UNCHANGED <<pc, state, noToolTurns, calls, bootstrapping, result, actions,
                  selectedProvider, lastContainer, turns, requested, events>>
  BY DEF Confirm, confirmTest, confirmClose, runVars
<1>2. confirmCh' \in {"open", "closed"}
      /\ confirming' \in [Caller -> {"idle", "closing", "returned", "panicked"}]
  BY DEF Confirm, confirmTest, confirmClose, AgentInv, AgentTypeOK
<1>3. AgentTypeOK'
  BY <1>1, <1>2, Zenon DEF AgentInv, AgentTypeOK
<1>4. PcInv' /\ EventsInv' /\ ActionsFollowRequests' /\ EndIsLast'
  BY <1>1 DEF AgentInv, PcInv, EventsInv, InOrder, ActionsFollowRequests, EndIsLast
<1>5. QED
  BY <1>3, <1>4 DEF AgentInv

LEMMA ReceiveStep ==
    ASSUME AgentInv, receive
    PROVE  AgentInv'
<1>1. events # <<>> /\ events' = Tail(events) /\ events \in Seq(Event)
      /\ UNCHANGED <<pc, state, noToolTurns, calls, bootstrapping, result, actions,
                     selectedProvider, lastContainer, turns, requested, confirmCh, confirming>>
  BY DEF receive, runVars, confirmVars, AgentInv, AgentTypeOK
<1>2. /\ events' \in Seq(Event) /\ Len(events) \in Nat /\ Len(events') = Len(events) - 1
      /\ DOMAIN events = 1 .. Len(events) /\ DOMAIN events' = 1 .. Len(events')
      /\ \A i \in DOMAIN events' : i + 1 \in DOMAIN events /\ events'[i] = events[i + 1]
  BY <1>1
<1>3. AgentTypeOK'
  <2>1. Len(events') <= EventCap
    BY <1>2, AgentAssumptions DEF AgentInv, AgentTypeOK
  <2>2. QED
    BY <1>1, <1>2, <2>1, Zenon DEF AgentInv, AgentTypeOK
<1>4. EventsInv'
  BY <1>1, <1>2 DEF AgentInv, EventsInv, InOrder
<1>5. EndIsLast'
  BY <1>1, <1>2 DEF AgentInv, EndIsLast
<1>6. PcInv' /\ ActionsFollowRequests'
  BY <1>1 DEF AgentInv, PcInv, ActionsFollowRequests
<1>7. QED
  BY <1>3, <1>4, <1>5, <1>6 DEF AgentInv

LEMMA AgentUnchanged ==
    ASSUME AgentInv, UNCHANGED agentVars
    PROVE  AgentInv'
BY DEF agentVars, runVars, confirmVars, AgentInv, AgentTypeOK, PcInv, EventsInv, InOrder,
       ActionsFollowRequests, EndIsLast

LEMMA AgentPreserved == AgentInv /\ [AgentNext]_agentVars => AgentInv'
<1> SUFFICES ASSUME AgentInv, [AgentNext]_agentVars
             PROVE  AgentInv'
  OBVIOUS
<1>1. CASE AgentNext
  BY <1>1, RunStep, ConfirmStep, ReceiveStep DEF AgentNext
<1>2. CASE UNCHANGED agentVars
  BY <1>2, AgentUnchanged DEF agentVars, runVars, confirmVars
<1>3. QED
  BY <1>1, <1>2

LEMMA AgentInvariant == AgentSpec => []AgentInv
BY AgentStarts, AgentPreserved, PTL DEF AgentSpec

\* The log of a session misses no call that was asked for and invents none, in
\* the order asked, and a session completes only when all are executed
\* (session.go: the loops of Run and bootstrapInitialPlan, recordAction).
THEOREM LogIsComplete == AgentSpec => []ActionsFollowRequests
<1>1. AgentInv => ActionsFollowRequests
  BY DEF AgentInv
<1>2. QED
  BY <1>1, AgentInvariant, PTL

\* An end that waits in the channel of events is the last event, and tells how
\* Run returned (session.go: the returns of Run).
THEOREM EndsAreLast == AgentSpec => []EndIsLast
<1>1. AgentInv => EndIsLast
  BY DEF AgentInv
<1>2. QED
  BY <1>1, AgentInvariant, PTL

-----------------------------------------------------------------------------
(* The server: the outcome of a session, its rows and its attestation. *)

AfterRun == {"updateState", "saveLog", "saveProvider", "leaving", "ended"}

\* Where the goroutine stands tells what is written, and of what is written each
\* belongs to the outcome of Run.
StageInv ==
    /\ goroutine = "none" <=> row = None
    /\ goroutine \in {"none", "starting", "running"} => pc # "returned"
    /\ goroutine \in AfterRun => pc = "returned"
    /\ goroutine \in {"starting", "running", "updateState"} => row = "running"
    /\ goroutine \notin {"saveProvider", "leaving", "ended", "crashed"} => log = None
    /\ row \in {"completed", "failed"} => pc = "returned" /\ row = state
    /\ log # None => pc = "returned" /\ log = actions
    /\ goroutine = "saveLog" /\ ~dbFailed => row = state
    /\ goroutine \in {"saveProvider", "leaving", "ended"} /\ ~dbFailed =>
           row = state /\ log = actions

\* Only a session that completed and left the registry is attested.
AttestInv ==
    /\ attesting \in {"submit", "save"} => goroutine = "ended" /\ state = "completed"
    /\ onChain # None => goroutine \in {"ended", "crashed"} /\ pc = "returned"
    /\ AttestedIsLogged

\* The types of what the invariants below compare.
OutcomeTypes ==
    /\ goroutine \in {"none", "starting", "running", "crashed"} \cup AfterRun
    /\ row \in {None, "running", "completed", "failed"}
    /\ attesting \in {"none", "submit", "save", "ended"}
    /\ dbFailed \in BOOLEAN

OutcomeInv == OutcomeTypes /\ StageInv /\ AttestInv

outcomeVars == <<goroutine, row, log, dbFailed, attesting, onChain>>

LEMMA OutcomeInit == Init => OutcomeInv
BY ServerAssumptions
   DEF Init, AgentInit, OutcomeInv, OutcomeTypes, StageInv, AttestInv, AttestedIsLogged, AfterRun

\* Every step of the server is one of the agent's steps or leaves the agent alone.
LEMMA AgentStep == [Next]_vars => [AgentNext]_agentVars
<1> SUFFICES ASSUME [Next]_vars
             PROVE  AgentNext \/ UNCHANGED agentVars
  OBVIOUS
<1> USE DEF agentVars, runVars, confirmVars
<1>1. CASE createSession \/ Attestation \/ crash \/ UNCHANGED vars
  BY <1>1 DEF createSession, Attestation, submitAttestation, saveAttestation, crash, vars
<1>2. CASE Goroutine
  BY <1>2 DEF Goroutine, register, run, updateSessionState, saveActionLog,
              saveProviderSelection, leave, AgentNext
<1>3. CASE publish
  BY <1>3 DEF publish, AgentNext
<1>4. ASSUME NEW c \in Caller, confirmSession(c) \/ confirm(c)
      PROVE  AgentNext \/ UNCHANGED agentVars
  BY <1>4 DEF confirmSession, confirm, AgentNext
<1>5. ASSUME NEW c \in Client, Handler(c) \/ disconnect(c)
      PROVE  AgentNext \/ UNCHANGED agentVars
  BY <1>5 DEF Handler, openStream, sendLog, subscribe, sendEvent, disconnect
<1>6. QED
  BY <1>1, <1>2, <1>3, <1>4, <1>5 DEF Next

\* A step that writes nothing of the outcome.
LEMMA OutcomeKept ==
    ASSUME OutcomeInv, UNCHANGED <<outcomeVars, pc, state, actions>>
    PROVE  OutcomeInv'
BY DEF OutcomeInv, OutcomeTypes, StageInv, AttestInv, AttestedIsLogged, outcomeVars

LEMMA OutcomeStep == AgentInv /\ OutcomeInv /\ [Next]_vars => OutcomeInv'
<1> SUFFICES ASSUME AgentInv, OutcomeInv, [Next]_vars
             PROVE  OutcomeInv'
  OBVIOUS
<1> USE DEF outcomeVars, runVars, confirmVars, serverVars, streamVars, dbVars, attestVars
<1>1. state \in {"running", "completed", "failed"} /\ (state = "running" <=> pc # "returned")
  BY DEF AgentInv, AgentTypeOK, PcInv
<1>2. CASE createSession
  <2>1. /\ row = None /\ goroutine = "none" /\ row' = "running" /\ goroutine' = "starting"
        /\ UNCHANGED <<pc, state, actions, log, dbFailed, attesting, onChain>>
    BY <1>2 DEF createSession, agentVars, OutcomeInv, StageInv
  <2>2. OutcomeTypes' /\ StageInv'
    BY <2>1, ServerAssumptions DEF OutcomeInv, OutcomeTypes, StageInv, AfterRun
  <2>3. AttestInv'
    BY <2>1 DEF OutcomeInv, AttestInv, AttestedIsLogged
  <2>4. QED
    BY <2>2, <2>3 DEF OutcomeInv
<1>3. CASE register
  <2>1. /\ goroutine = "starting" /\ goroutine' = "running"
        /\ UNCHANGED <<pc, state, actions, row, log, dbFailed, attesting, onChain>>
    BY <1>3 DEF register, agentVars
  <2>2. QED
    BY <2>1 DEF OutcomeInv, OutcomeTypes, StageInv, AttestInv, AttestedIsLogged, AfterRun
<1>4. CASE run
  <2>1. /\ goroutine = "running" /\ Run
        /\ goroutine' = IF pc' = "returned" THEN "updateState" ELSE "running"
        /\ UNCHANGED <<row, log, dbFailed, attesting, onChain>>
    BY <1>4 DEF run
  <2>2. row = "running" /\ log = None /\ onChain = None
    BY <2>1 DEF OutcomeInv, StageInv, AttestInv
  <2>3. OutcomeTypes' /\ StageInv'
    BY <2>1, <2>2, ServerAssumptions DEF OutcomeInv, OutcomeTypes, StageInv, AfterRun
  <2>4. AttestInv'
    BY <2>1, <2>2 DEF OutcomeInv, AttestInv, AttestedIsLogged
  <2>5. QED
    BY <2>3, <2>4 DEF OutcomeInv
<1>5. CASE updateSessionState
  <2>1. /\ goroutine = "updateState" /\ goroutine' = "saveLog" /\ Write(row, row', state)
        /\ UNCHANGED <<pc, state, actions, log, attesting, onChain>>
        /\ pc = "returned" /\ row = "running" /\ log = None /\ onChain = None
    BY <1>5 DEF updateSessionState, agentVars, OutcomeInv, StageInv, AttestInv, AfterRun
  <2>2. OutcomeTypes'
    BY <1>1, <2>1 DEF Write, OutcomeInv, OutcomeTypes, AfterRun
  <2>3. StageInv'
    BY <1>1, <2>1, ServerAssumptions DEF Write, OutcomeInv, OutcomeTypes, StageInv, AfterRun
  <2>4. AttestInv'
    BY <2>1 DEF OutcomeInv, AttestInv, AttestedIsLogged
  <2>5. QED
    BY <2>2, <2>3, <2>4 DEF OutcomeInv
<1>6. CASE saveActionLog
  <2>1. /\ goroutine = "saveLog" /\ goroutine' = "saveProvider" /\ Write(log, log', actions)
        /\ UNCHANGED <<pc, state, actions, row, attesting, onChain>>
        /\ pc = "returned" /\ onChain = None
    BY <1>6 DEF saveActionLog, agentVars, OutcomeInv, StageInv, AttestInv, AfterRun
  <2>2. OutcomeTypes'
    BY <2>1 DEF Write, OutcomeInv, OutcomeTypes, AfterRun
  <2>3. StageInv'
    BY <2>1 DEF Write, OutcomeInv, OutcomeTypes, StageInv, AfterRun
  <2>4. AttestInv'
    BY <2>1 DEF OutcomeInv, AttestInv, AttestedIsLogged
  <2>5. QED
    BY <2>2, <2>3, <2>4 DEF OutcomeInv
<1>7. CASE saveProviderSelection
  <2>1. /\ goroutine = "saveProvider" /\ goroutine' = "leaving"
        /\ dbFailed' = dbFailed \/ dbFailed' = TRUE
        /\ UNCHANGED <<pc, state, actions, row, log, attesting, onChain>>
    BY <1>7 DEF saveProviderSelection, Write, agentVars
  <2>2. OutcomeTypes' /\ StageInv'
    BY <2>1 DEF OutcomeInv, OutcomeTypes, StageInv, AfterRun
  <2>3. AttestInv'
    BY <2>1 DEF OutcomeInv, OutcomeTypes, AttestInv, AttestedIsLogged
  <2>4. QED
    BY <2>2, <2>3 DEF OutcomeInv
<1>8. CASE leave
  <2>1. /\ goroutine = "leaving" /\ goroutine' = "ended"
        /\ attesting' \in {attesting, "submit"}
        /\ attesting' = "submit" /\ attesting # "submit" => state = "completed"
        /\ UNCHANGED <<pc, state, actions, row, log, dbFailed, onChain>>
    BY <1>8 DEF leave, agentVars
  <2>2. OutcomeTypes' /\ StageInv'
    BY <2>1 DEF OutcomeInv, OutcomeTypes, StageInv, AfterRun
  <2>3. AttestInv'
    BY <2>1 DEF OutcomeInv, AttestInv, AttestedIsLogged
  <2>4. QED
    BY <2>2, <2>3 DEF OutcomeInv
<1>9. ASSUME NEW accepted \in BOOLEAN, submitAttestation(accepted)
      PROVE  OutcomeInv'
  <2>1. /\ attesting = "submit" /\ attesting' = IF accepted THEN "save" ELSE "ended"
        /\ onChain' = IF accepted THEN actions ELSE onChain
        /\ UNCHANGED <<goroutine, pc, state, actions, row, log, dbFailed>>
    BY <1>9 DEF submitAttestation, agentVars
  <2>2. /\ goroutine = "ended" /\ state = "completed" /\ pc = "returned"
        /\ ~dbFailed => row = "completed" /\ log = actions
    BY <2>1 DEF OutcomeInv, StageInv, AttestInv, AfterRun
  <2>3. OutcomeTypes' /\ StageInv'
    BY <2>1 DEF OutcomeInv, OutcomeTypes, StageInv
  <2>4. AttestInv'
    BY <2>1, <2>2 DEF OutcomeInv, AttestInv, AttestedIsLogged
  <2>5. QED
    BY <2>3, <2>4 DEF OutcomeInv
<1>10. CASE saveAttestation
  <2>1. /\ attesting = "save" /\ attesting' = "ended"
        /\ dbFailed' = dbFailed \/ dbFailed' = TRUE
        /\ UNCHANGED <<goroutine, pc, state, actions, row, log, onChain>>
    BY <1>10 DEF saveAttestation, Write, agentVars
  <2>2. OutcomeTypes' /\ StageInv'
    BY <2>1 DEF OutcomeInv, OutcomeTypes, StageInv
  <2>3. AttestInv'
    BY <2>1 DEF OutcomeInv, OutcomeTypes, AttestInv, AttestedIsLogged
  <2>4. QED
    BY <2>2, <2>3 DEF OutcomeInv
<1>11. ASSUME NEW c \in Caller, confirmSession(c) \/ confirm(c)
       PROVE  OutcomeInv'
  <2>1. UNCHANGED <<pc, state, actions>>
    BY <1>11 DEF confirmSession, confirm, agentVars, Confirm, confirmTest,
                 confirmClose, runVars
  <2>2. UNCHANGED outcomeVars
    BY <1>11 DEF confirmSession, confirm
  <2>3. QED
    BY <2>1, <2>2, OutcomeKept
<1>12. CASE publish
  BY <1>12, OutcomeKept DEF publish, receive, runVars
<1>13. ASSUME NEW c \in Client, Handler(c) \/ disconnect(c)
       PROVE  OutcomeInv'
  BY <1>13, OutcomeKept DEF Handler, openStream, sendLog, subscribe, sendEvent, disconnect, agentVars
<1>14. CASE crash
  <2>1. /\ goroutine' = IF goroutine = "none" THEN "none" ELSE "crashed"
        /\ attesting' = "ended"
        /\ UNCHANGED <<pc, state, actions, row, log, dbFailed, onChain>>
    BY <1>14 DEF crash, agentVars
  <2>2. OutcomeTypes' /\ StageInv'
    BY <2>1 DEF OutcomeInv, OutcomeTypes, StageInv, AfterRun
  <2>3. AttestInv'
    BY <2>1 DEF OutcomeInv, AttestInv, AttestedIsLogged
  <2>4. QED
    BY <2>2, <2>3 DEF OutcomeInv
<1>15. CASE UNCHANGED vars
  BY <1>15, OutcomeKept DEF vars, agentVars
<1>16. QED
  BY <1>2, <1>3, <1>4, <1>5, <1>6, <1>7, <1>8, <1>9, <1>10, <1>11, <1>12, <1>13, <1>14, <1>15
     DEF Next, Goroutine, Attestation

LEMMA AgentInServer == Spec => []AgentInv
<1>1. Init => AgentInv
  BY AgentStarts DEF Init
<1>2. AgentInv /\ [Next]_vars => AgentInv'
  BY AgentStep, AgentPreserved
<1>3. QED
  BY <1>1, <1>2, PTL DEF Spec

LEMMA OutcomeInvariant == Spec => []OutcomeInv
BY OutcomeInit, OutcomeStep, AgentInServer, PTL DEF Spec

\* Whatever is attested on the chain are all the actions of a completed session,
\* and they were saved before unless a write failed, wherever the server crashes
\* (handlers.go: the order of the writes and of submitAttestation).
THEOREM AttestationsAreLogged == Spec => []AttestedIsLogged
<1>1. OutcomeInv => AttestedIsLogged
  BY DEF OutcomeInv, AttestInv
<1>2. QED
  BY <1>1, OutcomeInvariant, PTL

\* A step that leaves alone everything the pages see of the session.
LEMMA ServiceKept ==
    ASSUME UNCHANGED <<goroutine, pc, state, row, log>>
    PROVE  UNCHANGED Service!serviceVars
BY DEF Service!serviceVars, Stage

\* What each step of the server is to those who see the row, the outcome and the
\* log: one step of the service or none.
LEMMA ServiceStep == AgentInv /\ OutcomeInv /\ [Next]_vars => [Service!ServiceNext]_(Service!serviceVars)
<1> SUFFICES ASSUME AgentInv, OutcomeInv, [Next]_vars
             PROVE  Service!ServiceNext \/ UNCHANGED Service!serviceVars
  OBVIOUS
<1> DEFINE s == "session"
<1> USE DEF runVars, confirmVars, serverVars, streamVars, dbVars, attestVars, OneSession
<1>1. state \in {"running", "completed", "failed"} /\ (state = "running" <=> pc # "returned")
  BY DEF AgentInv, AgentTypeOK, PcInv
<1>2. CASE createSession
  <2>1. /\ goroutine = "none" /\ row' = "running" /\ goroutine' = "starting"
        /\ UNCHANGED <<pc, state, log>>
    BY <1>2 DEF createSession, agentVars, OutcomeInv, StageInv
  <2>2. Service!Create(s)
    BY <2>1 DEF Service!Create, Stage
  <2>3. QED
    BY <2>2 DEF Service!ServiceNext
<1>3. CASE register
  <2>1. /\ goroutine = "starting" /\ goroutine' = "running"
        /\ UNCHANGED <<pc, state, row, log>>
    BY <1>3 DEF register, agentVars
  <2>2. QED
    BY <2>1 DEF Service!serviceVars, Stage
<1>4. CASE run
  <2>1. /\ goroutine = "running" /\ pc # "returned"
        /\ goroutine' = IF pc' = "returned" THEN "updateState" ELSE "running"
        /\ UNCHANGED <<row, log>>
    BY <1>4 DEF run, OutcomeInv, StageInv
  <2>2. state' \in {"running", "completed", "failed"} /\ (state' = "running" <=> pc' # "returned")
    BY AgentStep, AgentPreserved DEF AgentInv, AgentTypeOK, PcInv
  <2>3. CASE pc' = "returned"
    <3>1. Service!End(s, state') /\ state' \in Service!Outcome
      BY <2>1, <2>2, <2>3 DEF Service!End, Service!Outcome, Stage
    <3>2. QED
      BY <3>1 DEF Service!ServiceNext, Service!Advance
  <2>4. CASE pc' # "returned"
    BY <2>1, <2>4 DEF Service!serviceVars, Stage
  <2>5. QED
    BY <2>3, <2>4
<1>5. CASE updateSessionState
  <2>1. /\ goroutine = "updateState" /\ goroutine' = "saveLog" /\ pc = "returned"
        /\ row' = state \/ row' = row
        /\ UNCHANGED <<pc, state, log>>
    BY <1>5 DEF updateSessionState, Write, agentVars, OutcomeInv, StageInv, AfterRun
  <2>2. Service!UpdateRow(s, TRUE) \/ Service!UpdateRow(s, FALSE)
    BY <2>1 DEF Service!UpdateRow, Stage
  <2>3. QED
    BY <2>2 DEF Service!ServiceNext, Service!Advance
<1>6. CASE saveActionLog
  <2>1. /\ goroutine = "saveLog" /\ goroutine' = "saveProvider" /\ log = None
        /\ UNCHANGED <<pc, state, row>>
    BY <1>6 DEF saveActionLog, agentVars, OutcomeInv, StageInv
  <2>2. Service!SaveLog(s, TRUE) \/ Service!SaveLog(s, FALSE)
    BY <2>1 DEF Service!SaveLog, Stage
  <2>3. QED
    BY <2>2 DEF Service!ServiceNext, Service!Advance
<1>7. CASE saveProviderSelection \/ leave
  <2>1. /\ goroutine \in {"saveProvider", "leaving"} /\ goroutine' \in {"leaving", "ended"}
        /\ UNCHANGED <<pc, state, row, log>>
    BY <1>7 DEF saveProviderSelection, leave, agentVars
  <2>2. QED
    BY <2>1 DEF Service!serviceVars, Stage
<1>8. CASE Attestation
  BY <1>8, ServiceKept DEF Attestation, submitAttestation, saveAttestation, agentVars
<1>9. ASSUME NEW c \in Caller, confirmSession(c) \/ confirm(c)
      PROVE  UNCHANGED Service!serviceVars
  BY <1>9, ServiceKept DEF confirmSession, confirm, agentVars, Confirm, confirmTest,
                           confirmClose, runVars
<1>10. CASE publish
  BY <1>10, ServiceKept DEF publish, receive, runVars
<1>11. ASSUME NEW c \in Client, Handler(c) \/ disconnect(c)
       PROVE  UNCHANGED Service!serviceVars
  BY <1>11, ServiceKept DEF Handler, openStream, sendLog, subscribe, sendEvent, disconnect, agentVars
<1>12. CASE crash
  <2>1. /\ goroutine' = IF goroutine = "none" THEN "none" ELSE "crashed"
        /\ UNCHANGED <<pc, state, row, log>>
    BY <1>12 DEF crash, agentVars
  <2>2. CASE goroutine \in {"none", "crashed"}
    BY <2>1, <2>2 DEF Service!serviceVars, Stage
  <2>3. CASE goroutine \notin {"none", "crashed"}
    <3>1. Service!Die(s)
      BY <2>1, <2>3 DEF Service!Die, Stage, OutcomeInv, OutcomeTypes, AfterRun
    <3>2. QED
      BY <3>1 DEF Service!ServiceNext
  <2>4. QED
    BY <2>2, <2>3
<1>13. CASE UNCHANGED vars
  BY <1>13, ServiceKept DEF vars, agentVars
<1>14. QED
  BY <1>2, <1>3, <1>4, <1>5, <1>6, <1>7, <1>8, <1>9, <1>10, <1>11, <1>12, <1>13
     DEF Next, Goroutine

\* To its clients the server is the service on which the models of the pages are
\* built: the outcome is decided once, then the row is written, then the log,
\* whatever fails and wherever it crashes (handlers.go: createSession,
\* runAgentSession).
THEOREM ServiceRefined == Spec => ServiceImplemented
<1>1. Init => Service!ServiceInit
  BY DEF Init, AgentInit, Service!ServiceInit, Stage, OneSession
<1>2. QED
  BY <1>1, ServiceStep, AgentInServer, OutcomeInvariant, PTL
     DEF Spec, ServiceImplemented, Service!ServiceSpec

\* What is written of a session's outcome is the outcome of Run, and is never
\* changed (handlers.go: the writes of runAgentSession).
THEOREM OutcomeFinality == Spec => OutcomeIsFinal
<1> DEFINE Kept == /\ row \in {"completed", "failed"} => row' = row
                   /\ row' # row /\ row # None => row' = state
                   /\ log # None => log' = log
<1>1. OutcomeInv /\ [Next]_vars => Kept
  <2> SUFFICES ASSUME OutcomeInv, [Next]_vars
               PROVE  Kept
    OBVIOUS
  <2>1. UNCHANGED <<row, log>> => Kept
    OBVIOUS
  <2>2. CASE createSession
    <3>1. row = None /\ row' = "running" /\ log' = log
      BY <2>2 DEF createSession
    <3>2. QED
      BY <3>1, ServerAssumptions
  <2>3. CASE updateSessionState
    <3>1. row = "running" /\ (row' = state \/ row' = row) /\ log' = log
      BY <2>3 DEF updateSessionState, Write, OutcomeInv, StageInv
    <3>2. QED
      BY <3>1
  <2>4. CASE saveActionLog
    <3>1. row' = row /\ log = None
      BY <2>4 DEF saveActionLog, OutcomeInv, StageInv
    <3>2. QED
      BY <3>1
  <2> HIDE DEF Kept
  <2> USE DEF dbVars
  <2>5. CASE register \/ run \/ saveProviderSelection \/ leave \/ Attestation
    BY <2>1, <2>5 DEF register, run, saveProviderSelection, leave, Attestation,
                      submitAttestation, saveAttestation
  <2>6. ASSUME NEW c \in Caller, confirmSession(c) \/ confirm(c)
        PROVE  Kept
    BY <2>1, <2>6 DEF confirmSession, confirm
  <2>7. ASSUME NEW c \in Client, Handler(c) \/ disconnect(c)
        PROVE  Kept
    BY <2>1, <2>7 DEF Handler, openStream, sendLog, subscribe, sendEvent, disconnect
  <2>8. CASE publish \/ crash \/ UNCHANGED vars
    BY <2>1, <2>8 DEF publish, crash, vars
  <2>9. QED
    BY <2>2, <2>3, <2>4, <2>5, <2>6, <2>7, <2>8 DEF Next, Goroutine
<1>2. QED
  BY <1>1, OutcomeInvariant, PTL DEF Spec, OutcomeIsFinal

-----------------------------------------------------------------------------
(* The server: the streams of events. *)

\* The actions of s come before those of t.
Before(s, t) ==
    \A i \in DOMAIN s, j \in DOMAIN t :
        s[i].index > 0 /\ t[j].index > 0 => s[i].index < t[j].index

Recorded(s) == \A i \in DOMAIN s : s[i].index <= Len(actions)

\* What a client was sent, what its channel holds and, while the bus holds the
\* channel, what the forwarder has yet to publish follow one another.
ClientInv(c) ==
    /\ Len(chan[c]) <= ClientCap
    /\ c \in subs <=> stream[c] = "subscribed"
    /\ Recorded(seen[c]) /\ Recorded(chan[c])
    /\ InOrder(seen[c]) /\ InOrder(chan[c]) /\ Before(seen[c], chan[c])
    /\ c \in subs => Before(seen[c], events) /\ Before(chan[c], events)
    /\ stream[c] \in {"idle", "live", "over"} => seen[c] = <<>>
    /\ \A i \in DOMAIN seen[c] :
           IsEnd(seen[c][i]) => i = Len(seen[c]) /\ stream[c] = "closed"

StreamTypes ==
    /\ subs \subseteq Client
    /\ chan \in [Client -> Seq(Event)]
    /\ stream \in [Client -> {"idle", "live", "over", "subscribed", "closed", "gone"}]
    /\ seen \in [Client -> Seq(Event)]

StreamInv == StreamTypes /\ \A c \in Client : ClientInv(c)

\* A concatenation is in order if its parts are, one before the other.
LEMMA ConcatInOrder ==
    ASSUME NEW s \in Seq(Event), NEW t \in Seq(Event)
    PROVE  /\ InOrder(s) /\ InOrder(t) /\ Before(s, t) => InOrder(s \o t)
           /\ \A u \in Seq(Event) : Before(s, u) /\ Before(t, u) => Before(s \o t, u)
<1>1. /\ DOMAIN s = 1 .. Len(s) /\ DOMAIN t = 1 .. Len(t) /\ Len(s) \in Nat /\ Len(t) \in Nat
      /\ DOMAIN (s \o t) = 1 .. Len(s) + Len(t)
      /\ \A i \in 1 .. Len(s) : (s \o t)[i] = s[i]
      /\ \A i \in Len(s) + 1 .. Len(s) + Len(t) :
             (s \o t)[i] = t[i - Len(s)] /\ i - Len(s) \in 1 .. Len(t)
  OBVIOUS
<1>2. \A i \in 1 .. Len(s) + Len(t) : i \in 1 .. Len(s) \/ i \in Len(s) + 1 .. Len(s) + Len(t)
  BY <1>1
<1>3. ASSUME InOrder(s), InOrder(t), Before(s, t)
      PROVE  InOrder(s \o t)
  <2> SUFFICES ASSUME NEW i \in 1 .. Len(s) + Len(t), NEW j \in 1 .. Len(s) + Len(t), i < j,
                      (s \o t)[i].index > 0, (s \o t)[j].index > 0
               PROVE  (s \o t)[i].index < (s \o t)[j].index
    BY <1>1 DEF InOrder
  <2>1. CASE j \in 1 .. Len(s)
    BY <1>1, <1>3, <2>1 DEF InOrder
  <2>2. CASE i \in 1 .. Len(s) /\ j \in Len(s) + 1 .. Len(s) + Len(t)
    BY <1>1, <1>3, <2>2 DEF Before
  <2>3. CASE i \in Len(s) + 1 .. Len(s) + Len(t) /\ j \in Len(s) + 1 .. Len(s) + Len(t)
    <3>1. i - Len(s) < j - Len(s)
      BY <1>1
    <3>2. QED
      BY <1>1, <1>3, <2>3, <3>1 DEF InOrder
  <2>4. QED
    BY <1>1, <1>2, <2>1, <2>2, <2>3
<1>4. ASSUME NEW u \in Seq(Event), Before(s, u), Before(t, u)
      PROVE  Before(s \o t, u)
  BY <1>1, <1>2, <1>4 DEF Before
<1>5. QED
  BY <1>3, <1>4

\* Taking the head of a sequence leaves it in order, and before or after what it was.
LEMMA TailInOrder ==
    ASSUME NEW t \in Seq(Event), t # <<>>, NEW u \in Seq(Event)
    PROVE  /\ Tail(t) \in Seq(Event) /\ Head(t) \in Event
           /\ Len(Tail(t)) = Len(t) - 1
           /\ InOrder(t) => InOrder(Tail(t))
           /\ Before(t, u) => Before(Tail(t), u)
           /\ Before(u, t) => Before(u, Tail(t))
           /\ Recorded(t) => Recorded(Tail(t)) /\ Head(t).index <= Len(actions)
<1>1. /\ Tail(t) \in Seq(Event) /\ Head(t) = t[1] /\ Len(t) \in Nat /\ Len(t) > 0
      /\ DOMAIN t = 1 .. Len(t) /\ Len(Tail(t)) = Len(t) - 1
      /\ DOMAIN Tail(t) = 1 .. Len(t) - 1
      /\ \A i \in 1 .. Len(t) - 1 : Tail(t)[i] = t[i + 1] /\ i + 1 \in 1 .. Len(t)
  OBVIOUS
<1>2. t[1] \in Event /\ 1 \in DOMAIN t
  BY <1>1
<1>3. InOrder(t) => InOrder(Tail(t))
  BY <1>1 DEF InOrder
<1>4. Before(t, u) => Before(Tail(t), u)
  BY <1>1 DEF Before
<1>5. Before(u, t) => Before(u, Tail(t))
  BY <1>1 DEF Before
<1>6. Recorded(t) => Recorded(Tail(t)) /\ Head(t).index <= Len(actions)
  BY <1>1, <1>2 DEF Recorded
<1>7. QED
  BY <1>1, <1>2, <1>3, <1>4, <1>5, <1>6

\* Moving the head of one sequence to the end of the one before it.
LEMMA MoveInOrder ==
    ASSUME NEW s \in Seq(Event), NEW t \in Seq(Event), t # <<>>
    PROVE  /\ InOrder(s) /\ Before(s, t) => InOrder(Append(s, Head(t)))
           /\ InOrder(t) /\ Before(s, t) => Before(Append(s, Head(t)), Tail(t))
           /\ Recorded(s) /\ Recorded(t) => Recorded(Append(s, Head(t)))
           /\ \A u \in Seq(Event) :
                  /\ Before(s, u) /\ Before(t, u) => Before(Append(s, Head(t)), u)
                  /\ Before(u, s) /\ Before(u, t) => Before(u, Append(s, Head(t)))
<1> DEFINE a == Append(s, Head(t))
<1>1. /\ a \in Seq(Event) /\ Len(s) \in Nat /\ Len(t) \in Nat /\ Len(t) > 0
      /\ DOMAIN s = 1 .. Len(s) /\ DOMAIN t = 1 .. Len(t) /\ DOMAIN a = 1 .. Len(s) + 1
      /\ \A i \in 1 .. Len(s) : a[i] = s[i]
      /\ a[Len(s) + 1] = t[1]
      /\ DOMAIN Tail(t) = 1 .. Len(t) - 1
      /\ \A i \in 1 .. Len(t) - 1 : Tail(t)[i] = t[i + 1] /\ i + 1 \in 1 .. Len(t)
  OBVIOUS
<1>2. 1 \in DOMAIN t /\ \A i \in 1 .. Len(s) + 1 : i \in 1 .. Len(s) \/ i = Len(s) + 1
  BY <1>1
<1> HIDE DEF a
<1>3. ASSUME InOrder(s), Before(s, t)
      PROVE  InOrder(a)
  <2> SUFFICES ASSUME NEW i \in 1 .. Len(s) + 1, NEW j \in 1 .. Len(s) + 1, i < j,
                      a[i].index > 0, a[j].index > 0
               PROVE  a[i].index < a[j].index
    BY <1>1 DEF InOrder
  <2>1. i \in 1 .. Len(s) /\ a[i] = s[i]
    BY <1>1
  <2>2. CASE j \in 1 .. Len(s)
    BY <1>1, <1>3, <2>1, <2>2 DEF InOrder
  <2>3. CASE j = Len(s) + 1
    BY <1>1, <1>2, <1>3, <2>1, <2>3 DEF Before
  <2>4. QED
    BY <1>2, <2>2, <2>3
<1>4. ASSUME InOrder(t), Before(s, t)
      PROVE  Before(a, Tail(t))
  <2> SUFFICES ASSUME NEW i \in 1 .. Len(s) + 1, NEW j \in 1 .. Len(t) - 1,
                      a[i].index > 0, Tail(t)[j].index > 0
               PROVE  a[i].index < Tail(t)[j].index
    BY <1>1 DEF Before
  <2>1. Tail(t)[j] = t[j + 1] /\ j + 1 \in DOMAIN t /\ 1 < j + 1
    BY <1>1
  <2>2. CASE i \in 1 .. Len(s)
    BY <1>1, <1>4, <2>1, <2>2 DEF Before
  <2>3. CASE i = Len(s) + 1
    BY <1>1, <1>2, <1>4, <2>1, <2>3 DEF InOrder
  <2>4. QED
    BY <1>2, <2>2, <2>3
<1>5. Recorded(s) /\ Recorded(t) => Recorded(a)
  BY <1>1, <1>2 DEF Recorded
<1>6. ASSUME NEW u \in Seq(Event)
      PROVE  /\ Before(s, u) /\ Before(t, u) => Before(a, u)
             /\ Before(u, s) /\ Before(u, t) => Before(u, a)
  BY <1>1, <1>2 DEF Before
<1>7. QED
  BY <1>3, <1>4, <1>5, <1>6 DEF a

\* What a step of Run adds to the channel of events is of the action it records,
\* or of none.
LEMMA RunEvents ==
    ASSUME AgentInv, Run
    PROVE  /\ Len(actions) \in Nat /\ Len(actions') \in Nat /\ Len(actions) <= Len(actions')
           /\ \A j \in DOMAIN events' :
                  \/ j \in DOMAIN events /\ events'[j] = events[j]
                  \/ events'[j].index = 0
                  \/ events'[j].index = Len(actions) + 1
<1> USE DEF emitIf
<1>1. /\ events \in Seq(Event)
      /\ actions \in Seq([tool : Tool, outcome : Outcome]) /\ Len(actions) \in Nat
  BY DEF AgentInv, AgentTypeOK
<1>2. \E type \in EventType, n \in {0, Len(actions) + 1} :
          emit(type, n) \/ UNCHANGED events
  <2>1. CASE recordAction
    BY <2>1, Zenon DEF recordAction, EventType
  <2>2. CASE callClaudeFails \/ bootstrapFails
    BY <2>2 DEF callClaudeFails, bootstrapFails, Fail, EventType
  <2>3. CASE complete \/ presentPlan
    BY <2>3 DEF complete, presentPlan, EventType
  <2>4. CASE Run /\ ~recordAction /\ ~callClaudeFails /\ ~bootstrapFails
             /\ ~complete /\ ~presentPlan
    <3>1. emit("message", 0) \/ UNCHANGED events
      BY <2>4 DEF Run, callClaude, nudge, bootstrapInitialPlan,
                  refuseInput, beginTool, finishTool, planConfirmed,
                  planTimesOut
    <3>2. QED
      BY <3>1 DEF EventType
  <2>5. QED
    BY <2>1, <2>2, <2>3, <2>4
<1>3. PICK type \in EventType, n \in {0, Len(actions) + 1} :
          emit(type, n) \/ UNCHANGED events
  BY <1>2
<1>4. /\ n \in Nat
      /\ events' = events \/ events' = Append(events, [type |-> type, index |-> n])
  BY <1>1, <1>3 DEF emit
<1>5. ASSUME NEW j \in DOMAIN events'
      PROVE  \/ j \in DOMAIN events /\ events'[j] = events[j]
             \/ events'[j].index = 0
             \/ events'[j].index = Len(actions) + 1
  <2> DEFINE e == [type |-> type, index |-> n]
  <2>1. e.index = n /\ e \in Event
    BY <1>4 DEF Event
  <2> HIDE DEF e
  <2>2. QED
    BY <1>1, <1>3, <1>4, <1>5, <2>1 DEF e
<1>6. Len(actions') \in Nat /\ Len(actions) <= Len(actions')
  <2>1. actions' = actions \/ recordAction
    BY DEF Run, callClaudeFails, callClaude, nudge,
           bootstrapInitialPlan, complete, refuseInput, beginTool,
           finishTool, presentPlan, planConfirmed, planTimesOut,
           bootstrapFails
  <2>2. CASE recordAction
    <3>1. result \in Outcome /\ Head(calls) \in Tool
      BY <2>2 DEF recordAction, AgentInv, PcInv, AgentTypeOK
    <3>2. actions' = Append(actions, [tool |-> Head(calls), outcome |-> result])
      BY <2>2 DEF recordAction
    <3>3. QED
      BY <1>1, <3>1, <3>2
  <2>3. QED
    BY <1>1, <2>1, <2>2
<1>7. QED
  BY <1>1, <1>5, <1>6

LEMMA StreamInit == Init => StreamInv
<1> SUFFICES ASSUME Init
             PROVE  StreamInv
  OBVIOUS
<1>1. StreamTypes
  BY DEF Init, StreamTypes
<1>2. ASSUME NEW c \in Client
      PROVE  ClientInv(c)
  <2>1. chan[c] = <<>> /\ seen[c] = <<>> /\ c \notin subs /\ stream[c] = "idle"
    BY DEF Init
  <2>2. QED
    BY <2>1, ServerAssumptions DEF ClientInv, Recorded, InOrder, Before
<1>3. QED
  BY <1>1, <1>2 DEF StreamInv

\* A client that a step does not touch.
LEMMA ClientKept ==
    ASSUME NEW c \in Client, ClientInv(c),
           UNCHANGED <<chan[c], seen[c], stream[c], events, actions>>, c \in subs' <=> c \in subs
    PROVE  ClientInv(c)'
BY DEF ClientInv, Recorded, InOrder, Before

\* Run adds nothing to the channel of events that is older than what was sent.
LEMMA ClientRun ==
    ASSUME AgentInv, StreamInv, Run, UNCHANGED <<chan, seen, stream, subs>>,
           NEW c \in Client
    PROVE  ClientInv(c)'
<1>1. ClientInv(c) /\ seen[c] \in Seq(Event) /\ chan[c] \in Seq(Event)
  BY DEF StreamInv, StreamTypes
<1>2. /\ Len(actions) \in Nat /\ Len(actions') \in Nat /\ Len(actions) <= Len(actions')
      /\ \A j \in DOMAIN events' :
             \/ j \in DOMAIN events /\ events'[j] = events[j]
             \/ events'[j].index = 0
             \/ events'[j].index = Len(actions) + 1
  BY RunEvents
<1>3. ASSUME NEW s \in Seq(Event), Recorded(s)
      PROVE  /\ \A i \in DOMAIN s : s[i].index <= Len(actions')
             /\ Before(s, events) => Before(s, events')
  <2>1. \A i \in DOMAIN s : s[i] \in Event
    OBVIOUS
  <2>2. \A i \in DOMAIN s : s[i].index \in Nat
    BY <2>1 DEF Event
  <2>3. \A i \in DOMAIN s : s[i].index <= Len(actions)
    BY <1>3 DEF Recorded
  <2>4. QED
    BY <1>2, <2>2, <2>3 DEF Before
<1>4. Recorded(seen[c])' /\ Recorded(chan[c])'
  BY <1>1, <1>3 DEF ClientInv, Recorded
<1>5. c \in subs => Before(seen[c], events)' /\ Before(chan[c], events)'
  <2>1. Before(seen[c], events)' <=> Before(seen[c], events')
    BY DEF Before
  <2>2. Before(chan[c], events)' <=> Before(chan[c], events')
    BY DEF Before
  <2>3. QED
    BY <1>1, <1>3, <2>1, <2>2 DEF ClientInv
<1>6. QED
  BY <1>1, <1>4, <1>5 DEF ClientInv, InOrder, Before

\* The forwarder publishes the oldest event: a channel takes it or loses it.
LEMMA ClientPublish ==
    ASSUME AgentInv, StreamInv, publish, NEW c \in Client
    PROVE  ClientInv(c)' /\ chan'[c] \in Seq(Event)
<1>1. /\ ClientInv(c) /\ seen[c] \in Seq(Event) /\ chan[c] \in Seq(Event)
      /\ events \in Seq(Event) /\ InOrder(events) /\ Recorded(events)
  BY DEF StreamInv, StreamTypes, AgentInv, AgentTypeOK, EventsInv, Recorded
<1>2. /\ events # <<>> /\ events' = Tail(events) /\ chan'[c] = Published(c, Head(events))
      /\ UNCHANGED <<actions, seen, stream, subs>>
  BY DEF publish, receive, runVars
<1>3. /\ Len(chan[c]) \in Nat
      /\ c \in subs => Before(seen[c], events') /\ Before(chan[c], events')
  BY <1>1, <1>2, TailInOrder DEF ClientInv
<1>4. CASE chan'[c] = chan[c]
  BY <1>1, <1>2, <1>3, <1>4 DEF ClientInv, Recorded, InOrder, Before
<1>5. CASE chan'[c] = Append(chan[c], Head(events)) /\ c \in subs /\ Len(chan[c]) < ClientCap
  <2> DEFINE a == Append(chan[c], Head(events))
  <2>1. Head(events) \in Event
    BY <1>1, <1>2, TailInOrder
  <2>2. a \in Seq(Event) /\ Len(a) = Len(chan[c]) + 1
    BY <1>1, <2>1
  <2>3. Len(a) <= ClientCap
    BY <1>3, <1>5, <2>2, ServerAssumptions
  <2>4. /\ Before(seen[c], events) /\ Before(chan[c], events)
        /\ InOrder(chan[c]) /\ Before(seen[c], chan[c]) /\ Recorded(chan[c])
    BY <1>1, <1>5 DEF ClientInv
  <2>5. InOrder(a) /\ Before(a, events') /\ Recorded(a) /\ Before(seen[c], a)
    BY <1>1, <1>2, <2>4, MoveInOrder
  <2>6. Before(seen[c], events')
    BY <1>3, <1>5
  <2> HIDE DEF a
  <2>7. chan'[c] = a
    BY <1>5 DEF a
  <2>8. QED
    BY <1>1, <1>2, <2>2, <2>3, <2>5, <2>6, <2>7 DEF ClientInv, Recorded, InOrder, Before
<1>6. QED
  BY <1>2, <1>4, <1>5, <1>1, <1>3 DEF Published

\* The handler sends the oldest event of the channel, and leaves after an end.
LEMMA ClientSend ==
    ASSUME AgentInv, StreamInv, NEW c \in Client, sendEvent(c)
    PROVE  ClientInv(c)' /\ chan'[c] \in Seq(Event) /\ seen'[c] \in Seq(Event)
<1> DEFINE e == Head(chan[c])
           a == Append(seen[c], e)
<1>1. /\ ClientInv(c) /\ seen[c] \in Seq(Event) /\ chan[c] \in Seq(Event)
      /\ events \in Seq(Event)
  BY DEF StreamInv, StreamTypes, AgentInv, AgentTypeOK
<1>2. /\ stream[c] = "subscribed" /\ chan[c] # <<>>
      /\ seen'[c] = IF Matters(e) THEN a ELSE seen[c]
      /\ chan'[c] = Tail(chan[c])
      /\ stream'[c] = IF IsEnd(e) THEN "closed" ELSE stream[c]
      /\ c \in subs' <=> c \in subs /\ ~IsEnd(e)
      /\ UNCHANGED <<actions, events>>
  BY DEF sendEvent, StreamInv, StreamTypes, agentVars, runVars, confirmVars
<1>3. /\ c \in subs /\ Before(seen[c], events) /\ Before(chan[c], events)
      /\ InOrder(seen[c]) /\ InOrder(chan[c]) /\ Before(seen[c], chan[c])
      /\ Recorded(seen[c]) /\ Recorded(chan[c]) /\ Len(chan[c]) <= ClientCap
      /\ \A i \in DOMAIN seen[c] : ~IsEnd(seen[c][i])
  BY <1>1, <1>2 DEF ClientInv
<1>4. /\ Tail(chan[c]) \in Seq(Event) /\ e \in Event
      /\ Len(Tail(chan[c])) = Len(chan[c]) - 1 /\ InOrder(Tail(chan[c]))
      /\ Before(Tail(chan[c]), events) /\ Before(seen[c], Tail(chan[c])) /\ Recorded(Tail(chan[c]))
  BY <1>1, <1>2, <1>3, TailInOrder
<1>5. InOrder(a) /\ Before(a, Tail(chan[c])) /\ Recorded(a) /\ Before(a, events)
  BY <1>1, <1>2, <1>3, MoveInOrder
<1>6. Len(Tail(chan[c])) <= ClientCap
  BY <1>1, <1>3, <1>4, ServerAssumptions
<1>7. /\ a \in Seq(Event) /\ Len(a) = Len(seen[c]) + 1 /\ DOMAIN a = 1 .. Len(a)
      /\ \A i \in DOMAIN a :
             \/ i \in DOMAIN seen[c] /\ a[i] = seen[c][i]
             \/ i = Len(a) /\ a[i] = e
  <2> HIDE DEF e
  <2>1. QED
    BY <1>1, <1>4 DEF a
<1>8. IsEnd(e) => Matters(e)
  BY DEF Matters
<1> HIDE DEF e, a
<1>9. /\ \A i \in DOMAIN seen'[c] :
             IsEnd(seen'[c][i]) => i = Len(seen'[c]) /\ stream'[c] = "closed"
  BY <1>2, <1>3, <1>7, <1>8
<1>10. seen'[c] \in {seen[c], a} /\ seen'[c] \in Seq(Event)
  BY <1>1, <1>2, <1>7
<1>11. /\ InOrder(seen'[c]) /\ Before(seen'[c], chan'[c]) /\ Before(seen'[c], events')
       /\ Recorded(seen'[c]) /\ Before(chan'[c], events')
  BY <1>2, <1>3, <1>4, <1>5, <1>10
<1>12. /\ c \in subs' <=> stream'[c] = "subscribed"
       /\ stream'[c] \notin {"idle", "live", "over"}
  BY <1>2, <1>3
<1>13. ClientInv(c)'
  <2>1. Recorded(seen[c])' /\ Recorded(chan[c])'
    BY <1>2, <1>4, <1>11 DEF Recorded
  <2>2. /\ InOrder(seen[c])' /\ InOrder(chan[c])' /\ Before(seen[c], chan[c])'
        /\ Before(seen[c], events)' /\ Before(chan[c], events)'
    BY <1>2, <1>4, <1>11 DEF InOrder, Before
  <2>3. (\A i \in DOMAIN seen[c] :
            IsEnd(seen[c][i]) => i = Len(seen[c]) /\ stream[c] = "closed")'
    BY <1>9 DEF IsEnd
  <2>4. QED
    BY <1>2, <1>6, <1>12, <2>1, <2>2, <2>3 DEF ClientInv
<1>14. QED
  BY <1>2, <1>4, <1>10, <1>13

\* A step that leaves the streams and the agent's events as they are.
LEMMA StreamKept ==
    ASSUME StreamInv, UNCHANGED <<subs, chan, stream, seen, events, actions>>
    PROVE  StreamInv'
<1>1. ASSUME NEW c \in Client
      PROVE  ClientInv(c)'
  BY ClientKept DEF StreamInv
<1>2. QED
  BY <1>1 DEF StreamInv, StreamTypes

\* A handler that opens a stream or leaves one takes nothing from its client.
LEMMA HandlerStep ==
    ASSUME AgentInv, StreamInv, NEW c \in Client,
           openStream(c) \/ sendLog(c) \/ subscribe(c) \/ disconnect(c)
    PROVE  StreamInv'
<1>1. /\ StreamTypes /\ ClientInv(c) /\ seen[c] \in Seq(Event)
      /\ chan[c] \in Seq(Event) /\ events \in Seq(Event)
      /\ InOrder(events) /\ <<>> \in Seq(Event)
      /\ UNCHANGED <<events, actions>>
  BY DEF StreamInv, StreamTypes, AgentInv, AgentTypeOK, EventsInv, agentVars, runVars, confirmVars,
         openStream, sendLog, subscribe, disconnect
<1>2. CASE openStream(c)
  <2>1. /\ stream[c] = "idle" /\ UNCHANGED <<subs, chan, seen>>
        /\ stream' = [stream EXCEPT ![c] = IF row = "running" THEN "live" ELSE "over"]
    BY <1>2 DEF openStream
  <2>2. ClientInv(c)'
    <3>1. stream'[c] \in {"live", "over"}
      BY <1>1, <2>1 DEF StreamTypes
    <3>2. QED
      BY <1>1, <2>1, <3>1 DEF ClientInv, Recorded, InOrder, Before
  <2>3. StreamTypes'
    BY <1>1, <2>1 DEF StreamTypes
  <2>4. ASSUME NEW d \in Client, d # c
        PROVE  ClientInv(d)'
    BY <1>1, <2>1, <2>4, ClientKept DEF StreamInv, StreamTypes
  <2>5. QED
    BY <2>2, <2>3, <2>4 DEF StreamInv
<1>3. CASE sendLog(c)
  <2> DEFINE e == [type |-> "done", index |-> 0]
  <2>1. /\ stream[c] = "over" /\ UNCHANGED <<subs, chan>>
        /\ seen' = [seen EXCEPT ![c] = IF log = None THEN @ ELSE Append(@, e)]
        /\ stream' = [stream EXCEPT ![c] = "closed"]
    BY <1>3 DEF sendLog
  <2>2. seen[c] = <<>> /\ c \notin subs
    BY <1>1, <2>1 DEF ClientInv
  <2>3. e \in Event /\ e.index = 0
    BY DEF Event, EventType
  <2> HIDE DEF e
  <2>4. Append(<<>>, e) \in Seq(Event) /\ Len(Append(<<>>, e)) = 1
        /\ DOMAIN Append(<<>>, e) = {1} /\ Append(<<>>, e)[1] = e
    BY <2>3
  <2>5. seen'[c] = <<>> \/ seen'[c] = Append(<<>>, e)
    BY <1>1, <2>1, <2>2 DEF StreamTypes
  <2>6. seen'[c] \in Seq(Event) /\ stream'[c] = "closed"
    BY <1>1, <2>1, <2>4, <2>5 DEF StreamTypes
  <2>7. \A i \in DOMAIN seen'[c] : i = Len(seen'[c]) /\ seen'[c][i].index = 0
    <3> DEFINE one == Append(<<>>, e)
    <3>1. DOMAIN <<>> = {} /\ DOMAIN one = {1} /\ Len(one) = 1 /\ one[1].index = 0
      BY <2>3, <2>4
    <3> HIDE DEF one
    <3>2. seen'[c] = <<>> \/ seen'[c] = one
      BY <2>5 DEF one
    <3>3. QED
      BY <3>1, <3>2
  <2>8. Len(actions) \in Nat
    BY DEF AgentInv, AgentTypeOK
  <2>9. ClientInv(c)'
    <3>1. Recorded(seen[c])' /\ InOrder(seen[c])' /\ Before(seen[c], chan[c])'
      BY <1>1, <2>7, <2>8 DEF Recorded, InOrder, Before
    <3>2. (\A i \in DOMAIN seen[c] :
              IsEnd(seen[c][i]) => i = Len(seen[c]) /\ stream[c] = "closed")'
      BY <2>6, <2>7
    <3>3. Recorded(chan[c])' /\ InOrder(chan[c])' /\ (Len(chan[c]) <= ClientCap)'
      BY <1>1, <2>1 DEF ClientInv, Recorded, InOrder
    <3>4. c \notin subs' /\ stream'[c] = "closed"
      BY <2>1, <2>2, <2>6
    <3>5. QED
      BY <3>1, <3>2, <3>3, <3>4 DEF ClientInv
  <2>10. StreamTypes'
    BY <1>1, <2>1, <2>3 DEF StreamTypes
  <2>11. ASSUME NEW d \in Client, d # c
         PROVE  ClientInv(d)'
    BY <1>1, <2>1, <2>11, ClientKept DEF StreamInv, StreamTypes
  <2>12. QED
    BY <2>9, <2>10, <2>11 DEF StreamInv
<1>4. CASE subscribe(c)
  <2>1. /\ stream[c] = "live" /\ subs' = subs \cup {c} /\ UNCHANGED seen
        /\ chan' = [chan EXCEPT ![c] = <<>>]
        /\ stream' = [stream EXCEPT ![c] = "subscribed"]
    BY <1>4 DEF subscribe
  <2>2. seen[c] = <<>> /\ chan'[c] = <<>> /\ stream'[c] = "subscribed" /\ c \in subs'
    BY <1>1, <2>1 DEF ClientInv, StreamTypes
  <2>3. ClientInv(c)'
    BY <1>1, <2>1, <2>2, ServerAssumptions DEF ClientInv, Recorded, InOrder, Before
  <2>4. StreamTypes'
    BY <1>1, <2>1 DEF StreamTypes
  <2>5. ASSUME NEW d \in Client, d # c
        PROVE  ClientInv(d)'
    BY <1>1, <2>1, <2>5, ClientKept DEF StreamInv, StreamTypes
  <2>6. QED
    BY <2>3, <2>4, <2>5 DEF StreamInv
<1>5. CASE disconnect(c)
  <2>1. /\ stream[c] \in {"live", "over", "subscribed"} /\ subs' = subs \ {c}
        /\ UNCHANGED <<chan, seen>>
        /\ stream' = [stream EXCEPT ![c] = "gone"]
    BY <1>5 DEF disconnect
  <2>2. stream'[c] = "gone" /\ c \notin subs'
    BY <1>1, <2>1 DEF StreamTypes
  <2>3. ClientInv(c)'
    BY <1>1, <2>1, <2>2 DEF ClientInv, Recorded, InOrder, Before
  <2>4. StreamTypes'
    BY <1>1, <2>1 DEF StreamTypes
  <2>5. ASSUME NEW d \in Client, d # c
        PROVE  ClientInv(d)'
    BY <1>1, <2>1, <2>5, ClientKept DEF StreamInv, StreamTypes
  <2>6. QED
    BY <2>3, <2>4, <2>5 DEF StreamInv
<1>6. QED
  BY <1>2, <1>3, <1>4, <1>5

LEMMA StreamStep == AgentInv /\ StreamInv /\ [Next]_vars => StreamInv'
<1> SUFFICES ASSUME AgentInv, StreamInv, [Next]_vars
             PROVE  StreamInv'
  OBVIOUS
<1> USE DEF runVars, confirmVars, serverVars, streamVars, dbVars, attestVars
<1>1. StreamTypes /\ \A c \in Client : ClientInv(c)
  BY DEF StreamInv
<1>2. CASE run
  <2>1. Run /\ UNCHANGED <<subs, chan, stream, seen>>
    BY <1>2 DEF run
  <2>2. \A c \in Client : ClientInv(c)'
    BY <2>1, ClientRun
  <2>3. StreamTypes'
    BY <1>1, <2>1 DEF StreamTypes
  <2>4. QED
    BY <2>2, <2>3 DEF StreamInv
<1>3. CASE publish
  <2>1. \A c \in Client : ClientInv(c)' /\ chan'[c] \in Seq(Event)
    BY <1>3, ClientPublish
  <2>2. /\ chan' = [c \in Client |-> Published(c, Head(events))]
        /\ UNCHANGED <<subs, stream, seen>>
    BY <1>3 DEF publish
  <2>3. StreamTypes'
    <3> DEFINE P(c) == Published(c, Head(events))
    <3>1. chan' = [c \in Client |-> P(c)]
      BY <2>2
    <3> HIDE DEF P
    <3>2. \A c \in Client : P(c) \in Seq(Event)
      BY <2>1, <3>1
    <3>3. chan' \in [Client -> Seq(Event)]
      BY <3>1, <3>2
    <3>4. QED
      BY <1>1, <2>2, <3>3 DEF StreamTypes
  <2>4. QED
    BY <2>1, <2>3 DEF StreamInv
<1>4. ASSUME NEW c \in Client, sendEvent(c)
      PROVE  StreamInv'
  <2>1. ClientInv(c)' /\ chan'[c] \in Seq(Event) /\ seen'[c] \in Seq(Event)
    BY <1>4, ClientSend
  <2>2. /\ UNCHANGED <<events, actions>>
        /\ \A d \in Client \ {c} :
               /\ chan'[d] = chan[d] /\ seen'[d] = seen[d] /\ stream'[d] = stream[d]
               /\ d \in subs' <=> d \in subs
    BY <1>1, <1>4 DEF sendEvent, agentVars, StreamTypes
  <2>3. ASSUME NEW d \in Client, d # c
        PROVE  ClientInv(d)'
    BY <1>1, <2>2, <2>3, ClientKept
  <2>4. StreamTypes'
    <3>1. /\ subs' \in {subs, subs \ {c}}
          /\ chan' = [chan EXCEPT ![c] = chan'[c]]
          /\ seen' = [seen EXCEPT ![c] = seen'[c]]
          /\ stream' \in {[stream EXCEPT ![c] = "closed"], [stream EXCEPT ![c] = stream[c]]}
      BY <1>1, <1>4 DEF sendEvent, StreamTypes
    <3>2. QED
      BY <1>1, <2>1, <3>1 DEF StreamTypes
  <2>5. QED
    BY <2>1, <2>3, <2>4 DEF StreamInv
<1>5. ASSUME NEW c \in Client, openStream(c) \/ sendLog(c) \/ subscribe(c) \/ disconnect(c)
      PROVE  StreamInv'
  BY <1>5, HandlerStep
<1>6. CASE crash
  <2>1. /\ subs' = {} /\ UNCHANGED <<chan, seen, events, actions>>
        /\ stream' = [c \in Client |->
                         IF stream[c] \in {"idle", "closed"} THEN stream[c] ELSE "gone"]
    BY <1>6 DEF crash, agentVars
  <2>2. ASSUME NEW c \in Client
        PROVE  ClientInv(c)'
    <3>1. c \notin subs' /\ stream'[c] \in {stream[c], "gone"} /\ stream'[c] # "subscribed"
          /\ stream[c] = "closed" => stream'[c] = "closed"
      BY <2>1
    <3>2. QED
      BY <1>1, <2>1, <3>1 DEF ClientInv, Recorded, InOrder, Before
  <2>3. StreamTypes'
    BY <1>1, <2>1 DEF StreamTypes
  <2>4. QED
    BY <2>2, <2>3 DEF StreamInv
<1>7. CASE createSession \/ register \/ updateSessionState \/ saveActionLog
           \/ saveProviderSelection \/ leave \/ Attestation
  BY <1>7, StreamKept DEF createSession, register, updateSessionState, saveActionLog,
                          saveProviderSelection, leave, Attestation, submitAttestation,
                          saveAttestation, agentVars
<1>8. ASSUME NEW c \in Caller, confirmSession(c) \/ confirm(c)
      PROVE  StreamInv'
  <2>1. UNCHANGED <<subs, chan, stream, seen, events, actions>>
    BY <1>8 DEF confirmSession, confirm, agentVars, Confirm, confirmTest,
                confirmClose, runVars
  <2>2. QED
    BY <2>1, StreamKept
<1>9. CASE UNCHANGED vars
  BY <1>9, StreamKept DEF vars, agentVars
<1>10. QED
  BY <1>2, <1>3, <1>4, <1>5, <1>6, <1>7, <1>8, <1>9 DEF Next, Goroutine, Handler

LEMMA StreamInvariant == Spec => []StreamInv
BY StreamInit, StreamStep, AgentInServer, PTL DEF Spec

\* However many events its channel loses, a client is sent the actions in the
\* order in which they were recorded, none twice, and nothing after the end of
\* the stream (bus.go: Publish; handlers.go: the forwarder, streamSession).
THEOREM StreamsAreInOrder == Spec => []StreamInOrder
<1>1. AgentInv /\ StreamInv => StreamInOrder
  <2> SUFFICES ASSUME AgentInv, StreamInv, NEW c \in Client
               PROVE  /\ InOrder(InFlight(c))
                      /\ \A i \in DOMAIN seen[c] : IsEnd(seen[c][i]) => i = Len(seen[c])
    BY DEF StreamInOrder
  <2> DEFINE feed == IF c \in subs THEN events ELSE <<>>
             sent == seen[c] \o chan[c]
  <2>1. /\ ClientInv(c) /\ seen[c] \in Seq(Event) /\ chan[c] \in Seq(Event)
        /\ events \in Seq(Event) /\ InOrder(events)
    BY DEF StreamInv, StreamTypes, AgentInv, AgentTypeOK, EventsInv
  <2>2. /\ feed \in Seq(Event) /\ InOrder(feed)
        /\ Before(seen[c], feed) /\ Before(chan[c], feed)
    BY <2>1 DEF ClientInv, InOrder, Before
  <2>3. sent \in Seq(Event)
    BY <2>1
  <2> HIDE DEF feed
  <2>4. InOrder(sent) /\ Before(sent, feed)
    BY <2>1, <2>2, ConcatInOrder DEF ClientInv
  <2> HIDE DEF sent
  <2>5. InOrder(sent \o feed)
    BY <2>2, <2>3, <2>4, ConcatInOrder
  <2>6. InOrder(InFlight(c))
    BY <2>5 DEF sent, feed, InFlight
  <2>7. QED
    BY <2>1, <2>6 DEF ClientInv
<1>2. QED
  BY <1>1, AgentInServer, StreamInvariant, PTL

-----------------------------------------------------------------------------
(* The server: the end of a stream is passed on. *)

Ended(s) == \E i \in DOMAIN s : IsEnd(s[i])

\* Run returns with an end, unless the event channel is full.
LEMMA RunEnds ==
    ASSUME AgentInv, Run, pc' = "returned"
    PROVE  events' = events \/ Ended(events')
<1>1. ASSUME NEW type \in {"done", "error"}, emit(type, 0)
      PROVE  events' = events \/ Ended(events')
  <2> DEFINE e == [type |-> type, index |-> 0]
  <2>1. e \in Event /\ IsEnd(e)
    BY DEF Event, EventType, IsEnd
  <2>2. events' = events \/ events' = Append(events, e)
    BY <1>1 DEF emit
  <2> HIDE DEF e
  <2>3. /\ Len(events) + 1 \in DOMAIN Append(events, e)
        /\ Append(events, e)[Len(events) + 1] = e
    BY <2>1 DEF AgentInv, AgentTypeOK
  <2>4. Ended(Append(events, e))
    BY <2>1, <2>3 DEF Ended
  <2>5. QED
    BY <2>2, <2>4
<1>2. CASE callClaudeFails \/ bootstrapFails
  BY <1>1, <1>2 DEF callClaudeFails, bootstrapFails, Fail
<1>3. CASE complete
  BY <1>1, <1>3 DEF complete
<1>4. CASE ~(callClaudeFails \/ bootstrapFails \/ complete)
  <2>1. CASE recordAction
    BY <2>1 DEF recordAction
  <2>2. CASE ~recordAction
    BY <1>4, <2>2 DEF Run, callClaude, nudge, bootstrapInitialPlan, refuseInput, beginTool,
                      finishTool, presentPlan, planConfirmed, planTimesOut
  <2>3. QED
    BY <2>1, <2>2
<1>5. QED
  BY <1>2, <1>3, <1>4

\* An end is at the head of its channel, or waits behind it.
LEMMA EndedTail ==
    ASSUME NEW s \in Seq(Event), Ended(s)
    PROVE  s # <<>> /\ (IsEnd(Head(s)) \/ Ended(Tail(s)))
<1>1. PICK i \in DOMAIN s : IsEnd(s[i])
  BY DEF Ended
<1>2. s # <<>> /\ Len(s) \in Nat /\ i \in 1 .. Len(s) /\ Head(s) = s[1]
  BY <1>1
<1>3. CASE i = 1
  BY <1>1, <1>2, <1>3
<1>4. CASE i > 1
  <2>1. i - 1 \in DOMAIN Tail(s) /\ Tail(s)[i - 1] = s[i]
    BY <1>2, <1>4
  <2>2. QED
    BY <1>1, <1>2, <2>1 DEF Ended
<1>5. QED
  BY <1>2, <1>3, <1>4

LEMMA EndedAppend ==
    ASSUME NEW s \in Seq(Event), NEW e \in Event
    PROVE  Ended(Append(s, e)) <=> Ended(s) \/ IsEnd(e)
<1>1. /\ DOMAIN Append(s, e) = 1 .. Len(s) + 1 /\ Len(s) \in Nat /\ DOMAIN s = 1 .. Len(s)
      /\ \A i \in 1 .. Len(s) : Append(s, e)[i] = s[i]
      /\ Append(s, e)[Len(s) + 1] = e
  OBVIOUS
<1> DEFINE a == Append(s, e)
<1> HIDE DEF a
<1>2. /\ DOMAIN a = 1 .. Len(s) + 1
      /\ \A i \in 1 .. Len(s) : a[i] = s[i]
      /\ a[Len(s) + 1] = e
  BY <1>1 DEF a
<1>3. \A i \in 1 .. Len(s) + 1 : i \in 1 .. Len(s) \/ i = Len(s) + 1
  BY <1>1
<1>4. Ended(a) <=> Ended(s) \/ IsEnd(e)
  <2>1. ASSUME NEW i \in DOMAIN a, IsEnd(a[i])
        PROVE  Ended(s) \/ IsEnd(e)
    BY <1>1, <1>2, <1>3, <2>1 DEF Ended
  <2>2. ASSUME NEW i \in DOMAIN s, IsEnd(s[i])
        PROVE  Ended(a)
    BY <1>1, <1>2, <2>2 DEF Ended
  <2>3. IsEnd(e) => Ended(a)
    BY <1>1, <1>2 DEF Ended
  <2>4. QED
    BY <2>1, <2>2, <2>3 DEF Ended
<1>5. QED
  BY <1>4 DEF a

LEMMA EndStep ==
    ASSUME AgentInv, StreamInv, [Next]_vars, NEW c \in Client, EndComes(c)
    PROVE  EndComes(c)' \/ stream'[c] \in {"closed", "gone"} \/ c \in endLost'
<1> DEFINE Passing == EndComes(c)' \/ stream'[c] \in {"closed", "gone"} \/ c \in endLost'
<1>1. /\ stream[c] = "subscribed" /\ c \in subs
      /\ pc # "returned" \/ Ended(events) \/ Ended(chan[c])
      /\ events \in Seq(Event) /\ chan[c] \in Seq(Event)
      /\ subs \subseteq Client /\ stream = [d \in Client |-> stream[d]]
      /\ chan = [d \in Client |-> chan[d]]
  BY DEF EndComes, Ended, AgentInv, AgentTypeOK, StreamInv, StreamTypes, ClientInv
<1>2. EndComes(c)' <=>
          /\ stream'[c] = "subscribed"
          /\ pc' # "returned" \/ Ended(events') \/ Ended(chan'[c])
  BY DEF EndComes, Ended, IsEnd
<1>3. ASSUME UNCHANGED <<pc, events>>, chan'[c] = chan[c], stream'[c] = stream[c]
      PROVE  Passing
  BY <1>1, <1>2, <1>3
<1>4. CASE run
  <2>1. UNCHANGED <<chan, stream>> /\ Run
    BY <1>4 DEF run
  <2>2. CASE pc' # "returned"
    BY <1>1, <1>2, <2>1, <2>2
  <2>3. CASE pc' = "returned" /\ events' = events
    BY <1>4, <2>3 DEF run
  <2>4. CASE pc' = "returned" /\ events' # events
    BY <1>1, <1>2, <2>1, <2>4, RunEnds
  <2>5. QED
    BY <2>2, <2>3, <2>4
<1>5. CASE publish
  <2> DEFINE e == Head(events)
  <2>1. /\ events # <<>> /\ events' = Tail(events) /\ UNCHANGED <<pc, stream>>
        /\ chan'[c] = IF Len(chan[c]) < ClientCap THEN Append(chan[c], e) ELSE chan[c]
        /\ IsEnd(e) /\ Len(chan[c]) >= ClientCap => c \in endLost'
    BY <1>1, <1>5 DEF publish, receive, runVars, Published
  <2>2. e \in Event
    BY <1>1, <2>1, TailInOrder
  <2> HIDE DEF e
  <2>3. Len(chan[c]) < ClientCap \/ Len(chan[c]) >= ClientCap
    BY <1>1, ServerAssumptions
  <2>4. CASE pc # "returned"
    BY <1>1, <1>2, <2>1, <2>4
  <2>5. CASE Ended(chan[c])
    BY <1>1, <1>2, <2>1, <2>2, <2>5, EndedAppend
  <2>6. CASE Ended(events)
    <3>1. IsEnd(e) \/ Ended(events')
      BY <1>1, <2>1, <2>6, EndedTail DEF e
    <3>2. QED
      BY <1>1, <1>2, <2>1, <2>2, <2>3, <3>1, EndedAppend
  <2>7. QED
    BY <1>1, <2>4, <2>5, <2>6
<1>6. ASSUME NEW d \in Client, sendEvent(d)
      PROVE  Passing
  <2>1. UNCHANGED <<pc, events>>
    BY <1>6 DEF sendEvent, agentVars, runVars
  <2>2. CASE d # c
    <3>1. chan'[c] = chan[c] /\ stream'[c] = stream[c]
      BY <1>1, <1>6, <2>2 DEF sendEvent
    <3>2. QED
      BY <1>3, <2>1, <3>1
  <2>3. CASE d = c
    <3>1. /\ chan'[c] = Tail(chan[c])
          /\ stream'[c] = IF IsEnd(Head(chan[c])) THEN "closed" ELSE stream[c]
      BY <1>1, <1>6, <2>3 DEF sendEvent
    <3>2. Ended(chan[c]) => IsEnd(Head(chan[c])) \/ Ended(chan'[c])
      BY <1>1, <3>1, EndedTail
    <3>3. QED
      BY <1>1, <1>2, <2>1, <3>1, <3>2
  <2>4. QED
    BY <2>2, <2>3
<1>7. ASSUME NEW d \in Client, openStream(d) \/ sendLog(d) \/ subscribe(d) \/ disconnect(d)
      PROVE  Passing
  <2>1. UNCHANGED <<pc, events>>
    BY <1>7 DEF openStream, sendLog, subscribe, disconnect, agentVars, runVars
  <2>2. CASE disconnect(c)
    BY <1>1, <2>2 DEF disconnect
  <2>3. CASE ~disconnect(c)
    <3>1. chan'[c] = chan[c] /\ stream'[c] = stream[c]
      BY <1>1, <1>7, <2>3 DEF openStream, sendLog, subscribe, disconnect
    <3>2. QED
      BY <1>3, <2>1, <3>1
  <2>4. QED
    BY <2>2, <2>3
<1>8. CASE crash
  BY <1>1, <1>8 DEF crash
<1>9. CASE createSession \/ register \/ updateSessionState \/ saveActionLog
           \/ saveProviderSelection \/ leave \/ Attestation
  BY <1>3, <1>9 DEF createSession, register, updateSessionState, saveActionLog,
                    saveProviderSelection, leave, Attestation, submitAttestation,
                    saveAttestation, agentVars, runVars, streamVars
<1>10. ASSUME NEW d \in Caller, confirmSession(d) \/ confirm(d)
       PROVE  Passing
  BY <1>3, <1>10 DEF confirmSession, confirm, agentVars, Confirm, confirmTest, confirmClose,
                     runVars, streamVars
<1>11. CASE UNCHANGED vars
  BY <1>3, <1>11 DEF vars, agentVars, runVars, streamVars
<1>12. QED
  BY <1>4, <1>5, <1>6, <1>7, <1>8, <1>9, <1>10, <1>11 DEF Next, Goroutine, Handler

\* The end of a session reaches each subscriber, channel by channel, unless a full
\* channel loses it or the client goes (session.go: emit; handlers.go: the
\* forwarder, streamSession; bus.go: Publish).
THEOREM EndsArePassedOn == Spec => EndIsPassedOn
<1>1. AgentInv /\ StreamInv /\ [Next]_vars =>
          \A c \in Client :
              EndComes(c) => EndComes(c)' \/ stream'[c] \in {"closed", "gone"} \/ c \in endLost'
  BY EndStep
<1>2. QED
  BY <1>1, AgentInServer, StreamInvariant, PTL DEF Spec, EndIsPassedOn

-----------------------------------------------------------------------------
(* Type correctness. *)

RestTypes ==
    /\ registered \in BOOLEAN
    /\ asked \in [Caller -> {"no", "found", "not found", "conflict", "gone", "lost"}]
    /\ provider \in BOOLEAN
    /\ crashes \in 0 .. MaxCrashes
    /\ endLost \subseteq Client

LEMMA MaxCrashesType == MaxCrashes \in Nat
BY ServerAssumptions

LEMMA RestStep == StreamInv /\ RestTypes /\ [Next]_vars => RestTypes'
<1> SUFFICES ASSUME StreamInv, RestTypes, [Next]_vars
             PROVE  RestTypes'
  OBVIOUS
<1> USE DEF runVars, confirmVars, serverVars, streamVars, dbVars, attestVars
<1>1. CASE createSession \/ register \/ run \/ updateSessionState \/ saveActionLog
           \/ saveProviderSelection \/ leave \/ Attestation
  <2>1. UNCHANGED <<asked, crashes>>
    BY <1>1 DEF createSession, register, run, updateSessionState, saveActionLog,
                saveProviderSelection, leave, Attestation, submitAttestation, saveAttestation
  <2>2. registered' \in {registered, TRUE, FALSE} /\ endLost' \in {endLost, Client}
    BY <1>1 DEF createSession, register, run, updateSessionState, saveActionLog,
                saveProviderSelection, leave, Attestation, submitAttestation, saveAttestation
  <2>3. provider' \in {provider, TRUE}
    BY <1>1 DEF createSession, register, run, updateSessionState, saveActionLog,
                saveProviderSelection, leave, Attestation, submitAttestation, saveAttestation,
                Write
  <2>4. QED
    BY <2>1, <2>2, <2>3 DEF RestTypes
<1>2. ASSUME NEW c \in Caller, confirmSession(c) \/ confirm(c)
      PROVE  RestTypes'
  BY <1>2 DEF confirmSession, confirm, RestTypes
<1>3. CASE publish
  <2>1. endLost' \subseteq endLost \cup subs /\ subs \subseteq Client
    BY <1>3 DEF publish, StreamInv, StreamTypes
  <2>2. UNCHANGED <<registered, asked, provider, crashes>>
    BY <1>3 DEF publish
  <2>3. QED
    BY <2>1, <2>2 DEF RestTypes
<1>4. ASSUME NEW c \in Client, Handler(c) \/ disconnect(c)
      PROVE  RestTypes'
  BY <1>4 DEF Handler, openStream, sendLog, subscribe, sendEvent, disconnect, RestTypes
<1>5. CASE crash
  <2>1. crashes < MaxCrashes /\ crashes' = crashes + 1 /\ crashes \in 0 .. MaxCrashes
    BY <1>5 DEF crash, RestTypes
  <2>2. crashes' \in 0 .. MaxCrashes
    BY <2>1, MaxCrashesType
  <2>3. UNCHANGED <<provider, endLost>> /\ registered' = FALSE
        /\ asked' = [c \in Caller |-> IF asked[c] = "found" THEN "lost" ELSE asked[c]]
    BY <1>5 DEF crash
  <2>4. QED
    BY <2>2, <2>3 DEF RestTypes
<1>6. CASE UNCHANGED vars
  BY <1>6 DEF vars, RestTypes
<1>7. QED
  BY <1>1, <1>2, <1>3, <1>4, <1>5, <1>6 DEF Next, Goroutine

\* Every variable of the server and of its agent holds a value of its type; no
\* channel holds more than its capacity (session.go: emit; bus.go: Publish).
THEOREM TypeCorrect == Spec => []TypeOK
<1>1. Init => RestTypes
  <2>1. 0 \in 0 .. MaxCrashes
    BY MaxCrashesType
  <2>2. QED
    BY <2>1 DEF Init, RestTypes
<1>2. AgentInv /\ OutcomeInv /\ StreamInv /\ RestTypes => TypeOK
  <2> SUFFICES ASSUME AgentInv, OutcomeInv, StreamInv, RestTypes
               PROVE  TypeOK
    OBVIOUS
  <2>1. goroutine \in {"none", "starting", "running", "updateState", "saveLog",
                       "saveProvider", "leaving", "ended", "crashed"}
    BY DEF OutcomeInv, OutcomeTypes, AfterRun
  <2>2. \A c \in Client : Len(chan[c]) <= ClientCap
    BY DEF StreamInv, ClientInv
  <2>3. QED
    BY <2>1, <2>2, Zenon DEF AgentInv, OutcomeInv, OutcomeTypes, StreamInv, StreamTypes,
                             RestTypes, TypeOK
<1>3. QED
  BY <1>1, <1>2, RestStep, AgentInServer, OutcomeInvariant, StreamInvariant, PTL DEF Spec

-----------------------------------------------------------------------------
(***************************************************************************)
(* Payments, for any number of authorizations, ways to write   *)
(* them, requests and restarts: one written nonce lets one request         *)
(* through, except in the two cases that PaidOnce names, and the agent's   *)
(* transactions never wait behind a number that nobody uses.               *)
(***************************************************************************)

\* A request that was delivered carries a written nonce, and came no later
\* than now; the gate holds only requests of the server that runs.
RequestInv ==
    \A r \in Req :
        /\ req[r].at # "none" => req[r].key \in NonceKey /\ req[r].epoch <= epoch
        /\ req[r].at \in {"arrived", "checked", "stored"} => req[r].epoch = epoch

\* Only the transfer of a request that was let through is under way.
TransferInv ==
    \A r \in Req : transfer[r].at # "none" => Passed(r)

\* The nonce of a request that passed since the last restart is remembered.
Remembered ==
    \A r \in Req : Passed(r) /\ req[r].epoch = epoch => req[r].key \in usedNonces

\* The requests whose nonce was looked up and found unused.
Fresh(r) == req[r].at = "checked" \/ Passed(r)

\* PaidOnce, with the requests that may still pass.
FreshOnce ==
    \A r, s \in Req :
        Fresh(r) /\ Fresh(s) /\ req[r].key = req[s].key /\ req[r].epoch = req[s].epoch =>
            r = s \/ req[r].key \in overlap

\* The inductive invariant of the gate.
GateInv ==
    /\ PaymentTypeOK
    /\ RequestInv
    /\ TransferInv
    /\ Remembered
    /\ FreshOnce

\* A transaction count is out of date, if anything, and what waits to be mined is
\* one transaction, with the next number.
ChainInv ==
    /\ \A x \in Req \cup AttestTx :
          transfer[x].at = "counted" => transfer[x].nonce <= mined
    /\ \A t \in mempool : t.nonce = mined
    /\ \A t, u \in mempool : t = u

LEMMA InitGate == PaymentInit => GateInv
BY PaymentAssumptions
   DEF PaymentInit, Idle, NoTransfer, GateInv, PaymentTypeOK, RequestInv, TransferInv, Remembered,
       FreshOnce, Fresh, Passed

-----------------------------------------------------------------------------
(* Each step preserves GateInv. *)

\* A step that leaves the gate alone, and starts no transfer.
LEMMA OutsideGate ==
    ASSUME GateInv, PaymentTypeOK', UNCHANGED <<gateVars, epoch>>,
           \A r \in Req : transfer'[r].at # "none" => transfer[r].at # "none"
    PROVE  GateInv'
BY DEF GateInv, RequestInv, TransferInv, Remembered, FreshOnce, Fresh, Passed, gateVars

LEMMA ClientStep ==
    ASSUME GateInv, NEW a \in Auth,
           expire(a) \/ \E same \in BOOLEAN : signTransfer(a, same)
    PROVE  GateInv'
<1>1. PaymentTypeOK'
  <2>1. auth' \in [Auth -> [signed : BOOLEAN, byPayer : BOOLEAN, expired : BOOLEAN]]
    <3>1. CASE expire(a)
      BY <3>1 DEF GateInv, PaymentTypeOK, expire
    <3>2. ASSUME NEW same \in BOOLEAN, signTransfer(a, same)
          PROVE  auth' \in [Auth -> [signed : BOOLEAN, byPayer : BOOLEAN, expired : BOOLEAN]]
      <4>1. /\ auth' = [auth EXCEPT ![a].signed = TRUE, ![a].byPayer = same]
            /\ auth \in [Auth -> [signed : BOOLEAN, byPayer : BOOLEAN, expired : BOOLEAN]]
        BY <3>2 DEF GateInv, PaymentTypeOK, signTransfer
      <4>2. auth'[a] = [signed |-> TRUE, byPayer |-> same, expired |-> auth[a].expired]
        BY <4>1
      <4>3. QED
        BY <4>1, <4>2
    <3>3. QED
      BY <3>1, <3>2
  <2>2. QED
    BY <2>1 DEF GateInv, PaymentTypeOK, expire, signTransfer, gateVars, chainVars
<1>2. QED
  BY <1>1, OutsideGate DEF expire, signTransfer, gateVars

LEMMA DeliverStep ==
    ASSUME GateInv, NEW r \in Req, NEW key \in NonceKey, deliver(r, key)
    PROVE  GateInv'
<1>1. PaymentTypeOK'
  BY PaymentAssumptions DEF GateInv, PaymentTypeOK, deliver, chainVars
<1>2. /\ req' = [req EXCEPT ![r] = [at |-> "arrived", key |-> key, epoch |-> epoch]]
      /\ UNCHANGED <<usedNonces, overlap, transfer, epoch>>
      /\ ~Passed(r) /\ epoch \in Nat
  BY DEF GateInv, PaymentTypeOK, deliver, Idle, Passed
<1>3. RequestInv'
  BY <1>2 DEF GateInv, PaymentTypeOK, RequestInv
<1>4. TransferInv'
  BY <1>2 DEF GateInv, PaymentTypeOK, TransferInv, Passed
<1>5. Remembered'
  BY <1>2 DEF GateInv, PaymentTypeOK, Remembered, Passed
<1>6. FreshOnce'
  BY <1>2 DEF GateInv, PaymentTypeOK, FreshOnce, Fresh, Passed
<1>7. QED
  BY <1>1, <1>3, <1>4, <1>5, <1>6 DEF GateInv

\* A lookup that finds the nonce unused meets no request that passed with it
\* since the last restart, and notes the ones that are between lookup and store.
LEMMA LoadNonceStep ==
    ASSUME GateInv, NEW r \in Req, loadNonce(r)
    PROVE  GateInv'
<1> DEFINE key == req[r].key
           refused == auth[hexToBytes32(key)].expired \/ key \in usedNonces
<1>1. /\ req[r].at = "arrived" /\ key \in NonceKey /\ req[r].epoch = epoch
      /\ req' = [req EXCEPT ![r].at = IF refused THEN "refused" ELSE "checked"]
      /\ overlap' = IF refused \/ Carry(key) = {} THEN overlap ELSE overlap \cup {key}
      /\ UNCHANGED <<auth, usedNonces, transfer, chainVars, payments, epoch>>
  BY DEF GateInv, RequestInv, loadNonce
<1> HIDE DEF refused
<1>2. PaymentTypeOK'
  BY <1>1 DEF GateInv, PaymentTypeOK, chainVars
<1>3. RequestInv'
  BY <1>1 DEF GateInv, PaymentTypeOK, RequestInv
<1>4. TransferInv'
  BY <1>1 DEF GateInv, PaymentTypeOK, TransferInv, Passed
<1>5. Remembered'
  BY <1>1 DEF GateInv, PaymentTypeOK, Remembered, Passed
<1>6. ASSUME NEW s \in Req, s # r, Fresh(s), req[s].key = key, req[s].epoch = epoch, ~refused
      PROVE  key \in overlap'
  <2>1. CASE Passed(s)
    BY <1>6, <2>1 DEF GateInv, Remembered, refused
  <2>2. CASE req[s].at = "checked"
    BY <1>1, <1>6, <2>2 DEF Carry
  <2>3. QED
    BY <1>6, <2>1, <2>2 DEF Fresh
<1>7. FreshOnce'
  <2> SUFFICES ASSUME NEW s \in Req, NEW t \in Req, s # t, Fresh(s)', Fresh(t)',
                      req'[s].key = req'[t].key, req'[s].epoch = req'[t].epoch
               PROVE  req'[s].key \in overlap'
    BY DEF FreshOnce
  <2>1. /\ \A u \in Req : req'[u].key = req[u].key /\ req'[u].epoch = req[u].epoch
        /\ \A u \in Req \ {r} : req'[u] = req[u]
        /\ Fresh(r)' => ~refused
        /\ overlap \subseteq overlap'
    BY <1>1 DEF GateInv, PaymentTypeOK, Fresh, Passed
  <2>2. CASE s = r
    BY <1>1, <1>6, <2>1, <2>2 DEF Fresh, Passed
  <2>3. CASE t = r
    BY <1>1, <1>6, <2>1, <2>3 DEF Fresh, Passed
  <2>4. CASE s # r /\ t # r
    BY <2>1, <2>4 DEF GateInv, FreshOnce, Fresh, Passed
  <2>5. QED
    BY <2>2, <2>3, <2>4
<1>8. QED
  BY <1>2, <1>3, <1>4, <1>5, <1>7 DEF GateInv

LEMMA StoreNonceStep ==
    ASSUME GateInv, NEW r \in Req, storeNonce(r)
    PROVE  GateInv'
<1> DEFINE key == req[r].key
<1>1. /\ req[r].at = "checked" /\ key \in NonceKey /\ req[r].epoch = epoch
      /\ UNCHANGED <<auth, overlap, chainVars, payments, epoch>>
      /\ Fresh(r) /\ epoch \in Nat
  BY DEF GateInv, PaymentTypeOK, RequestInv, storeNonce, Fresh
<1>2. CASE auth[hexToBytes32(key)].byPayer
  <2>1. /\ req' = [req EXCEPT ![r].at = "stored"]
        /\ usedNonces' = usedNonces \cup {key}
        /\ transfer' = [transfer EXCEPT ![r].at = "started"]
    BY <1>2 DEF storeNonce
  <2>2. PaymentTypeOK'
    BY <1>1, <2>1 DEF GateInv, PaymentTypeOK, chainVars
  <2>3. RequestInv'
    BY <1>1, <2>1 DEF GateInv, PaymentTypeOK, RequestInv
  <2>4. TransferInv'
    BY <2>1 DEF GateInv, PaymentTypeOK, TransferInv, Passed
  <2>5. Remembered'
    BY <1>1, <2>1 DEF GateInv, PaymentTypeOK, Remembered, Passed
  <2>6. FreshOnce'
    BY <1>1, <2>1 DEF GateInv, PaymentTypeOK, FreshOnce, Fresh, Passed
  <2>7. QED
    BY <2>2, <2>3, <2>4, <2>5, <2>6 DEF GateInv
<1>3. CASE ~auth[hexToBytes32(key)].byPayer
  <2>1. /\ req' = [req EXCEPT ![r].at = "refused"]
        /\ UNCHANGED <<usedNonces, transfer>>
    BY <1>3 DEF storeNonce
  <2>2. PaymentTypeOK'
    BY <1>1, <2>1 DEF GateInv, PaymentTypeOK, chainVars
  <2>3. RequestInv'
    BY <1>1, <2>1 DEF GateInv, PaymentTypeOK, RequestInv
  <2>4. TransferInv'
    BY <1>1, <2>1 DEF GateInv, PaymentTypeOK, TransferInv, Passed
  <2>5. Remembered'
    BY <1>1, <2>1 DEF GateInv, PaymentTypeOK, Remembered, Passed
  <2>6. FreshOnce'
    BY <1>1, <2>1 DEF GateInv, PaymentTypeOK, FreshOnce, Fresh, Passed
  <2>7. QED
    BY <2>2, <2>3, <2>4, <2>5, <2>6 DEF GateInv
<1>4. QED
  BY <1>2, <1>3

LEMMA ServeStep ==
    ASSUME GateInv, NEW r \in Req, NEW ok \in BOOLEAN, serveHTTP(r, ok)
    PROVE  GateInv'
<1>1. /\ req[r].at = "stored"
      /\ req' = [req EXCEPT ![r].at = IF ok THEN "served" ELSE "failed"]
      /\ UNCHANGED <<auth, usedNonces, overlap, transfer, chainVars, payments, epoch>>
  BY DEF serveHTTP
<1>2. PaymentTypeOK'
  BY <1>1 DEF GateInv, PaymentTypeOK, chainVars
<1>3. /\ \A s \in Req : req'[s].key = req[s].key /\ req'[s].epoch = req[s].epoch
      /\ \A s \in Req : Passed(s)' <=> Passed(s)
      /\ \A s \in Req : Fresh(s)' <=> Fresh(s)
  BY <1>1 DEF GateInv, PaymentTypeOK, Fresh, Passed
<1>4. RequestInv'
  BY <1>1 DEF GateInv, PaymentTypeOK, RequestInv
<1>5. TransferInv' /\ Remembered' /\ FreshOnce'
  BY <1>1, <1>3 DEF GateInv, TransferInv, Remembered, FreshOnce
<1>6. QED
  BY <1>2, <1>4, <1>5 DEF GateInv

\* A restart forgets the nonces, and starts an epoch in which no request passed.
LEMMA RestartStep ==
    ASSUME GateInv, restart
    PROVE  GateInv'
<1>1. /\ epoch \in Nat /\ epoch' = epoch + 1 /\ usedNonces' = {}
      /\ UNCHANGED <<auth, overlap, chainVars, payments>>
      /\ transfer' = [x \in Req \cup AttestTx |-> NoTransfer]
  BY DEF GateInv, PaymentTypeOK, restart
<1>2. \A r \in Req :
          /\ req'[r].key = req[r].key /\ req'[r].epoch = req[r].epoch
          /\ req'[r].at \notin {"arrived", "checked", "stored"}
          /\ req'[r].at = "none" <=> req[r].at = "none"
          /\ Passed(r)' <=> Passed(r)
  BY DEF GateInv, PaymentTypeOK, restart, Passed
<1>3. PaymentTypeOK'
  <2>1. req' \in [Req -> [at : {"none", "arrived", "checked", "stored", "served", "failed",
                                "refused", "lost"},
                          key : NonceKey \cup {None}, epoch : 0 .. MaxRestarts]]
    BY DEF GateInv, PaymentTypeOK, restart
  <2>2. epoch' \in 0 .. MaxRestarts
    BY PaymentAssumptions DEF GateInv, PaymentTypeOK, restart
  <2>3. QED
    BY <1>1, <2>1, <2>2 DEF GateInv, PaymentTypeOK, NoTransfer, chainVars
<1>4. RequestInv'
  BY <1>1, <1>2 DEF GateInv, PaymentTypeOK, RequestInv
<1>5. TransferInv'
  BY <1>1 DEF TransferInv, NoTransfer
<1>6. Remembered'
  <2>1. ASSUME NEW r \in Req, Passed(r) PROVE req[r].epoch \in Nat /\ req[r].epoch <= epoch
    BY <2>1 DEF GateInv, PaymentTypeOK, RequestInv, Passed
  <2>2. QED
    BY <1>1, <1>2, <2>1 DEF Remembered
<1>7. FreshOnce'
  BY <1>1, <1>2 DEF GateInv, FreshOnce, Fresh
<1>8. QED
  BY <1>3, <1>4, <1>5, <1>6, <1>7 DEF GateInv

\* The step of a transaction of the agent: of a transfer or of an attestation.
LEMMA TransferStep ==
    ASSUME GateInv, NEW x \in Req \cup AttestTx,
           \/ readCount(x) \/ sendRawTransaction(x) \/ transferFails(x)
           \/ x \in AttestTx /\ attest(x)
           \/ x \in Req /\ \E ok \in BOOLEAN : savePayment(x, ok)
    PROVE  GateInv'
<1>1. /\ transfer[x].at # "none" \/ x \notin Req
      /\ UNCHANGED <<gateVars, epoch>>
      /\ \A s \in Req \ {x} : transfer'[s] = transfer[s]
  BY PaymentAssumptions
     DEF GateInv, PaymentTypeOK, readCount, sendRawTransaction, transferFails, savePayment, attest
<1>2. Charges(x) \in Auth \cup {None}
  BY <1>1 DEF GateInv, TransferInv, RequestInv, Passed, Charges, hexToBytes32, NonceKey
<1>3. PaymentTypeOK'
  <2>1. CASE readCount(x)
    BY <2>1 DEF GateInv, PaymentTypeOK, readCount, transactionCount, gateVars, chainVars
  <2>2. CASE sendRawTransaction(x)
    BY <1>2, <2>2 DEF GateInv, PaymentTypeOK, sendRawTransaction, gateVars
  <2>3. CASE transferFails(x)
    BY <2>3 DEF GateInv, PaymentTypeOK, transferFails, gateVars, chainVars
  <2>4. CASE x \in Req /\ \E ok \in BOOLEAN : savePayment(x, ok)
    BY <2>4 DEF GateInv, PaymentTypeOK, savePayment, gateVars, chainVars
  <2>5. CASE attest(x)
    BY <2>5 DEF GateInv, PaymentTypeOK, attest, gateVars, chainVars
  <2>6. QED
    BY <2>1, <2>2, <2>3, <2>4, <2>5
<1>4. \A r \in Req : transfer'[r].at # "none" => transfer[r].at # "none"
  BY <1>1
<1>5. QED
  BY <1>1, <1>3, <1>4, OutsideGate

LEMMA MineStep ==
    ASSUME GateInv, NEW t \in mempool, NEW funds \in BOOLEAN, mine(t, funds)
    PROVE  GateInv'
<1>1. PaymentTypeOK'
  BY DEF GateInv, PaymentTypeOK, mine, gateVars
<1>2. QED
  BY <1>1, OutsideGate DEF mine

LEMMA NextGate == GateInv /\ [PaymentNext]_paymentVars => GateInv'
<1> SUFFICES ASSUME GateInv, [PaymentNext]_paymentVars
             PROVE  GateInv'
  OBVIOUS
<1>1. CASE restart
  BY <1>1, RestartStep
<1>2. ASSUME NEW a \in Auth, expire(a) \/ \E same \in BOOLEAN : signTransfer(a, same)
      PROVE  GateInv'
  BY <1>2, ClientStep
<1>3. ASSUME NEW r \in Req, loadNonce(r)
      PROVE  GateInv'
  BY <1>3, LoadNonceStep
<1>4. ASSUME NEW r \in Req, storeNonce(r)
      PROVE  GateInv'
  BY <1>4, StoreNonceStep
<1>5. ASSUME NEW x \in Req \cup AttestTx,
             \/ readCount(x) \/ sendRawTransaction(x) \/ transferFails(x)
             \/ x \in AttestTx /\ attest(x)
      PROVE  GateInv'
  BY <1>5, TransferStep
<1>6. ASSUME NEW r \in Req, NEW key \in NonceKey, deliver(r, key)
      PROVE  GateInv'
  BY <1>6, DeliverStep
<1>7. ASSUME NEW r \in Req, NEW ok \in BOOLEAN, serveHTTP(r, ok)
      PROVE  GateInv'
  BY <1>7, ServeStep
<1>8. ASSUME NEW r \in Req, NEW ok \in BOOLEAN, savePayment(r, ok)
      PROVE  GateInv'
  BY <1>8, TransferStep
<1>9. ASSUME NEW t \in mempool, NEW funds \in BOOLEAN, mine(t, funds)
      PROVE  GateInv'
  BY <1>9, MineStep
<1>10. CASE UNCHANGED paymentVars
  <2>1. UNCHANGED <<gateVars, transfer, epoch>> /\ PaymentTypeOK'
    BY <1>10 DEF paymentVars, gateVars, chainVars, GateInv, PaymentTypeOK
  <2>2. QED
    BY <2>1, OutsideGate
<1>11. QED
  BY <1>1, <1>2, <1>3, <1>4, <1>5, <1>6, <1>7, <1>8, <1>9, <1>10 DEF PaymentNext

LEMMA GateInvariant == PaymentSpec => []GateInv
BY InitGate, NextGate, PTL DEF PaymentSpec

-----------------------------------------------------------------------------
(* The chain. *)

LEMMA NextChain == PaymentTypeOK /\ ChainInv /\ [PaymentNext]_paymentVars => ChainInv'
<1> SUFFICES ASSUME PaymentTypeOK, ChainInv, [PaymentNext]_paymentVars
             PROVE  ChainInv'
  OBVIOUS
<1>1. ASSUME UNCHANGED <<mempool, mined>>,
             \A x \in Req \cup AttestTx : transfer'[x].at = "counted" =>
                 \/ transfer'[x] = transfer[x]
                 \/ transfer'[x].nonce = mined
      PROVE  ChainInv'
  BY <1>1 DEF PaymentTypeOK, ChainInv
<1>2. CASE restart
  BY <1>1, <1>2 DEF restart, NoTransfer, chainVars
<1>3. ASSUME NEW a \in Auth, expire(a) \/ \E same \in BOOLEAN : signTransfer(a, same)
      PROVE  ChainInv'
  BY <1>1, <1>3 DEF expire, signTransfer, chainVars
<1>4. ASSUME NEW r \in Req, \E key \in NonceKey : deliver(r, key)
      PROVE  ChainInv'
  BY <1>1, <1>4 DEF deliver, chainVars
<1>5. ASSUME NEW r \in Req, loadNonce(r) \/ \E ok \in BOOLEAN : serveHTTP(r, ok)
      PROVE  ChainInv'
  BY <1>1, <1>5 DEF loadNonce, serveHTTP, chainVars
<1>6. ASSUME NEW r \in Req, storeNonce(r)
      PROVE  ChainInv'
  BY <1>1, <1>6 DEF storeNonce, chainVars, PaymentTypeOK
<1>7. ASSUME NEW x \in Req \cup AttestTx, readCount(x) \/ (x \in AttestTx /\ attest(x))
      PROVE  ChainInv'
  BY <1>1, <1>7 DEF readCount, attest, transactionCount, chainVars, PaymentTypeOK
<1>8. ASSUME NEW x \in Req \cup AttestTx,
             transferFails(x) \/ (x \in Req /\ \E ok \in BOOLEAN : savePayment(x, ok))
      PROVE  ChainInv'
  BY <1>1, <1>8 DEF transferFails, savePayment, chainVars, PaymentTypeOK
<1>9. ASSUME NEW x \in Req \cup AttestTx, sendRawTransaction(x)
      PROVE  ChainInv'
  <2>1. transfer[x].nonce = mined
    <3>1. transfer[x].nonce \in Nat /\ mined \in Nat
      BY DEF PaymentTypeOK
    <3>2. transfer[x].nonce >= mined /\ transfer[x].nonce <= mined
      BY <1>9 DEF sendRawTransaction, Accepts, ChainInv
    <3>3. QED
      BY <3>1, <3>2
  <2>2. mempool = {}
    BY <1>9, <2>1 DEF sendRawTransaction, Accepts, ChainInv
  <2>3. /\ mempool' = {[nonce |-> mined, auth |-> Charges(x)]}
        /\ mined' = mined
        /\ transfer' = [transfer EXCEPT ![x].at = "sent"]
    BY <1>9, <2>1, <2>2 DEF sendRawTransaction
  <2>4. QED
    BY <2>3 DEF ChainInv, PaymentTypeOK
<1>10. ASSUME NEW t \in mempool, NEW funds \in BOOLEAN, mine(t, funds)
      PROVE  ChainInv'
  <2>1. mempool' = {} /\ mined' = mined + 1 /\ transfer' = transfer
    BY <1>10 DEF mine, ChainInv
  <2>2. QED
    BY <2>1 DEF ChainInv, PaymentTypeOK
<1>11. CASE UNCHANGED paymentVars
  BY <1>1, <1>11 DEF paymentVars, chainVars
<1>12. QED
  BY <1>2, <1>3, <1>4, <1>5, <1>6, <1>7, <1>8, <1>9, <1>10, <1>11 DEF PaymentNext

LEMMA ChainInvariant == PaymentSpec => []ChainInv
<1>1. PaymentInit => ChainInv
  BY DEF PaymentInit, NoTransfer, ChainInv
<1>2. GateInv => PaymentTypeOK
  BY DEF GateInv
<1>3. QED
  BY <1>1, <1>2, NextChain, GateInvariant, PTL DEF PaymentSpec

-----------------------------------------------------------------------------
(* Nobody is charged for nothing. *)

\* What is charged, or waits to be mined, was let through.
ChargedInv ==
    \A a \in (charged \cup {t.auth : t \in mempool}) \ {None} :
        \E r \in Req : Passed(r) /\ hexToBytes32(req[r].key) = a

\* A request that passed stays one, with its authorization.
LEMMA PassedStays ==
    ASSUME PaymentTypeOK, [PaymentNext]_paymentVars, NEW r \in Req, Passed(r)
    PROVE  Passed(r)' /\ req'[r].key = req[r].key
<1>1. CASE UNCHANGED req
  BY <1>1 DEF Passed
<1>2. ASSUME NEW s \in Req, NEW key \in NonceKey, deliver(s, key)
      PROVE  Passed(r)' /\ req'[r].key = req[r].key
  <2>1. s # r /\ req' = [req EXCEPT ![s] = [at |-> "arrived", key |-> key, epoch |-> epoch]]
    BY <1>2 DEF deliver, Idle, Passed
  <2>2. QED
    BY <2>1 DEF PaymentTypeOK, Passed
<1>3. ASSUME NEW s \in Req, loadNonce(s) \/ storeNonce(s)
      PROVE  Passed(r)' /\ req'[r].key = req[r].key
  <2>1. s # r /\ \E v : req' = [req EXCEPT ![s].at = v]
    BY <1>3 DEF loadNonce, storeNonce, Passed
  <2>2. QED
    BY <2>1 DEF PaymentTypeOK, Passed
<1>4. ASSUME NEW s \in Req, NEW ok \in BOOLEAN, serveHTTP(s, ok)
      PROVE  Passed(r)' /\ req'[r].key = req[r].key
  BY <1>4 DEF serveHTTP, PaymentTypeOK, Passed
<1>5. CASE restart
  BY <1>5 DEF restart, PaymentTypeOK, Passed
<1>6. ASSUME NEW a \in Auth, expire(a) \/ \E same \in BOOLEAN : signTransfer(a, same)
      PROVE  UNCHANGED req
  BY <1>6 DEF expire, signTransfer, gateVars
<1>7. ASSUME NEW x \in Req \cup AttestTx,
             \/ readCount(x) \/ sendRawTransaction(x) \/ transferFails(x)
             \/ x \in AttestTx /\ attest(x)
             \/ x \in Req /\ \E ok \in BOOLEAN : savePayment(x, ok)
      PROVE  UNCHANGED req
  BY <1>7 DEF readCount, sendRawTransaction, transferFails, attest, savePayment, gateVars
<1>8. ASSUME NEW t \in mempool, NEW funds \in BOOLEAN, mine(t, funds)
      PROVE  UNCHANGED req
  BY <1>8 DEF mine, gateVars
<1>9. CASE UNCHANGED paymentVars
  BY <1>1, <1>9 DEF paymentVars, gateVars
<1>10. QED
  BY <1>1, <1>2, <1>3, <1>4, <1>5, <1>6, <1>7, <1>8, <1>9 DEF PaymentNext

\* Only an authorization that was let through goes out to be mined, and only one
\* that went out is charged.
LEMMA ChargedGrows ==
    ASSUME GateInv, [PaymentNext]_paymentVars,
           NEW a \in (charged' \cup {t.auth : t \in mempool'}) \ {None}
    PROVE  \/ a \in charged \cup {t.auth : t \in mempool}
           \/ \E r \in Req : Passed(r) /\ hexToBytes32(req[r].key) = a
<1>1. CASE UNCHANGED <<mempool, charged>>
  BY <1>1
<1>2. ASSUME NEW x \in Req \cup AttestTx, sendRawTransaction(x)
      PROVE  \/ a \in charged \cup {t.auth : t \in mempool}
             \/ \E r \in Req : Passed(r) /\ hexToBytes32(req[r].key) = a
  <2> DEFINE u == [nonce |-> transfer[x].nonce, auth |-> Charges(x)]
  <2>1. mempool' = mempool \cup {u} /\ charged' = charged
    BY <1>2 DEF sendRawTransaction
  <2>2. u.auth = Charges(x)
    OBVIOUS
  <2> HIDE DEF u
  <2>3. \/ a \in charged \cup {t.auth : t \in mempool}
        \/ a = Charges(x)
    BY <2>1, <2>2
  <2>4. ASSUME a = Charges(x)
        PROVE  x \in Req /\ Passed(x) /\ hexToBytes32(req[x].key) = a
    BY <1>2, <2>4 DEF Charges, sendRawTransaction, GateInv, TransferInv
  <2>5. QED
    BY <2>3, <2>4
<1>3. ASSUME NEW t \in mempool, NEW funds \in BOOLEAN, mine(t, funds)
      PROVE  a \in charged \cup {u.auth : u \in mempool}
  BY <1>3 DEF mine
<1>4. CASE restart
  BY <1>1, <1>4 DEF restart, chainVars
<1>5. ASSUME NEW b \in Auth, expire(b) \/ \E same \in BOOLEAN : signTransfer(b, same)
      PROVE  UNCHANGED <<mempool, charged>>
  BY <1>5 DEF expire, signTransfer, chainVars
<1>6. ASSUME NEW r \in Req,
             \/ loadNonce(r) \/ storeNonce(r)
             \/ \E key \in NonceKey : deliver(r, key)
             \/ \E ok \in BOOLEAN : serveHTTP(r, ok) \/ savePayment(r, ok)
      PROVE  UNCHANGED <<mempool, charged>>
  BY <1>6 DEF loadNonce, storeNonce, deliver, serveHTTP, savePayment, chainVars
<1>7. ASSUME NEW x \in Req \cup AttestTx,
             readCount(x) \/ transferFails(x) \/ (x \in AttestTx /\ attest(x))
      PROVE  UNCHANGED <<mempool, charged>>
  BY <1>7 DEF readCount, transferFails, attest, chainVars
<1>8. CASE UNCHANGED paymentVars
  BY <1>1, <1>8 DEF paymentVars, chainVars
<1>9. QED
  BY <1>1, <1>2, <1>3, <1>4, <1>5, <1>6, <1>7, <1>8 DEF PaymentNext

LEMMA ChargedInvariant == PaymentSpec => []ChargedInv
<1>1. PaymentInit => ChargedInv
  BY DEF PaymentInit, ChargedInv
<1>2. GateInv /\ ChargedInv /\ [PaymentNext]_paymentVars => ChargedInv'
  <2> SUFFICES ASSUME GateInv, ChargedInv, [PaymentNext]_paymentVars,
                      NEW a \in (charged' \cup {t.auth : t \in mempool'}) \ {None}
               PROVE  \E r \in Req : Passed(r)' /\ hexToBytes32(req'[r].key) = a
    BY DEF ChargedInv
  <2>1. PICK r \in Req : Passed(r) /\ hexToBytes32(req[r].key) = a
    BY ChargedGrows DEF ChargedInv
  <2>2. QED
    BY <2>1, PassedStays DEF GateInv
<1>3. QED
  BY <1>1, <1>2, GateInvariant, PTL DEF PaymentSpec

-----------------------------------------------------------------------------
(* Theorems. *)

\* Every variable of the gate, of its transfers and of the chain has its type.
THEOREM PaymentTypes == PaymentSpec => []PaymentTypeOK
<1>1. GateInv => PaymentTypeOK
  BY DEF GateInv
<1>2. QED
  BY <1>1, GateInvariant, PTL

\* Two requests that passed with one nonce, written alike, are one request, unless
\* the server was restarted in between or the nonce was looked up by both before
\* it was stored by either (x402.go: Load and Store of usedNonces, by the string).
THEOREM PaymentServesOnce == PaymentSpec => []PaidOnce
<1>1. GateInv => PaidOnce
  BY DEF GateInv, FreshOnce, Fresh, PaidOnce
<1>2. QED
  BY <1>1, GateInvariant, PTL

\* The numbers of the agent's transactions have no gap (usdc.go: the number is
\* the count of the mined ones, and the node refuses one that is taken).
THEOREM TransfersCanBeMined == PaymentSpec => []SentCanBeMined
<1>1. ASSUME PaymentTypeOK, ChainInv, NEW t \in mempool, NEW n \in mined .. t.nonce
      PROVE  t.nonce = n
  <2>1. t.nonce = mined /\ mined \in Nat
    BY <1>1 DEF PaymentTypeOK, ChainInv
  <2>2. QED
    BY <1>1, <2>1
<1>2. PaymentTypeOK /\ ChainInv => SentCanBeMined
  BY <1>1 DEF SentCanBeMined
<1>3. QED
  BY <1>2, PaymentTypes, ChainInvariant, PTL

\* Whatever the chain took from a user, a request of hers was let through for it
\* (x402.go: the transfer is started beside the request, after the checks), also
\* when the block comes after the server was restarted.
THEOREM ChargesAreForRequests == PaymentSpec => []ChargedPassed
<1>1. GateInv /\ ChargedInv => ChargedPassed
  <2>1. ASSUME GateInv, NEW a \in charged
        PROVE  a # None
    BY <2>1, PaymentAssumptions DEF GateInv, PaymentTypeOK
  <2>2. QED
    BY <2>1 DEF ChargedInv, ChargedPassed
<1>2. QED
  BY <1>1, GateInvariant, ChargedInvariant, PTL

-----------------------------------------------------------------------------
(***************************************************************************)
(* Signing in, for any wallets and any number of sign-ins that the server  *)
(* works on: the pages and the storage hold the same token, and it is one  *)
(* for a wallet that has signed.                                           *)
(***************************************************************************)

SignInRecord ==
    [at : {"free", "nonce", "prompt", "verify", "checked", "account"},
     address : Wallet \cup {None}, signer : Wallet \cup {None}, live : BOOLEAN]

\* What the server and the page may rely on at each stage of a sign-in: an
\* address once it is started, a signer once the wallet is asked, the signature
\* of that signer once it is sent, and that it is the address once it is checked.
Sound(v, S) ==
    /\ v.at # "free" => v.address \in Wallet
    /\ v.at \in {"prompt", "verify", "checked"} => v.signer \in Wallet
    /\ v.at \in {"verify", "checked"} => v.signer \in S
    /\ v.at = "checked" => v.signer = v.address

SignInsSound == \A f \in SignIn : Sound(signIn[f], signed)

\* The inductive invariant.
SignInInv ==
    /\ SignInTypeOK
    /\ SignInsSound
    /\ TokenIsSigned
    /\ TokenIsStored

LEMMA InitSignIn == SignInInit => SignInInv
<1> SUFFICES ASSUME SignInInit
             PROVE  SignInInv
  OBVIOUS
<1>1. Free \in SignInRecord
  BY DEF Free, SignInRecord
<1>2. SignInTypeOK
  BY <1>1 DEF SignInInit, SignInTypeOK, SignInRecord
<1>3. SignInsSound
  BY DEF SignInInit, Free, SignInsSound, Sound
<1>4. TokenIsSigned /\ TokenIsStored
  BY DEF SignInInit, TokenIsSigned, TokenIsStored
<1>5. QED
  BY <1>2, <1>3, <1>4 DEF SignInInv

-----------------------------------------------------------------------------
(* What the operators of the model do to the invariant. *)

\* The tokens held are sound if the two places are.
LEMMA Tokens ==
    ASSUME token # None => store.jwt = token,
           store.jwt # None => store.jwt.wallet \in signed
    PROVE  TokenIsSigned /\ TokenIsStored
BY DEF TokenIsSigned, TokenIsStored

LEMMA TokensKept ==
    ASSUME SignInInv, UNCHANGED token, store'.jwt = store.jwt, signed \subseteq signed'
    PROVE  TokenIsSigned' /\ TokenIsStored'
BY DEF SignInInv, TokenIsSigned, TokenIsStored

\* The rest of the invariant does not look at the wallet that is connected, the
\* account, the flags or the nonces.
LEMMA SignInsKept ==
    ASSUME SignInInv, UNCHANGED signIn, signed \subseteq signed'
    PROVE  SignInsSound'
BY DEF SignInInv, SignInsSound, Sound

\* A sign-in that takes a sound step.
LEMMA SignInSet ==
    ASSUME SignInInv, NEW f \in SignIn, NEW v \in SignInRecord, Sound(v, signed'),
           signIn' = [signIn EXCEPT ![f] = v], signed \subseteq signed'
    PROVE  SignInsSound' /\ signIn' \in [SignIn -> SignInRecord]
<1>1. signIn \in [SignIn -> SignInRecord]
  BY DEF SignInInv, SignInTypeOK, SignInRecord
<1>2. signIn' \in [SignIn -> SignInRecord]
  BY <1>1
<1>3. ASSUME NEW g \in SignIn
      PROVE  Sound(signIn'[g], signed')
  <2>1. CASE g = f
    BY <1>1, <2>1
  <2>2. CASE g # f
    BY <1>1, <2>2 DEF SignInInv, SignInsSound, Sound
  <2>3. QED
    BY <2>1, <2>2
<1>4. QED
  BY <1>2, <1>3 DEF SignInsSound

LEMMA FreeSound ==
    ASSUME NEW S
    PROVE  Free \in SignInRecord /\ Sound(Free, S)
BY DEF Free, SignInRecord, Sound

\* A sign-in that its page forgets, and the server still works on.
LEMMA ForgottenSound ==
    ASSUME SignInInv, NEW f \in SignIn
    PROVE  /\ [signIn[f] EXCEPT !.live = FALSE] \in SignInRecord
           /\ Sound([signIn[f] EXCEPT !.live = FALSE], signed)
<1>1. signIn[f] \in SignInRecord /\ Sound(signIn[f], signed)
  BY DEF SignInInv, SignInTypeOK, SignInsSound, SignInRecord
<1>2. QED
  BY <1>1 DEF SignInRecord, Sound

\* start, from whatever effect or button.
LEMMA StartStep ==
    ASSUME SignInInv, NEW w \in Wallet, start(w), UNCHANGED signed
    PROVE  /\ SignInsSound'
           /\ signIn' \in [SignIn -> SignInRecord]
           /\ authInFlight' \in BOOLEAN
           /\ store' \in [jwt : Token \cup {None}, wallet : Wallet \cup {None}]
           /\ store'.jwt = store.jwt
<1>1. CASE authInFlight
  BY <1>1, SignInsKept DEF start, SignInInv, SignInTypeOK, SignInRecord
<1>2. CASE ~authInFlight
  <2>1. PICK f \in SignIn :
            signIn' = [signIn EXCEPT ![f] =
                         [at |-> "nonce", address |-> w, signer |-> None, live |-> TRUE]]
    BY <1>2 DEF start
  <2> DEFINE v == [at |-> "nonce", address |-> w, signer |-> None, live |-> TRUE]
  <2>2. v \in SignInRecord /\ Sound(v, signed')
    BY DEF SignInRecord, Sound
  <2>3. SignInsSound' /\ signIn' \in [SignIn -> SignInRecord]
    BY <2>1, <2>2, SignInSet
  <2>4. authInFlight' = TRUE /\ store' = [store EXCEPT !.wallet = w]
    BY <1>2 DEF start
  <2>5. QED
    BY <2>3, <2>4 DEF SignInInv, SignInTypeOK
<1>3. QED
  BY <1>1, <1>2

LEMMA FinishStep ==
    ASSUME SignInInv, NEW f \in SignIn, finish(f), UNCHANGED signed
    PROVE  SignInsSound' /\ signIn' \in [SignIn -> SignInRecord] /\ authInFlight' \in BOOLEAN
<1>1. CASE signIn[f].at \in {"verify", "checked"}
  <2>1. signIn' = [signIn EXCEPT ![f] = [signIn[f] EXCEPT !.live = FALSE]]
    BY <1>1 DEF finish
  <2>2. QED
    BY <2>1, ForgottenSound, SignInSet DEF finish
<1>2. CASE signIn[f].at \notin {"verify", "checked"}
  <2>1. signIn' = [signIn EXCEPT ![f] = Free]
    BY <1>2 DEF finish
  <2>2. QED
    BY <2>1, FreeSound, SignInSet DEF finish
<1>3. QED
  BY <1>1, <1>2

-----------------------------------------------------------------------------
(* authenticate. *)

LEMMA AuthenticateStep ==
    ASSUME SignInInv, authenticate
    PROVE  SignInInv'
<1>1. address \in Wallet
  BY DEF authenticate, SignInButton, SignInInv, SignInTypeOK
<1>2. start(address) /\ UNCHANGED <<address, heldVars, autoAuthTriggeredFor, fetching, nonces, signed>>
  BY DEF authenticate
<1>3. SignInTypeOK'
  BY <1>1, <1>2, StartStep DEF SignInInv, SignInTypeOK, SignInRecord, heldVars
<1>4. TokenIsSigned' /\ TokenIsStored'
  BY <1>1, <1>2, StartStep, TokensKept DEF heldVars
<1>5. QED
  BY <1>1, <1>2, <1>3, <1>4, StartStep DEF SignInInv

LEMMA IssueNonceStep ==
    ASSUME SignInInv, NEW f \in SignIn, issueNonce(f)
    PROVE  SignInInv'
<1>1. /\ signIn[f].at = "nonce" /\ signIn[f].address \in Wallet
      /\ nonces' = [nonces EXCEPT ![signIn[f].address] = f]
      /\ UNCHANGED <<address, store, token, teamId, autoAuthTriggeredFor, fetching, signed>>
  BY DEF issueNonce, SignInInv, SignInsSound, Sound, browserVars, heldVars
<1>2. SignInsSound' /\ signIn' \in [SignIn -> SignInRecord] /\ authInFlight' \in BOOLEAN
  <2>1. CASE address = None
    BY <1>1, <2>1, FinishStep DEF issueNonce
  <2>2. CASE address # None
    <3> DEFINE v == [signIn[f] EXCEPT !.at = "prompt", !.signer = address]
    <3>1. signIn' = [signIn EXCEPT ![f] = v] /\ authInFlight' = authInFlight
      BY <2>2 DEF issueNonce
    <3>2. v \in SignInRecord /\ Sound(v, signed')
      BY <1>1, <2>2 DEF SignInInv, SignInTypeOK, SignInRecord, Sound
    <3>3. QED
      BY <1>1, <3>1, <3>2, SignInSet DEF SignInInv, SignInTypeOK
  <2>3. QED
    BY <2>1, <2>2
<1>3. SignInTypeOK'
  BY <1>1, <1>2 DEF SignInInv, SignInTypeOK, SignInRecord
<1>4. QED
  BY <1>1, <1>2, <1>3, TokensKept DEF SignInInv

LEMMA SignStep ==
    ASSUME SignInInv, NEW f \in SignIn, sign(f)
    PROVE  SignInInv'
<1> DEFINE v == [signIn[f] EXCEPT !.at = "verify"]
<1>1. /\ signIn' = [signIn EXCEPT ![f] = v]
      /\ signed' = signed \cup {signIn[f].signer}
      /\ UNCHANGED <<address, store, token, teamId, autoAuthTriggeredFor, authInFlight,
                     fetching, nonces>>
  BY DEF sign, SignInInv, SignInTypeOK, browserVars, heldVars
<1>2. signIn[f].signer \in Wallet /\ signIn[f].address \in Wallet
  BY DEF sign, SignInInv, SignInsSound, Sound
<1>3. v \in SignInRecord /\ Sound(v, signed')
  BY <1>1, <1>2 DEF SignInInv, SignInTypeOK, SignInRecord, Sound
<1>4. SignInsSound' /\ signIn' \in [SignIn -> SignInRecord]
  BY <1>1, <1>3, SignInSet
<1>5. SignInTypeOK'
  BY <1>1, <1>2, <1>4 DEF SignInInv, SignInTypeOK, SignInRecord
<1>6. QED
  BY <1>1, <1>4, <1>5, TokensKept DEF SignInInv

LEMMA SignInFailsStep ==
    ASSUME SignInInv, NEW f \in SignIn, signInFails(f)
    PROVE  SignInInv'
<1>1. finish(f) /\ UNCHANGED <<address, store, token, teamId, autoAuthTriggeredFor, fetching,
                               nonces, signed>>
  BY DEF signInFails, browserVars, heldVars
<1>2. SignInTypeOK'
  BY <1>1, FinishStep DEF SignInInv, SignInTypeOK, SignInRecord
<1>3. QED
  BY <1>1, <1>2, FinishStep, TokensKept DEF SignInInv

\* The server checks that the signer is the address it was asked about.
LEMMA VerifySignatureStep ==
    ASSUME SignInInv, NEW f \in SignIn, verifySignature(f)
    PROVE  SignInInv'
<1>1. /\ signIn[f].at = "verify" /\ authInFlight' \in BOOLEAN
      /\ UNCHANGED <<address, store, token, teamId, autoAuthTriggeredFor, fetching, nonces,
                     signed>>
  BY DEF verifySignature, SignInInv, SignInTypeOK, browserVars, heldVars
<1>2. SignInsSound' /\ signIn' \in [SignIn -> SignInRecord]
  <2>1. CASE signIn' = [signIn EXCEPT ![f] = Free]
    BY <1>1, <2>1, FreeSound, SignInSet
  <2>2. CASE signIn' # [signIn EXCEPT ![f] = Free]
    <3> DEFINE v == [signIn[f] EXCEPT !.at = "checked"]
    <3>1. signIn[f].signer = signIn[f].address /\ signIn' = [signIn EXCEPT ![f] = v]
      BY <2>2 DEF verifySignature, SignInInv, SignInTypeOK
    <3>2. signIn[f] \in SignInRecord /\ Sound(signIn[f], signed')
      BY <1>1 DEF SignInInv, SignInTypeOK, SignInsSound, SignInRecord
    <3>3. v \in SignInRecord /\ Sound(v, signed')
      BY <1>1, <3>1, <3>2 DEF SignInRecord, Sound
    <3>4. QED
      BY <1>1, <3>1, <3>3, SignInSet
  <2>3. QED
    BY <2>1, <2>2
<1>3. SignInTypeOK'
  BY <1>1, <1>2 DEF SignInInv, SignInTypeOK, SignInRecord
<1>4. QED
  BY <1>1, <1>2, <1>3, TokensKept DEF SignInInv

\* The token is issued for the signer of a checked sign-in, and is stored and
\* held in one step.
LEMMA ConsumeNonceStep ==
    ASSUME SignInInv, NEW f \in SignIn, consumeNonce(f)
    PROVE  SignInInv'
<1> DEFINE w == signIn[f].address
           t == [wallet |-> w, valid |-> TRUE]
<1>1. /\ w \in Wallet /\ w \in signed
      /\ nonces' = [nonces EXCEPT ![w] = None]
      /\ UNCHANGED <<address, teamId, autoAuthTriggeredFor, authInFlight, fetching, signed>>
  BY DEF consumeNonce, SignInInv, SignInsSound, Sound
<1>2. CASE signIn[f].live
  <2> DEFINE v == [signIn[f] EXCEPT !.at = "account", !.signer = None]
  <2>1. /\ store' = [store EXCEPT !.jwt = t, !.wallet = w]
        /\ token' = t
        /\ signIn' = [signIn EXCEPT ![f] = v]
    BY <1>2 DEF consumeNonce
  <2>2. v \in SignInRecord /\ Sound(v, signed')
    BY <1>1 DEF SignInInv, SignInTypeOK, SignInRecord, Sound
  <2>3. SignInsSound' /\ signIn' \in [SignIn -> SignInRecord]
    BY <1>1, <2>1, <2>2, SignInSet
  <2>4. t \in Token /\ t.wallet = w
    BY <1>1 DEF Token
  <2> HIDE DEF t
  <2>5. store' = [jwt |-> t, wallet |-> w]
    BY <2>1 DEF SignInInv, SignInTypeOK
  <2>6. SignInTypeOK'
    BY <1>1, <2>1, <2>3, <2>4, <2>5 DEF SignInInv, SignInTypeOK, SignInRecord
  <2>7. TokenIsSigned' /\ TokenIsStored'
    BY <1>1, <2>1, <2>4, <2>5 DEF TokenIsSigned, TokenIsStored
  <2>8. QED
    BY <2>3, <2>6, <2>7 DEF SignInInv
<1>3. CASE ~signIn[f].live
  <2>1. signIn' = [signIn EXCEPT ![f] = Free] /\ UNCHANGED <<store, token>>
    BY <1>3 DEF consumeNonce
  <2>2. SignInsSound' /\ signIn' \in [SignIn -> SignInRecord]
    BY <1>1, <2>1, FreeSound, SignInSet
  <2>3. SignInTypeOK'
    BY <1>1, <2>1, <2>2 DEF SignInInv, SignInTypeOK, SignInRecord
  <2>4. QED
    BY <1>1, <2>1, <2>2, <2>3, TokensKept DEF SignInInv
<1>4. QED
  BY <1>2, <1>3

LEMMA FetchAccountStep ==
    ASSUME SignInInv, NEW f \in SignIn, NEW ok \in BOOLEAN, fetchAccount(f, ok)
    PROVE  SignInInv'
<1>1. /\ signIn[f].at = "account" /\ finish(f)
      /\ UNCHANGED <<address, store, token, autoAuthTriggeredFor, fetching, nonces, signed>>
  BY DEF fetchAccount, browserVars
<1>2. teamId' \in Wallet \cup {None}
  <2>1. signIn[f].address \in Wallet /\ teamId \in Wallet \cup {None}
    BY <1>1 DEF SignInInv, SignInTypeOK, SignInsSound, Sound
  <2>2. QED
    BY <2>1 DEF fetchAccount, setTeam
<1>3. SignInTypeOK'
  BY <1>1, <1>2, FinishStep DEF SignInInv, SignInTypeOK, SignInRecord
<1>4. QED
  BY <1>1, <1>3, FinishStep, TokensKept DEF SignInInv

-----------------------------------------------------------------------------
(* The wallet, and the effects that follow it. *)

\* A token that is taken over is the one that is stored.
LEMMA ConnectStep ==
    ASSUME SignInInv, NEW w \in Wallet, connect(w)
    PROVE  SignInInv'
<1>1. /\ address' = w /\ autoAuthenticate(w)
      /\ UNCHANGED <<teamId, nonces, signed>>
  BY DEF connect
<1>2. CASE store.wallet # w \/ ~isTokenValid(store.jwt)
  <2>1. autoAuthTriggeredFor' = w /\ UNCHANGED <<token, fetching>>
    BY <1>1, <1>2 DEF autoAuthenticate
  <2>2. /\ SignInsSound' /\ signIn' \in [SignIn -> SignInRecord] /\ authInFlight' \in BOOLEAN
        /\ store' \in [jwt : Token \cup {None}, wallet : Wallet \cup {None}]
        /\ store'.jwt = store.jwt
    <3>1. CASE start(w)
      BY <1>1, <3>1, StartStep
    <3>2. CASE UNCHANGED <<authInFlight, signIn, store>>
      BY <1>1, <3>2, SignInsKept DEF SignInInv, SignInTypeOK, SignInRecord
    <3>3. QED
      BY <1>1, <1>2, <3>1, <3>2 DEF autoAuthenticate
  <2>3. SignInTypeOK'
    BY <1>1, <2>1, <2>2 DEF SignInInv, SignInTypeOK, SignInRecord
  <2>4. QED
    BY <1>1, <2>1, <2>2, <2>3, TokensKept DEF SignInInv
<1>3. CASE ~(store.wallet # w \/ ~isTokenValid(store.jwt))
  <2>1. /\ token' = IF token = None THEN store.jwt ELSE token
        /\ fetching' = IF token = None /\ teamId = None
                       THEN fetching \cup {store.jwt.wallet} ELSE fetching
        /\ UNCHANGED <<autoAuthTriggeredFor, authInFlight, signIn, store>>
    BY <1>1, <1>3 DEF autoAuthenticate
  <2>2. store.jwt \in Token /\ store.jwt.wallet \in Wallet
    BY <1>3 DEF isTokenValid, SignInInv, SignInTypeOK, Token
  <2>3. SignInTypeOK'
    BY <1>1, <2>1, <2>2 DEF SignInInv, SignInTypeOK
  <2>4. TokenIsSigned' /\ TokenIsStored'
    BY <1>1, <2>1 DEF SignInInv, TokenIsSigned, TokenIsStored
  <2>5. QED
    BY <1>1, <2>1, <2>3, <2>4, SignInsKept DEF SignInInv
<1>4. QED
  BY <1>2, <1>3

LEMMA DisconnectStep ==
    ASSUME SignInInv, disconnectWallet
    PROVE  SignInInv'
<1>1. SignInTypeOK'
  BY DEF disconnectWallet, SignInInv, SignInTypeOK
<1>2. TokenIsSigned' /\ TokenIsStored'
  BY DEF disconnectWallet, SignInInv, TokenIsSigned, TokenIsStored
<1>3. QED
  BY <1>1, <1>2, SignInsKept DEF disconnectWallet, SignInInv

LEMMA ReloadStep ==
    ASSUME SignInInv, reload
    PROVE  SignInInv'
<1>1. UNCHANGED <<store, teamId, nonces, signed>> /\ token' = None
  BY DEF reload
<1>2. ASSUME NEW f \in SignIn
      PROVE  signIn'[f] \in SignInRecord /\ Sound(signIn'[f], signed)
  BY FreeSound, ForgottenSound DEF reload
<1>3. signIn' \in [SignIn -> SignInRecord]
  <2>1. signIn' = [f \in SignIn |-> signIn'[f]]
    BY DEF reload
  <2>2. QED
    BY <1>2, <2>1
<1>4. SignInTypeOK'
  BY <1>3 DEF reload, SignInInv, SignInTypeOK, SignInRecord
<1>5. TokenIsSigned' /\ TokenIsStored'
  BY <1>1 DEF SignInInv, TokenIsSigned, TokenIsStored
<1>6. QED
  BY <1>1, <1>2, <1>4, <1>5 DEF SignInInv, SignInsSound

\* What was signed before a sign-out counts for the sign-ins that were sent.
LEMMA LogoutStep ==
    ASSUME SignInInv, logout
    PROVE  SignInInv'
<1>1. /\ store' = [jwt |-> None, wallet |-> None] /\ token' = None /\ teamId' = None
      /\ autoAuthTriggeredFor' = None
      /\ signed' = {signIn[f].signer : f \in {g \in SignIn : signIn[g].at \in {"verify", "checked"}}}
      /\ UNCHANGED <<address, authInFlight, signIn, fetching, nonces>>
  BY DEF logout
<1>2. SignInsSound'
  BY <1>1 DEF SignInInv, SignInsSound, Sound
<1>3. signed' \subseteq Wallet
  BY <1>1 DEF SignInInv, SignInsSound, Sound
<1>4. SignInTypeOK'
  BY <1>1, <1>3 DEF SignInInv, SignInTypeOK
<1>5. TokenIsSigned' /\ TokenIsStored'
  BY <1>1 DEF TokenIsSigned, TokenIsStored
<1>6. QED
  BY <1>2, <1>4, <1>5 DEF SignInInv

LEMMA ExpireStep ==
    ASSUME SignInInv, expireToken
    PROVE  SignInInv'
<1>1. /\ store.jwt \in Token
      /\ store' = [jwt |-> [store.jwt EXCEPT !.valid = FALSE], wallet |-> store.wallet]
      /\ token' = IF token = None THEN None ELSE [token EXCEPT !.valid = FALSE]
      /\ UNCHANGED <<address, teamId, authVars, fetching, nonces, signed>>
  BY DEF expireToken, SignInInv, SignInTypeOK
<1>2. ASSUME NEW t \in Token
      PROVE  [t EXCEPT !.valid = FALSE] \in Token /\ [t EXCEPT !.valid = FALSE].wallet = t.wallet
  BY DEF Token
<1>3. SignInTypeOK'
  BY <1>1, <1>2 DEF SignInInv, SignInTypeOK, authVars
<1>4. TokenIsSigned' /\ TokenIsStored'
  <2>1. store.jwt.wallet \in signed /\ (token # None => token = store.jwt)
    BY <1>1, SignInAssumptions DEF SignInInv, TokenIsSigned, TokenIsStored
  <2>2. QED
    BY <1>1, <1>2, <2>1 DEF TokenIsSigned, TokenIsStored
<1>5. QED
  BY <1>1, <1>3, <1>4, SignInsKept DEF SignInInv, authVars

\* An account that is on its way is one of a wallet.
LEMMA AccountStep ==
    ASSUME SignInInv,
           \/ handleSave
           \/ \E w \in Wallet, ok \in BOOLEAN : fetched(w, ok)
           \/ \E w \in Wallet : loseNonce(w)
    PROVE  SignInInv'
<1>1. SignInTypeOK'
  BY DEF handleSave, fetched, setTeam, loseNonce, SignInInv, SignInTypeOK, browserVars, heldVars, authVars
<1>2. UNCHANGED <<token, store, signIn, signed>>
  BY DEF handleSave, fetched, loseNonce, browserVars, heldVars, authVars
<1>3. QED
  BY <1>1, <1>2, SignInsKept, TokensKept DEF SignInInv

-----------------------------------------------------------------------------
LEMMA NextSignIn == SignInInv /\ [SignInNext]_signInVars => SignInInv'
<1> SUFFICES ASSUME SignInInv, [SignInNext]_signInVars
             PROVE  SignInInv'
  OBVIOUS
<1>1. CASE authenticate
  BY <1>1, AuthenticateStep
<1>2. CASE disconnectWallet
  BY <1>2, DisconnectStep
<1>3. CASE reload
  BY <1>3, ReloadStep
<1>4. CASE logout
  BY <1>4, LogoutStep
<1>5. CASE expireToken
  BY <1>5, ExpireStep
<1>6. CASE handleSave \/ (\E w \in Wallet : loseNonce(w) \/ \E ok \in BOOLEAN : fetched(w, ok))
  BY <1>6, AccountStep
<1>7. ASSUME NEW f \in SignIn, sign(f)
      PROVE  SignInInv'
  BY <1>7, SignStep
<1>8. ASSUME NEW f \in SignIn, signInFails(f)
      PROVE  SignInInv'
  BY <1>8, SignInFailsStep
<1>9. ASSUME NEW f \in SignIn, Respond(f)
      PROVE  SignInInv'
  BY <1>9, IssueNonceStep, VerifySignatureStep, ConsumeNonceStep, FetchAccountStep DEF Respond
<1>10. ASSUME NEW w \in Wallet, connect(w)
      PROVE  SignInInv'
  BY <1>10, ConnectStep
<1>11. CASE UNCHANGED signInVars
  <2>1. UNCHANGED <<token, store, signIn, signed>> /\ SignInTypeOK'
    BY <1>11 DEF signInVars, browserVars, heldVars, authVars, SignInInv, SignInTypeOK
  <2>2. QED
    BY <2>1, SignInsKept, TokensKept DEF SignInInv
<1>12. QED
  BY <1>1, <1>2, <1>3, <1>4, <1>5, <1>6, <1>7, <1>8, <1>9, <1>10, <1>11 DEF SignInNext

LEMMA Invariant == SignInSpec => []SignInInv
BY InitSignIn, NextSignIn, PTL DEF SignInSpec

-----------------------------------------------------------------------------
(* The flag of a sign-in. *)

\* A sign-in that the page started and did not clean up runs in it.
Waiting(f) == signIn[f].at \in {"nonce", "prompt", "account"}

LockInv ==
    /\ LockIsHeld
    /\ \A f \in SignIn : Waiting(f) => signIn[f].live
    /\ \A f \in SignIn : signIn[f].at = "free" => ~signIn[f].live

\* A sign-in starts, goes on or ends, and the flag with it.
LEMMA LockSet ==
    ASSUME SignInInv, LockInv, NEW f \in SignIn, NEW v \in SignInRecord,
           signIn' = [signIn EXCEPT ![f] = v],
           v.at \in {"nonce", "prompt", "account"} => v.live,
           v.at = "free" => ~v.live,
           v.live /\ ~signIn[f].live => ~authInFlight,
           authInFlight' <=> IF signIn[f].live THEN v.live ELSE authInFlight \/ v.live
    PROVE  LockInv'
<1>1. signIn'[f] = v /\ \A g \in SignIn \ {f} : signIn'[g] = signIn[g]
  BY DEF SignInInv, SignInTypeOK
<1>2. \A g \in SignIn : (Waiting(g)' => signIn'[g].live) /\ (signIn'[g].at = "free" => ~signIn'[g].live)
  <2>1. \A g \in SignIn : (Waiting(g) => signIn[g].live) /\ (signIn[g].at = "free" => ~signIn[g].live)
    BY DEF LockInv
  <2>2. \A g \in SignIn : Waiting(g)' <=> signIn'[g].at \in {"nonce", "prompt", "account"}
    BY DEF Waiting
  <2>3. QED
    BY <1>1, <2>1, <2>2 DEF Waiting
<1>3. /\ authInFlight <=> \E g \in SignIn : signIn[g].live
      /\ \A g, h \in SignIn : signIn[g].live /\ signIn[h].live => g = h
  BY DEF LockInv, LockIsHeld
<1>4. authInFlight' <=> \E g \in SignIn : signIn'[g].live
  <2>1. CASE signIn[f].live
    BY <1>1, <1>3, <2>1
  <2>2. CASE ~signIn[f].live
    BY <1>1, <1>3, <2>2
  <2>3. QED
    BY <2>1, <2>2
<1>5. \A g, h \in SignIn : signIn'[g].live /\ signIn'[h].live => g = h
  <2>1. v.live => \A g \in SignIn \ {f} : ~signIn[g].live
    BY <1>3
  <2>2. QED
    BY <1>1, <1>3, <2>1
<1>6. QED
  BY <1>2, <1>4, <1>5 DEF LockInv, LockIsHeld

LEMMA LockKept ==
    ASSUME LockInv, UNCHANGED <<signIn, authInFlight>>
    PROVE  LockInv'
BY DEF LockInv, LockIsHeld, Waiting

LEMMA StartLocks ==
    ASSUME SignInInv, LockInv, NEW w \in Wallet, start(w)
    PROVE  LockInv'
<1>1. CASE authInFlight
  BY <1>1, LockKept DEF start
<1>2. CASE ~authInFlight
  <2> DEFINE v == [at |-> "nonce", address |-> w, signer |-> None, live |-> TRUE]
  <2>1. PICK f \in SignIn : signIn' = [signIn EXCEPT ![f] = v]
    BY <1>2 DEF start
  <2>2. v \in SignInRecord /\ v.at = "nonce" /\ v.live
    BY DEF SignInRecord
  <2>3. authInFlight' = TRUE /\ ~signIn[f].live
    BY <1>2 DEF start, LockInv, LockIsHeld
  <2> HIDE DEF v
  <2>4. QED
    BY <1>2, <2>1, <2>2, <2>3, LockSet
<1>3. QED
  BY <1>1, <1>2

\* The clean-up of the sign-in that runs in the page takes the flag down.
LEMMA FinishLocks ==
    ASSUME SignInInv, LockInv, NEW f \in SignIn, signIn[f].live, finish(f)
    PROVE  LockInv'
<1>1. authInFlight' = FALSE
  BY DEF finish
<1>2. CASE signIn[f].at \in {"verify", "checked"}
  <2> DEFINE v == [signIn[f] EXCEPT !.live = FALSE]
  <2>1. signIn' = [signIn EXCEPT ![f] = v]
    BY <1>2 DEF finish
  <2>2. v \in SignInRecord
    BY ForgottenSound
  <2>3. v.at = signIn[f].at /\ ~v.live
    BY DEF SignInInv, SignInTypeOK
  <2> HIDE DEF v
  <2>4. QED
    BY <1>1, <1>2, <2>1, <2>2, <2>3, LockSet
<1>3. CASE signIn[f].at \notin {"verify", "checked"}
  <2>1. signIn' = [signIn EXCEPT ![f] = Free]
    BY <1>3 DEF finish
  <2>2. Free \in SignInRecord /\ Free.at = "free" /\ ~Free.live
    BY DEF Free, SignInRecord
  <2>3. QED
    BY <1>1, <2>1, <2>2, LockSet
<1>4. QED
  BY <1>2, <1>3

\* The wallet is asked, the signature sent, the answer taken: the flag stays.
LEMMA AdvanceLocks ==
    ASSUME SignInInv, LockInv, NEW f \in SignIn, NEW v \in SignInRecord,
           signIn' = [signIn EXCEPT ![f] = v], authInFlight' = authInFlight,
           v.live = signIn[f].live, v.at # "free",
           v.at \in {"nonce", "prompt", "account"} => signIn[f].live
    PROVE  LockInv'
<1>1. signIn[f].live => authInFlight
  BY DEF LockInv, LockIsHeld
<1>2. authInFlight \in BOOLEAN /\ signIn[f].live \in BOOLEAN
  BY DEF SignInInv, SignInTypeOK
<1>3. QED
  BY <1>1, <1>2, LockSet

LEMMA RespondLocks ==
    ASSUME SignInInv, LockInv, NEW f \in SignIn, Respond(f)
    PROVE  LockInv'
<1>1. signIn[f] \in SignInRecord /\ (Waiting(f) => signIn[f].live)
  BY DEF SignInInv, SignInTypeOK, SignInRecord, LockInv
<1>2. CASE issueNonce(f)
  <2>1. signIn[f].at = "nonce" /\ signIn[f].live
    BY <1>1, <1>2 DEF issueNonce, Waiting
  <2>2. CASE address = None
    BY <1>2, <2>1, <2>2, FinishLocks DEF issueNonce
  <2>3. CASE address # None
    <3> DEFINE v == [signIn[f] EXCEPT !.at = "prompt", !.signer = address]
    <3>1. signIn' = [signIn EXCEPT ![f] = v] /\ authInFlight' = authInFlight
      BY <1>2, <2>3 DEF issueNonce
    <3>2. address \in Wallet \cup {None}
      BY DEF SignInInv, SignInTypeOK
    <3>3. v \in SignInRecord /\ v.live = signIn[f].live /\ v.at = "prompt"
      BY <1>1, <3>2 DEF SignInRecord
    <3> HIDE DEF v
    <3>4. QED
      BY <2>1, <3>1, <3>3, AdvanceLocks
  <2>4. QED
    BY <2>2, <2>3
<1>3. CASE verifySignature(f)
  <2>1. signIn[f].at = "verify"
    BY <1>3 DEF verifySignature
  <2>2. CASE signIn' = [signIn EXCEPT ![f].at = "checked"] /\ authInFlight' = authInFlight
    <3> DEFINE v == [signIn[f] EXCEPT !.at = "checked"]
    <3>1. signIn' = [signIn EXCEPT ![f] = v]
      BY <2>2 DEF SignInInv, SignInTypeOK
    <3>2. v \in SignInRecord /\ v.live = signIn[f].live /\ v.at = "checked"
      BY <1>1 DEF SignInRecord
    <3> HIDE DEF v
    <3>3. QED
      BY <2>2, <3>1, <3>2, AdvanceLocks
  <2>3. CASE /\ signIn' = [signIn EXCEPT ![f] = Free]
             /\ authInFlight' = (authInFlight /\ ~signIn[f].live)
    <3>1. Free \in SignInRecord /\ Free.at = "free" /\ ~Free.live
      BY DEF Free, SignInRecord
    <3>2. QED
      BY <2>3, <3>1, LockSet
  <2>4. QED
    BY <1>3, <2>2, <2>3 DEF verifySignature
<1>4. CASE consumeNonce(f)
  <2>1. authInFlight' = authInFlight
    BY <1>4 DEF consumeNonce
  <2>2. CASE signIn[f].live
    <3> DEFINE v == [signIn[f] EXCEPT !.at = "account", !.signer = None]
    <3>1. signIn' = [signIn EXCEPT ![f] = v]
      BY <1>4, <2>2 DEF consumeNonce
    <3>2. v \in SignInRecord /\ v.live = signIn[f].live /\ v.at = "account"
      BY <1>1 DEF SignInRecord
    <3> HIDE DEF v
    <3>3. QED
      BY <2>1, <2>2, <3>1, <3>2, AdvanceLocks
  <2>3. CASE ~signIn[f].live
    <3>1. signIn' = [signIn EXCEPT ![f] = Free]
      BY <1>4, <2>3 DEF consumeNonce
    <3>2. Free \in SignInRecord /\ Free.at = "free" /\ ~Free.live
      BY DEF Free, SignInRecord
    <3>3. QED
      BY <2>1, <2>3, <3>1, <3>2, LockSet
  <2>4. QED
    BY <2>2, <2>3
<1>5. ASSUME NEW ok \in BOOLEAN, fetchAccount(f, ok)
      PROVE  LockInv'
  BY <1>1, <1>5, FinishLocks DEF fetchAccount, Waiting
<1>6. QED
  BY <1>2, <1>3, <1>4, <1>5 DEF Respond

\* A page that is loaded again has no sign-in, and no flag.
LEMMA ReloadLocks ==
    ASSUME SignInInv, reload
    PROVE  LockInv'
<1>1. ASSUME NEW f \in SignIn
      PROVE  ~signIn'[f].live /\ ~Waiting(f)'
  <2>1. CASE signIn[f].at \in {"verify", "checked"}
    <3>1. signIn'[f] = [signIn[f] EXCEPT !.live = FALSE]
      BY <2>1 DEF reload
    <3>2. signIn'[f].at = signIn[f].at /\ ~signIn'[f].live
      BY <3>1 DEF SignInInv, SignInTypeOK
    <3>3. QED
      BY <2>1, <3>2 DEF Waiting
  <2>2. CASE signIn[f].at \notin {"verify", "checked"}
    BY <2>2 DEF reload, Free, Waiting
  <2>3. QED
    BY <2>1, <2>2
<1>2. authInFlight' = FALSE
  BY DEF reload
<1>3. QED
  BY <1>1, <1>2 DEF LockInv, LockIsHeld

LEMMA NextLocks == SignInInv /\ LockInv /\ [SignInNext]_signInVars => LockInv'
<1> SUFFICES ASSUME SignInInv, LockInv, [SignInNext]_signInVars
             PROVE  LockInv'
  OBVIOUS
<1>1. CASE authenticate
  BY <1>1, StartLocks DEF authenticate, SignInButton, SignInInv, SignInTypeOK
<1>2. ASSUME NEW w \in Wallet, connect(w)
      PROVE  LockInv'
  BY <1>2, StartLocks, LockKept DEF connect, autoAuthenticate
<1>3. CASE reload
  BY <1>3, ReloadLocks
<1>4. ASSUME NEW f \in SignIn, sign(f)
      PROVE  LockInv'
  <2> DEFINE v == [signIn[f] EXCEPT !.at = "verify"]
  <2>1. signIn' = [signIn EXCEPT ![f] = v] /\ authInFlight' = authInFlight
    BY <1>4 DEF sign, SignInInv, SignInTypeOK
  <2>2. v \in SignInRecord /\ v.live = signIn[f].live /\ v.at = "verify"
    BY DEF SignInInv, SignInTypeOK, SignInRecord
  <2> HIDE DEF v
  <2>3. QED
    BY <2>1, <2>2, AdvanceLocks
<1>5. ASSUME NEW f \in SignIn, signInFails(f)
      PROVE  LockInv'
  BY <1>5, FinishLocks DEF signInFails
<1>6. ASSUME NEW f \in SignIn, Respond(f)
      PROVE  LockInv'
  BY <1>6, RespondLocks
<1>7. CASE \/ disconnectWallet \/ logout \/ expireToken \/ handleSave \/ UNCHANGED signInVars
           \/ \E w \in Wallet : loseNonce(w) \/ \E ok \in BOOLEAN : fetched(w, ok)
  BY <1>7, LockKept DEF disconnectWallet, logout, expireToken, handleSave, loseNonce, fetched,
                        authVars, signInVars
<1>8. QED
  BY <1>1, <1>2, <1>3, <1>4, <1>5, <1>6, <1>7 DEF SignInNext

LEMMA LockInvariant == SignInSpec => []LockInv
<1>1. SignInInit => LockInv
  BY DEF SignInInit, Free, LockInv, LockIsHeld, Waiting
<1>2. QED
  BY <1>1, NextLocks, Invariant, PTL DEF SignInSpec

-----------------------------------------------------------------------------
(* Theorems. *)

\* Every variable of the browser and of the server has its type.
THEOREM SignInTypes == SignInSpec => []SignInTypeOK
<1>1. SignInInv => SignInTypeOK
  BY DEF SignInInv
<1>2. QED
  BY <1>1, Invariant, PTL

\* A token in a page or in the storage is for a wallet that has signed since the
\* last sign-out, whatever the wallet did while the sign-in was in flight
\* (auth.go compares the signer with the address; AuthContext.tsx stores the token).
THEOREM TokensAreSigned == SignInSpec => []TokenIsSigned
<1>1. SignInInv => TokenIsSigned
  BY DEF SignInInv
<1>2. QED
  BY <1>1, Invariant, PTL

\* A token that the pages hold is the one in the storage
\* (AuthContext.tsx: the effects and the handlers that set one of them).
THEOREM TokensAreStored == SignInSpec => []TokenIsStored
<1>1. SignInInv => TokenIsStored
  BY DEF SignInInv
<1>2. QED
  BY <1>1, Invariant, PTL

\* The flag that keeps a second sign-in from starting is up exactly while one runs
\* in the page, whatever clean-up ends it (AuthContext.tsx: authInFlight, the
\* finally clause, and a page that is loaded again while the server works on).
THEOREM OneSignInAtATime == SignInSpec => []LockIsHeld
<1>1. LockInv => LockIsHeld
  BY DEF LockInv
<1>2. QED
  BY <1>1, LockInvariant, PTL

=============================================================================
