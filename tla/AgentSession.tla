---------------------------- MODULE AgentSession ----------------------------
(***************************************************************************)
(* agent.Session: the loop that asks a language model for tool calls,      *)
(* executes them one after the other, records each as an action, and waits *)
(* for the user to confirm a deployment plan.                              *)
(*                                                                         *)
(* The loop runs in one goroutine.  Confirm runs in the goroutines of HTTP *)
(* requests and the reader of the event channel in a third one; a step     *)
(* here never holds more than one operation on a channel.  The context of  *)
(* Run is context.Background(), so that its Done case is never ready.      *)
(***************************************************************************)
EXTENDS Integers, Sequences, FiniteSets

CONSTANTS
    Tool,           \* the tools the model may name; any that has no case here is like the rest
    HasRepoURL,     \* whether the prompt holds a GitHub URL
    EventCap,       \* capacity of the event channel, 64 in the code
    Caller,         \* the requests that call Confirm
    MaxTurns,       \* bound on the answers that call tools
    MaxCalls        \* bound on the tool calls of one answer

\* The tool calls of bootstrapInitialPlan, in order.
BootstrapTools == <<"analyze_repo", "select_provider", "generate_deployment_plan">>

ASSUME AgentAssumptions ==
    /\ HasRepoURL \in BOOLEAN
    /\ HasRepoURL => {"analyze_repo", "select_provider", "generate_deployment_plan"} \subseteq Tool
    /\ EventCap \in Nat
    /\ MaxTurns \in Nat
    /\ MaxCalls \in Nat

VARIABLES
    pc,                 \* where Run is
    state,              \* Session.State
    noToolTurns,        \* consecutiveNoToolTurns
    calls,              \* the tool calls still to execute
    bootstrapping,      \* whether they are those of bootstrapInitialPlan
    result,             \* the outcome of the tool that was executed last
    actions,            \* Session.Actions: which tool, and whether it succeeded
    selectedProvider,   \* whether a provider was selected on the chain
    lastContainer,      \* whether lastContainerID is set
    confirmCh,          \* "open", or "closed" by Confirm
    confirming,         \* Caller -> where its call of Confirm is
    events,             \* the event channel
    turns,              \* number of answers that called tools
    requested           \* history: every tool call of the model or the bootstrap

runVars == <<pc, state, noToolTurns, calls, bootstrapping, result, actions,
             selectedProvider, lastContainer, turns, requested>>
confirmVars == <<confirmCh, confirming>>
agentVars == <<runVars, confirmVars, events>>

Outcome == {"ok", "error"}
EventType == {"message", "plan", "action", "done", "error"}

\* An event carries the index of its action, counted from 1; the others carry 0.
Event == [type : EventType, index : Nat]

\* Mutant of IsEnd: only a completed session ends the stream.
IsDone(e) == e.type = "done"

\* The events after which a stream is closed.
IsEnd(e) == e.type \in {"done", "error"}

CallSeq == UNION {[1 .. n -> Tool] : n \in 0 .. MaxCalls}

AgentInit ==
    /\ pc = "model"
    /\ state = "running"
    /\ noToolTurns = 0
    /\ calls = <<>>
    /\ bootstrapping = FALSE
    /\ result = "ok"
    /\ actions = <<>>
    /\ selectedProvider = FALSE
    /\ lastContainer = FALSE
    /\ confirmCh = "open"
    /\ confirming = [c \in Caller |-> "idle"]
    /\ events = <<>>
    /\ turns = 0
    /\ requested = <<>>

emit(type, index) ==
    events' = IF Len(events) < EventCap
              THEN Append(events, [type |-> type, index |-> index])
              ELSE events

emitIf(condition, type) == IF condition THEN emit(type, 0) ELSE UNCHANGED events

\* Mutant of Fail: the loop goes on after it has reported the error.
FailAndGoOn ==
    /\ state' = "failed"
    /\ emit("error", 0)
    /\ pc' = "model"

\* Run returns an error to its caller.
Fail ==
    /\ state' = "failed"
    /\ emit("error", 0)
    /\ pc' = "returned"

-----------------------------------------------------------------------------
(* The model's answer. *)

callClaudeFails ==
    /\ pc = "model"
    /\ Fail
    /\ UNCHANGED <<noToolTurns, calls, bootstrapping, result, actions, selectedProvider,
                   lastContainer, turns, requested, confirmVars>>

\* The answer is at most one text, which is streamed, and any tool calls.
callClaude(hasText, answer) ==
    /\ pc = "model"
    /\ answer # <<>> => turns < MaxTurns
    /\ emitIf(hasText, "message")
    /\ calls' = answer
    /\ requested' = requested \o answer
    /\ IF answer = <<>>
       THEN pc' = "noTool" /\ noToolTurns' = noToolTurns + 1 /\ UNCHANGED turns
       ELSE pc' = "tool" /\ noToolTurns' = 0 /\ turns' = turns + 1
    /\ UNCHANGED <<state, bootstrapping, result, actions, selectedProvider,
                   lastContainer, confirmVars>>

\* Mutant of nudge: asking again starts the count anew.
nudgeForever ==
    /\ pc = "noTool"
    /\ noToolTurns <= 2
    /\ emit("message", 0)
    /\ noToolTurns' = 0
    /\ pc' = "model"
    /\ UNCHANGED <<state, calls, bootstrapping, result, actions, selectedProvider,
                   lastContainer, turns, requested, confirmVars>>

\* Ask again, twice at most in a row.
nudge ==
    /\ pc = "noTool"
    /\ noToolTurns <= 2
    /\ emit("message", 0)
    /\ pc' = "model"
    /\ UNCHANGED <<state, noToolTurns, calls, bootstrapping, result, actions,
                   selectedProvider, lastContainer, turns, requested, confirmVars>>

\* Nothing was done so far: start with the expected sequence of tools.
CanBootstrap == actions = <<>> /\ HasRepoURL

bootstrapInitialPlan ==
    /\ pc = "noTool"
    /\ noToolTurns > 2
    /\ CanBootstrap
    /\ emit("message", 0)
    /\ calls' = BootstrapTools
    /\ requested' = requested \o BootstrapTools
    /\ bootstrapping' = TRUE
    /\ pc' = "tool"
    /\ UNCHANGED <<state, noToolTurns, result, actions, selectedProvider, lastContainer,
                   turns, confirmVars>>

complete ==
    /\ pc = "noTool"
    /\ noToolTurns > 2
    /\ ~CanBootstrap
    /\ state' = "completed"
    /\ emit("done", 0)
    /\ pc' = "returned"
    /\ UNCHANGED <<noToolTurns, calls, bootstrapping, result, actions, selectedProvider,
                   lastContainer, turns, requested, confirmVars>>

-----------------------------------------------------------------------------
(* executeTool. *)

\* A tool that can refuse its input does so before it says anything; the
\* bootstrap passes a URL that is not empty.
refuseInput ==
    /\ pc = "tool"
    /\ ~bootstrapping
    /\ Head(calls) \notin {"select_provider", "generate_deployment_plan", "create_container"}
    /\ result' = "error"
    /\ pc' = "record"
    /\ UNCHANGED <<state, noToolTurns, calls, bootstrapping, actions, selectedProvider,
                   lastContainer, turns, requested, confirmVars, events>>

\* Some tools say what they are about to do.
beginTool(says) ==
    /\ pc = "tool"
    /\ Head(calls) # "generate_deployment_plan"
    /\ Head(calls) \in {"select_provider", "analyze_repo"} => says
    /\ Head(calls) = "create_container" => ~says
    /\ emitIf(says, "message")
    /\ pc' = "run"
    /\ UNCHANGED <<state, noToolTurns, calls, bootstrapping, result, actions,
                   selectedProvider, lastContainer, turns, requested, confirmVars>>

\* A registry that cannot be read is reported, and is no error of the tool.
finishTool(outcome) ==
    LET tool == Head(calls)
    IN  /\ pc = "run"
        /\ emitIf(tool = "select_provider" /\ outcome = "error", "message")
        /\ result' = IF tool = "select_provider" THEN "ok" ELSE outcome
        /\ selectedProvider' = (selectedProvider \/ (tool = "select_provider" /\ outcome = "ok"))
        /\ lastContainer' = (lastContainer \/ (tool = "create_container" /\ outcome = "ok"))
        /\ pc' = "record"
        /\ UNCHANGED <<state, noToolTurns, calls, bootstrapping, actions, turns, requested, confirmVars>>

presentPlan ==
    /\ pc = "tool"
    /\ Head(calls) = "generate_deployment_plan"
    /\ emit("plan", 0)
    /\ pc' = "plan"
    /\ UNCHANGED <<state, noToolTurns, calls, bootstrapping, result, actions,
                   selectedProvider, lastContainer, turns, requested, confirmVars>>

planConfirmed ==
    /\ pc = "plan"
    /\ confirmCh = "closed"
    /\ emit("message", 0)
    /\ result' = "ok"
    /\ pc' = "record"
    /\ UNCHANGED <<state, noToolTurns, calls, bootstrapping, actions, selectedProvider,
                   lastContainer, turns, requested, confirmVars>>

\* The timer of ten minutes; select takes either case when both are ready.
planTimesOut ==
    /\ pc = "plan"
    /\ result' = "error"
    /\ pc' = "record"
    /\ UNCHANGED <<state, noToolTurns, calls, bootstrapping, actions, selectedProvider,
                   lastContainer, turns, requested, confirmVars, events>>

\* An error ends the bootstrap, except one of select_provider, which it ignores.
\* Its exit for an analysis that is no plan is never taken: AnalyzeRepo returns
\* a plan whenever it returns no error.
StopsBootstrap == bootstrapping /\ result = "error" /\ Head(calls) # "select_provider"

\* Mutant of recordAction: a tool that failed leaves no action.
recordSuccess ==
    /\ pc = "record"
    /\ actions' = IF result = "ok"
                  THEN Append(actions, [tool |-> Head(calls), outcome |-> result])
                  ELSE actions
    /\ emit("action", Len(actions) + 1)
    /\ calls' = Tail(calls)
    /\ pc' = IF StopsBootstrap THEN "bootFailed"
             ELSE IF Tail(calls) = <<>> THEN "model" ELSE "tool"
    /\ bootstrapping' = (bootstrapping /\ pc' # "model")
    /\ noToolTurns' = IF pc' = "model" THEN 0 ELSE noToolTurns
    /\ UNCHANGED <<state, result, selectedProvider, lastContainer, turns, requested, confirmVars>>

recordAction ==
    /\ pc = "record"
    /\ actions' = Append(actions, [tool |-> Head(calls), outcome |-> result])
    /\ emit("action", Len(actions) + 1)
    /\ calls' = Tail(calls)
    /\ pc' = IF StopsBootstrap THEN "bootFailed"
             ELSE IF Tail(calls) = <<>> THEN "model" ELSE "tool"
    /\ bootstrapping' = (bootstrapping /\ pc' # "model")
    /\ noToolTurns' = IF pc' = "model" THEN 0 ELSE noToolTurns
    /\ UNCHANGED <<state, result, selectedProvider, lastContainer, turns, requested, confirmVars>>

bootstrapFails ==
    /\ pc = "bootFailed"
    /\ Fail
    /\ UNCHANGED <<noToolTurns, calls, bootstrapping, result, actions, selectedProvider,
                   lastContainer, turns, requested, confirmVars>>

-----------------------------------------------------------------------------
(* Confirm: the test of the channel and its close are two steps. *)

confirmTest(c) ==
    /\ confirming[c] = "idle"
    /\ confirming' = [confirming EXCEPT ![c] =
          IF confirmCh = "closed" THEN "returned" ELSE "closing"]
    /\ UNCHANGED <<runVars, confirmCh, events>>

\* Closing a closed channel panics.
confirmClose(c) ==
    /\ confirming[c] = "closing"
    /\ confirming' = [confirming EXCEPT ![c] =
          IF confirmCh = "closed" THEN "panicked" ELSE "returned"]
    /\ confirmCh' = "closed"
    /\ UNCHANGED <<runVars, events>>

\* The reader of Events().
receive ==
    /\ events # <<>>
    /\ events' = Tail(events)
    /\ UNCHANGED <<runVars, confirmVars>>

Run ==
    \/ callClaudeFails
    \/ \E hasText \in BOOLEAN, answer \in CallSeq : callClaude(hasText, answer)
    \/ nudge
    \/ bootstrapInitialPlan
    \/ complete
    \/ refuseInput
    \/ \E says \in BOOLEAN : beginTool(says)
    \/ \E outcome \in Outcome : finishTool(outcome)
    \/ presentPlan
    \/ planConfirmed
    \/ planTimesOut
    \/ recordAction
    \/ bootstrapFails

Confirm(c) == confirmTest(c) \/ confirmClose(c)

AgentNext == Run \/ (\E c \in Caller : Confirm(c)) \/ receive

AgentSpec == AgentInit /\ [][AgentNext]_agentVars

\* The goroutine of Run is scheduled, the model and the tools answer, and the
\* timer of a plan fires.
AgentFairSpec == AgentSpec /\ WF_agentVars(Run)

-----------------------------------------------------------------------------
(* Properties. *)

\* Every variable holds a value of its type.
AgentTypeOK ==
    /\ pc \in {"model", "noTool", "tool", "run", "plan", "record", "bootFailed", "returned"}
    /\ state \in {"running", "completed", "failed"}
    /\ noToolTurns \in 0 .. 3
    /\ calls \in Seq(Tool)
    /\ bootstrapping \in BOOLEAN
    /\ result \in Outcome
    /\ actions \in Seq([tool : Tool, outcome : Outcome])
    /\ selectedProvider \in BOOLEAN
    /\ lastContainer \in BOOLEAN
    /\ confirmCh \in {"open", "closed"}
    /\ confirming \in [Caller -> {"idle", "closing", "returned", "panicked"}]
    /\ events \in Seq(Event)
    /\ Len(events) <= EventCap
    /\ turns \in Nat
    /\ requested \in Seq(Tool)

\* The audit log misses no call and invents none: the actions, followed by the
\* calls still to execute, are what the model or the bootstrap asked for, in
\* order, whether the tools succeeded or not, and Run completes only when
\* every call was executed.
ActionsFollowRequests ==
    /\ Len(actions) + Len(calls) = Len(requested)
    /\ \A i \in DOMAIN actions : actions[i].tool = requested[i]
    /\ \A i \in DOMAIN calls : calls[i] = requested[Len(actions) + i]
    /\ state = "completed" => calls = <<>>

\* done and error end the stream of events: Run emits nothing after them, and
\* emits the one that agrees with the state of the session.
EndIsLast ==
    \A i \in DOMAIN events :
        IsEnd(events[i]) =>
            /\ i = Len(events)
            /\ pc = "returned"
            /\ events[i].type = "done" <=> state = "completed"

\* Run returns when the model eventually stops calling tools: no wait for a
\* plan and no sequence of answers without tools keeps a session forever.
RunReturns == <>(pc = "returned")

=============================================================================
