----------------------------- MODULE ToolRunner -----------------------------
(***************************************************************************)
(* One agent and the tool loop that drives its turns: ToolRunner in        *)
(* agents/tool_runner.py, the entry point of a turn in                     *)
(* agents/tool_agent.py and the history a successful LLM call extends in   *)
(* agents/llm_decorator.py.                                                *)
(*                                                                         *)
(* The loop is one asyncio task. Its state is only observable, and its     *)
(* task can only be cancelled, where it awaits something; pc names the     *)
(* await the task is suspended at, and an action runs the task from one    *)
(* await to the next. The language model, the tools, the hooks and the     *)
(* display are the environment.                                            *)
(***************************************************************************)
EXTENDS Integers, Sequences, FiniteSets

CONSTANTS
    Budgets,        \* values of request_params.max_iterations
    UseHistory,     \* values of use_history a request may carry
    Passthrough,    \* may a request ask for tool_result_mode = passthrough?
    Deferred,       \* may a request carry a schema with the "defer" policy?
    Replies,        \* what the language model answers: a stop reason, or
                    \* "NO_CALLS" for TOOL_USE without a tool call
    Interruptible,  \* the awaits at which the task may be cancelled
    Failing,        \* the awaits that may raise
    MaxTurns,       \* bound: user turns
    MaxRestarts,    \* bound: process restarts
    MaxCalls        \* bound: LLM calls; large enough never to be the limit

Awaits == {"beforeTool", "runTools", "afterTool", "passHook", "beforeLlm",
           "llm", "presented", "checkpoint", "afterTurn"}

ASSUME BudgetsAssumption == Budgets \subseteq Nat
ASSUME FlagsAssumption ==
    /\ UseHistory \subseteq BOOLEAN
    /\ Passthrough \subseteq BOOLEAN
    /\ Deferred \subseteq BOOLEAN
ASSUME RepliesAssumption ==
    Replies \subseteq {"TOOL_USE", "NO_CALLS", "CONTINUE", "END_TURN", "CANCELLED"}
ASSUME AwaitsAssumption ==
    /\ Interruptible \subseteq Awaits
    /\ Failing \subseteq Awaits \cup {"save"}
ASSUME BoundsAssumption ==
    /\ MaxTurns \in Nat
    /\ MaxRestarts \in Nat
    /\ MaxCalls \in Nat

-----------------------------------------------------------------------------
(* Messages. An assistant message has the number of the LLM call that       *)
(* produced it, which also names its batch of tool calls; a result has the  *)
(* number of the batch its tool_call_ids answer. calls says whether         *)
(* tool_calls is non-empty, which outlives any change of stop. Providers    *)
(* answer TOOL_USE with calls, but for Bedrock, which may find none to      *)
(* parse (_bedrock_tool_calls_for_stop_reason).                             *)

Stops == {"none", "TOOL_USE", "CONTINUE", "END_TURN", "CANCELLED",
          "ERROR", "MAX_ITERATIONS"}

Message == [kind  : {"nil", "user", "assistant", "result"},
            id    : Nat,
            calls : BOOLEAN,
            stop  : Stops,
            text  : {"none", "real", "interrupted", "failed"}]

None == [kind |-> "nil", id |-> 0, calls |-> FALSE, stop |-> "none",
         text |-> "none"]

UserPrompt == [None EXCEPT !.kind = "user"]

Assistant(n, reply) == [kind |-> "assistant", id |-> n,
                        calls |-> reply = "TOOL_USE",
                        stop |-> IF reply = "NO_CALLS" THEN "TOOL_USE" ELSE reply,
                        text |-> "none"]

ToolResult(n, t) == [kind |-> "result", id |-> n, calls |-> FALSE,
                     stop |-> "none", text |-> t]

(* The assistant message synthesized from a tool result in passthrough.    *)
Synthesized == [None EXCEPT !.kind = "assistant", !.stop = "END_TURN"]

(* history is the use_history the runner and the agent's LLM calls go by    *)
(* (the request's, or the agent's if it sets none), saves the one the hook  *)
(* that saves the session goes by (the request's, TRUE if it sets none).    *)
Request == {r \in [history : UseHistory, saves : BOOLEAN, budget : Budgets,
                   passthrough : Passthrough, deferred : Deferred] :
               r.history => r.saves}

-----------------------------------------------------------------------------
VARIABLES
    history,      \* agent._message_history
    saved,        \* the history in the session's file
    pc,           \* "idle", "next", or the await the turn's task is at
    req,          \* the request_params of the turn
    delta,        \* runner._delta_messages
    iteration,    \* runner._iteration
    done,         \* runner._done
    last,         \* runner._last_message, aliased by the history's copy of it
    pendingReq,   \* runner._pending_tool_request (the batch), 0 for None
    pendingResp,  \* runner._pending_tool_response
    staged,       \* runner._staged_terminal_response
    finalizing,   \* runner._deferred_structured_finalization_started
    calls,        \* LLM calls answered so far
    turns,        \* user turns started so far
    restarts,     \* process restarts so far
    outcome,      \* how the last turn ended
    sent,         \* auxiliary: the messages of the latest LLM request
    turnCalls,    \* auxiliary: LLM calls answered in this turn
    executions,   \* auxiliary: the batches handed to run_tools, in order
    completed,    \* auxiliary: the batches whose tools all returned a result
                  \* (a restart keeps those whose result reached the file)
    refused       \* auxiliary: this turn's model answered CANCELLED

runner == <<delta, iteration, done, last, pendingReq, pendingResp, staged,
            finalizing>>
ghosts == <<sent, turnCalls, executions, completed, refused>>
counters == <<calls, turns, restarts>>
vars == <<history, saved, pc, req, runner, counters, outcome, ghosts>>

-----------------------------------------------------------------------------
(* Helpers on histories *)

PendingAtEnd(h) ==
    /\ h # <<>>
    /\ h[Len(h)].kind = "assistant"
    /\ h[Len(h)].calls
    /\ h[Len(h)].stop = "TOOL_USE"

(* Variants of reconcile_interrupted_history: no healing; rolling the call  *)
(* back; healing although the turn keeps no history.                        *)
BugNoHeal(h, useHistory) == h
(* reconcile_interrupted_history *)
Reconcile(h, useHistory) ==
    IF useHistory /\ PendingAtEnd(h)
    THEN Append(h, ToolResult(h[Len(h)].id, "interrupted"))
    ELSE h

(* Variant: the pending response is appended whatever the history ends in.  *)
BugResumable ==
    IF req.history /\ history # <<>> /\ pendingResp # None /\ pendingReq = 0
    THEN Append(history, pendingResp)
    ELSE history

(* _history_for_resumable_persistence *)
Resumable ==
    IF /\ req.history
       /\ PendingAtEnd(history)
       /\ pendingResp # None
       /\ pendingReq = 0
    THEN Append(history, pendingResp)
    ELSE history

(* Variant: a completed result is not looked for.                           *)
BugResetHistory == Reconcile(history, req.history)

(* _reset_history_after_cancelled_turn *)
ResetHistory ==
    IF Len(Resumable) > Len(history)
    THEN Resumable
    ELSE Reconcile(history, req.history)

(* self._last_message.stop_reason = s, seen through the history's alias    *)
Restop(h, s) ==
    [i \in 1..Len(h) |->
        IF h[i].kind = "assistant" /\ h[i].id = last.id /\ last.id # 0
        THEN [h[i] EXCEPT !.stop = s] ELSE h[i]]

(* Saving is best effort: a failed save leaves the file as it was.         *)
Save(h) ==
    \/ saved' = IF req.saves /\ h # <<>> THEN h ELSE saved
    \/ "save" \in Failing /\ saved' = saved

ToolsOn == ~finalizing

SawToolResults(msgs) == \E i \in 1..Len(msgs) : msgs[i].kind = "result"

-----------------------------------------------------------------------------
(* A user turn begins: ToolAgent._generate_tool_turn_impl heals a history   *)
(* left with a pending call, then builds the runner.                        *)

StartTurn(r) ==
    /\ pc = "idle"
    /\ turns < MaxTurns
    /\ turns' = turns + 1
    /\ req' = r
    /\ history' = Reconcile(history, r.history)
    /\ delta' = <<UserPrompt>>
    /\ iteration' = 0
    /\ done' = FALSE
    /\ last' = None
    /\ pendingReq' = 0
    /\ pendingResp' = None
    /\ staged' = None
    /\ finalizing' = FALSE
    /\ turnCalls' = 0
    /\ refused' = FALSE
    /\ outcome' = "running"
    /\ pc' = "next"
    /\ UNCHANGED <<saved, calls, restarts, sent, executions, completed>>

(* How a turn leaves the runner. The runner's fields stay as they are: the  *)
(* next turn builds a new runner.                                           *)

EndTurn(how) ==
    /\ pc' = "idle"
    /\ outcome' = how
    /\ UNCHANGED <<req, runner, counters, ghosts>>

-----------------------------------------------------------------------------
(* __anext__, as far as its first await (_prepare_next_llm_step)            *)

(* Variant: the staged response is not cleared.                             *)
BugConsumeStaged ==
    /\ pc = "next"
    /\ staged # None
    /\ last' = staged
    /\ done' = TRUE
    /\ UNCHANGED <<history, saved, pc, req, delta, iteration, pendingReq,
                   pendingResp, staged, finalizing, counters, outcome, ghosts>>

ConsumeStaged ==
    /\ pc = "next"
    /\ staged # None
    /\ staged' = None
    /\ last' = staged
    /\ done' = TRUE
    /\ UNCHANGED <<history, saved, pc, req, delta, iteration, pendingReq,
                   pendingResp, finalizing, counters, outcome, ghosts>>

BeginStep ==
    /\ pc = "next"
    /\ staged = None
    /\ ~done
    /\ pc' = IF pendingReq # 0 THEN "beforeTool" ELSE "beforeLlm"
    /\ UNCHANGED <<history, saved, req, runner, counters, outcome, ghosts>>

(* StopAsyncIteration reaches until_done with a CANCELLED last message.     *)
FinishCancelled ==
    /\ pc = "next"
    /\ staged = None
    /\ done
    /\ last.stop = "CANCELLED"
    /\ history' = ResetHistory
    /\ Save(ResetHistory)
    /\ EndTurn("stopped")

FinishLoop ==
    /\ pc = "next"
    /\ staged = None
    /\ done
    /\ last.stop # "CANCELLED"
    /\ pc' = "afterTurn"
    /\ UNCHANGED <<history, saved, req, runner, counters, outcome, ghosts>>

(* The after_turn_complete hooks ran; the last of them saves the session.   *)
AfterTurnHook ==
    /\ pc = "afterTurn"
    /\ Save(history)
    /\ EndTurn("returned")
    /\ UNCHANGED history

-----------------------------------------------------------------------------
(* generate_tool_call_response *)

BeforeToolHook ==
    /\ pc = "beforeTool"
    /\ pc' = "runTools"
    /\ UNCHANGED <<history, saved, req, runner, counters, outcome, ghosts>>

(* The message that answers the pending batch. One without calls has no     *)
(* results to hold (run_tools, _build_tool_error_response).                 *)
Answer(t) ==
    [ToolResult(pendingReq, t) EXCEPT !.kind = IF last.calls THEN "result" ELSE "user"]

RunTools ==
    /\ pc = "runTools"
    /\ pendingResp' = Answer("real")
    /\ executions' = Append(executions, pendingReq)
    /\ completed' = completed \cup {pendingReq}
    /\ pc' = "afterTool"
    /\ UNCHANGED <<history, saved, req, delta, iteration, done, last,
                   pendingReq, staged, finalizing, counters, outcome, sent,
                   turnCalls, refused>>

(* The hook or run_tools raised: the error response stands for the result. *)
ToolStepFails ==
    /\ pc \in {"beforeTool", "runTools"} \cap Failing
    /\ pendingResp' = Answer("failed")
    /\ executions' = IF pc = "runTools" THEN Append(executions, pendingReq)
                     ELSE executions
    /\ pc' = "afterTool"
    /\ UNCHANGED <<history, saved, req, delta, iteration, done, last,
                   pendingReq, staged, finalizing, counters, outcome, sent,
                   turnCalls, completed, refused>>

(* _stage_tool_response *)
StagedDelta ==
    IF req.history THEN <<pendingResp>> ELSE delta \o <<last, pendingResp>>

(* The after_tool_call hook is over (an error in it is swallowed) and        *)
(* _ensure_tool_response_staged runs to the next await.                      *)

StopOnToolError ==
    /\ pendingResp.text = "failed"
    /\ last' = [last EXCEPT !.stop = "ERROR"]
    /\ history' = Restop(history, "ERROR")
    /\ done' = TRUE
    /\ pc' = "next"
    /\ UNCHANGED <<delta, iteration>>

(* Variant: the stop reason of the last message is left at TOOL_USE.        *)
BugStopOnToolBudget ==
    /\ pendingResp.text # "failed"
    /\ iteration >= req.budget
    /\ iteration' = iteration + 1
    /\ history' = IF req.history THEN history \o StagedDelta ELSE history
    /\ delta' = IF req.history THEN StagedDelta ELSE delta
    /\ done' = TRUE
    /\ pc' = "next"
    /\ UNCHANGED last

StopOnToolBudget ==
    /\ pendingResp.text # "failed"
    /\ iteration >= req.budget
    /\ iteration' = iteration + 1
    /\ last' = [last EXCEPT !.stop = "MAX_ITERATIONS"]
    /\ history' = IF req.history
                  THEN Restop(history, "MAX_ITERATIONS") \o StagedDelta
                  ELSE history
    /\ delta' = IF req.history THEN StagedDelta ELSE delta
    /\ done' = TRUE
    /\ pc' = "next"

(* Variant: the round is given back to the budget.                          *)
BugStagePassthrough ==
    /\ pendingResp.text # "failed"
    /\ req.passthrough
    /\ iteration' = iteration - 1
    /\ history' = IF req.history
                  THEN history \o <<pendingResp, Synthesized>>
                  ELSE history
    /\ pc' = "passHook"
    /\ UNCHANGED <<delta, done, last>>

StagePassthrough ==
    /\ pendingResp.text # "failed"
    /\ iteration < req.budget
    /\ req.passthrough
    /\ iteration' = iteration + 1
    /\ history' = IF req.history
                  THEN history \o <<pendingResp, Synthesized>>
                  ELSE history
    /\ pc' = "passHook"
    /\ UNCHANGED <<delta, done, last>>

StageToolResponse ==
    /\ pendingResp.text # "failed"
    /\ iteration < req.budget
    /\ ~req.passthrough
    /\ iteration' = iteration + 1
    /\ delta' = StagedDelta
    /\ pc' = "beforeLlm"
    /\ UNCHANGED <<history, done, last>>

(* Variant: the pending request outlives its response.                      *)
BugAfterTool ==
    /\ pc = "afterTool"
    /\ \/ StopOnToolError
       \/ StopOnToolBudget
       \/ StagePassthrough
       \/ StageToolResponse
    /\ UNCHANGED <<saved, req, pendingReq, pendingResp, staged, finalizing,
                   counters, outcome, ghosts>>

AfterTool ==
    /\ pc = "afterTool"
    /\ pendingReq' = 0
    /\ \/ StopOnToolError
       \/ StopOnToolBudget
       \/ StagePassthrough
       \/ StageToolResponse
    /\ UNCHANGED <<saved, req, pendingResp, staged, finalizing, counters,
                   outcome, ghosts>>

(* after_llm_call for the synthesized answer, then it is staged.            *)
PassthroughHook ==
    /\ pc = "passHook"
    /\ staged' = Synthesized
    /\ done' = TRUE
    /\ pc' = "next"
    /\ UNCHANGED <<history, saved, req, delta, iteration, last, pendingReq,
                   pendingResp, finalizing, counters, outcome, ghosts>>

-----------------------------------------------------------------------------
(* The LLM call. before_llm_call runs with the staged messages; the answer  *)
(* enters the history together with the messages it answers                 *)
(* (_persist_history), and is displayed and shown to after_llm_call before  *)
(* the runner takes it up (_apply_assistant_message_state).                 *)

BeforeLlmHook ==
    /\ pc = "beforeLlm"
    /\ pc' = "llm"
    /\ UNCHANGED <<history, saved, req, runner, counters, outcome, ghosts>>

(* _prepare_llm_call: the conversation the call goes on with               *)
FullHistory == IF req.history THEN history \o delta ELSE delta

(* _merge_trailing_tool_result_turn: in what the provider is sent, a user   *)
(* message that follows tool results is folded into them.                   *)
Merged(h) ==
    IF Len(h) > 1 /\ h[Len(h)-1].kind = "result" /\ h[Len(h)].kind = "user"
    THEN SubSeq(h, 1, Len(h) - 1)
    ELSE h

CallLlm(reply) ==
    /\ pc = "llm"
    /\ calls < MaxCalls
    /\ reply \in {"TOOL_USE", "NO_CALLS"} => ToolsOn
    /\ sent' = Merged(FullHistory)
    /\ calls' = calls + 1
    /\ turnCalls' = turnCalls + 1
    /\ refused' = (refused \/ reply = "CANCELLED")
    /\ last' = Assistant(calls + 1, reply)
    /\ history' = IF req.history THEN Append(FullHistory, last') ELSE history
    /\ pc' = "presented"
    /\ UNCHANGED <<saved, req, delta, iteration, done, pendingReq, pendingResp,
                   staged, finalizing, turns, restarts, outcome, executions,
                   completed>>

TakeToolUse ==
    /\ last.stop = "TOOL_USE"
    /\ pendingReq' = last.id
    /\ pendingResp' = None
    /\ pc' = "checkpoint"
    /\ UNCHANGED <<history, delta, iteration, done, last, finalizing>>

(* Variants: one follow-up too many; CANCELLED taken for CONTINUE.          *)
BugContinueBudget ==
    /\ last.stop = "CONTINUE"
    /\ iteration <= req.budget
    /\ iteration' = iteration + 1
    /\ delta' = IF req.history THEN <<>> ELSE Append(delta, last)
    /\ pc' = "checkpoint"
    /\ UNCHANGED <<history, done, last, pendingReq, pendingResp, finalizing>>
TakeContinue ==
    /\ last.stop = "CONTINUE"
    /\ iteration < req.budget
    /\ iteration' = iteration + 1
    /\ delta' = IF req.history THEN <<>> ELSE Append(delta, last)
    /\ pc' = "checkpoint"
    /\ UNCHANGED <<history, done, last, pendingReq, pendingResp, finalizing>>

StopOnContinueBudget ==
    /\ last.stop = "CONTINUE"
    /\ iteration >= req.budget
    /\ iteration' = iteration + 1
    /\ last' = [last EXCEPT !.stop = "MAX_ITERATIONS"]
    /\ history' = Restop(history, "MAX_ITERATIONS")
    /\ done' = TRUE
    /\ pc' = "next"
    /\ UNCHANGED <<delta, pendingReq, pendingResp, finalizing>>

(* should_finalize_deferred_structured_turn, whatever the stop reason       *)
MustFinalize ==
    ~finalizing /\ req.deferred /\ ~SawToolResults(delta)

StartFinalization ==
    /\ last.stop \notin {"TOOL_USE", "CONTINUE"}
    /\ MustFinalize
    /\ finalizing' = TRUE
    /\ delta' = IF req.history THEN <<UserPrompt>>
                ELSE delta \o <<last, UserPrompt>>
    /\ pc' = "next"
    /\ UNCHANGED <<history, iteration, done, last, pendingReq, pendingResp>>

TakeFinal ==
    /\ last.stop \notin {"TOOL_USE", "CONTINUE"}
    /\ ~MustFinalize
    /\ done' = TRUE
    /\ pc' = "next"
    /\ UNCHANGED <<history, delta, iteration, last, pendingReq, pendingResp,
                   finalizing>>

TakeMessage ==
    /\ pc = "presented"
    /\ \/ TakeToolUse
       \/ TakeContinue
       \/ StopOnContinueBudget
       \/ StartFinalization
       \/ TakeFinal
    /\ UNCHANGED <<saved, req, staged, counters, outcome, ghosts>>

(* _persist_tool_loop_checkpoint *)
Checkpoint ==
    /\ pc = "checkpoint"
    /\ IF req.history THEN Save(history) ELSE saved' = saved
    /\ pc' = "next"
    /\ UNCHANGED <<history, req, runner, counters, outcome, ghosts>>

-----------------------------------------------------------------------------
(* The ways out of until_done other than returning                          *)

(* Task cancellation or KeyboardInterrupt, delivered at an await. A second  *)
(* cancellation can interrupt the save: the save is best effort.            *)
Cancel ==
    /\ pc \in Interruptible
    /\ history' = ResetHistory
    /\ Save(ResetHistory)
    /\ EndTurn("cancelled")

(* An exception: the file gets the resumable history, the agent keeps its   *)
(* own. Errors of tools and of after_tool_call never get here.              *)
Raise ==
    /\ pc \in Failing \cap {"passHook", "beforeLlm", "llm", "presented", "afterTurn"}
    /\ Save(Resumable)
    /\ EndTurn("error")
    /\ UNCHANGED history

(* The process dies; another one resumes the agent from the session's file. *)
Restart ==
    /\ restarts < MaxRestarts
    /\ restarts' = restarts + 1
    /\ history' = saved
    /\ pc' = "idle"
    /\ outcome' = "crashed"
    /\ completed' = {saved[i].id : i \in {j \in 1..Len(saved) : saved[j].text = "real"}}
    /\ UNCHANGED <<saved, req, runner, calls, turns, sent, turnCalls, executions,
                   refused>>

-----------------------------------------------------------------------------
Init ==
    /\ history = <<>>
    /\ saved = <<>>
    /\ pc = "idle"
    /\ req \in Request
    /\ delta = <<>>
    /\ iteration = 0
    /\ done = FALSE
    /\ last = None
    /\ pendingReq = 0
    /\ pendingResp = None
    /\ staged = None
    /\ finalizing = FALSE
    /\ calls = 0
    /\ turns = 0
    /\ restarts = 0
    /\ outcome = "none"
    /\ sent = <<>>
    /\ turnCalls = 0
    /\ executions = <<>>
    /\ completed = {}
    /\ refused = FALSE

(* The task's own steps: everything but users, cancellation and restarts.   *)
RunnerStep ==
    \/ ConsumeStaged
    \/ BeginStep
    \/ FinishCancelled
    \/ FinishLoop
    \/ AfterTurnHook
    \/ BeforeToolHook
    \/ RunTools
    \/ ToolStepFails
    \/ AfterTool
    \/ PassthroughHook
    \/ BeforeLlmHook
    \/ \E reply \in Replies : CallLlm(reply)
    \/ TakeMessage
    \/ Checkpoint
    \/ Raise

(* The user has had every turn of this instance.                            *)
Rest ==
    /\ pc = "idle"
    /\ turns = MaxTurns
    /\ UNCHANGED vars

Next ==
    \/ \E r \in Request : StartTurn(r)
    \/ RunnerStep
    \/ Cancel
    \/ Restart
    \/ Rest

(* An await the task is suspended at ends, one way or another: hooks,       *)
(* tools, the display and the provider answer or raise.                     *)
Fairness == WF_vars(RunnerStep)

Spec == Init /\ [][Next]_vars /\ Fairness

-----------------------------------------------------------------------------
(* Properties *)

(* The values each field of the agent and of the runner ranges over.       *)
TypeOK ==
    /\ history \in Seq(Message)
    /\ saved \in Seq(Message)
    /\ pc \in Awaits \cup {"idle", "next"}
    /\ req \in Request
    /\ delta \in Seq(Message)
    /\ iteration \in Nat
    /\ done \in BOOLEAN
    /\ last \in Message
    /\ pendingReq \in Nat
    /\ pendingResp \in Message
    /\ staged \in Message
    /\ finalizing \in BOOLEAN
    /\ calls \in Nat /\ turns \in Nat /\ restarts \in Nat
    /\ outcome \in {"none", "running", "returned", "stopped", "cancelled",
                    "error", "crashed"}
    /\ sent \in Seq(Message)
    /\ turnCalls \in Nat
    /\ executions \in Seq(Nat)
    /\ completed \in SUBSET Nat
    /\ refused \in BOOLEAN

(* Every request to the provider answers each batch of tool calls in it     *)
(* with the batch's own results, directly after the batch, whatever turns   *)
(* were cancelled, failed or resumed before it.                             *)
RequestsPaired ==
    \A i \in 1..Len(sent) :
        /\ sent[i].calls => /\ i < Len(sent)
                            /\ sent[i+1].kind = "result"
                            /\ sent[i+1].id = sent[i].id
        /\ sent[i].kind = "result" => /\ i > 1
                                      /\ sent[i-1].calls
                                      /\ sent[i-1].id = sent[i].id

(* The agent's history and the session's file implement Conversation.      *)
Entries(h) == [i \in 1..Len(h) |->
                  [kind |-> h[i].kind, id |-> h[i].id, calls |-> h[i].calls]]
Abstract == INSTANCE Conversation WITH log <- Entries(history),
                                       disk <- Entries(saved)
KeepsConversation == Abstract!Spec

(* Tool rounds and provider continuations of a turn share one budget: it    *)
(* makes at most max_iterations follow-up calls, and one more to produce    *)
(* the deferred structured answer.                                          *)
BudgetRespected ==
    turnCalls <= req.budget + (IF finalizing THEN 2 ELSE 1)

(* after_turn_complete receives the final message of the turn: one that     *)
(* asks for nothing more, though the loop may have been stopped mid-round.  *)
FinalMessage ==
    pc = "afterTurn" => last.stop \notin {"TOOL_USE", "CONTINUE", "none"}

(* No batch of tool calls is handed to run_tools twice, in its turn, after  *)
(* a cancellation or after a restart resumed the history it is in.          *)
NeverRerun ==
    \A i, j \in 1..Len(executions) : executions[i] = executions[j] => i = j

(* A tool batch that returned real results is not answered in the agent's   *)
(* history by the marker that says the user interrupted it.                 *)
CompletedResultKept ==
    \A i \in 1..Len(history) :
        history[i].text = "interrupted" => history[i].id \notin completed

(* A cancellation does not answer calls whose tools returned real results   *)
(* as interrupted by the user, whatever errors came before it and wherever  *)
(* the turn is but in the after_tool_call hook of those results.            *)
CancelKeepsResult ==
    [][outcome = "running" /\ outcome' = "cancelled" /\ pc # "afterTool"
        => \A i \in Len(history)+1..Len(history') :
              history'[i].text = "interrupted" => history'[i].id \notin completed]_vars

(* Once the model has answered CANCELLED the turn calls it no more, but for *)
(* the structured answer a deferred schema asks for after any last answer.  *)
CancelledStops == [][refused /\ refused' => calls' = calls \/ finalizing']_vars

(* Every turn ends: it returns, raises or is cut off by a restart.          *)
TurnEnds == pc # "idle" ~> pc = "idle"

=============================================================================
