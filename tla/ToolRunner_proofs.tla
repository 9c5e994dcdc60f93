-------------------------- MODULE ToolRunner_proofs --------------------------
(***************************************************************************)
(* Theorems about ToolRunner, for every set of budgets, requests, replies, *)
(* faults and interruptible awaits: type correctness, the budget of LLM    *)
(* calls of a turn, the final message after_turn_complete receives, that   *)
(* no batch of tool calls runs twice, and that a cancellation drops no     *)
(* completed result; and that a turn takes a bounded number of steps.      *)
(* Then, where no answer is broken off while it is presented and no tool   *)
(* step fails (Answered): that every request pairs calls with their        *)
(* results, and that the history and its file implement Conversation.      *)
(***************************************************************************)
EXTENDS ToolRunner, TLAPS

-----------------------------------------------------------------------------
(* The operators of the model stay within their types. *)

(* Every message the runner builds is a Message. *)
LEMMA MessageTypes ==
    /\ None \in Message /\ UserPrompt \in Message /\ Synthesized \in Message
    /\ \A n \in Nat, r \in Replies : Assistant(n, r) \in Message
    /\ \A n \in Nat, t \in {"real", "interrupted", "failed"} : ToolResult(n, t) \in Message
    /\ \A m \in Message, s \in Stops : [m EXCEPT !.stop = s] \in Message
<1>1. None \in Message
  BY DEF None, Message, Stops
<1>2. UserPrompt \in Message /\ Synthesized \in Message
  BY DEF UserPrompt, Synthesized, None, Message, Stops
<1>3. ASSUME NEW n \in Nat, NEW r \in Replies
      PROVE  Assistant(n, r) \in Message
  BY RepliesAssumption DEF Assistant, Message, Stops
<1>4. ASSUME NEW n \in Nat, NEW t \in {"real", "interrupted", "failed"}
      PROVE  ToolResult(n, t) \in Message
  BY DEF ToolResult, Message, Stops
<1>5. ASSUME NEW m \in Message, NEW s \in Stops
      PROVE  [m EXCEPT !.stop = s] \in Message
  BY DEF Message
<1> QED
  BY <1>1, <1>2, <1>3, <1>4, <1>5

(* Healing a history (reconcile_interrupted_history) yields a history.     *)
LEMMA ReconcileType ==
    ASSUME NEW h \in Seq(Message), NEW u
    PROVE  Reconcile(h, u) \in Seq(Message)
<1>1. CASE u /\ PendingAtEnd(h)
  <2>1. h[Len(h)] \in Message
    BY <1>1 DEF PendingAtEnd
  <2>2. h[Len(h)].id \in Nat
    BY <2>1 DEF Message
  <2>3. ToolResult(h[Len(h)].id, "interrupted") \in Message
    BY <2>2, MessageTypes
  <2> QED
    BY <1>1, <2>3 DEF Reconcile
<1>2. CASE ~(u /\ PendingAtEnd(h))
  BY <1>2 DEF Reconcile
<1> QED
  BY <1>1, <1>2

(* The histories a cancelled or failed turn leaves are histories.          *)
LEMMA ResetTypes ==
    ASSUME TypeOK
    PROVE  Resumable \in Seq(Message) /\ ResetHistory \in Seq(Message)
<1>1. Resumable \in Seq(Message)
  BY DEF Resumable, TypeOK
<1>2. Reconcile(history, req.history) \in Seq(Message)
  BY ReconcileType DEF TypeOK
<1> QED
  BY <1>1, <1>2 DEF ResetHistory

(* Changing a stop reason keeps a history a history.                       *)
LEMMA RestopType ==
    ASSUME NEW h \in Seq(Message), NEW s \in Stops
    PROVE  Restop(h, s) \in Seq(Message)
<1> DEFINE f == [i \in 1..Len(h) |->
                  IF h[i].kind = "assistant" /\ h[i].id = last.id /\ last.id # 0
                  THEN [h[i] EXCEPT !.stop = s] ELSE h[i]]
<1>1. Len(h) \in Nat
  OBVIOUS
<1>2. \A i \in 1..Len(h) : f[i] \in Message
  <2> TAKE i \in 1..Len(h)
  <2>1. h[i] \in Message
    OBVIOUS
  <2>2. [h[i] EXCEPT !.stop = s] \in Message
    BY <2>1, MessageTypes
  <2> QED
    BY <2>1, <2>2
<1>3. f \in [1..Len(h) -> Message]
  BY <1>2
<1>4. f \in Seq(Message)
  BY <1>1, <1>3
<1> QED
  BY <1>4 DEF Restop

(* What is saved is a history, whether or not the save succeeds.           *)
LEMMA SaveType ==
    ASSUME TypeOK, NEW h \in Seq(Message), Save(h)
    PROVE  saved' \in Seq(Message)
  BY DEF Save, TypeOK

(* What answers the pending batch is a message that names the batch.       *)
LEMMA AnswerIs ==
    ASSUME TypeOK, NEW t \in {"real", "interrupted", "failed"}
    PROVE  /\ Answer(t) \in Message /\ Answer(t).id = pendingReq /\ Answer(t).text = t
           /\ ~Answer(t).calls /\ Answer(t) # None
           /\ Answer(t).kind = (IF last.calls THEN "result" ELSE "user")
<1>1. pendingReq \in Nat
  BY DEF TypeOK
<1> DEFINE k == IF last.calls THEN "result" ELSE "user"
<1>2. k \in {"result", "user"}
  OBVIOUS
<1>3. Answer(t) = [ToolResult(pendingReq, t) EXCEPT !.kind = k]
  BY DEF Answer
<1> HIDE DEF k
<1>4. Answer(t) = [kind |-> k, id |-> pendingReq, calls |-> FALSE, stop |-> "none", text |-> t]
  BY <1>3 DEF ToolResult
<1>5. /\ Answer(t) \in Message /\ Answer(t).id = pendingReq /\ Answer(t).text = t
      /\ ~Answer(t).calls /\ Answer(t) # None /\ Answer(t).kind = k
  BY <1>1, <1>2, <1>4 DEF Message, Stops, None
<1> QED
  BY <1>5 DEF k

(* What the provider is sent is a sequence of messages.                    *)
LEMMA MergedType ==
    ASSUME NEW h \in Seq(Message)
    PROVE  Merged(h) \in Seq(Message)
<1>1. CASE Len(h) > 1
  <2>1. Len(h) \in Nat /\ Len(h) - 1 \in 1..Len(h)
    BY <1>1
  <2>2. SubSeq(h, 1, Len(h) - 1) \in Seq(Message)
    BY <2>1
  <2> QED
    BY <2>2 DEF Merged
<1>2. CASE ~(Len(h) > 1)
  BY <1>2 DEF Merged
<1> QED
  BY <1>1, <1>2

(* A request's fields have their types. *)
LEMMA RequestTypes ==
    ASSUME NEW r \in Request
    PROVE  r.history \in BOOLEAN /\ r.budget \in Nat /\ r.passthrough \in BOOLEAN
           /\ r.deferred \in BOOLEAN
  BY BudgetsAssumption, FlagsAssumption DEF Request

(* The initial state has the types. *)
LEMMA InitTypeOK == Init => TypeOK
<1> SUFFICES ASSUME Init PROVE TypeOK
  OBVIOUS
<1>1. history \in Seq(Message) /\ saved \in Seq(Message) /\ delta \in Seq(Message)
      /\ sent \in Seq(Message) /\ executions \in Seq(Nat)
  BY DEF Init
<1>2. last \in Message /\ pendingResp \in Message /\ staged \in Message
  BY MessageTypes DEF Init
<1>3. done \in BOOLEAN /\ finalizing \in BOOLEAN /\ refused \in BOOLEAN
  BY Zenon DEF Init
<1>4. iteration \in Nat /\ pendingReq \in Nat /\ calls \in Nat /\ turns \in Nat
      /\ restarts \in Nat /\ turnCalls \in Nat
  BY DEF Init
<1>5. completed \in SUBSET Nat /\ req \in Request
  BY DEF Init
<1>6. pc \in Awaits \cup {"idle", "next"} /\ outcome \in {"none", "running", "returned",
        "stopped", "cancelled", "error", "crashed"}
  BY DEF Init
<1> QED
  BY <1>1, <1>2, <1>3, <1>4, <1>5, <1>6, Zenon DEF TypeOK

-----------------------------------------------------------------------------
(* Every action preserves the types. *)
LEMMA NextTypeOK == TypeOK /\ [Next]_vars => TypeOK'
<1> SUFFICES ASSUME TypeOK, [Next]_vars
             PROVE  TypeOK'
  OBVIOUS
<1> USE MessageTypes
<1>1. ASSUME NEW r \in Request, StartTurn(r)
      PROVE  TypeOK'
  <2>1. history' \in Seq(Message)
    BY <1>1, ReconcileType DEF StartTurn, TypeOK
  <2>2. delta' \in Seq(Message) /\ saved' \in Seq(Message) /\ sent' \in Seq(Message)
        /\ executions' \in Seq(Nat)
    BY <1>1 DEF StartTurn, TypeOK
  <2>3. last' \in Message /\ pendingResp' \in Message /\ staged' \in Message
    BY <1>1 DEF StartTurn
  <2>4. done' \in BOOLEAN /\ finalizing' \in BOOLEAN /\ refused' \in BOOLEAN
    BY <1>1, Zenon DEF StartTurn
  <2>5. iteration' \in Nat /\ pendingReq' \in Nat /\ calls' \in Nat /\ turns' \in Nat
        /\ restarts' \in Nat /\ turnCalls' \in Nat
    BY <1>1 DEF StartTurn, TypeOK
  <2>6. completed' \in SUBSET Nat /\ req' \in Request
    BY <1>1 DEF StartTurn, TypeOK
  <2>7. pc' \in Awaits \cup {"idle", "next"} /\ outcome' \in {"none", "running", "returned",
          "stopped", "cancelled", "error", "crashed"}
    BY <1>1 DEF StartTurn
  <2> QED
    BY <2>1, <2>2, <2>3, <2>4, <2>5, <2>6, <2>7, Zenon DEF TypeOK
<1>2. CASE ConsumeStaged
  BY <1>2 DEF ConsumeStaged, TypeOK, counters, ghosts
<1>3. CASE BeginStep
  <2>1. pc' \in Awaits \cup {"idle", "next"}
    BY <1>3 DEF BeginStep, Awaits
  <2>2. UNCHANGED <<history, saved, req, runner, counters, outcome, ghosts>>
    BY <1>3 DEF BeginStep
  <2> QED
    BY <2>1, <2>2 DEF TypeOK, runner, counters, ghosts
<1>4. CASE FinishCancelled
  <2>1. history' \in Seq(Message) /\ saved' \in Seq(Message)
    BY <1>4, ResetTypes, SaveType DEF FinishCancelled
  <2> QED
    BY <1>4, <2>1 DEF FinishCancelled, EndTurn, TypeOK, runner, counters, ghosts
<1>5. CASE FinishLoop
  BY <1>5 DEF FinishLoop, TypeOK, runner, counters, ghosts, Awaits
<1>6. CASE AfterTurnHook
  <2>1. saved' \in Seq(Message)
    BY <1>6, SaveType DEF AfterTurnHook, TypeOK
  <2> QED
    BY <1>6, <2>1 DEF AfterTurnHook, EndTurn, TypeOK, runner, counters, ghosts
<1>7. CASE BeforeToolHook
  BY <1>7 DEF BeforeToolHook, TypeOK, runner, counters, ghosts, Awaits
<1>8. CASE RunTools
  <2>1. pendingResp' \in Message
    BY <1>8, AnswerIs DEF RunTools
  <2> QED
    BY <1>8, <2>1 DEF RunTools, TypeOK, counters, Awaits
<1>9. CASE ToolStepFails
  <2>1. pendingResp' \in Message
    BY <1>9, AnswerIs DEF ToolStepFails
  <2> QED
    BY <1>9, <2>1 DEF ToolStepFails, TypeOK, counters, Awaits
<1>10. CASE AfterTool
  <2>1. StagedDelta \in Seq(Message)
    BY DEF StagedDelta, TypeOK
  <2>2. \A s \in Stops : Restop(history, s) \in Seq(Message)
    BY RestopType DEF TypeOK
  <2>3. "ERROR" \in Stops /\ "MAX_ITERATIONS" \in Stops
    BY DEF Stops
  <2>4. /\ UNCHANGED <<saved, req, pendingResp, staged, finalizing, calls, turns,
                       restarts, outcome, sent, turnCalls, executions, completed,
                       refused>>
        /\ pendingReq' = 0
    BY <1>10 DEF AfterTool, counters, ghosts
  <2>5. CASE StopOnToolError
    BY <2>2, <2>3, <2>4, <2>5 DEF StopOnToolError, TypeOK
  <2>6. CASE StopOnToolBudget
    <3>1. history' \in Seq(Message)
      BY <2>1, <2>2, <2>3, <2>6 DEF StopOnToolBudget, TypeOK
    <3> QED
      BY <2>1, <2>3, <2>4, <2>6, <3>1 DEF StopOnToolBudget, TypeOK
  <2>7. CASE StagePassthrough
    BY <2>4, <2>7 DEF StagePassthrough, TypeOK, Awaits
  <2>8. CASE StageToolResponse
    BY <2>1, <2>4, <2>8 DEF StageToolResponse, TypeOK, Awaits
  <2> QED
    BY <1>10, <2>5, <2>6, <2>7, <2>8 DEF AfterTool
<1>11. CASE PassthroughHook
  BY <1>11 DEF PassthroughHook, TypeOK, counters, ghosts
<1>12. CASE BeforeLlmHook
  BY <1>12 DEF BeforeLlmHook, TypeOK, runner, counters, ghosts, Awaits
<1>13. ASSUME NEW reply \in Replies, CallLlm(reply)
       PROVE  TypeOK'
  <2>1. FullHistory \in Seq(Message)
    BY DEF FullHistory, TypeOK
  <2>2. last' \in Message
    <3>1. calls + 1 \in Nat
      BY DEF TypeOK
    <3>2. last' = Assistant(calls + 1, reply)
      BY <1>13 DEF CallLlm
    <3> QED
      BY <3>1, <3>2, MessageTypes
  <2>3. history' \in Seq(Message)
    BY <1>13, <2>1, <2>2 DEF CallLlm, TypeOK
  <2>4. refused' \in BOOLEAN
    BY <1>13 DEF CallLlm, TypeOK
  <2>5. sent' \in Seq(Message)
    BY <1>13, <2>1, MergedType DEF CallLlm
  <2>6. calls' \in Nat /\ turnCalls' \in Nat /\ pc' \in Awaits \cup {"idle", "next"}
    BY <1>13 DEF CallLlm, TypeOK, Awaits
  <2>7. UNCHANGED <<saved, req, delta, iteration, done, pendingReq, pendingResp,
                    staged, finalizing, turns, restarts, outcome, executions, completed>>
    BY <1>13 DEF CallLlm
  <2> QED
    BY <2>2, <2>3, <2>4, <2>5, <2>6, <2>7 DEF TypeOK
<1>14. CASE TakeMessage
  <2>1. Restop(history, "MAX_ITERATIONS") \in Seq(Message)
    BY RestopType DEF TypeOK, Stops
  <2>2. UNCHANGED <<saved, req, staged, calls, turns, restarts, outcome, sent,
                    turnCalls, executions, completed, refused>>
    BY <1>14 DEF TakeMessage, counters, ghosts
  <2>3. CASE TakeToolUse
    BY <2>2, <2>3 DEF TakeToolUse, TypeOK, Awaits, Message
  <2>4. CASE TakeContinue
    BY <2>2, <2>4 DEF TakeContinue, TypeOK, Awaits
  <2>5. CASE StopOnContinueBudget
    <3>1. last' \in Message
      BY <2>5 DEF StopOnContinueBudget, TypeOK, Stops
    <3> QED
      BY <2>1, <2>2, <2>5, <3>1 DEF StopOnContinueBudget, TypeOK
  <2>6. CASE StartFinalization
    BY <2>2, <2>6 DEF StartFinalization, TypeOK
  <2>7. CASE TakeFinal
    BY <2>2, <2>7 DEF TakeFinal, TypeOK
  <2> QED
    BY <1>14, <2>3, <2>4, <2>5, <2>6, <2>7 DEF TakeMessage
<1>15. CASE Checkpoint
  <2>1. saved' \in Seq(Message)
    BY <1>15, SaveType DEF Checkpoint, TypeOK
  <2> QED
    BY <1>15, <2>1 DEF Checkpoint, TypeOK, runner, counters, ghosts
<1>16. CASE Raise
  <2>1. saved' \in Seq(Message)
    BY <1>16, ResetTypes, SaveType DEF Raise
  <2> QED
    BY <1>16, <2>1 DEF Raise, EndTurn, TypeOK, runner, counters, ghosts
<1>17. CASE Cancel
  <2>1. history' \in Seq(Message) /\ saved' \in Seq(Message)
    BY <1>17, ResetTypes, SaveType DEF Cancel
  <2> QED
    BY <1>17, <2>1 DEF Cancel, EndTurn, TypeOK, runner, counters, ghosts
<1>18. CASE Restart
  <2>1. \A i \in 1..Len(saved) : saved[i].id \in Nat
    <3> TAKE i \in 1..Len(saved)
    <3>1. saved[i] \in Message
      BY DEF TypeOK
    <3> QED
      BY <3>1 DEF Message
  <2>2. completed' \in SUBSET Nat
    BY <1>18, <2>1 DEF Restart
  <2> QED
    BY <1>18, <2>2 DEF Restart, TypeOK, runner
<1>19. CASE UNCHANGED vars
  BY <1>19 DEF vars, TypeOK, runner, counters, ghosts
<1> QED
  BY <1>1, <1>2, <1>3, <1>4, <1>5, <1>6, <1>7, <1>8, <1>9, <1>10, <1>11, <1>12,
     <1>13, <1>14, <1>15, <1>16, <1>17, <1>18, <1>19 DEF Next, RunnerStep, Rest

(* In every reachable state each field of the agent and the runner is in    *)
(* its type.                                                                *)
THEOREM TypeCorrect == Spec => []TypeOK
  BY InitTypeOK, NextTypeOK, PTL DEF Spec

-----------------------------------------------------------------------------
(* The budget. Where the task is decides how its LLM calls relate to the    *)
(* rounds it has charged: a call answered but not yet charged for, or none. *)

Spare == IF finalizing THEN 1 ELSE 0

(* Every call but the latest was charged, or was paid by the finalization. *)
Uncharged == turnCalls = iteration + 1 + Spare /\ iteration <= req.budget
Charged   == turnCalls = iteration + Spare /\ iteration <= req.budget

(* The loop invariant: the budget's account, and what the runner's fields   *)
(* say, at each await.                                                      *)
LoopInv ==
    /\ turnCalls <= req.budget + 1 + Spare
    /\ pc \in {"beforeLlm", "llm"} => Charged /\ pendingReq = 0 /\ ~done
    /\ pc = "presented" => /\ Uncharged /\ pendingReq = 0 /\ ~done
                           /\ last.stop \in {"TOOL_USE", "CONTINUE", "END_TURN", "CANCELLED"}
                           /\ last.id # 0
    /\ pc \in {"beforeTool", "runTools", "afterTool"} =>
            Uncharged /\ pendingReq # 0 /\ ~done
    /\ pc \in {"checkpoint", "next"} /\ ~done =>
            IF pendingReq # 0 THEN Uncharged ELSE Charged
    /\ pc \in {"checkpoint", "beforeTool", "runTools", "afterTool", "passHook",
               "beforeLlm", "llm", "presented"} => ~done /\ staged = None
    /\ staged # None => staged.stop = "END_TURN"
    /\ pc = "next" /\ done /\ staged = None =>
            last.stop \notin {"TOOL_USE", "CONTINUE", "none"}
    /\ pc = "afterTurn" => last.stop \notin {"TOOL_USE", "CONTINUE", "none"}

(* The loop's invariant holds before the first turn. *)
LEMMA InitLoopInv == Init => LoopInv
<1> SUFFICES ASSUME Init PROVE LoopInv
  OBVIOUS
<1>1. req.budget \in Nat
  BY RequestTypes DEF Init
<1>2. staged = None /\ pc = "idle" /\ turnCalls = 0 /\ finalizing = FALSE
  BY DEF Init
<1> QED
  BY <1>1, <1>2 DEF LoopInv, Spare

(* Every action of the loop, of users and of the environment preserves it. *)
LEMMA NextLoopInv == TypeOK /\ LoopInv /\ [Next]_vars => LoopInv'
<1> SUFFICES ASSUME TypeOK, LoopInv, [Next]_vars
             PROVE  LoopInv'
  OBVIOUS
<1>a. /\ req.budget \in Nat /\ iteration \in Nat /\ turnCalls \in Nat
      /\ finalizing \in BOOLEAN /\ Spare \in Nat
  BY RequestTypes DEF TypeOK, Spare
<1> USE <1>a DEF LoopInv, Uncharged, Charged, Spare
<1>1. ASSUME NEW r \in Request, StartTurn(r)
      PROVE  LoopInv'
  BY <1>1, RequestTypes DEF StartTurn
<1>2. CASE ConsumeStaged
  BY <1>2 DEF ConsumeStaged, counters, ghosts
<1>3. CASE BeginStep
  BY <1>3 DEF BeginStep, runner, counters, ghosts
<1>4. CASE FinishCancelled
  BY <1>4 DEF FinishCancelled, EndTurn, runner, counters, ghosts
<1>5. CASE FinishLoop
  BY <1>5 DEF FinishLoop, runner, counters, ghosts
<1>6. CASE AfterTurnHook
  BY <1>6 DEF AfterTurnHook, EndTurn, runner, counters, ghosts
<1>7. CASE BeforeToolHook
  BY <1>7 DEF BeforeToolHook, runner, counters, ghosts
<1>8. CASE RunTools
  BY <1>8 DEF RunTools, counters
<1>9. CASE ToolStepFails
  BY <1>9 DEF ToolStepFails, counters
<1>10. CASE AfterTool
  <2>1. \A s \in Stops : [last EXCEPT !.stop = s].stop = s
    BY DEF TypeOK, Message
  <2>2. "ERROR" \in Stops /\ "MAX_ITERATIONS" \in Stops
    BY DEF Stops
  <2>3. pc = "afterTool" /\ pendingReq' = 0
        /\ UNCHANGED <<req, staged, finalizing, turnCalls>>
    BY <1>10 DEF AfterTool, ghosts
  <2>4. CASE StopOnToolError
    BY <2>1, <2>2, <2>3, <2>4 DEF StopOnToolError
  <2>5. CASE StopOnToolBudget
    BY <2>1, <2>2, <2>3, <2>5 DEF StopOnToolBudget
  <2>6. CASE StagePassthrough
    BY <2>3, <2>6 DEF StagePassthrough
  <2>7. CASE StageToolResponse
    BY <2>3, <2>7 DEF StageToolResponse
  <2> QED
    BY <1>10, <2>4, <2>5, <2>6, <2>7 DEF AfterTool
<1>11. CASE PassthroughHook
  BY <1>11 DEF PassthroughHook, counters, ghosts, Synthesized, None
<1>12. CASE BeforeLlmHook
  BY <1>12 DEF BeforeLlmHook, runner, counters, ghosts
<1>13. ASSUME NEW reply \in Replies, CallLlm(reply)
       PROVE  LoopInv'
  <2>1. /\ last'.stop \in {"TOOL_USE", "CONTINUE", "END_TURN", "CANCELLED"}
        /\ last'.id # 0
    BY <1>13, RepliesAssumption DEF CallLlm, Assistant, TypeOK
  <2> QED
    BY <1>13, <2>1 DEF CallLlm
<1>14. CASE TakeMessage
  <2>1. [last EXCEPT !.stop = "MAX_ITERATIONS"].stop = "MAX_ITERATIONS"
    BY DEF TypeOK, Message
  <2>2. pc = "presented" /\ UNCHANGED <<req, staged, turnCalls>>
    BY <1>14 DEF TakeMessage, ghosts
  <2>3. last.stop \in {"TOOL_USE", "CONTINUE", "END_TURN", "CANCELLED"}
    BY <2>2
  <2>4. CASE TakeToolUse
    BY <2>2, <2>4 DEF TakeToolUse
  <2>5. CASE TakeContinue
    BY <2>2, <2>5 DEF TakeContinue
  <2>6. CASE StopOnContinueBudget
    BY <2>1, <2>2, <2>6 DEF StopOnContinueBudget
  <2>7. CASE StartFinalization
    BY <2>2, <2>7 DEF StartFinalization, MustFinalize
  <2>8. CASE TakeFinal
    BY <2>2, <2>3, <2>8 DEF TakeFinal
  <2> QED
    BY <1>14, <2>4, <2>5, <2>6, <2>7, <2>8 DEF TakeMessage
<1>15. CASE Checkpoint
  BY <1>15 DEF Checkpoint, runner, counters, ghosts
<1>16. CASE Raise
  BY <1>16 DEF Raise, EndTurn, runner, counters, ghosts
<1>17. CASE Cancel
  BY <1>17 DEF Cancel, EndTurn, runner, counters, ghosts
<1>18. CASE Restart
  BY <1>18 DEF Restart, runner
<1>19. CASE UNCHANGED vars
  BY <1>19 DEF vars, runner, counters, ghosts
<1> QED
  BY <1>1, <1>2, <1>3, <1>4, <1>5, <1>6, <1>7, <1>8, <1>9, <1>10, <1>11, <1>12,
     <1>13, <1>14, <1>15, <1>16, <1>17, <1>18, <1>19 DEF Next, RunnerStep, Rest

(* Hence it holds in every reachable state. *)
LEMMA LoopInvariant == Spec => [](TypeOK /\ LoopInv)
  BY InitTypeOK, InitLoopInv, NextTypeOK, NextLoopInv, PTL DEF Spec

(* No turn calls the model more often than its budget of follow-ups, its    *)
(* first call and the deferred structured answer allow.                     *)
THEOREM BudgetSafe == Spec => []BudgetRespected
<1>1. TypeOK /\ LoopInv => BudgetRespected
  BY RequestTypes DEF LoopInv, BudgetRespected, Spare, TypeOK
<1> QED
  BY <1>1, LoopInvariant, PTL

(* after_turn_complete receives a message that asks for nothing more.      *)
THEOREM FinalMessageSafe == Spec => []FinalMessage
<1>1. LoopInv => FinalMessage
  BY DEF LoopInv, FinalMessage
<1> QED
  BY <1>1, LoopInvariant, PTL

-----------------------------------------------------------------------------
(* No batch runs twice. A batch is named by the LLM call that asked for it, *)
(* so one that has not run yet is newer than every batch that has.          *)

ExecInv ==
    /\ NeverRerun
    /\ \A i \in 1..Len(executions) : executions[i] <= calls
    /\ pc = "presented" =>
          /\ last.id = calls
          /\ \A i \in 1..Len(executions) : executions[i] < calls
    /\ pc \in {"checkpoint", "next", "beforeTool", "runTools"} /\ ~done /\ pendingReq # 0 =>
          /\ pendingReq = calls
          /\ \A i \in 1..Len(executions) : executions[i] < calls

(* Nothing has run in the initial state. *)
LEMMA InitExecInv == Init => ExecInv
  BY DEF Init, ExecInv, NeverRerun

(* Handing a new batch to run_tools keeps the batches distinct.            *)
LEMMA AppendNew ==
    ASSUME NEW s \in Seq(Nat), NEW n \in Nat,
           \A i, j \in 1..Len(s) : s[i] = s[j] => i = j,
           \A i \in 1..Len(s) : s[i] < n
    PROVE  /\ \A i, j \in 1..Len(Append(s, n)) : Append(s, n)[i] = Append(s, n)[j] => i = j
           /\ \A i \in 1..Len(Append(s, n)) : Append(s, n)[i] <= n
<1>1. Len(Append(s, n)) = Len(s) + 1 /\ Len(s) \in Nat
  OBVIOUS
<1>2. \A i \in 1..Len(s) : Append(s, n)[i] = s[i] /\ s[i] \in Nat
  OBVIOUS
<1>3. Append(s, n)[Len(s) + 1] = n
  OBVIOUS
<1>4. \A i \in 1..Len(s) + 1 : i \in 1..Len(s) \/ i = Len(s) + 1
  BY <1>1
<1>5. \A i, j \in 1..Len(s) + 1 : Append(s, n)[i] = Append(s, n)[j] => i = j
  <2> SUFFICES ASSUME NEW i \in 1..Len(s) + 1, NEW j \in 1..Len(s) + 1,
                      Append(s, n)[i] = Append(s, n)[j]
               PROVE  i = j
    OBVIOUS
  <2>1. CASE i \in 1..Len(s) /\ j \in 1..Len(s)
    BY <1>2, <2>1
  <2>2. CASE i \in 1..Len(s) /\ j = Len(s) + 1
    BY <1>2, <1>3, <2>2
  <2>3. CASE j \in 1..Len(s) /\ i = Len(s) + 1
    BY <1>2, <1>3, <2>3
  <2> QED
    BY <1>4, <2>1, <2>2, <2>3
<1>6. \A i \in 1..Len(s) + 1 : Append(s, n)[i] <= n
  BY <1>2, <1>3, <1>4
<1> QED
  BY <1>1, <1>5, <1>6

(* Every action preserves it: only RunTools and a failing run_tools hand out *)
(* a batch, the one pendingReq names, and that one is still new.            *)
LEMMA NextExecInv == TypeOK /\ LoopInv /\ ExecInv /\ [Next]_vars => ExecInv'
<1> SUFFICES ASSUME TypeOK, LoopInv, ExecInv, [Next]_vars
             PROVE  ExecInv'
  OBVIOUS
<1>a. /\ executions \in Seq(Nat) /\ calls \in Nat /\ pendingReq \in Nat
      /\ \A i \in 1..Len(executions) : executions[i] \in Nat
  BY DEF TypeOK
<1> USE <1>a DEF ExecInv, NeverRerun
<1>1. ASSUME NEW r \in Request, StartTurn(r)
      PROVE  ExecInv'
  BY <1>1 DEF StartTurn
<1>2. CASE ConsumeStaged
  BY <1>2 DEF ConsumeStaged, counters, ghosts
<1>3. CASE BeginStep
  BY <1>3 DEF BeginStep, runner, counters, ghosts
<1>4. CASE FinishCancelled
  BY <1>4 DEF FinishCancelled, EndTurn, runner, counters, ghosts
<1>5. CASE FinishLoop
  BY <1>5 DEF FinishLoop, runner, counters, ghosts
<1>6. CASE AfterTurnHook
  BY <1>6 DEF AfterTurnHook, EndTurn, runner, counters, ghosts
<1>7. CASE BeforeToolHook
  BY <1>7 DEF BeforeToolHook, runner, counters, ghosts
<1>8. CASE RunTools
  <2>1. executions' = Append(executions, calls) /\ calls' = calls /\ pc' = "afterTool"
    BY <1>8 DEF RunTools, counters, LoopInv
  <2> QED
    BY <1>8, <2>1, AppendNew DEF RunTools, LoopInv
<1>9. CASE ToolStepFails
  <2>1. calls' = calls /\ pc' = "afterTool"
    BY <1>9 DEF ToolStepFails, counters
  <2>2. CASE pc = "runTools"
    <3>1. executions' = Append(executions, calls)
      BY <1>9, <2>2 DEF ToolStepFails, LoopInv
    <3> QED
      BY <2>1, <2>2, <3>1, AppendNew DEF LoopInv
  <2>3. CASE pc # "runTools"
    BY <1>9, <2>1, <2>3 DEF ToolStepFails
  <2> QED
    BY <2>2, <2>3
<1>10. CASE AfterTool
  <2>1. pendingReq' = 0 /\ UNCHANGED <<executions, calls>>
    BY <1>10 DEF AfterTool, counters, ghosts
  <2>2. pc' \in {"next", "passHook", "beforeLlm"}
    BY <1>10 DEF AfterTool, StopOnToolError, StopOnToolBudget, StagePassthrough,
                 StageToolResponse
  <2> QED
    BY <2>1, <2>2
<1>11. CASE PassthroughHook
  BY <1>11 DEF PassthroughHook, counters, ghosts
<1>12. CASE BeforeLlmHook
  BY <1>12 DEF BeforeLlmHook, runner, counters, ghosts
<1>13. ASSUME NEW reply \in Replies, CallLlm(reply)
       PROVE  ExecInv'
  <2>1. last'.id = calls'
    BY <1>13 DEF CallLlm, Assistant
  <2>2. calls' = calls + 1 /\ executions' = executions /\ pc' = "presented"
    BY <1>13 DEF CallLlm
  <2> QED
    BY <2>1, <2>2
<1>14. CASE TakeMessage
  <2>1. pc = "presented" /\ UNCHANGED <<executions, calls>>
    BY <1>14 DEF TakeMessage, counters, ghosts
  <2>2. CASE TakeToolUse
    BY <2>1, <2>2 DEF TakeToolUse
  <2>3. CASE ~TakeToolUse
    <3>1. pendingReq' = 0 /\ pc' \in {"checkpoint", "next"}
      BY <1>14, <2>1, <2>3 DEF TakeMessage, TakeContinue, StopOnContinueBudget,
                               StartFinalization, TakeFinal, LoopInv
    <3> QED
      BY <2>1, <3>1
  <2> QED
    BY <2>2, <2>3
<1>15. CASE Checkpoint
  BY <1>15 DEF Checkpoint, runner, counters, ghosts
<1>16. CASE Raise
  BY <1>16 DEF Raise, EndTurn, runner, counters, ghosts
<1>17. CASE Cancel
  BY <1>17 DEF Cancel, EndTurn, runner, counters, ghosts
<1>18. CASE Restart
  BY <1>18 DEF Restart
<1>19. CASE UNCHANGED vars
  BY <1>19 DEF vars, runner, counters, ghosts
<1> QED
  BY <1>1, <1>2, <1>3, <1>4, <1>5, <1>6, <1>7, <1>8, <1>9, <1>10, <1>11, <1>12,
     <1>13, <1>14, <1>15, <1>16, <1>17, <1>18, <1>19 DEF Next, RunnerStep, Rest

(* No batch of tool calls is run twice: not by its own turn, nor after a    *)
(* cancellation, an error or a restart left it in the history.              *)
THEOREM NeverRerunSafe == Spec => []NeverRerun
<1>1. Init => TypeOK /\ LoopInv /\ ExecInv
  BY InitTypeOK, InitLoopInv, InitExecInv
<1>2. TypeOK /\ LoopInv /\ ExecInv /\ [Next]_vars => (TypeOK /\ LoopInv /\ ExecInv)'
  BY NextTypeOK, NextLoopInv, NextExecInv
<1>3. ExecInv => NeverRerun
  BY DEF ExecInv
<1> QED
  BY <1>1, <1>2, <1>3, PTL DEF Spec

-----------------------------------------------------------------------------
(* The messages at hand, and the end of the history                        *)

(* The batch the runner has taken up and not answered yet.                 *)
Working ==
    /\ pc \in {"checkpoint", "next", "beforeTool", "runTools", "afterTool"}
    /\ ~done /\ pendingReq # 0

(* A history that ends with a message.                                     *)
EndsWith(h, m) == h # <<>> /\ h[Len(h)] = m

(* No message is newer than the latest answer of the model, and only the    *)
(* batches before the one at hand are completed.                           *)
Below(h, n) == \A i \in 1..Len(h) : h[i].id <= n
Numbered ==
    /\ Below(history, calls) /\ Below(saved, calls) /\ Below(delta, calls)
    /\ last.id <= calls /\ pendingResp.id <= calls
    /\ \A n \in completed : n <= calls
    /\ pc = "presented" \/ (Working /\ pc # "afterTool") => \A n \in completed : n < calls
    /\ pc = "presented" /\ ~req.history => \A i \in 1..Len(history) : history[i].id # calls

(* What the runner has in hand at each await.                              *)
Latest ==
    /\ pc = "presented" =>
          /\ last.kind = "assistant" /\ (last.calls => last.stop = "TOOL_USE")
          /\ req.history => EndsWith(history, last)
    /\ Working =>
          /\ last.id = pendingReq /\ last.kind = "assistant"
          /\ last.stop = "TOOL_USE"
          /\ req.history => EndsWith(history, last)
    /\ pc = "afterTool" =>
          /\ pendingResp.kind = (IF last.calls THEN "result" ELSE "user")
          /\ pendingResp.id = pendingReq
          /\ ~pendingResp.calls /\ pendingResp # None
    /\ pendingResp.text # "interrupted" /\ staged \in {None, Synthesized}
    /\ staged # None => done

(* While a turn that keeps a history runs, the history ends in a call that  *)
(* is being answered, or whose answer is about to be sent.                 *)
Pending ==
    pc # "idle" /\ req.history /\ PendingAtEnd(history) =>
        \/ pc = "presented"
        \/ Working
        \/ /\ pc \in {"beforeLlm", "llm"} /\ pendingReq = 0
           /\ pendingResp # None /\ pendingResp.kind = "result" /\ ~pendingResp.calls
           /\ pendingResp.id = history[Len(history)].id

Noted == Numbered /\ Latest /\ Pending

(* One message more. *)
LEMMA AppendIs ==
    ASSUME NEW h \in Seq(Message), NEW m \in Message
    PROVE  /\ Append(h, m) \in Seq(Message) /\ Len(Append(h, m)) = Len(h) + 1
           /\ \A i \in 1..Len(h) : Append(h, m)[i] = h[i]
           /\ Append(h, m)[Len(h) + 1] = m
           /\ EndsWith(Append(h, m), m)
  BY DEF EndsWith

(* Two histories in a row.                                                 *)
LEMMA ConcatIs ==
    ASSUME NEW h \in Seq(Message), NEW g \in Seq(Message)
    PROVE  /\ h \o g \in Seq(Message) /\ Len(h \o g) = Len(h) + Len(g)
           /\ \A i \in 1..Len(h) : (h \o g)[i] = h[i]
           /\ \A i \in 1..Len(g) : (h \o g)[Len(h) + i] = g[i]
  OBVIOUS

(* Numbers are bounded in what is put together from what is bounded.       *)
LEMMA BelowConcat ==
    ASSUME NEW h \in Seq(Message), NEW g \in Seq(Message), NEW n \in Nat, Below(h, n), Below(g, n)
    PROVE  Below(h \o g, n)
<1> SUFFICES ASSUME NEW i \in 1..Len(h \o g) PROVE (h \o g)[i].id <= n
  BY DEF Below
<1>1. CASE i \in 1..Len(h)
  BY <1>1, ConcatIs DEF Below
<1>2. CASE i \notin 1..Len(h)
  <2>1. i - Len(h) \in 1..Len(g) /\ Len(h) + (i - Len(h)) = i
    BY <1>2, ConcatIs
  <2>2. (h \o g)[i] = g[i - Len(h)]
    BY <2>1, ConcatIs
  <2> QED
    BY <2>1, <2>2 DEF Below
<1> QED
  BY <1>1, <1>2

(* The same with one message more.                                         *)
LEMMA BelowAppend ==
    ASSUME NEW h \in Seq(Message), NEW m \in Message, NEW n \in Nat, Below(h, n), m.id <= n
    PROVE  Below(Append(h, m), n)
<1> SUFFICES ASSUME NEW i \in 1..Len(h) + 1 PROVE Append(h, m)[i].id <= n
  BY AppendIs DEF Below
<1>1. i \in 1..Len(h) \/ i = Len(h) + 1
  OBVIOUS
<1> QED
  BY <1>1, AppendIs DEF Below

(* A new call of the model has a number no message has.                    *)
LEMMA BelowMore ==
    ASSUME NEW h \in Seq(Message), NEW n \in Nat, Below(h, n)
    PROVE  Below(h, n + 1) /\ \A i \in 1..Len(h) : h[i].id # n + 1
<1> SUFFICES ASSUME NEW i \in 1..Len(h) PROVE h[i].id <= n + 1 /\ h[i].id # n + 1
  BY DEF Below
<1>1. h[i] \in Message
  OBVIOUS
<1>2. h[i].id \in Nat /\ h[i].id <= n
  BY <1>1 DEF Below, Message
<1> QED
  BY <1>2

(* Stop reasons apart, a history stays what it was.                        *)
LEMMA RestopIs ==
    ASSUME NEW h \in Seq(Message), NEW s \in Stops
    PROVE  /\ Restop(h, s) \in Seq(Message) /\ Len(Restop(h, s)) = Len(h)
           /\ \A i \in 1..Len(h) :
                 /\ Restop(h, s)[i].kind = h[i].kind /\ Restop(h, s)[i].id = h[i].id
                 /\ Restop(h, s)[i].calls = h[i].calls /\ Restop(h, s)[i].text = h[i].text
                 /\ Restop(h, s)[i].stop \in {h[i].stop, s}
                 /\ h[i].kind # "assistant" \/ h[i].id # last.id => Restop(h, s)[i] = h[i]
                 /\ h[i].kind = "assistant" /\ h[i].id = last.id /\ last.id # 0
                       => Restop(h, s)[i] = [h[i] EXCEPT !.stop = s]
<1>1. Restop(h, s) \in Seq(Message)
  BY RestopType
<1>2. Len(Restop(h, s)) = Len(h)
  BY DEF Restop
<1>3. ASSUME NEW i \in 1..Len(h)
      PROVE  /\ Restop(h, s)[i] = h[i] \/ Restop(h, s)[i] = [h[i] EXCEPT !.stop = s]
             /\ h[i].kind # "assistant" \/ h[i].id # last.id => Restop(h, s)[i] = h[i]
             /\ h[i].kind = "assistant" /\ h[i].id = last.id /\ last.id # 0
                   => Restop(h, s)[i] = [h[i] EXCEPT !.stop = s]
  BY DEF Restop
<1>4. \A m \in Message : /\ [m EXCEPT !.stop = s].kind = m.kind /\ [m EXCEPT !.stop = s].id = m.id
                         /\ [m EXCEPT !.stop = s].calls = m.calls
                         /\ [m EXCEPT !.stop = s].text = m.text /\ [m EXCEPT !.stop = s].stop = s
  BY DEF Message
<1>5. ASSUME NEW i \in 1..Len(h)
      PROVE  /\ Restop(h, s)[i].kind = h[i].kind /\ Restop(h, s)[i].id = h[i].id
             /\ Restop(h, s)[i].calls = h[i].calls /\ Restop(h, s)[i].text = h[i].text
             /\ Restop(h, s)[i].stop \in {h[i].stop, s}
  <2>1. h[i] \in Message
    OBVIOUS
  <2> QED
    BY <1>3, <1>4, <2>1
<1> QED
  BY <1>1, <1>2, <1>3, <1>5

(* The same message by message.                                            *)
LEMMA RestopAt ==
    ASSUME NEW h \in Seq(Message), NEW s \in Stops, NEW i \in 1..Len(h)
    PROVE  /\ Restop(h, s)[i].kind = h[i].kind /\ Restop(h, s)[i].id = h[i].id
           /\ Restop(h, s)[i].calls = h[i].calls
           /\ h[i].id # last.id => Restop(h, s)[i] = h[i]
<1> QED
  BY RestopIs

(* Stop reasons apart, the numbers are the same.                           *)
LEMMA BelowRestop ==
    ASSUME NEW h \in Seq(Message), NEW s \in Stops, NEW n, Below(h, n)
    PROVE  Below(Restop(h, s), n)
<1>1. Len(Restop(h, s)) = Len(h)
  BY RestopIs
<1>2. ASSUME NEW i \in 1..Len(h)
      PROVE  Restop(h, s)[i].id <= n
  <2>1. Restop(h, s)[i].id = h[i].id
    BY RestopAt
  <2> QED
    BY <2>1 DEF Below
<1> QED
  BY <1>1, <1>2 DEF Below

(* What a turn that did not return leaves.                                 *)
Resumes ==
    /\ req.history /\ PendingAtEnd(history)
    /\ pendingResp # None /\ pendingReq = 0

(* A cancelled turn keeps the completed result it holds, or heals an open  *)
(* call, or leaves the history alone (_reset_history_after_cancelled_turn).*)
LEMMA ResetIs ==
    ASSUME TypeOK
    PROVE  /\ IF Resumes THEN Resumable = Append(history, pendingResp) ELSE Resumable = history
           /\ ResetHistory =
                IF Resumes THEN Append(history, pendingResp)
                ELSE IF req.history /\ PendingAtEnd(history)
                     THEN Append(history, ToolResult(history[Len(history)].id, "interrupted"))
                     ELSE history
<1>1. IF Resumes THEN Resumable = Append(history, pendingResp) ELSE Resumable = history
  BY DEF Resumable, Resumes
<1>2. Len(Append(history, pendingResp)) > Len(history) /\ ~(Len(history) > Len(history))
  BY DEF TypeOK
<1> QED
  BY <1>1, <1>2 DEF ResetHistory, Reconcile

(* The marker that heals a history is a message.                           *)
LEMMA HealIs ==
    ASSUME NEW h \in Seq(Message), PendingAtEnd(h)
    PROVE  /\ ToolResult(h[Len(h)].id, "interrupted") \in Message
           /\ h[Len(h)] \in Message /\ Len(h) \in 1..Len(h)
<1>1. Len(h) \in 1..Len(h) /\ h[Len(h)] \in Message
  BY DEF PendingAtEnd
<1>2. h[Len(h)].id \in Nat
  BY <1>1 DEF Message
<1> QED
  BY <1>1, <1>2, MessageTypes

(* A save writes the history it is given or fails.                         *)
LEMMA SaveIs ==
    ASSUME NEW h, Save(h)
    PROVE  saved' \in {saved, h}
  BY DEF Save

(* At first there is no message.                                           *)
LEMMA InitNoted == Init => Noted
<1> SUFFICES ASSUME Init PROVE Noted
  OBVIOUS
<1>1. Numbered
  BY DEF Init, Numbered, Below, None, Working
<1>2. Latest
  BY DEF Init, Latest, None, Working
<1>3. Pending
  BY DEF Init, Pending
<1> QED
  BY <1>1, <1>2, <1>3 DEF Noted

(* The messages at hand have numbers. *)
LEMMA IdTypes ==
    ASSUME TypeOK
    PROVE  /\ calls \in Nat /\ last.id \in Nat /\ pendingResp.id \in Nat /\ pendingReq \in Nat
           /\ None.id = 0 /\ UserPrompt.id = 0 /\ Synthesized.id = 0
           /\ \A n, t : ToolResult(n, t).id = n
           /\ \A s : [last EXCEPT !.stop = s].id = last.id
<1>1. last \in Message /\ pendingResp \in Message
  BY DEF TypeOK
<1>2. None.id = 0 /\ UserPrompt.id = 0 /\ Synthesized.id = 0
  BY DEF None, UserPrompt, Synthesized
<1> QED
  BY <1>1, <1>2 DEF TypeOK, Message, ToolResult

(* Healing or answering a history with what is at hand leaves it numbered. *)
LEMMA ResetBelow ==
    ASSUME TypeOK, Numbered
    PROVE  Below(Resumable, calls) /\ Below(ResetHistory, calls)
<1> USE IdTypes DEF TypeOK, Numbered
<1>1. Below(Append(history, pendingResp), calls)
  BY BelowAppend
<1>2. ASSUME PendingAtEnd(history)
      PROVE  Below(Append(history, ToolResult(history[Len(history)].id, "interrupted")), calls)
  <2>1. history[Len(history)].id <= calls
    BY <1>2, HealIs DEF Below
  <2> QED
    BY <1>2, <2>1, HealIs, BelowAppend
<1> QED
  BY <1>1, <1>2, ResetIs

(* Every step keeps the numbers in order.                                  *)
LEMMA StepNumbered ==
    ASSUME TypeOK, LoopInv, ExecInv, Noted, [Next]_vars
    PROVE  Numbered'
<1> USE IdTypes, MessageTypes DEF Noted
<1>0. /\ Below(history, calls) /\ Below(saved, calls) /\ Below(delta, calls)
      /\ last.id <= calls /\ pendingResp.id <= calls
      /\ \A n \in completed : n <= calls
  BY DEF Numbered
<1>a. /\ history \in Seq(Message) /\ saved \in Seq(Message) /\ delta \in Seq(Message)
      /\ last \in Message /\ pendingResp \in Message
  BY DEF TypeOK
<1>b. Below(<<>>, calls) /\ \A m \in Message : m.id <= calls => Below(<<m>>, calls)
  BY DEF Below
<1>1. ASSUME NEW r \in Request, StartTurn(r)
      PROVE  Numbered'
  <2>1. Below(history', calls)
    <3>1. CASE r.history /\ PendingAtEnd(history)
      <4>1. history[Len(history)].id <= calls
        BY <1>0, <1>a, <3>1, HealIs DEF Below
      <4>2. history' = Append(history, ToolResult(history[Len(history)].id, "interrupted"))
        BY <1>1, <3>1 DEF StartTurn, Reconcile
      <4> QED
        BY <1>0, <1>a, <3>1, <4>1, <4>2, HealIs, BelowAppend
    <3>2. CASE ~(r.history /\ PendingAtEnd(history))
      BY <1>0, <1>1, <3>2 DEF StartTurn, Reconcile
    <3> QED
      BY <3>1, <3>2
  <2>2. Below(delta', calls)
    BY <1>1, <1>b DEF StartTurn
  <2> QED
    BY <1>0, <1>1, <2>1, <2>2 DEF StartTurn, Numbered, Below, Working
<1>2. ASSUME UNCHANGED <<history, saved, delta, pendingResp, calls, completed, req>>,
             last'.id <= calls, pc' # "presented",
             Working' /\ pc' # "afterTool" => Working /\ pc # "afterTool"
      PROVE  Numbered'
  BY <1>2 DEF Numbered, Below
<1>3. ASSUME NEW h \in {history, Resumable, ResetHistory}, Save(h), history' \in {history, h},
             UNCHANGED <<delta, pendingResp, calls, completed, req, last>>,
             pc' # "presented", Working' /\ pc' # "afterTool" => Working /\ pc # "afterTool"
      PROVE  Numbered'
  <2>1. saved' \in {saved, h} /\ Below(h, calls)
    BY <1>0, <1>3, SaveIs, ResetBelow
  <2> QED
    BY <1>0, <1>3, <2>1 DEF Numbered, Below
<1>4. CASE ConsumeStaged
  <2>1. last'.id = 0
    <3>1. last' = Synthesized
      BY <1>4 DEF ConsumeStaged, Latest
    <3> QED
      BY <3>1
  <2> QED
    BY <1>2, <1>4, <2>1 DEF ConsumeStaged, ghosts, counters, Working
<1>5. CASE BeginStep
  BY <1>0, <1>2, <1>5 DEF BeginStep, ghosts, counters, runner, Working
<1>6. CASE FinishCancelled
  BY <1>3, <1>6 DEF FinishCancelled, EndTurn, ghosts, counters, runner, Working
<1>7. CASE FinishLoop \/ BeforeLlmHook \/ BeforeToolHook
  BY <1>0, <1>2, <1>7 DEF FinishLoop, BeforeLlmHook, BeforeToolHook, ghosts, counters, runner,
     Working
<1>8. CASE AfterTurnHook
  BY <1>3, <1>8 DEF AfterTurnHook, EndTurn, ghosts, counters, runner, Working
<1>9. CASE RunTools \/ ToolStepFails
  <2>1. /\ pendingReq = calls /\ pc' = "afterTool"
        /\ UNCHANGED <<history, saved, delta, last, calls, req>>
        /\ completed' \subseteq completed \cup {pendingReq}
        /\ \E t \in {"real", "failed"} : pendingResp' = Answer(t)
    BY <1>9 DEF RunTools, ToolStepFails, LoopInv, ExecInv, counters
  <2>2. pendingResp'.id = calls
    BY <2>1, AnswerIs
  <2> QED
    BY <1>0, <2>1, <2>2 DEF Numbered, Below, Working
<1>10. CASE AfterTool
  <2>1. /\ UNCHANGED <<saved, pendingResp, calls, completed, req>>
        /\ pendingReq' = 0 /\ pc' # "presented"
    BY <1>10 DEF AfterTool, StopOnToolError, StopOnToolBudget, StagePassthrough,
       StageToolResponse, counters, ghosts
  <2>2. Below(StagedDelta, calls) /\ StagedDelta \in Seq(Message)
    <3>1. CASE req.history
      BY <1>0, <1>a, <1>b, <3>1 DEF StagedDelta
    <3>2. CASE ~req.history
      <4>1. Below(<<last, pendingResp>>, calls) /\ <<last, pendingResp>> \in Seq(Message)
        BY <1>0, <1>a DEF Below
      <4> QED
        BY <1>0, <1>a, <3>2, <4>1, BelowConcat, ConcatIs DEF StagedDelta
    <3> QED
      BY <3>1, <3>2
  <2>3. \A s \in Stops : Below(Restop(history, s), calls) /\ Restop(history, s) \in Seq(Message)
    BY <1>0, <1>a, RestopIs, BelowRestop
  <2>4. "ERROR" \in Stops /\ "MAX_ITERATIONS" \in Stops
    BY DEF Stops
  <2>5. Below(<<pendingResp, Synthesized>>, calls) /\ <<pendingResp, Synthesized>> \in Seq(Message)
    BY <1>0, <1>a DEF Below
  <2>6. Below(history', calls)
    <3>1. CASE StopOnToolError
      BY <2>3, <2>4, <3>1 DEF StopOnToolError
    <3>2. CASE StopOnToolBudget
      BY <1>0, <1>a, <2>2, <2>3, <2>4, <3>2, BelowConcat DEF StopOnToolBudget
    <3>3. CASE StagePassthrough
      BY <1>0, <1>a, <2>5, <3>3, BelowConcat DEF StagePassthrough
    <3>4. CASE StageToolResponse
      BY <1>0, <3>4 DEF StageToolResponse
    <3> QED
      BY <1>10, <3>1, <3>2, <3>3, <3>4 DEF AfterTool
  <2>7. Below(delta', calls)
    BY <1>0, <1>10, <2>2 DEF AfterTool, StopOnToolError, StopOnToolBudget, StagePassthrough,
       StageToolResponse
  <2>8. last'.id <= calls
    BY <1>0, <1>10 DEF AfterTool, StopOnToolError, StopOnToolBudget, StagePassthrough,
       StageToolResponse
  <2> QED
    BY <1>0, <2>1, <2>6, <2>7, <2>8 DEF Numbered, Below, Working
<1>11. CASE PassthroughHook
  BY <1>0, <1>2, <1>11 DEF PassthroughHook, ghosts, counters, Working
<1>12. ASSUME NEW reply \in Replies, CallLlm(reply)
       PROVE  Numbered'
  <2>1. /\ UNCHANGED <<saved, req, delta, pendingReq, pendingResp, completed>>
        /\ calls' = calls + 1 /\ last' = Assistant(calls + 1, reply) /\ pc' = "presented"
        /\ history' = IF req.history THEN Append(FullHistory, last') ELSE history
    BY <1>12 DEF CallLlm
  <2>2. last'.id = calls + 1 /\ last' \in Message /\ calls + 1 \in Nat
    BY <2>1 DEF Assistant
  <2>3. FullHistory \in Seq(Message) /\ Below(FullHistory, calls)
    BY <1>0, <1>a, ConcatIs, BelowConcat DEF FullHistory
  <2>4. Below(history', calls + 1)
    <3>1. Below(Append(FullHistory, last'), calls + 1)
      BY <2>2, <2>3, BelowMore, BelowAppend
    <3> QED
      BY <1>0, <1>a, <2>1, <3>1, BelowMore
  <2>5. Below(saved, calls + 1) /\ Below(delta, calls + 1)
    BY <1>0, <1>a, BelowMore
  <2>6. ~req.history => \A i \in 1..Len(history) : history[i].id # calls + 1
    BY <1>0, <1>a, BelowMore
  <2>7. \A n \in completed : n <= calls + 1 /\ n < calls + 1
    BY <1>0 DEF TypeOK
  <2> QED
    BY <1>0, <2>1, <2>2, <2>4, <2>5, <2>6, <2>7 DEF Numbered, Below
<1>13. CASE TakeMessage
  <2>1. /\ UNCHANGED <<saved, req, calls, completed>> /\ pc = "presented" /\ pc' # "presented"
        /\ \A n \in completed : n < calls
    BY <1>13 DEF TakeMessage, TakeToolUse, TakeContinue, StopOnContinueBudget,
       StartFinalization, TakeFinal, counters, ghosts, Numbered
  <2>2. Below(history', calls) /\ last'.id <= calls /\ pendingResp'.id <= calls
    <3>1. CASE StopOnContinueBudget
      <4>1. "MAX_ITERATIONS" \in Stops
        BY DEF Stops
      <4> QED
        BY <1>0, <1>a, <3>1, <4>1, BelowRestop DEF StopOnContinueBudget
    <3>2. CASE ~StopOnContinueBudget
      BY <1>0, <1>13, <3>2 DEF TakeMessage, TakeToolUse, TakeContinue, StartFinalization, TakeFinal
    <3> QED
      BY <3>1, <3>2
  <2>3. Below(delta', calls)
    <3>1. Below(Append(delta, last), calls)
      BY <1>0, <1>a, BelowAppend
    <3>2. Below(delta \o <<last, UserPrompt>>, calls) /\ Below(<<UserPrompt>>, calls)
      <4>1. Below(<<last, UserPrompt>>, calls) /\ <<last, UserPrompt>> \in Seq(Message)
        BY <1>0, <1>a DEF Below
      <4>2. UserPrompt \in Message /\ UserPrompt.id <= calls
        OBVIOUS
      <4> QED
        BY <1>0, <1>a, <1>b, <4>1, <4>2, BelowConcat
    <3> QED
      BY <1>0, <1>b, <1>13, <3>1, <3>2 DEF TakeMessage, TakeToolUse, TakeContinue,
         StopOnContinueBudget, StartFinalization, TakeFinal
  <2> QED
    BY <1>0, <2>1, <2>2, <2>3 DEF Numbered, Below
<1>14. CASE Checkpoint
  <2>1. CASE req.history
    BY <1>3, <1>14, <2>1 DEF Checkpoint, runner, ghosts, counters, Working
  <2>2. CASE ~req.history
    BY <1>0, <1>2, <1>14, <2>2 DEF Checkpoint, runner, ghosts, counters, Working
  <2> QED
    BY <2>1, <2>2
<1>15. CASE Raise \/ Cancel
  BY <1>3, <1>15 DEF Raise, Cancel, EndTurn, runner, ghosts, counters, Working
<1>16. CASE Restart
  <2>1. /\ history' = saved /\ pc' = "idle"
        /\ UNCHANGED <<saved, delta, last, pendingResp, calls, req>>
        /\ completed' = {saved[i].id : i \in {j \in 1..Len(saved) : saved[j].text = "real"}}
    BY <1>16 DEF Restart, runner
  <2>2. \A n \in completed' : n <= calls
    BY <1>0, <2>1 DEF Below
  <2> QED
    BY <1>0, <2>1, <2>2 DEF Numbered, Below, Working
<1>17. CASE UNCHANGED vars
  BY <1>17 DEF vars, runner, ghosts, counters, Numbered, Below, Working
<1> QED
  BY <1>1, <1>4, <1>5, <1>6, <1>7, <1>8, <1>9, <1>10, <1>11, <1>12, <1>13, <1>14, <1>15, <1>16,
     <1>17 DEF Next, RunnerStep, Rest

(* Every step leaves at each await what its handler will find there.       *)
LEMMA StepLatest ==
    ASSUME TypeOK, LoopInv, ExecInv, Noted, [Next]_vars
    PROVE  Latest'
<1> USE DEF Noted
<1>1. ASSUME UNCHANGED <<history, req, pendingReq, pendingResp, last, staged, done>>,
             pc' # "presented", Working' => Working, pc' = "afterTool" => pc = "afterTool"
      PROVE  Latest'
  BY <1>1 DEF Latest, EndsWith
<1>2. ASSUME UNCHANGED <<pendingResp, staged>>, done => done',
             pc' \notin {"presented", "afterTool"}, ~Working'
      PROVE  Latest'
  BY <1>2 DEF Latest
<1>3. ASSUME NEW r \in Request, StartTurn(r)
      PROVE  Latest'
  BY <1>3 DEF StartTurn, Latest, Working, None
<1>4. CASE ConsumeStaged \/ PassthroughHook
  BY <1>4 DEF ConsumeStaged, PassthroughHook, Latest, Working
<1>5. CASE BeginStep \/ FinishLoop \/ BeforeToolHook \/ BeforeLlmHook \/ Checkpoint
  BY <1>1, <1>5 DEF BeginStep, FinishLoop, BeforeToolHook, BeforeLlmHook, Checkpoint, runner,
     Working,
     Latest
<1>6. CASE FinishCancelled \/ AfterTurnHook \/ Raise \/ Cancel \/ Restart
  BY <1>2, <1>6 DEF FinishCancelled, AfterTurnHook, Raise, Cancel, Restart, EndTurn, runner, Working
<1>7. CASE RunTools \/ ToolStepFails
  <2>1. /\ UNCHANGED <<history, req, pendingReq, last, staged, done>> /\ pc' = "afterTool"
        /\ pc \in {"beforeTool", "runTools"}
        /\ \E t \in {"real", "failed"} : pendingResp' = Answer(t)
    BY <1>7 DEF RunTools, ToolStepFails
  <2>2. Working
    BY <2>1 DEF Working, LoopInv
  <2>3. /\ pendingResp'.kind = (IF last.calls THEN "result" ELSE "user")
        /\ pendingResp'.id = pendingReq /\ pendingResp'.text # "interrupted"
        /\ ~pendingResp'.calls /\ pendingResp' # None
    BY <2>1, AnswerIs
  <2> QED
    BY <2>1, <2>2, <2>3 DEF Latest, EndsWith, Working
<1>8. CASE AfterTool
  BY <1>2, <1>8 DEF AfterTool, StopOnToolError, StopOnToolBudget, StagePassthrough,
     StageToolResponse, Working
<1>9. ASSUME NEW reply \in Replies, CallLlm(reply)
      PROVE  Latest'
  <2>1. /\ UNCHANGED <<req, pendingReq, pendingResp, staged, done>>
        /\ last' = Assistant(calls + 1, reply) /\ pc' = "presented"
        /\ req.history => history' = Append(FullHistory, last')
    BY <1>9 DEF CallLlm
  <2>2. last'.kind = "assistant" /\ (last'.calls => last'.stop = "TOOL_USE") /\ last' \in Message
    <3>1. calls + 1 \in Nat /\ last' \in Message
      BY <2>1, IdTypes, MessageTypes
    <3> QED
      BY <2>1, <3>1 DEF Assistant
  <2>3. req.history => EndsWith(history', last')
    <3>1. FullHistory \in Seq(Message)
      BY ConcatIs DEF FullHistory, TypeOK
    <3> QED
      BY <2>1, <2>2, <3>1, AppendIs
  <2> QED
    BY <2>1, <2>2, <2>3 DEF Latest, Working
<1>10. CASE TakeMessage
  <2>1. /\ pc = "presented" /\ pc' \in {"checkpoint", "next"} /\ pendingReq = 0
        /\ UNCHANGED <<req, staged>> /\ last.id # 0
    BY <1>10 DEF TakeMessage, TakeToolUse, TakeContinue, StopOnContinueBudget, StartFinalization,
       TakeFinal, LoopInv
  <2>2. CASE TakeToolUse
    BY <2>1, <2>2 DEF TakeToolUse, Latest, EndsWith, None
  <2>3. CASE ~TakeToolUse
    <3>1. UNCHANGED <<pendingReq, pendingResp>> /\ (done => done')
      BY <1>10, <2>3
      DEF TakeMessage, TakeContinue, StopOnContinueBudget, StartFinalization, TakeFinal
    <3> QED
      BY <1>2, <2>1, <3>1 DEF Working
  <2> QED
    BY <2>2, <2>3
<1>11. CASE UNCHANGED vars
  BY <1>11 DEF vars, runner, Latest, Working, EndsWith
<1> QED
  BY <1>3, <1>4, <1>5, <1>6, <1>7, <1>8, <1>9, <1>10, <1>11 DEF Next, RunnerStep, Rest

(* A history that ends in an answer or a result waits for nothing.         *)
LEMMA NotPending ==
    ASSUME NEW h, NEW m, EndsWith(h, m), ~m.calls \/ m.kind # "assistant" \/ m.stop # "TOOL_USE"
    PROVE  ~PendingAtEnd(h)
  BY DEF EndsWith, PendingAtEnd

(* A history that keeps its turn is left with an open call by none but the *)
(* steps that answer it next.                                              *)
LEMMA StepPending ==
    ASSUME TypeOK, LoopInv, ExecInv, Noted, [Next]_vars
    PROVE  Pending'
<1> USE DEF Noted
<1>a. /\ history \in Seq(Message) /\ last \in Message /\ pendingResp \in Message
      /\ "ERROR" \in Stops /\ "MAX_ITERATIONS" \in Stops
  BY DEF TypeOK, Stops
<1>1. ASSUME ~PendingAtEnd(history')
      PROVE  Pending'
  BY <1>1 DEF Pending, PendingAtEnd
<1>2. ASSUME pc' = "idle"
      PROVE  Pending'
  BY <1>2 DEF Pending
<1>3. ASSUME UNCHANGED <<history, req>>, ~(req.history /\ PendingAtEnd(history))
      PROVE  Pending'
  BY <1>3 DEF Pending, PendingAtEnd
<1>4. ASSUME Working'
      PROVE  Pending'
  BY <1>4 DEF Pending
<1>5. ASSUME NEW r \in Request, StartTurn(r)
      PROVE  Pending'
  <2>1. CASE r.history /\ PendingAtEnd(history)
    <3>1. history' = Append(history, ToolResult(history[Len(history)].id, "interrupted"))
      BY <1>5, <2>1 DEF StartTurn, Reconcile
    <3>2. EndsWith(history', ToolResult(history[Len(history)].id, "interrupted"))
      BY <1>a, <2>1, <3>1, HealIs, AppendIs
    <3> QED
      BY <1>1, <3>2, NotPending DEF ToolResult
  <2>2. CASE ~(r.history /\ PendingAtEnd(history))
    BY <1>5, <2>2 DEF StartTurn, Reconcile, Pending, PendingAtEnd
  <2> QED
    BY <2>1, <2>2
<1>6. CASE ConsumeStaged \/ FinishLoop
  <2>1. UNCHANGED <<history, req>> /\ pc = "next" /\ done
    BY <1>6 DEF ConsumeStaged, FinishLoop, Latest
  <2>2. ~(req.history /\ PendingAtEnd(history))
    BY <2>1 DEF Pending, Working
  <2> QED
    BY <1>3, <2>1, <2>2
<1>7. CASE BeginStep \/ Checkpoint \/ BeforeToolHook \/ BeforeLlmHook
  <2>1. /\ UNCHANGED <<history, req, pendingReq, pendingResp, done>>
        /\ Working => Working'
        /\ ~Working => pc \in {"next", "checkpoint", "beforeLlm"}
        /\ pc = "beforeLlm" => pc' = "llm"
    BY <1>7 DEF BeginStep, Checkpoint, BeforeToolHook, BeforeLlmHook, runner, Working, LoopInv
  <2>2. CASE Working
    BY <1>4, <2>1, <2>2
  <2>3. CASE ~Working
    BY <2>1, <2>3 DEF Pending, PendingAtEnd
  <2> QED
    BY <2>2, <2>3
<1>8. CASE FinishCancelled \/ AfterTurnHook \/ Raise \/ Cancel \/ Restart
  BY <1>2, <1>8 DEF FinishCancelled, AfterTurnHook, Raise, Cancel, Restart, EndTurn
<1>9. CASE RunTools \/ ToolStepFails
  <2>1. Working'
    BY <1>9 DEF RunTools, ToolStepFails, Working, LoopInv
  <2> QED
    BY <1>4, <2>1
<1>10. CASE AfterTool
  <2>1. /\ pc = "afterTool" /\ pendingReq' = 0 /\ UNCHANGED <<req, pendingResp>>
        /\ Working
    BY <1>10 DEF AfterTool, Working, LoopInv
  <2>2. /\ last.id = pendingReq /\ last.kind = "assistant" /\ pendingReq # 0
        /\ req.history => EndsWith(history, last)
        /\ pendingResp.kind = (IF last.calls THEN "result" ELSE "user")
        /\ pendingResp.id = pendingReq /\ ~pendingResp.calls /\ pendingResp # None
    BY <2>1 DEF Latest, Working
  <2>3. CASE ~req.history
    BY <2>1, <2>3 DEF Pending
  <2>4. CASE req.history /\ StopOnToolError
    <3>1. Len(history) \in 1..Len(history) /\ history[Len(history)] = last
      BY <1>a, <2>2, <2>4 DEF EndsWith
    <3>2. last.kind = "assistant" /\ last.id # 0
      BY <1>a, <2>2
    <3>3. history'[Len(history)].stop = "ERROR" /\ Len(history') = Len(history)
      <4>1. history' = Restop(history, "ERROR")
        BY <2>4 DEF StopOnToolError
      <4>2. Restop(history, "ERROR")[Len(history)] = [history[Len(history)] EXCEPT !.stop = "ERROR"]
        BY <1>a, <3>1, <3>2, RestopIs
      <4>3. [last EXCEPT !.stop = "ERROR"].stop = "ERROR"
        BY <1>a DEF Message
      <4> QED
        BY <1>a, <3>1, <4>1, <4>2, <4>3, RestopIs
    <3>4. ~PendingAtEnd(history')
      BY <3>3 DEF PendingAtEnd
    <3> QED
      BY <1>1, <3>4
  <2>5. CASE req.history /\ StopOnToolBudget
    <3>1. history' = Restop(history, "MAX_ITERATIONS") \o <<pendingResp>>
      BY <2>5 DEF StopOnToolBudget, StagedDelta
    <3>2. history' = Append(Restop(history, "MAX_ITERATIONS"), pendingResp)
      BY <1>a, <3>1, RestopType
    <3>3. EndsWith(history', pendingResp)
      BY <1>a, <3>2, RestopType, AppendIs
    <3> QED
      BY <1>1, <2>2, <3>3, NotPending
  <2>6. CASE req.history /\ StagePassthrough
    <3>1. history' = history \o <<pendingResp, Synthesized>>
      BY <2>6 DEF StagePassthrough
    <3>2. EndsWith(history', Synthesized)
      BY <1>a, <3>1, MessageTypes DEF EndsWith
    <3> QED
      BY <1>1, <3>2, NotPending DEF Synthesized, None
  <2>7. CASE req.history /\ StageToolResponse
    <3>1. history' = history /\ pc' = "beforeLlm" /\ history[Len(history)] = last
      BY <2>2, <2>7 DEF StageToolResponse, EndsWith
    <3> QED
      BY <2>1, <2>2, <3>1 DEF Pending, PendingAtEnd
  <2> QED
    BY <1>10, <2>3, <2>4, <2>5, <2>6, <2>7 DEF AfterTool
<1>11. CASE PassthroughHook
  <2>1. UNCHANGED <<history, req>> /\ pc = "passHook"
    BY <1>11 DEF PassthroughHook
  <2>2. ~(req.history /\ PendingAtEnd(history))
    BY <2>1 DEF Pending, Working
  <2> QED
    BY <1>3, <2>1, <2>2
<1>12. ASSUME NEW reply \in Replies, CallLlm(reply)
       PROVE  Pending'
  BY <1>12 DEF CallLlm, Pending
<1>13. CASE TakeMessage
  <2>1. /\ pc = "presented" /\ UNCHANGED req /\ ~done /\ last.id # 0
        /\ last.calls => last.stop = "TOOL_USE"
        /\ req.history => EndsWith(history, last)
    BY <1>13 DEF TakeMessage, LoopInv, Latest
  <2>2. CASE TakeToolUse
    <3>1. Working'
      BY <2>1, <2>2 DEF TakeToolUse, Working
    <3> QED
      BY <1>4, <3>1
  <2>3. CASE ~req.history
    BY <2>1, <2>3 DEF Pending
  <2>4. CASE req.history /\ StopOnContinueBudget
    <3>1. Len(history) \in 1..Len(history) /\ history[Len(history)] = last
      BY <1>a, <2>1, <2>4 DEF EndsWith
    <3>2. Len(history') = Len(history) /\ history'[Len(history)].calls = last.calls
      BY <1>a, <2>4, <3>1, RestopIs DEF StopOnContinueBudget
    <3>3. ~last.calls
      BY <2>1, <2>4 DEF StopOnContinueBudget
    <3>4. ~PendingAtEnd(history')
      BY <3>2, <3>3 DEF PendingAtEnd
    <3> QED
      BY <1>1, <3>4
  <2>5. CASE req.history /\ (TakeContinue \/ StartFinalization \/ TakeFinal)
    <3>1. history' = history /\ last.stop # "TOOL_USE"
      BY <2>5 DEF TakeContinue, StartFinalization, TakeFinal
    <3>2. ~PendingAtEnd(history)
      BY <2>1, <2>5, <3>1, NotPending
    <3> QED
      BY <1>1, <3>1, <3>2
  <2> QED
    BY <1>13, <2>2, <2>3, <2>4, <2>5 DEF TakeMessage
<1>14. CASE UNCHANGED vars
  BY <1>14 DEF vars, runner, Pending, Working, PendingAtEnd
<1> QED
  BY <1>5, <1>6, <1>7, <1>8, <1>9, <1>10, <1>11, <1>12, <1>13, <1>14 DEF Next, RunnerStep, Rest

(* Every step keeps all of it.                                             *)
LEMMA StepNoted == TypeOK /\ LoopInv /\ ExecInv /\ Noted /\ [Next]_vars => Noted'
  BY StepNumbered, StepLatest, StepPending DEF Noted

(* The whole invariant.                                                    *)
LEMMA AlwaysNoted == Spec => [](TypeOK /\ LoopInv /\ ExecInv /\ Noted)
<1>1. Init => TypeOK /\ LoopInv /\ ExecInv /\ Noted
  BY InitTypeOK, InitLoopInv, InitExecInv, InitNoted
<1>2. TypeOK /\ LoopInv /\ ExecInv /\ Noted /\ [Next]_vars
        => (TypeOK /\ LoopInv /\ ExecInv /\ Noted)'
  BY NextTypeOK, NextLoopInv, NextExecInv, StepNoted
<1> QED
  BY <1>1, <1>2, PTL DEF Spec

(* A cancellation does not answer calls whose tools returned real results as*)
(* interrupted, unless it comes in the after_tool_call hook of those results:*)
(* a history with an open call whose batch is completed is one whose result*)
(* the runner still holds, so that _history_for_resumable_persistence finds*)
(* it. It holds whatever fails and wherever the turn may be cancelled.     *)
THEOREM CancelKeepsResultAlways == Spec => CancelKeepsResult
<1>1. ASSUME TypeOK, LoopInv, ExecInv, Noted, [Next]_vars,
             outcome = "running", outcome' = "cancelled", pc # "afterTool",
             NEW i \in Len(history)+1..Len(history'), history'[i].text = "interrupted"
      PROVE  history'[i].id \notin completed
  <2> USE DEF Noted
  <2>1. Cancel
    BY <1>1 DEF Next, RunnerStep, Rest, StartTurn, ConsumeStaged, BeginStep, FinishCancelled,
       FinishLoop, AfterTurnHook, BeforeToolHook, RunTools, ToolStepFails, AfterTool,
       PassthroughHook, BeforeLlmHook, CallLlm, TakeMessage, Checkpoint, Raise, Restart, EndTurn,
       vars
  <2>2. history' = ResetHistory /\ pc # "idle" /\ pc # "next" /\ history \in Seq(Message)
    BY <1>1, <2>1, AwaitsAssumption DEF Cancel, TypeOK, Awaits
  <2>3. CASE Resumes
    <3>1. history' = Append(history, pendingResp) /\ pendingResp \in Message
      BY <1>1, <2>2, <2>3, ResetIs DEF TypeOK
    <3>2. i = Len(history) + 1 /\ history'[i] = pendingResp
      BY <1>1, <2>2, <3>1, AppendIs
    <3> QED
      BY <1>1, <3>2 DEF Latest
  <2>4. CASE ~Resumes /\ req.history /\ PendingAtEnd(history)
    <3> DEFINE m == ToolResult(history[Len(history)].id, "interrupted")
    <3>1. history' = Append(history, m) /\ m \in Message
      BY <1>1, <2>2, <2>4, ResetIs, HealIs
    <3>2. i = Len(history) + 1 /\ history'[i] = m
      BY <1>1, <2>2, <3>1, AppendIs
    <3>3. history'[i].id = history[Len(history)].id
      BY <3>2 DEF ToolResult
    <3>4. history[Len(history)].id = calls /\ \A n \in completed : n < calls
      <4>1. CASE pc = "presented"
        BY <1>1, <2>4, <4>1 DEF Latest, EndsWith, ExecInv, Numbered
      <4>2. CASE Working
        <5>1. pendingReq = calls
          BY <1>1, <4>2 DEF Working, ExecInv
        <5> QED
          BY <1>1, <2>4, <4>2, <5>1 DEF Latest, EndsWith, Numbered
      <4>3. CASE ~Working /\ pc # "presented"
        BY <1>1, <2>2, <2>4, <4>3 DEF Pending, Resumes
      <4> QED
        BY <4>1, <4>2, <4>3
    <3> QED
      BY <1>1, <3>3, <3>4 DEF TypeOK
  <2>5. CASE ~Resumes /\ ~(req.history /\ PendingAtEnd(history))
    <3>1. history' = history
      BY <1>1, <2>2, <2>5, ResetIs
    <3> QED
      BY <1>1, <2>2, <3>1
  <2> QED
    BY <2>3, <2>4, <2>5
<1>2. TypeOK /\ LoopInv /\ ExecInv /\ Noted /\ [Next]_vars =>
        [outcome = "running" /\ outcome' = "cancelled" /\ pc # "afterTool"
           => \A i \in Len(history)+1..Len(history') :
                 history'[i].text = "interrupted" => history'[i].id \notin completed]_vars
  BY <1>1
<1> QED
  BY <1>2, AlwaysNoted, PTL DEF Spec, CancelKeepsResult

-----------------------------------------------------------------------------
(* A cancelled answer                                                      *)

(* A cancelled model is not called again, but to finalize.                 *)
Stopping ==
    refused /\ ~finalizing =>
        \/ pc = "presented" /\ last.stop = "CANCELLED"
        \/ pc = "next" /\ done
        \/ pc \in {"afterTurn", "idle"}

(* Once the model has answered CANCELLED the loop goes nowhere else.       *)
LEMMA StepStopping ==
    ASSUME TypeOK, LoopInv, Noted, Stopping, [Next]_vars
    PROVE  Stopping'
<1> USE DEF Stopping
<1>1. ASSUME NEW r \in Request, StartTurn(r)
      PROVE  Stopping'
  BY <1>1 DEF StartTurn
<1>2. CASE ConsumeStaged \/ BeginStep \/ FinishLoop \/ PassthroughHook
  BY <1>2 DEF ConsumeStaged, BeginStep, FinishLoop, PassthroughHook, ghosts, runner
<1>3. CASE FinishCancelled \/ AfterTurnHook \/ Raise \/ Cancel \/ Restart
  BY <1>3 DEF FinishCancelled, AfterTurnHook, Raise, Cancel, Restart, EndTurn
<1>4. CASE BeforeToolHook \/ RunTools \/ ToolStepFails \/ AfterTool \/ BeforeLlmHook \/ Checkpoint
  BY <1>4 DEF BeforeToolHook, RunTools, ToolStepFails, AfterTool, BeforeLlmHook, Checkpoint,
     ghosts, runner
<1>5. ASSUME NEW reply \in Replies, CallLlm(reply)
      PROVE  Stopping'
  BY <1>5 DEF CallLlm, Assistant
<1>6. CASE TakeMessage
  BY <1>6 DEF TakeMessage, TakeToolUse, TakeContinue, StopOnContinueBudget, StartFinalization,
     TakeFinal, ghosts
<1>7. CASE UNCHANGED vars
  BY <1>7 DEF vars, runner, ghosts
<1> QED
  BY <1>1, <1>2, <1>3, <1>4, <1>5, <1>6, <1>7 DEF Next, RunnerStep, Rest

(* Once the model has answered CANCELLED the turn calls it no more, but for*)
(* the structured answer a deferred schema asks for.                       *)
THEOREM CancelledStopsAlways == Spec => CancelledStops
<1>1. Init => Stopping
  BY DEF Init, Stopping
<1>2. TypeOK /\ LoopInv /\ Noted /\ Stopping /\ [Next]_vars => Stopping'
  BY StepStopping
<1>3. ASSUME Stopping, [Next]_vars, refused, refused', calls' # calls
      PROVE  finalizing'
  <2>1. PICK reply \in Replies : CallLlm(reply)
    BY <1>3 DEF Next, RunnerStep, Rest, StartTurn, ConsumeStaged, BeginStep, FinishCancelled,
       FinishLoop, AfterTurnHook, BeforeToolHook, RunTools, ToolStepFails, AfterTool,
       PassthroughHook, BeforeLlmHook, Cancel, TakeMessage, Checkpoint, Raise, Restart, EndTurn,
       vars, counters
  <2> QED
    BY <1>3, <2>1 DEF CallLlm, Stopping
<1>4. Stopping /\ [Next]_vars => [refused /\ refused' => calls' = calls \/ finalizing']_vars
  BY <1>3
<1> QED
  BY <1>1, <1>2, <1>4, AlwaysNoted, PTL DEF Spec, CancelledStops

-----------------------------------------------------------------------------
(* How long a turn can last                                                *)

(* How far the loop is from the next call of the model, or from the end of  *)
(* the turn where there is none.                                           *)
Distance ==
    CASE pc = "idle"        -> 0
      [] pc = "afterTurn"   -> 1
      [] pc = "llm"         -> 4
      [] pc = "beforeLlm"   -> 5
      [] pc = "passHook"    -> 7
      [] pc = "afterTool"   -> 8
      [] pc = "runTools"    -> 9
      [] pc = "beforeTool"  -> 10
      [] pc = "checkpoint"  -> 12
      [] pc = "presented"   -> 13
      [] pc = "next"        -> IF staged # None THEN 3
                               ELSE IF done THEN 2
                               ELSE IF pendingReq = 0 THEN 6 ELSE 11

(* The steps a turn has left: a call of the model is followed by less than  *)
(* ten steps of the runner, and the budget bounds the calls.               *)
StepsLeft == 10 * (req.budget + 2 - turnCalls) + Distance

TurnShortens == [][RunnerStep => StepsLeft' < StepsLeft]_vars

(* The distance is a small number.                                         *)
LEMMA DistanceIs ==
    ASSUME TypeOK
    PROVE  Distance \in 0..13
  BY DEF TypeOK, Awaits, Distance

(* Each step of the loop comes nearer to the next call or the end.         *)
LEMMA StepShortens ==
    ASSUME TypeOK, LoopInv, RunnerStep
    PROVE  StepsLeft' < StepsLeft
<1>1. req.budget \in Nat /\ turnCalls \in Nat
  BY RequestTypes DEF TypeOK
<1>2. ASSUME UNCHANGED <<req, turnCalls>>, Distance' \in Nat, Distance \in Nat, Distance' < Distance
      PROVE  StepsLeft' < StepsLeft
  BY <1>1, <1>2 DEF StepsLeft
<1>3. CASE ConsumeStaged
  BY <1>2, <1>3 DEF ConsumeStaged, ghosts, Distance
<1>4. CASE BeginStep
  BY <1>2, <1>4 DEF BeginStep, ghosts, runner, Distance
<1>5. CASE FinishCancelled \/ FinishLoop \/ AfterTurnHook
  BY <1>2, <1>5 DEF FinishCancelled, FinishLoop, AfterTurnHook, EndTurn, ghosts, runner, Distance
<1>6. CASE BeforeToolHook \/ RunTools \/ ToolStepFails \/ BeforeLlmHook
  BY <1>2, <1>6 DEF BeforeToolHook, RunTools, ToolStepFails, BeforeLlmHook, ghosts, runner, Distance
<1>7. CASE AfterTool
  <2>1. /\ UNCHANGED <<req, turnCalls, staged>> /\ pc = "afterTool" /\ staged = None
        /\ pendingReq' = 0 /\ pc' \in {"next", "passHook", "beforeLlm"}
    BY <1>7 DEF AfterTool, StopOnToolError, StopOnToolBudget, StagePassthrough,
       StageToolResponse, ghosts, LoopInv
  <2> QED
    BY <1>2, <2>1 DEF Distance
<1>8. CASE PassthroughHook
  BY <1>2, <1>8 DEF PassthroughHook, ghosts, Distance
<1>9. ASSUME NEW reply \in Replies, CallLlm(reply)
      PROVE  StepsLeft' < StepsLeft
  <2>1. UNCHANGED req /\ turnCalls' = turnCalls + 1 /\ Distance' = 13 /\ Distance = 4
    BY <1>9 DEF CallLlm, Distance
  <2> QED
    BY <1>1, <2>1 DEF StepsLeft
<1>10. CASE TakeMessage
  <2>1. /\ UNCHANGED <<req, turnCalls, staged>> /\ pc = "presented" /\ staged = None
        /\ pc' = "checkpoint" \/ (pc' = "next" /\ pendingReq' = 0)
    BY <1>10 DEF TakeMessage, TakeToolUse, TakeContinue, StopOnContinueBudget,
       StartFinalization, TakeFinal, ghosts, LoopInv
  <2> QED
    BY <1>2, <2>1 DEF Distance
<1>11. CASE Checkpoint
  BY <1>2, <1>11 DEF Checkpoint, ghosts, runner, Distance
<1>12. CASE Raise
  BY <1>2, <1>12 DEF Raise, EndTurn, ghosts, runner, Distance
<1> QED
  BY <1>3, <1>4, <1>5, <1>6, <1>7, <1>8, <1>9, <1>10, <1>11, <1>12 DEF RunnerStep

(* No turn runs for ever: each step of the loop itself leaves fewer steps   *)
(* to the turn, from a number the budget gives, whatever the model answers. *)
THEOREM TurnBounded == Spec => [](StepsLeft \in Nat) /\ TurnShortens
<1>1. TypeOK /\ LoopInv => StepsLeft \in Nat
  <2> SUFFICES ASSUME TypeOK, LoopInv PROVE StepsLeft \in Nat
    OBVIOUS
  <2>1. req.budget \in Nat /\ turnCalls \in Nat /\ turnCalls <= req.budget + 2
    BY RequestTypes DEF TypeOK, LoopInv, Spare
  <2>2. Distance \in Nat
    BY DistanceIs
  <2> QED
    BY <2>1, <2>2 DEF StepsLeft
<1>2. TypeOK /\ LoopInv /\ [Next]_vars => [RunnerStep => StepsLeft' < StepsLeft]_vars
  BY StepShortens
<1> QED
  BY <1>1, <1>2, LoopInvariant, PTL DEF Spec, TurnShortens

-----------------------------------------------------------------------------
(* Calls and results                                                       *)

(* What the conversation theorems assume: the turn is neither cancelled nor *)
(* broken off while an answer is presented, and no tool step fails.         *)
Answered ==
    /\ "presented" \notin Interruptible \cup Failing
    /\ Failing \cap {"beforeTool", "runTools"} = {}

(* Each result answers the message before it, each call but an open one at  *)
(* the end is answered by the message after it.                            *)
Pairs(h) ==
    /\ \A i \in 1..Len(h) : h[i].kind = "result" =>
            i > 1 /\ h[i-1].calls /\ h[i-1].id = h[i].id
    /\ \A i \in 1..Len(h) - 1 : h[i].calls =>
            h[i+1].kind = "result" /\ h[i+1].id = h[i].id
Open(h) == h # <<>> /\ h[Len(h)].calls
Whole(h) == Pairs(h) /\ ~Open(h)

(* A history with an open call can be healed.                              *)
Healable(h) == Pairs(h) /\ (Open(h) => PendingAtEnd(h))

(* The loop goes on to the next call of the model.                         *)
Calling ==
    \/ pc \in {"beforeLlm", "llm"}
    \/ pc \in {"checkpoint", "next"} /\ ~done /\ pendingReq = 0

(* What is kept can be healed, and what is sent is whole.                   *)
Mended ==
    /\ Healable(history) /\ Healable(saved)
    /\ Calling => Whole(FullHistory)
    /\ pc # "idle" /\ ~req.history /\ ~done => Whole(delta)
    /\ pc = "afterTool" => pendingResp.text # "failed"
    /\ RequestsPaired

(* A result that answers an open call, or anything else after a whole        *)
(* history, keeps calls and results paired.                                *)
Fits(h, m) ==
    IF m.kind = "result" THEN Open(h) /\ h[Len(h)].id = m.id ELSE ~Open(h)

(* A message that fits keeps calls and results paired.                     *)
LEMMA PairsAppend ==
    ASSUME NEW h \in Seq(Message), NEW m \in Message, Pairs(h), Fits(h, m)
    PROVE  Pairs(Append(h, m)) /\ Open(Append(h, m)) = m.calls
<1> DEFINE g == Append(h, m)
<1>1. /\ g \in Seq(Message) /\ Len(g) = Len(h) + 1 /\ Len(h) \in Nat
      /\ \A i \in 1..Len(h) : g[i] = h[i]
      /\ g[Len(h) + 1] = m
  BY AppendIs
<1>2. Open(h) <=> Len(h) # 0 /\ h[Len(h)].calls
  BY DEF Open
<1>3. Open(g) = m.calls
  <2>1. g # <<>> /\ g[Len(g)] = m
    BY <1>1
  <2> QED
    BY <2>1 DEF Open, Message
<1> HIDE DEF g
<1>4. ASSUME NEW i \in 1..Len(g), g[i].kind = "result"
      PROVE  i > 1 /\ g[i-1].calls /\ g[i-1].id = g[i].id
  <2>1. CASE i = Len(h) + 1
    <3>1. Len(h) \in 1..Len(h) /\ i - 1 = Len(h)
      BY <1>1, <1>2, <1>4, <2>1 DEF Fits
    <3> QED
      BY <1>1, <1>2, <1>4, <2>1, <3>1 DEF Fits
  <2>2. CASE i \in 1..Len(h)
    <3>1. i > 1 /\ h[i-1].calls /\ h[i-1].id = h[i].id
      BY <1>1, <1>4, <2>2 DEF Pairs
    <3>2. i - 1 \in 1..Len(h)
      BY <2>2, <3>1
    <3> QED
      BY <1>1, <2>2, <3>1, <3>2
  <2> QED
    BY <1>1, <2>1, <2>2
<1>5. ASSUME NEW i \in 1..Len(g) - 1, g[i].calls
      PROVE  g[i+1].kind = "result" /\ g[i+1].id = g[i].id
  <2>1. CASE i = Len(h)
    BY <1>1, <1>2, <1>5, <2>1 DEF Fits
  <2>2. CASE i \in 1..Len(h) - 1
    <3>1. h[i+1].kind = "result" /\ h[i+1].id = h[i].id
      BY <1>1, <1>5, <2>2 DEF Pairs
    <3>2. i \in 1..Len(h) /\ i + 1 \in 1..Len(h)
      BY <1>1, <2>2
    <3> QED
      BY <1>1, <3>1, <3>2
  <2> QED
    BY <1>1, <2>1, <2>2
<1> QED
  BY <1>3, <1>4, <1>5 DEF Pairs, g

(* Pairing does not depend on stop reasons.                                *)
LEMMA PairsRestop ==
    ASSUME NEW h \in Seq(Message), NEW s \in Stops, Pairs(h)
    PROVE  Pairs(Restop(h, s)) /\ (Open(Restop(h, s)) <=> Open(h))
<1> DEFINE g == Restop(h, s)
<1>0. ASSUME NEW i \in 1..Len(h)
      PROVE  g[i].kind = h[i].kind /\ g[i].id = h[i].id /\ g[i].calls = h[i].calls
  BY RestopIs
<1>1. /\ g \in Seq(Message) /\ Len(g) = Len(h) /\ Len(h) \in Nat
      /\ \A i \in 1..Len(h) :
            g[i].kind = h[i].kind /\ g[i].id = h[i].id /\ g[i].calls = h[i].calls
  BY <1>0, RestopIs
<1> HIDE DEF g
<1>2. ASSUME NEW i \in 1..Len(g), g[i].kind = "result"
      PROVE  i > 1 /\ g[i-1].calls /\ g[i-1].id = g[i].id
  <2>1. i > 1 /\ h[i-1].calls /\ h[i-1].id = h[i].id
    BY <1>1, <1>2 DEF Pairs
  <2>2. i - 1 \in 1..Len(h)
    BY <1>1, <2>1
  <2> QED
    BY <1>1, <2>1, <2>2
<1>3. ASSUME NEW i \in 1..Len(g) - 1, g[i].calls
      PROVE  g[i+1].kind = "result" /\ g[i+1].id = g[i].id
  <2>1. i \in 1..Len(h) /\ i + 1 \in 1..Len(h)
    BY <1>1
  <2>2. h[i+1].kind = "result" /\ h[i+1].id = h[i].id
    BY <1>1, <1>3, <2>1 DEF Pairs
  <2> QED
    BY <1>1, <2>1, <2>2
<1>4. Open(g) <=> Open(h)
  <2>1. g = <<>> <=> Len(g) = 0
    BY <1>1
  <2>2. h = <<>> <=> Len(h) = 0
    OBVIOUS
  <2>3. Len(h) # 0 => Len(h) \in 1..Len(h)
    BY <1>1
  <2> QED
    BY <1>1, <2>1, <2>2, <2>3 DEF Open
<1> QED
  BY <1>2, <1>3, <1>4 DEF Pairs, g

(* A result closes the call it answers, a prompt follows what is whole.      *)
LEMMA ClosedBy ==
    ASSUME NEW h \in Seq(Message), NEW m \in Message, Pairs(h), Fits(h, m), ~m.calls
    PROVE  Whole(Append(h, m)) /\ Healable(Append(h, m))
  BY PairsAppend DEF Whole, Healable

(* Folding a prompt into the results before it leaves a whole history.     *)
LEMMA MergedWhole ==
    ASSUME NEW h \in Seq(Message), Whole(h)
    PROVE  Whole(Merged(h))
<1> DEFINE n == Len(h) - 1
           g == SubSeq(h, 1, n)
<1>1. CASE Len(h) > 1 /\ h[Len(h)-1].kind = "result" /\ h[Len(h)].kind = "user"
  <2>1. Len(h) \in Nat /\ n \in 1..Len(h) - 1 /\ n + 1 = Len(h)
    BY <1>1
  <2>2. /\ Len(g) = n /\ g # <<>>
        /\ \A i \in 1..n : g[i] = h[i]
    <3>1. n \in Nat /\ n \in 1..Len(h) /\ \A i \in 1..n : i \in 1..Len(h) /\ 1 + i - 1 = i
      BY <2>1
    <3>2. Len(g) = n /\ \A i \in 1..n : g[i] = h[i]
      BY <2>1, <3>1
    <3> HIDE DEF g
    <3>3. g # <<>>
      BY <2>1, <3>2
    <3> QED
      BY <3>2, <3>3
  <2>3. ~h[n].calls
    BY <1>1, <2>1 DEF Whole, Pairs
  <2> HIDE DEF g, n
  <2>4. ASSUME NEW i \in 1..n, g[i].kind = "result"
        PROVE  i > 1 /\ g[i-1].calls /\ g[i-1].id = g[i].id
    <3>1. i \in 1..Len(h) /\ h[i].kind = "result"
      BY <2>1, <2>2, <2>4
    <3>2. i > 1 /\ h[i-1].calls /\ h[i-1].id = h[i].id
      BY <3>1 DEF Whole, Pairs
    <3>3. i - 1 \in 1..n
      BY <2>1, <3>2
    <3> QED
      BY <2>2, <3>2, <3>3
  <2>5. ASSUME NEW i \in 1..n - 1, g[i].calls
        PROVE  g[i+1].kind = "result" /\ g[i+1].id = g[i].id
    <3>1. i \in 1..Len(h) - 1 /\ i \in 1..n /\ i + 1 \in 1..n
      BY <2>1
    <3>2. h[i+1].kind = "result" /\ h[i+1].id = h[i].id
      BY <2>2, <2>5, <3>1 DEF Whole, Pairs
    <3> QED
      BY <2>2, <3>1, <3>2
  <2>6. ~Open(g)
    BY <2>1, <2>2, <2>3 DEF Open
  <2>7. Merged(h) = g
    BY <1>1 DEF Merged, g, n
  <2> QED
    BY <2>2, <2>4, <2>5, <2>6, <2>7 DEF Whole, Pairs
<1>2. CASE ~(Len(h) > 1 /\ h[Len(h)-1].kind = "result" /\ h[Len(h)].kind = "user")
  BY <1>2 DEF Merged
<1> QED
  BY <1>1, <1>2

(* The empty history is whole.                                             *)
LEMMA WholeNothing == Whole(<<>>)
  BY DEF Whole, Pairs, Open

(* What a turn that is broken off outside the presentation leaves.         *)
LEMMA ResetHealable ==
    ASSUME TypeOK, Noted, Healable(history), pc # "presented", pc # "idle"
    PROVE  /\ Healable(Resumable) /\ Healable(ResetHistory)
           /\ Resumes => Fits(history, pendingResp)
<1>1. /\ history \in Seq(Message) /\ pendingResp \in Message
  BY DEF TypeOK
<1>2. ASSUME Resumes
      PROVE  Fits(history, pendingResp) /\ ~pendingResp.calls
  BY <1>2 DEF Resumes, Noted, Pending, Working, Fits, Open, PendingAtEnd
<1>3. ASSUME Resumes
      PROVE  Healable(Append(history, pendingResp))
  BY <1>1, <1>2, <1>3, ClosedBy DEF Healable
<1>4. ASSUME PendingAtEnd(history)
      PROVE  Healable(Append(history, ToolResult(history[Len(history)].id, "interrupted")))
  <2>1. Fits(history, ToolResult(history[Len(history)].id, "interrupted"))
    BY <1>4 DEF Fits, Open, PendingAtEnd, ToolResult
  <2>2. ~ToolResult(history[Len(history)].id, "interrupted").calls
    BY DEF ToolResult
  <2> QED
    BY <1>1, <1>4, <2>1, <2>2, HealIs, ClosedBy DEF Healable
<1> QED
  BY <1>2, <1>3, <1>4, ResetIs

(* At first there is nothing to heal.                                      *)
LEMMA InitMended == Init => Mended
<1> SUFFICES ASSUME Init PROVE Mended
  OBVIOUS
<1>1. Healable(history) /\ Healable(saved)
  BY WholeNothing DEF Init, Healable, Whole
<1>2. pc = "idle" /\ sent = <<>>
  BY DEF Init
<1> QED
  BY <1>1, <1>2 DEF Mended, Calling, RequestsPaired

(* Every step leaves a history that can be healed and sends a whole one.   *)
LEMMA StepMended ==
    ASSUME Answered, TypeOK, LoopInv, ExecInv, Noted, Mended, [Next]_vars
    PROVE  Mended'
<1> USE MessageTypes DEF Noted
<1>a. /\ history \in Seq(Message) /\ saved \in Seq(Message) /\ delta \in Seq(Message)
      /\ last \in Message /\ pendingResp \in Message /\ "MAX_ITERATIONS" \in Stops
  BY DEF TypeOK, Stops
<1>b. Healable(history) /\ Healable(saved)
  BY DEF Mended
<1>1. ASSUME UNCHANGED <<history, saved, req, delta, sent>>, done => done', Calling' => Calling,
             pc' = "idle" <=> pc = "idle",
             pc' = "afterTool" => pendingResp'.text # "failed"
      PROVE  Mended'
  BY <1>1 DEF Mended, Calling, FullHistory, RequestsPaired, Healable, Whole, Pairs, Open,
     PendingAtEnd
<1>2. ASSUME NEW h, Healable(h), Save(h), Healable(history'), UNCHANGED sent, pc' = "idle"
      PROVE  Mended'
  <2>1. Healable(saved')
    BY <1>b, <1>2, SaveIs
  <2> QED
    BY <1>2, <2>1 DEF Mended, Calling, RequestsPaired, Healable, Pairs, Open, PendingAtEnd
<1>3. ASSUME UNCHANGED <<saved, sent, req>>, pc' # "afterTool",
             Healable(history'), Calling' => Whole(FullHistory'),
             ~req.history /\ ~done' => Whole(delta')
      PROVE  Mended'
  BY <1>b, <1>3 DEF Mended, RequestsPaired, Healable, Whole, Pairs, Open, PendingAtEnd, Calling,
     FullHistory
<1>4. ASSUME NEW r \in Request, StartTurn(r)
      PROVE  Mended'
  <2>1. /\ history' = Reconcile(history, r.history) /\ delta' = <<UserPrompt>>
        /\ UNCHANGED <<saved, sent>> /\ req' = r /\ pc' = "next"
    BY <1>4 DEF StartTurn
  <2>2. Whole(<<UserPrompt>>)
    BY DEF Whole, Pairs, Open, UserPrompt, None
  <2>3. Healable(history') /\ history' \in Seq(Message) /\ (r.history => ~Open(history'))
    <3>1. CASE r.history /\ PendingAtEnd(history)
      <4> DEFINE m == ToolResult(history[Len(history)].id, "interrupted")
      <4>1. Fits(history, m) /\ ~m.calls /\ m \in Message
        BY <1>a, <3>1, HealIs DEF Fits, Open, PendingAtEnd, ToolResult
      <4>2. history' = Append(history, m)
        BY <2>1, <3>1 DEF Reconcile
      <4> QED
        BY <1>a, <1>b, <4>1, <4>2, ClosedBy, AppendIs DEF Healable, Whole
    <3>2. CASE ~(r.history /\ PendingAtEnd(history))
      BY <1>a, <1>b, <2>1, <3>2 DEF Reconcile, Healable
    <3> QED
      BY <3>1, <3>2
  <2>4. Whole(FullHistory')
    <3>1. Whole(Append(history', UserPrompt)) \/ ~r.history
      BY <2>3, ClosedBy DEF Healable, Fits, UserPrompt, None
    <3>2. FullHistory' = IF r.history THEN history' \o <<UserPrompt>> ELSE <<UserPrompt>>
      BY <2>1 DEF FullHistory
    <3>3. history' \o <<UserPrompt>> = Append(history', UserPrompt)
      BY <2>3
    <3> QED
      BY <2>2, <3>1, <3>2, <3>3
  <2>5. Whole(delta') /\ Healable(saved')
    BY <1>b, <2>1, <2>2
  <2>6. RequestsPaired'
    BY <2>1 DEF Mended, RequestsPaired
  <2> QED
    BY <2>1, <2>3, <2>4, <2>5, <2>6 DEF Mended
<1>5. CASE \/ ConsumeStaged \/ BeginStep \/ FinishLoop \/ PassthroughHook
           \/ BeforeToolHook \/ BeforeLlmHook
  BY <1>1, <1>5 DEF ConsumeStaged, BeginStep, FinishLoop, PassthroughHook, BeforeToolHook,
     BeforeLlmHook, runner, ghosts, Calling, LoopInv
<1>6. CASE RunTools
  <2>1. pendingResp'.text # "failed"
    BY <1>6, AnswerIs DEF RunTools
  <2> QED
    BY <1>1, <1>6, <2>1 DEF RunTools, Calling
<1>7. ~ToolStepFails
  BY DEF ToolStepFails, Answered
<1>8. CASE FinishCancelled
  BY <1>2, <1>8, ResetHealable, <1>b DEF FinishCancelled, EndTurn, ghosts
<1>9. CASE AfterTurnHook
  BY <1>2, <1>9, <1>b DEF AfterTurnHook, EndTurn, ghosts
<1>10. CASE Checkpoint
  <2>1. saved' \in {saved, history} /\ UNCHANGED <<history, req, runner, ghosts>>
        /\ pc = "checkpoint" /\ pc' = "next"
    BY <1>10, SaveIs DEF Checkpoint
  <2>2. Healable(saved')
    BY <1>b, <2>1
  <2> QED
    BY <2>1, <2>2 DEF Mended, RequestsPaired, runner, ghosts, Calling, FullHistory, Healable, Whole,
       Pairs, Open, PendingAtEnd
<1>11. CASE Raise
  <2>1. pc # "presented" /\ pc # "idle"
    BY <1>11 DEF Raise, Answered
  <2> QED
    BY <1>2, <1>11, <2>1, <1>b, ResetHealable DEF Raise, EndTurn, ghosts, Healable, Pairs, Open,
       PendingAtEnd
<1>12. CASE Cancel
  <2>1. pc # "presented" /\ pc # "idle"
    BY <1>12, AwaitsAssumption DEF Cancel, Answered, Awaits
  <2> QED
    BY <1>2, <1>12, <2>1, <1>b, ResetHealable DEF Cancel, EndTurn, ghosts
<1>13. CASE Restart
  BY <1>b, <1>13 DEF Restart, Mended, RequestsPaired, Calling, Healable, Pairs, Open, PendingAtEnd
<1>14. CASE AfterTool
  <2>1. /\ pc = "afterTool" /\ pendingReq' = 0 /\ UNCHANGED <<saved, req, sent, pendingResp>>
        /\ Working /\ pendingResp.text # "failed"
    BY <1>14 DEF AfterTool, Working, LoopInv, Mended, ghosts
  <2>2. /\ last.id = pendingReq /\ last.kind = "assistant"
        /\ req.history => EndsWith(history, last)
        /\ pendingResp.kind = (IF last.calls THEN "result" ELSE "user")
        /\ pendingResp.id = pendingReq /\ ~pendingResp.calls
    BY <2>1 DEF Latest, Working
  <2>3. ~req.history => Whole(delta)
    BY <2>1 DEF Mended, Working
  <2>4. req.history => Fits(history, pendingResp)
    BY <2>2 DEF Fits, Open, EndsWith
  <2>5. ~StopOnToolError
    BY <2>1 DEF StopOnToolError
  <2>6. CASE StopOnToolBudget
    <3> DEFINE g == Restop(history, "MAX_ITERATIONS")
    <3>1. /\ history' = IF req.history THEN g \o <<pendingResp>> ELSE history
          /\ delta' = IF req.history THEN <<pendingResp>> ELSE delta
          /\ done' /\ pc' = "next"
      BY <2>6 DEF StopOnToolBudget, StagedDelta
    <3>2. CASE req.history
      <4>1. g \in Seq(Message) /\ g \o <<pendingResp>> = Append(g, pendingResp) /\ Pairs(g)
        BY <1>a, <1>b, RestopType, PairsRestop DEF Healable
      <4>2. Fits(g, pendingResp)
        <5>1. Len(g) = Len(history) /\ Len(history) \in 1..Len(history)
          BY <1>a, <2>2, <3>2, RestopIs DEF EndsWith
        <5>2. "MAX_ITERATIONS" \in Stops
          BY DEF Stops
        <5>3. g[Len(g)].id = history[Len(history)].id
          BY <1>a, <5>1, <5>2, RestopAt
        <5> QED
          BY <1>a, <1>b, <2>2, <2>4, <3>2, <5>3, PairsRestop DEF Fits, Healable
      <4>3. Healable(history')
        BY <1>a, <2>2, <3>1, <3>2, <4>1, <4>2, ClosedBy
      <4> QED
        BY <1>3, <2>1, <3>1, <3>2, <4>3 DEF Calling
    <3>3. CASE ~req.history
      <4>1. Healable(history')
        BY <1>b, <3>1, <3>3
      <4> QED
        BY <1>3, <2>1, <3>1, <3>3, <4>1 DEF Calling
    <3> QED
      BY <3>2, <3>3
  <2>7. CASE StagePassthrough
    <3>1. /\ history' = IF req.history THEN history \o <<pendingResp, Synthesized>> ELSE history
          /\ delta' = delta /\ done' = done /\ pc' = "passHook"
      BY <2>7 DEF StagePassthrough
    <3>2. Healable(history')
      <4>1. CASE req.history
        <5>1. history \o <<pendingResp, Synthesized>>
                = Append(Append(history, pendingResp), Synthesized)
          BY <1>a
        <5>2. Whole(Append(history, pendingResp)) /\ Append(history, pendingResp) \in Seq(Message)
          BY <1>a, <1>b, <2>2, <2>4, <4>1, ClosedBy DEF Healable
        <5>3. Fits(Append(history, pendingResp), Synthesized) /\ ~Synthesized.calls
          BY <5>2 DEF Fits, Whole, Synthesized, None
        <5> QED
          BY <3>1, <4>1, <5>1, <5>2, <5>3, ClosedBy DEF Whole
      <4>2. CASE ~req.history
        BY <1>b, <3>1, <4>2
      <4> QED
        BY <4>1, <4>2
    <3> QED
      BY <1>3, <2>1, <2>3, <3>1, <3>2 DEF Calling, Whole, Pairs, Open
  <2>8. CASE StageToolResponse
    <3>1. history' = history /\ delta' = StagedDelta /\ done' = done /\ pc' = "beforeLlm"
      BY <2>8 DEF StageToolResponse
    <3>2. Whole(FullHistory') /\ (~req.history => Whole(delta'))
      <4>1. CASE req.history
        <5>1. FullHistory' = history \o <<pendingResp>>
          BY <2>1, <3>1, <4>1 DEF FullHistory, StagedDelta
        <5>2. FullHistory' = Append(history, pendingResp)
          BY <1>a, <5>1
        <5> QED
          BY <1>a, <1>b, <2>2, <2>4, <4>1, <5>2, ClosedBy DEF Healable
      <4>2. CASE ~req.history
        <5>1. FullHistory' = delta \o <<last, pendingResp>> /\ delta' = FullHistory'
          BY <2>1, <3>1, <4>2 DEF FullHistory, StagedDelta
        <5>2. FullHistory' = Append(Append(delta, last), pendingResp)
          BY <1>a, <5>1
        <5>3. Fits(delta, last) /\ Pairs(delta)
          BY <2>2, <2>3, <4>2 DEF Fits, Whole
        <5>4. /\ Pairs(Append(delta, last)) /\ Open(Append(delta, last)) = last.calls
              /\ Append(delta, last) \in Seq(Message) /\ EndsWith(Append(delta, last), last)
          BY <1>a, <2>2, <5>3, PairsAppend, AppendIs
        <5>5. Fits(Append(delta, last), pendingResp)
          BY <2>2, <5>4 DEF Fits, EndsWith
        <5> QED
          BY <1>a, <2>2, <5>1, <5>2, <5>4, <5>5, ClosedBy
      <4> QED
        BY <4>1, <4>2
    <3>3. Healable(history')
      BY <1>b, <3>1
    <3> QED
      BY <1>3, <2>1, <3>1, <3>2, <3>3
  <2> QED
    BY <1>14, <2>5, <2>6, <2>7, <2>8 DEF AfterTool
<1>15. ASSUME NEW reply \in Replies, CallLlm(reply)
       PROVE  Mended'
  <2>1. /\ UNCHANGED <<saved, req, delta, done>> /\ pc = "llm" /\ pc' = "presented"
        /\ sent' = Merged(FullHistory)
        /\ last' = Assistant(calls + 1, reply)
        /\ history' = IF req.history THEN Append(FullHistory, last') ELSE history
    BY <1>15 DEF CallLlm
  <2>2. Whole(FullHistory) /\ FullHistory \in Seq(Message)
    BY <1>a, <2>1, ConcatIs DEF Mended, Calling, FullHistory
  <2>3. last' \in Message /\ last'.kind = "assistant" /\ (last'.calls => last'.stop = "TOOL_USE")
    <3>1. calls + 1 \in Nat
      BY IdTypes
    <3>2. last' \in Message
      BY <2>1, <3>1
    <3> QED
      BY <2>1, <3>2 DEF Assistant
  <2>4. Healable(history')
    <3>1. CASE req.history
      <4>1. Fits(FullHistory, last')
        BY <2>2, <2>3 DEF Fits, Whole
      <4>2. Pairs(Append(FullHistory, last')) /\ Open(Append(FullHistory, last')) = last'.calls
        BY <2>2, <2>3, <4>1, PairsAppend DEF Whole
      <4>3. EndsWith(history', last')
        BY <2>1, <2>2, <2>3, <3>1, AppendIs
      <4> QED
        BY <2>1, <2>3, <3>1, <4>2, <4>3 DEF Healable, PendingAtEnd, EndsWith
    <3>2. CASE ~req.history
      BY <1>b, <2>1, <3>2
    <3> QED
      BY <3>1, <3>2
  <2>5. RequestsPaired'
    <3> DEFINE f == Merged(FullHistory)
    <3>1. f \in Seq(Message) /\ Whole(f)
      BY <2>2, MergedType, MergedWhole
    <3> HIDE DEF f
    <3>2. ASSUME NEW i \in 1..Len(f)
          PROVE  /\ f[i].calls => i < Len(f) /\ f[i+1].kind = "result" /\ f[i+1].id = f[i].id
                 /\ f[i].kind = "result" => i > 1 /\ f[i-1].calls /\ f[i-1].id = f[i].id
      <4>1. ASSUME f[i].calls
            PROVE  i \in 1..Len(f) - 1
        <5>1. i # Len(f)
          BY <3>1, <4>1 DEF Whole, Open
        <5> QED
          BY <3>1, <5>1
      <4> QED
        BY <3>1, <4>1 DEF Whole, Pairs
    <3>3. sent' = f
      BY <2>1 DEF f
    <3> QED
      BY <3>2, <3>3 DEF RequestsPaired
  <2>6. ~req.history /\ ~done => Whole(delta)
    BY <2>1 DEF Mended
  <2> QED
    BY <1>b, <2>1, <2>4, <2>5, <2>6 DEF Mended, Calling, Healable, Whole, Pairs, Open, PendingAtEnd
<1>16. CASE TakeMessage
  <2>1. /\ pc = "presented" /\ ~done /\ UNCHANGED <<saved, req, sent>> /\ pendingReq = 0
        /\ last.kind = "assistant" /\ (last.calls => last.stop = "TOOL_USE") /\ last.id = calls
        /\ req.history => EndsWith(history, last)
        /\ last.id # 0
    BY <1>16 DEF TakeMessage, LoopInv, Latest, ExecInv, ghosts
  <2>2. ~req.history => Whole(delta)
    BY <2>1 DEF Mended
  <2>3. ASSUME last.stop # "TOOL_USE", req.history
        PROVE  Whole(history)
    BY <1>b, <2>1, <2>3 DEF Healable, Whole, Open, EndsWith
  <2>4. ASSUME last.stop # "TOOL_USE", ~req.history
        PROVE  Whole(Append(delta, last)) /\ Append(delta, last) \in Seq(Message)
    <3>1. ~last.calls /\ last.kind # "result"
      BY <2>1, <2>4
    <3>2. Pairs(delta) /\ Fits(delta, last)
      BY <2>2, <2>4, <3>1 DEF Fits, Whole
    <3> QED
      BY <1>a, <3>1, <3>2, ClosedBy, AppendIs
  <2>5. CASE TakeToolUse
    <3>1. /\ UNCHANGED <<history, delta, done>> /\ pendingReq' = last.id /\ pc' = "checkpoint"
      BY <2>5 DEF TakeToolUse
    <3>2. ~Calling'
      BY <2>1, <3>1 DEF Calling
    <3> QED
      BY <1>1, <2>1, <3>1, <3>2
  <2>6. CASE TakeContinue
    <3>1. /\ UNCHANGED <<history, done>> /\ pc' = "checkpoint" /\ last.stop # "TOOL_USE"
          /\ delta' = IF req.history THEN <<>> ELSE Append(delta, last)
      BY <2>6 DEF TakeContinue
    <3>2. FullHistory' = IF req.history THEN history ELSE Append(delta, last)
      <4>1. history \o <<>> = history
        BY <1>a
      <4> QED
        BY <2>1, <3>1, <4>1 DEF FullHistory
    <3>3. Whole(FullHistory') /\ (~req.history => Whole(delta')) /\ Healable(history')
      BY <1>b, <2>3, <2>4, <3>1, <3>2
    <3> QED
      BY <1>3, <2>1, <3>1, <3>3
  <2>7. CASE StopOnContinueBudget
    <3> DEFINE g == Restop(history, "MAX_ITERATIONS")
    <3>1. history' = g /\ done' /\ pc' = "next" /\ ~last.calls
      BY <2>1, <2>7 DEF StopOnContinueBudget
    <3>2. Pairs(g) /\ (Open(g) <=> Open(history)) /\ Len(g) = Len(history)
      BY <1>a, <1>b, PairsRestop, RestopIs DEF Healable
    <3>3. ASSUME Open(history)
          PROVE  PendingAtEnd(g)
      <4>1. PendingAtEnd(history) /\ Len(history) \in 1..Len(history)
        BY <1>a, <1>b, <3>3 DEF Healable, PendingAtEnd
      <4>2. ~req.history
        BY <2>1, <3>1, <3>3 DEF Open, EndsWith
      <4>3. history[Len(history)].id # last.id
        BY <2>1, <4>1, <4>2 DEF Numbered
      <4>4. g[Len(history)] = history[Len(history)]
        <5>1. "MAX_ITERATIONS" \in Stops
          BY DEF Stops
        <5> QED
          BY <1>a, <4>1, <4>3, <5>1, RestopAt
      <4> QED
        BY <3>2, <3>3, <4>1, <4>4 DEF PendingAtEnd, Open
    <3>4. Healable(history')
      BY <3>1, <3>2, <3>3 DEF Healable
    <3> QED
      BY <1>3, <2>1, <3>1, <3>4 DEF Calling
  <2>8. CASE StartFinalization
    <3>1. /\ UNCHANGED <<history, done>> /\ pc' = "next" /\ last.stop # "TOOL_USE"
          /\ delta' = IF req.history THEN <<UserPrompt>> ELSE delta \o <<last, UserPrompt>>
      BY <2>8 DEF StartFinalization
    <3>2. \A h \in Seq(Message) : Whole(h) => Whole(Append(h, UserPrompt))
      BY ClosedBy DEF Fits, Whole, UserPrompt, None
    <3>3. /\ history \o <<UserPrompt>> = Append(history, UserPrompt)
          /\ delta \o <<last, UserPrompt>> = Append(Append(delta, last), UserPrompt)
      BY <1>a
    <3>4. FullHistory' = IF req.history THEN history \o <<UserPrompt>> ELSE delta'
      BY <2>1, <3>1 DEF FullHistory
    <3>5. Whole(FullHistory') /\ (~req.history => Whole(delta')) /\ Healable(history')
      BY <1>a, <1>b, <2>3, <2>4, <3>1, <3>2, <3>3, <3>4
    <3> QED
      BY <1>3, <2>1, <3>1, <3>5
  <2>9. CASE TakeFinal
    BY <1>1, <2>1, <2>9 DEF TakeFinal, Calling
  <2> QED
    BY <1>16, <2>5, <2>6, <2>7, <2>8, <2>9 DEF TakeMessage
<1>17. CASE UNCHANGED vars
  BY <1>17, <1>1 DEF vars, runner, ghosts, Mended, Calling
<1> QED
  BY <1>4, <1>5, <1>6, <1>7, <1>8, <1>9, <1>10, <1>11, <1>12, <1>13, <1>14, <1>15, <1>16, <1>17
     DEF Next, RunnerStep, Rest

(* The whole invariant.                                                    *)
LEMMA AlwaysMended ==
    ASSUME Answered
    PROVE  Spec => []Mended
<1>1. TypeOK /\ LoopInv /\ ExecInv /\ Noted /\ Mended /\ [Next]_vars => Mended'
  BY StepMended
<1> QED
  BY <1>1, InitMended, AlwaysNoted, PTL DEF Spec

(* Every request to the provider answers each batch of tool calls in it with*)
(* the batch's own results, directly after the batch, whatever turns were  *)
(* cancelled, failed or resumed before it. What is kept between turns may end*)
(* in a call that is not answered, but only one that the next turn heals.  *)
THEOREM RequestsPairedSafe ==
    ASSUME Answered
    PROVE  Spec => []RequestsPaired
<1>1. Mended => RequestsPaired
  BY DEF Mended
<1> QED
  BY <1>1, AlwaysMended, PTL

-----------------------------------------------------------------------------
(* The conversation the history and the file stand for                      *)

(* The entries of a history: as many, in order.                             *)
LEMMA EntriesIs ==
    ASSUME NEW h \in Seq(Message)
    PROVE  /\ Len(Entries(h)) = Len(h) /\ DOMAIN Entries(h) = 1..Len(h)
           /\ \A i \in 1..Len(h) : /\ Entries(h)[i].kind = h[i].kind
                                   /\ Entries(h)[i].id = h[i].id
                                   /\ Entries(h)[i].calls = h[i].calls
  BY DEF Entries

(* Messages of the same kind, batch and calls have the same entries.        *)
Alike(g, h) ==
    \A i \in 1..Len(g) :
        /\ h[i].kind = g[i].kind /\ h[i].id = g[i].id /\ h[i].calls = g[i].calls

(* Stop reasons apart, a history has the same entries.                     *)
LEMMA RestopAlike ==
    ASSUME NEW h \in Seq(Message), NEW s \in Stops
    PROVE  /\ Restop(h, s) \in Seq(Message) /\ Len(h) <= Len(Restop(h, s))
           /\ Len(Restop(h, s)) = Len(h) /\ Alike(h, Restop(h, s))
<1>1. Len(h) \in Nat /\ Len(Restop(h, s)) = Len(h) /\ Restop(h, s) \in Seq(Message)
  BY RestopIs
<1>2. Alike(h, Restop(h, s))
  BY RestopAt DEF Alike
<1> QED
  BY <1>1, <1>2

(* A history that goes on as another began extends its entries.            *)
LEMMA EntriesExtend ==
    ASSUME NEW g \in Seq(Message), NEW h \in Seq(Message), Len(g) <= Len(h), Alike(g, h)
    PROVE  Abstract!Extends(Entries(g), Entries(h))
<1>1. Len(Entries(g)) = Len(g) /\ Len(Entries(h)) = Len(h) /\ Len(g) \in Nat
  BY EntriesIs
<1>2. ASSUME NEW i \in 1..Len(g)
      PROVE  Entries(h)[i] = Entries(g)[i]
  <2>1. i \in 1..Len(h)
    OBVIOUS
  <2>2. h[i].kind = g[i].kind /\ h[i].id = g[i].id /\ h[i].calls = g[i].calls
    BY DEF Alike
  <2> QED
    BY <2>1, <2>2 DEF Entries
<1>3. SubSeq(Entries(h), 1, Len(g)) = [i \in 1..Len(g) |-> Entries(h)[i]]
  BY <1>1 DEF Entries
<1>4. SubSeq(Entries(h), 1, Len(g)) = Entries(g)
  BY <1>2, <1>3 DEF Entries
<1> QED
  BY <1>1, <1>4 DEF Abstract!Extends

(* Entries are paired as the messages are.                                 *)
LEMMA EntriesPaired ==
    ASSUME NEW h \in Seq(Message), Pairs(h)
    PROVE  Abstract!Paired(Entries(h))
<1>1. ASSUME NEW i \in 1..Len(h), h[i].kind = "result"
      PROVE  i > 1 /\ Entries(h)[i-1].calls /\ Entries(h)[i-1].id = Entries(h)[i].id
  <2>1. i > 1 /\ h[i-1].calls /\ h[i-1].id = h[i].id
    BY <1>1 DEF Pairs
  <2>2. i - 1 \in 1..Len(h)
    BY <2>1
  <2> QED
    BY <2>1, <2>2, EntriesIs
<1>2. ASSUME NEW i \in 1..Len(h) - 1, h[i].calls
      PROVE  Entries(h)[i+1].kind = "result" /\ Entries(h)[i+1].id = Entries(h)[i].id
  <2>1. h[i+1].kind = "result" /\ h[i+1].id = h[i].id
    BY <1>2 DEF Pairs
  <2>2. i \in 1..Len(h) /\ i + 1 \in 1..Len(h)
    OBVIOUS
  <2> QED
    BY <2>1, <2>2, EntriesIs
<1>3. ASSUME NEW i \in 1..Len(h)
      PROVE  Entries(h)[i].kind = h[i].kind /\ Entries(h)[i].calls = h[i].calls
  BY EntriesIs
<1>4. Len(Entries(h)) = Len(h) /\ Len(h) \in Nat
  BY EntriesIs
<1>5. \A i \in 1..Len(h) - 1 : i \in 1..Len(h)
  BY <1>4
<1> QED
  BY <1>1, <1>2, <1>3, <1>4, <1>5 DEF Abstract!Paired, Abstract!IsCall, Abstract!IsResult

(* What a cancelled turn leaves begins with the history it found.           *)
LEMMA ResetExtends ==
    ASSUME TypeOK
    PROVE  /\ ResetHistory \in Seq(Message) /\ Resumable \in Seq(Message)
           /\ Len(history) <= Len(ResetHistory) /\ Alike(history, ResetHistory)
           /\ Len(history) <= Len(Resumable) /\ Len(Resumable) <= Len(history) + 1
           /\ Alike(history, Resumable)
<1>1. history \in Seq(Message) /\ pendingResp \in Message /\ Len(history) \in Nat
  BY DEF TypeOK
<1>2. ASSUME NEW m \in Message
      PROVE  /\ Append(history, m) \in Seq(Message)
             /\ Len(Append(history, m)) = Len(history) + 1 /\ Alike(history, Append(history, m))
  BY <1>1, AppendIs DEF Alike
<1>3. Alike(history, history)
  BY DEF Alike
<1>4. PendingAtEnd(history) => ToolResult(history[Len(history)].id, "interrupted") \in Message
  BY <1>1, HealIs
<1>5. CASE Resumes
  <2>1. Resumable = Append(history, pendingResp) /\ ResetHistory = Append(history, pendingResp)
    BY <1>5, ResetIs
  <2> QED
    BY <1>1, <1>2, <2>1
<1>6. CASE ~Resumes
  <2>1. Resumable = history
    BY <1>6, ResetIs
  <2>2. \/ ResetHistory = history
        \/ \E m \in Message : ResetHistory = Append(history, m)
    BY <1>4, <1>6, ResetIs
  <2>3. /\ ResetHistory \in Seq(Message) /\ Len(history) <= Len(ResetHistory)
        /\ Alike(history, ResetHistory)
    <3> DEFINE h == ResetHistory
    <3>1. CASE h = history
      BY <1>1, <1>3, <3>1
    <3>2. ASSUME NEW m \in Message, h = Append(history, m)
          PROVE  h \in Seq(Message) /\ Len(history) <= Len(h) /\ Alike(history, h)
      BY <1>1, <1>2, <3>2
    <3> HIDE DEF h
    <3> QED
      BY <1>3, <1>1, <2>2, <3>1, <3>2 DEF h
  <2>4. /\ Resumable \in Seq(Message) /\ Len(history) <= Len(Resumable)
        /\ Len(Resumable) <= Len(history) + 1 /\ Alike(history, Resumable)
    BY <1>1, <1>3, <2>1
  <2> QED
    BY <2>3, <2>4
<1> QED
  BY <1>5, <1>6

(* Each step of the loop grows the conversation, saves it, resumes it, or   *)
(* leaves it as it is.                                                      *)
LEMMA StepConversation ==
    ASSUME TypeOK, TypeOK', Noted, Mended', [Next]_vars
    PROVE  [Abstract!Next]_<<Entries(history), Entries(saved)>>
<1> USE DEF Noted
<1>a. /\ history \in Seq(Message) /\ history' \in Seq(Message)
      /\ saved \in Seq(Message) /\ saved' \in Seq(Message)
      /\ delta \in Seq(Message) /\ Len(history) \in Nat
  BY DEF TypeOK
<1>b. Abstract!Paired(Entries(history')) /\ Abstract!Paired(Entries(saved'))
  BY <1>a, EntriesPaired DEF Mended, Healable
<1>1. ASSUME Len(history) <= Len(history'), Alike(history, history'), saved' \in {saved, history'}
      PROVE  Abstract!Next
  BY <1>a, <1>b, <1>1, EntriesExtend DEF Abstract!Grow, Abstract!Next
<1>2. ASSUME history' = history, saved' \in {saved, history'}
      PROVE  Abstract!Next
  <2>1. Alike(history, history')
    BY <1>2 DEF Alike
  <2> QED
    BY <1>1, <1>2, <1>a, <2>1
<1>3. ASSUME NEW r \in Request, StartTurn(r)
      PROVE  Abstract!Next
  <2>1. history' = Reconcile(history, r.history) /\ saved' = saved
    BY <1>3 DEF StartTurn
  <2>2. CASE r.history /\ PendingAtEnd(history)
    <3>1. ToolResult(history[Len(history)].id, "interrupted") \in Message
      BY <1>a, <2>2, HealIs
    <3>2. history' = Append(history, ToolResult(history[Len(history)].id, "interrupted"))
      BY <2>1, <2>2 DEF Reconcile
    <3>3. Len(history) <= Len(history') /\ Alike(history, history')
      BY <1>a, <3>1, <3>2, AppendIs DEF Alike
    <3> QED
      BY <1>1, <2>1, <3>3
  <2>3. CASE ~(r.history /\ PendingAtEnd(history))
    BY <1>2, <2>1, <2>3 DEF Reconcile
  <2> QED
    BY <2>2, <2>3
<1>4. CASE FinishCancelled \/ Cancel
  <2>1. history' = ResetHistory /\ Save(ResetHistory)
    BY <1>4 DEF FinishCancelled, Cancel
  <2>2. saved' \in {saved, history'}
    BY <2>1 DEF Save
  <2> QED
    BY <1>1, <2>1, <2>2, ResetExtends
<1>5. CASE AfterTurnHook \/ Checkpoint
  <2>1. history' = history /\ (Save(history) \/ saved' = saved)
    BY <1>5 DEF AfterTurnHook, Checkpoint
  <2>2. saved' \in {saved, history'}
    BY <2>1, SaveIs
  <2> QED
    BY <1>2, <2>1, <2>2
<1>6. CASE Raise
  <2>1. history' = history /\ Save(Resumable)
    BY <1>6 DEF Raise
  <2>2. CASE saved' = saved
    BY <1>2, <2>1, <2>2 DEF Abstract!Next
  <2>3. CASE saved' = Resumable
    <3>1. Abstract!Extends(Entries(history), Entries(saved'))
      BY <1>a, <2>3, ResetExtends, EntriesExtend
    <3>2. Len(Entries(saved')) <= Len(Entries(history)) + 1
      BY <1>a, <2>3, ResetExtends, EntriesIs
    <3>3. Abstract!Store
      BY <1>b, <2>1, <3>1, <3>2 DEF Abstract!Store
    <3> QED
      BY <3>3 DEF Abstract!Next
  <2> QED
    BY <2>1, <2>2, <2>3, SaveIs
<1>7. CASE Restart
  <2>1. history' = saved /\ saved' = saved
    BY <1>7 DEF Restart
  <2> QED
    BY <2>1 DEF Abstract!Next, Abstract!Resume
<1>8. ASSUME NEW reply \in Replies, CallLlm(reply)
      PROVE  Abstract!Next
  <2>1. /\ history' = IF req.history THEN Append(history \o delta, last') ELSE history
        /\ saved' = saved
    BY <1>8 DEF CallLlm, FullHistory
  <2>2. CASE req.history
    <3>1. last' \in Message
      BY DEF TypeOK
    <3>2. /\ history \o delta \in Seq(Message) /\ Len(history \o delta) = Len(history) + Len(delta)
          /\ \A i \in 1..Len(history) : (history \o delta)[i] = history[i]
      BY <1>a, ConcatIs
    <3>3. ASSUME NEW i \in 1..Len(history)
          PROVE  history'[i] = history[i]
      <4>1. i \in 1..Len(history \o delta)
        BY <1>a, <3>2
      <4> QED
        BY <2>1, <2>2, <3>1, <3>2, <4>1, AppendIs
    <3>4. Len(history') = Len(history) + Len(delta) + 1
      BY <2>1, <2>2, <3>1, <3>2, AppendIs
    <3> QED
      BY <1>1, <1>a, <2>1, <3>3, <3>4 DEF Alike
  <2>3. CASE ~req.history
    BY <1>2, <2>1, <2>3
  <2> QED
    BY <2>2, <2>3
<1>9. CASE AfterTool
  <2>1. saved' = saved /\ pendingResp \in Message /\ Synthesized \in Message
    BY <1>9, MessageTypes DEF AfterTool, TypeOK
  <2>2. ASSUME NEW g \in Seq(Message), NEW m \in Seq(Message),
               Len(g) = Len(history), Alike(history, g), history' = g \o m
        PROVE  Abstract!Next
    <3>1. Len(g) = Len(history) /\ Alike(history, g)
      BY <2>2
    <3>2. ASSUME NEW i \in 1..Len(history)
          PROVE  history'[i] = g[i]
      BY <2>2, <3>1, ConcatIs
    <3>3. Len(history) <= Len(history')
      BY <2>2, <3>1, ConcatIs
    <3> QED
      BY <1>1, <2>1, <3>1, <3>2, <3>3 DEF Alike
  <2>3. CASE StopOnToolError
    <3>1. history' = Restop(history, "ERROR") \o <<>> /\ "ERROR" \in Stops
      BY <1>a, <2>3, RestopType DEF StopOnToolError, Stops
    <3>2. <<>> \in Seq(Message)
      OBVIOUS
    <3> QED
      BY <1>a, <2>2, <3>1, <3>2, RestopAlike
  <2>4. CASE history' = history
    BY <1>2, <2>1, <2>4
  <2>5. CASE StopOnToolBudget /\ req.history
    <3>1. history' = Restop(history, "MAX_ITERATIONS") \o <<pendingResp>>
          /\ "MAX_ITERATIONS" \in Stops
      BY <2>5 DEF StopOnToolBudget, StagedDelta, Stops
    <3>2. <<pendingResp>> \in Seq(Message)
      BY <2>1
    <3> QED
      BY <1>a, <2>2, <3>1, <3>2, RestopAlike
  <2>6. CASE StagePassthrough /\ req.history
    <3>1. history' = history \o <<pendingResp, Synthesized>>
      BY <2>6 DEF StagePassthrough
    <3>2. <<pendingResp, Synthesized>> \in Seq(Message) /\ Alike(history, history)
      BY <2>1 DEF Alike
    <3> QED
      BY <1>a, <2>2, <3>1, <3>2
  <2> QED
    BY <1>9, <2>3, <2>4, <2>5, <2>6
    DEF AfterTool, StopOnToolBudget, StagePassthrough, StageToolResponse
<1>10. CASE TakeMessage
  <2>1. saved' = saved
    BY <1>10 DEF TakeMessage
  <2>2. CASE StopOnContinueBudget
    <3>1. history' = Restop(history, "MAX_ITERATIONS") /\ "MAX_ITERATIONS" \in Stops
      BY <2>2 DEF StopOnContinueBudget, Stops
    <3>2. Len(history) <= Len(history') /\ Alike(history, history')
      BY <1>a, <3>1, RestopAlike
    <3> QED
      BY <1>1, <2>1, <3>2
  <2>3. CASE history' = history
    BY <1>2, <2>1, <2>3
  <2> QED
    BY <1>10, <2>2, <2>3 DEF TakeMessage, TakeToolUse, TakeContinue, StartFinalization, TakeFinal
<1>11. ASSUME UNCHANGED <<history, saved>>
       PROVE  Abstract!Next
  BY <1>2, <1>11
<1>12. CASE \/ ConsumeStaged \/ BeginStep \/ FinishLoop \/ BeforeToolHook \/ RunTools
            \/ ToolStepFails \/ PassthroughHook \/ BeforeLlmHook \/ Rest \/ UNCHANGED vars
  <2>1. UNCHANGED <<history, saved>>
    BY <1>12 DEF ConsumeStaged, BeginStep, FinishLoop, BeforeToolHook, RunTools,
       ToolStepFails, PassthroughHook, BeforeLlmHook, Rest, vars
  <2> QED
    BY <1>11, <2>1
<1> QED
  BY <1>3, <1>4, <1>5, <1>6, <1>7, <1>8, <1>9, <1>10, <1>12 DEF Next, RunnerStep, Abstract!Next

(* The agent's history and the session's file implement Conversation: the  *)
(* history only grows, a restart apart, which goes back to the file, and the*)
(* file is the history or ahead of it by the one result that a failed turn *)
(* completed (_history_for_resumable_persistence).                         *)
THEOREM ConversationKept ==
    ASSUME Answered
    PROVE  Spec => KeepsConversation
<1>1. Init => Abstract!Init
  <2>1. Len(<<>>) = 0 /\ <<>> \in Seq(Message)
    OBVIOUS
  <2>2. Entries(<<>>) = <<>>
    BY <2>1 DEF Entries
  <2> QED
    BY <2>2 DEF Init, Abstract!Init
<1>2. /\ TypeOK /\ LoopInv /\ ExecInv /\ Noted /\ Mended
      /\ (TypeOK /\ LoopInv /\ ExecInv /\ Noted /\ Mended)' /\ [Next]_vars
      => [Abstract!Next]_<<Entries(history), Entries(saved)>>
  BY StepConversation
<1> QED
  BY <1>1, <1>2, AlwaysNoted, AlwaysMended, PTL DEF Spec, KeepsConversation, Abstract!Spec

=============================================================================
