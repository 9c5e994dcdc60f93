# fast-agent in TLA+

Models of the parts of fast-agent in which the order of events matters, the TLC
runs that check them on small instances and the TLAPS proofs of what holds for
every instance. Paths below are relative to `src/src/fast_agent/`.

`PROJECT.json` is the index: components, runs, the source lines every definition
stands for, the defects that show a property can fail, findings, hazards and
theorems.

## 1. The system

fast-agent runs LLM agents: a turn of an agent is a loop of LLM calls and tool
calls; agents live in instances, which are owned by sessions; sessions are
persisted; the commands a shell tool starts may outlive the program. Almost all of
it is one asyncio event loop per process, so interleaving happens at awaits, and
several processes that share directories under the fast-agent home.

| Component | State it keeps | Operations | What is hard |
|---|---|---|---|
| Tool loop (`agents/tool_runner.py`, entry in `tool_agent.py`) | delta messages, iteration, pending request and response, staged answer, last message (aliased by the history) | `until_done`, `__anext__`, tool step, staging, checkpoint, reconcile | a cancellation or an error at any of nine awaits; the history and the runner change at different points |
| Conversation history (`llm_decorator.py`, `hooks/session_history.py`) | the agent's messages, the session's file | persist a call, save, resume | the file lags behind; a crash in between |
| Durable processes (`tools/durable_processes.py`, `durable_process_supervisor.py`) | a directory per process: spec, status, launch claim, stop request; a capacity lock | create, launch, discover, get, prune, stop; supervise | several clients and supervisors write one status, partly without the lock; any of them dies; heartbeats grow stale |
| Harness sessions (`core/harness.py`, `live_session_registry.py`, `harness_persistence.py`) | registry, closing flag, per record: instance, active operation, closed, persisted session | get, create, get_or_create, operations, delete, close_all | tasks interleave at awaits inside and outside one lock; creation holds it; cancellation |
| Session store (`session/session_manager.py`, `locking.py`) | folders, current session, owner lease, auxiliary and checkpoint locks | create, load, save, fork, prune, delete, release | several processes; saves in threads |
| MCP connections (`mcp/mcp_connection_manager.py`, `mcp_aggregator.py`) | running servers with their settings, which of them go without OAuth at first; per connection a lifecycle task with its events | launch, get, reconnect, disconnect, disconnect_all | the lock is held while a lifecycle ends but not between looking, launching and waiting; startups time out, are retried and cancelled |
| MCP server leases (`mcp/server/instance_lease_pool.py`, `core/managed_runtime.py`, `run_runtime.py`) | shared, connection and stale instances; the managed ones and the version of the agents | acquire, release, refresh, reload, shutdown | a refresh while requests run; instances disposed of outside the pool's locks; cancelled disposals |
| ACP server (`acp/server/`) | sessions and their states, active prompts, session tasks, prompt locks | new, load, prompt, slash command, cancel, stop | prompts that queue, replaced instances, rolled back loads, cancellation delivered at another await |
| A2A (`a2a/`) | tasks and their states | send, cancel, stream | late results |
| Responses WebSocket (`llm/provider/openai/responses_websocket.py`) | one reusable connection, busy flags, the last request of each connection | acquire, plan, send, retry, release, close | calls share a connection one after the other; dropped and expired connections; a request that continues after another's answer |
| Subagents, batch, event bus, signals | finalizers, output rows, queues, waiters | finalize, resume, flush, signal | repeated cancellation, resume after a crash, timeouts |

How they interact: the ACP, A2A and MCP servers and the harness create instances and
sessions and start turns; a turn calls the provider, the MCP connections and the shell
runtime, which creates durable processes; the history of a turn is written by the
session store through hooks; hooks and the display run inside the turn as callbacks.

What makes each component correct:

- Tool loop: a provider request answers every tool call by its own results; a
  completed result is not lost; no batch runs twice; the turn ends, within its
  budget, with a final message.
- Durable processes: one supervisor per record; the capacity holds; running processes
  keep their records; an ended record stays ended; a stop is honoured.
- Harness sessions: one operation per session; instances are disposed exactly once
  and none is forgotten; a session in use keeps its instance and its folder.
- Session store: one owner per persisted session; no saved message is lost.
- MCP connections: one runtime per server at a time; a working one is not taken from
  its users by accident; a call for one returns.
- MCP server leases: what a request has leased is live and not older than the request;
  every instance is shut down, once.
- ACP prompts: a cancel reaches the turn it is for; a turn's instance is not disposed
  of under it; no instance is forgotten; every prompt ends.
- Responses WebSockets: one call per connection; no connection is left open by
  accident; the model sees the conversation that was asked for.

The components that are not modelled are listed in `PROJECT.json` with the reason:
conversions of data (providers, exports, cards, privacy, patches), presentation (UI,
CLI, commands) and network or browser protocols (OAuth, marketplaces).

## 2. Plan

| Step | Modules | Status |
|---|---|---|
| 1 | `Conversation` (abstract), `ToolRunner` and its proofs | done |
| 2 | `DurableProcess` and its proofs | done |
| 3 | `HarnessSessions` and its proofs | done |
| 4 | `McpConnections`: server lifecycle, launch, reconnect, disconnect_all, OAuth retry; the aggregator's operations on top; proofs | done |
| 5 | `InstanceLeases`: shared, request and connection scope over the managed runtime, with reload, shutdown and finalization; proofs | done |
| 6 | `WebSocketPool`: the reusable connection and the continuation planner; proofs | done |
| 7 | `AcpPrompts`: prompt locks, tasks, cancel, loading, slash commands, the stop of the server; proofs | done |
| 8 | `SessionStore`: the three locks, forking, rotation, saves in threads; an abstract one-owner store that `HarnessSessions` uses | next |
| 9 | `SubagentRun`: the shielded finalizer | |
| 10 | `BatchResume`, `EventBus`, signals; compaction and poll folding as operators on histories, checked against the pairing of calls and results | |

Abstract specifications worth stating: `Conversation` (done); a process lifecycle
(created, launched, ended, removed) that `DurableProcess` refines except for the races
of section 6; a registry in which creating, using and disposing an instance are
atomic, for `HarnessSessions`, `InstanceLeases` and `AcpPrompts` alike.

Every safety and action property of a passing run is a theorem (section 7). Worth proving
next: `ActiveNotPruned` where a process is launched by another client than its creator,
which the checks of small instances do not refute; a bound on the steps of an operation,
as `TurnBounded` has for a turn and `CallBounded` for a connection, for the prompts of
`AcpPrompts`; and the refinement of the abstract registry above.

## 3. The modules

### ToolRunner

One agent, one task, and one action per stretch between two awaits; `pc` names the
await. `history` is the agent's `_message_history`, `saved` the session's file, and
`delta`, `iteration`, `done`, `last`, `pendingReq`, `pendingResp`, `staged`,
`finalizing` are the runner's fields. `last` is the same object as the history's last
answer: `Restop` changes both. A message has a kind, the number of the LLM call it
belongs to, whether it has tool calls, a stop reason and, for a result, whether its text
is real, interrupted or failed. A request has the `history` flag the runner and the calls
go by (`tool_runner.py:778`, `llm_decorator.py:976`) and the `saves` flag of the hook that
saves the session, which is TRUE if the request sets none (`session_history.py:30`): a turn
without a history may save.

- `StartTurn` is `_generate_tool_turn_impl`, which heals a pending call first.
- `BeginStep`, `ConsumeStaged`, `FinishLoop`, `FinishCancelled`: `__anext__` and the
  loop of `until_done`.
- `BeforeToolHook`, `RunTools`, `ToolStepFails`, `AfterTool` with its four outcomes,
  `PassthroughHook`: the tool step and `_ensure_tool_response_staged`.
- `BeforeLlmHook`, `CallLlm`, `TakeMessage` with its five outcomes, `Checkpoint`: the
  LLM call, which appends to the history, and `_apply_assistant_message_state`, which
  runs later, after the display and the hook. `Merged` folds a user message that follows
  tool results into them, in what is sent only. The reply `NO_CALLS` is a TOOL_USE whose calls
  cannot be parsed, which one provider (Bedrock) may give; `Answer` is then a plain message.
- `Cancel`, `Raise`, `AfterTurnHook`: the ways out. `Restart`: the process dies and
  another resumes from the file.

`Interruptible` and `Failing` say at which awaits the task may be cancelled and
which may raise. Auxiliary variables record the request last sent, the batches run,
those that completed, the calls of the turn and whether the model refused.

`Conversation` is what the loop promises: the log only grows, in each
growth calls are followed by their results, the disk copy is the log or what the log is
about to be, and resuming takes the disk's. `ToolRunner` implements it (`KeepsConversation`).

Not modelled: hooks that edit the history, compaction in the middle of a turn, folding of
process polls, pending media, and the calls inside one batch.

### DurableProcess

Actors are the clients (invocations of fast-agent) and one supervisor per record. A
`status` is the state, which PIDs it names and whether its heartbeat is recent. Reading
and judging a status are two steps (`ScanRead`, `ScanJudge`; `GetRead`, `GetJudge`),
as `get` and the scans do, so a judgement may be of an old status; the scans hold
`.capacity.lock`, `get` and the supervisor do not. `launch` is `LaunchRead`, `Claim`,
`WriteStarting`, `Popen`; the supervisor prunes when it opens the store, `ReadSpec`,
`Publish`, then `Heartbeat`, `SeeStop`, `Terminate`, `LoopEnds`, `Finish` or `Fail`,
and prunes again. `Age` is the clock: a record without anybody about to write its
status goes stale; `MayLag` names states in which it may go stale although its writer lives.
`PublishLate` is a publication whose heartbeat is old at once, since its time was taken
before the command was started (`durable_process_supervisor.py:164`, `:229`).
`Faults` names what may be killed or fail. A supervisor that is dead but not reaped
(`zombie`) still answers `kill(pid, 0)`.

Not modelled: captured output, session links, waiting with a timeout, PID reuse, a
directory half removed. A command is one child: its process group, in which descendants may
outlive the shell and are ended with it (`_terminate_remaining_process_group`), is not.

### HarnessSessions

Tasks at program points (`pc`), one registry, its `asyncio.Lock`, and the folder and the
owner of each persisted session. A critical section without an await is one action
guarded by a free lock (`Enters`); a creation holds the lock over `makeInstance`, `load`
and `undo`. A record and its instance have one number. `StartOperation`, `Begin`,
`Operate`, `Save`, `End` stand for send, generate, structured, clear, compact and
shell; `Delete`, `Disposed`, `DisposeFails` for deletion, whose disposal is outside the lock; `Shut`,
`Drain`, `CloseAll`, `DisposeNext` for close_all. `Cancel` has one disjunct per kind of
await and does what the code's `except` and `finally` clauses do, and no more.
`RivalTakes` and `RivalLeaves` are another process. `OpenSession` also prunes the
rolling window, whose order (by time of use) is left open.

Not modelled: callback persistence, a session switched inside an operation, what the
agent answers.

### McpConnections

Tasks are callers of the manager; every connection has a lifecycle task of its own.
`running`, `config` and `probing` are what `running_servers` says of a server: its
connection, the settings it was made for, and whether it goes without OAuth at first.
`lock` is the manager's anyio lock, and a task holds it at the program points in
`HoldPcs`, where it awaits the end of a lifecycle. `life` is where a lifecycle is: `new`,
`starting` (inside the client's startup), `ready`, `failing` (too many missed pings),
and for those of which shutdown was requested `barred`, `cancelled` and `leaving`; it ends
`done` or, if nobody was ever told, `lost`.

- `CallGet`, `Check`, `Recreate`: `get_server` with `_healthy_running_server`.
- `Launch`, `JoinLaunch`, `Initialized`, `BudgetSpent`, `Clear`, `Cleared`:
  `launch_server`, the wait with its budget, the OAuth retry and
  `_clear_running_server_state`.
- `Disconnect`, `Disconnected`, `DisconnectAll`, `DisconnectedAll`: the disconnects, and
  with `relaunch` a reconnect. `Finish` and `Recover` are the end of an operation of the
  aggregator: a lost connection, a terminated session or a 401 reconnects.
- `Begin`, `Ready`, `Fail`, `Abandon`, `PingsMissed`, `Leave`: `_server_lifecycle_task`.
- `Cancel`: a caller is cancelled at a lock, free or not, in a wait or while it holds the
  lock.
- `ShouldRetry` takes an error that reads like a 401 and a challenge the registered
  connection has seen as one choice, so it allows more retries than the code.

A connection nobody refers to any more is garbage; its number is used again.

Not modelled: the task group and leaving it, subscriptions, the OAuth exchange,
attaching and indexing servers, temporary connections.

### InstanceLeases

Requests of an MCP server lease an instance: the shared one, one of their own or their
connection's (`scope`). The pool's state is `primary`, `current` (its version), `count`,
`stale`, `conns` and `cleanups`; the runtime's is `managed`, `version` and, for each
instance, its `label`. `lock` has the pool's two locks and the runtime's instance lock.
What an actor is about to dispose of it keeps in `todo`.

- `AcquireShared`, `Refresh`, `AcquireOwn`, `AcquireConnection`, `Connect`: `acquire`, with
  the check of the version without the lock and under it.
- `Instantiate`, `Created`, `CreateFails`: `create_instance`. The agents are built
  of the definitions read at the start (`reading`, `made`); the version is read at the end.
- `Release`, `Dispose`, `ShutDown`: `release`, and the two steps of every disposal: it leaves
  the managed ones under the instance lock, and is shut down after it.
- `SessionEnds` (the exit stack of a session), `Reload` of the agents, `Shutdown`,
  `CleanUp`, `DisposeConnections`, `DisposePrimary`, `DisposeStale` (the pool's shutdown),
  `Finalize`, `Finalized` (the run's).

`Drained` says that the pool is shut down after its last request, as the servers do
that wait for their tasks; `Interruptible` where requests may be cancelled.

Not modelled: shell environments, restoring sessions, usage reports, and what a
request does with its instance; `_refresh_shared_instance`, which replaces the agents of the
wrapper's instance in place and which a REPL or an application calls, not the pool
(`managed_runtime.py:463`); `_register_missing_agents`, which registers tools only; and
`_shared_instance_active`, which makes a second `dispose_primary` do nothing, where the
shutdown runs once.

### WebSocketPool

Callers of one LLM share a manager: `mutex`, `pooled` (the reusable connection), and per
connection its `life`, whether it is `busy` and `used`, and its `routing`. A connection's
planner has `last`, the input of its last response; `chain` is what the model had seen and said
by then, which the program does not have. `context` is what the model sees of a request,
by way of the response it continues after.

- `Reuse`, `Replace`, `Replaced`, `Dial`, `Dialed`, `DialFails`: `acquire`.
- `Extends`, `Rest` and `Seen`: `plan`; that a request differs from the connection's last one in
  more than its input, so that it is sent in full, is a choice of `Reuse` (`alike`).
  `Commit` and `Rollback`: what a planner makes of the end of a request; a response without
  an ID (`hasId`) resets it.
- `Send`, `Stream`, `Finish`, `Fail`: an attempt, which a reconnect code or a failure of
  a reused connection repeats once. `ServerDrops` is noticed at the next failure only.
- `Keep`, `Drop`, `Dropped`: `release`. `Close`, `Closed`: the LLM is closed, whoever uses
  the connection. The `Cancel...` actions are cancellation at each kind of await; `Halfway`
  is what a cancelled close leaves of a connection.

An input is a sequence of items, of which only who said them, and whether to the model or
by it, is kept. Not modelled: the contents of requests and the fallback to SSE.

### AcpPrompts

Prompts of sessions take turns under the session's `promptLock`; `sessions`, `states`,
`active` and `running` are the server's maps under one `lock`. A cancellation is requested
(`cancelling`) and delivered at the await the task is at.

- `Prompt`, `GetPromptLock`, `TakeTurn`, `MarkActive`, `Prepare`, `TurnEnds`,
  `MarkInactive`: `prompt_flow`.
- `Reloaded`, `Create`, `Publish`, `Refresh`, `Dispose`, `Raise`: a slash command that
  replaces the session's instance (`replace_instance_for_session`).
- `Cancel`, `Cancelled`, `CancelledAgain`: session/cancel, its delivery in the turn, and in
  the finally clause.
- `Load`, `Initialize`, `CreateSession`, `Initialized`, `Hydrated`, `LoadFails`, `Rollback`,
  `RolledBack`: session/new and session/load. Prompts are of sessions the client was told of.
- `Stop`, `CleanUp`, `DisposeSession`, `SessionDisposed`, `ClearAll`: the server stops:
  prompts with a task are cancelled and awaited, then instances are disposed of.

Not modelled: permissions, terminals, modes, what a turn says; a turn is one await here,
`ToolRunner` has what is inside.

## 4. The runs

Deadlock is checked in every run. Bounds are constants of the modules.

| Run | Question | States |
|---|---|---|
| `ToolRunner_pairing` | requests pair calls and results, and the turn implements `Conversation` | 1.7M |
| `ToolRunner_faults` | cancelled anywhere, with hooks, tools and the model failing: the turn ends, within its budget, with a final message; nothing runs twice; finished results are kept | 404k |
| `DurableProcess_launch` | one supervisor per record; stops and abandoned launches come to an end (fair) | 175k |
| `DurableProcess_capacity` | no more commands than the limit | 477k |
| `DurableProcess_retention` | no record goes while its command runs; ended records stay ended | 858k |
| `HarnessSessions_operations` | use against deletion, closing and pruning; one disposal | 1.3M |
| `HarnessSessions_lifecycle` | creation, folders, another process; close_all returns (fair) | 86k |
| `McpConnections_lifecycle` | one runtime per server; a working one is kept; calls return (fair) | 421k |
| `InstanceLeases_scopes` | leases are live and current; every instance is shut down once | 235k |
| `WebSocketPool_calls` | one call per connection; none forgotten; the model sees what was asked | 1.8M |
| `AcpPrompts_turns` | cancels find the turn; a turn's instance lives; none is forgotten; prompts end (fair) | 191k |

The runs whose expected result is a violation are in section 6.

Bounds, and why they are enough:

- `ToolRunner`: two turns, so that one is left in a state the next must heal; one
  restart; budgets 0, 1 and 2, which have the round that is refused, the one that is
  followed up and two in a row. `MaxCalls` = 6 is never the limit: a turn makes
  at most budget + 1 calls and one to finalize (which is proved).
- `DurableProcess`: two records and `MaxActive`, `MaxTerminal` of 0, 1 or 2 put both limits
  within reach; two clients are enough for each race of two parties, and supervisors
  are actors of their own. The launch run has one record, which is all a claim, a stop
  or an abandoned launch is about. The retention run has one client, with two supervisors
  that prune too.
- `HarnessSessions`: three tasks let a deletion, a close_all and an operation overlap on
  one of two sessions, where the window of one prunes the other; two tasks, three
  instances and a rival give one ID a second and a third record while the first is being
  removed.
- `McpConnections`: two callers and one server with two settings, of which one may use
  OAuth: every race is of two callers for one name. Two connections at a time are one in
  use and one that replaces it; a third caller adds waiters, not states of a connection.
- `InstanceLeases`: three requests, so that one works while one refreshes and one
  releases; two connections, one with an exit stack and one without; two reloads; four
  instances are the shared one and one for each request.
- `WebSocketPool`: two callers, two reuse keys and two connections, the reusable and a
  temporary one; inputs of up to three items have a follow-up with an answer in between.
- `AcpPrompts`: two prompts on two sessions, which are one running and one waiting or one
  on each; four instances are two in use and two that replace them.
- Symmetry is used over processes, clients, tasks, keys and IDs, in the runs without
  liveness properties only.

What the passing runs leave out, and where it is:

- `ToolRunner_pairing` does not cancel at `presented` and does not fail tools;
  `CancelKeepsResult` excepts the after-tool hook; `DurableProcess_capacity` does not kill
  supervisors, `DurableProcess_retention` lets no launch be late, and the
  `HarnessSessions` runs do not cancel at `load` and `end`. Section 6 has what happens there.
- The dispose loop of close_all is cancelled in `HarnessSessions_operations` only: nothing
  catches the cancellation, and the instances that are left are forgotten (`Accounted`
  fails), though none is disposed twice or while in use.
- For the size of the state space: the deferred schema and failing saves are off in
  `ToolRunner_faults`, and so is `NO_CALLS` (they are on in `ToolRunner_pairing`); the launch run kills clients
  but lets supervisors live; `HarnessSessions_operations` has three tasks but of the faults
  only failing disposals and cancellation at six awaits; `HarnessSessions_lifecycle` has
  the others with two tasks and one ID.
- In `McpConnections_lifecycle` both callers have a startup budget, and an operation is
  not cancelled; `InstanceLeases_scopes` shuts the pool down after its last request and
  does not cancel inside the shutdown of an instance; in `WebSocketPool_calls` callers say
  different things, and a request is not cancelled between sending and the end of the stream but
  while it waits; `AcpPrompts_turns` does not stop the server while a prompt waits
  for its turn or a session is loaded, and does not cancel a replacement that has begun to
  publish. Section 6 has what happens otherwise.

## 5. Fairness

- `ToolRunner`: weak fairness of the runner's own step. An await ends or raises: providers,
  tools and hooks have timeouts or answer. The user, cancellation and restarts are
  not fair.
- `DurableProcess`: programs that run go on (weak fairness of a client's and a
  supervisor's step, and of the stop check, which is made on every pass of the loop);
  SIGKILL, reaping and the clock work. `AbandonedSettles` needs in addition that someone
  looks: discovery is called again and again, and its scan is not killed every time (strong
  fairness), as every start of fast-agent and the process commands do. A command need not end.
- `HarnessSessions`: strong fairness of each task's step. `asyncio.Lock` wakes waiters
  in order and the drain loop polls, so a task that can enter again and again does.
  Nothing makes a task call anything.
- `McpConnections`: strong fairness of a caller's own steps (the anyio lock wakes waiters
  in order, a startup budget runs out) and weak fairness of a lifecycle's own steps (it
  runs, ends when it is cancelled and leaves when told to). Nothing is assumed of a server: it need not
  become ready, nor fail.
- `AcpPrompts`: strong fairness of each prompt and of the cleanup (asyncio locks wake waiters
  in order), weak fairness of the loader, which holds the lock until it is done. A turn of an
  agent ends, as `ToolRunner_faults` shows of the tool loop; nobody need cancel or stop anything.

## 6. Where the code and its promises differ

Each of these configurations ends in a violation, whose trace is the behaviour:

| Configuration | Property | What happens |
|---|---|---|
| `WebSocketPool_same_prompt` | `ContextMatches` | after two callers said the same on one connection, the follow-up of the first is sent as a continuation of the answer to the second: the planner compares inputs, not answers (`responses_websocket.py:455`), while its docstring speaks of "safe continuations" (`:429`) |
| `ToolRunner_late_cancel` | `RequestsPaired` | a turn cancelled while its second tool-use answer is displayed answers it with the previous round's result (`tool_runner.py:828`; tests/unit/fast_agent/agents/test_tool_runner_max_iterations.py:102 asserts `requests == results`) |
| `ToolRunner_tool_error` | `RequestsPaired` | a failed tool step leaves a call without a result that no later turn heals (`tool_runner.py:909`) |
| `ToolRunner_hook_cancel` | `CompletedResultKept` | a cancellation in the after-tool hook drops the completed result (`tool_runner.py:654`; test_tool_runner_cancelled_history.py:290 is named `test_external_cancel_after_completed_tool_preserves_real_result`) |
| `DurableProcess_late_tombstone` | `ExitKept` | `get` overwrites the exit the supervisor has just written (`durable_processes.py:633`; `:99` says "The latest atomically-written supervisor state.") |
| `HarnessSessions_cancelled_creation` | `ClosedForGood` | an instance whose creation is cancelled is never disposed (`live_session_registry.py:80` catches `Exception`; `harness.py:457` says "Close all live harness sessions and dispose their instances.") |
| `McpConnections_lost_waiter` | `WaitersReleased` | a startup that one caller cancels ends with a CancelledError that passes `except Exception`, and `_initialized_event` is never set: another caller, without a budget, waits for ever (`mcp_connection_manager.py:455`; the docstring of `is_initialized`, `:256`, speaks of success or failure) |

The first is a run of `PROJECT.json` and a finding there; the configurations of the
others are kept beside it.

Further behaviours the models have and the passing runs keep out of their properties.
To see one, change the constant named in the run named:

| Run | Change | Property | What happens |
|---|---|---|---|
| `ToolRunner_hook_cancel` | `Failing = {"llm"}`, `Interruptible = {}` | `CompletedResultKept` | the LLM call after a completed tool raises: the file has the result, the agent says the user interrupted the call |
| `ToolRunner_pairing` | add the property | `CancelledStops` without `finalizing'` | with a deferred schema a CANCELLED answer is followed by the finalization call, while docs/docs/guides/codex.md:95 says that cancellation still stops the turn |
| `DurableProcess_capacity` | `Faults = {"supervisor"}` | `ActiveBounded` | a command whose supervisor was killed runs on and is not counted |
| `DurableProcess_retention` | `MayLag = {"created", "starting"}`, two clients, add the property | `TombstoneOnlyWhenGone` | the judgement of an old status buries a launch that is alive |
| `HarnessSessions_operations` | `"end"` in `Interruptible`, add the invariant | `BusyOnlyWhileRunning` | a call cancelled while it waits to end its operation leaves the session busy for ever |
| `McpConnections_lifecycle` | add the invariant | `ReturnedReady` | `get_server` returns a startup in progress to its second caller: a client that exists counts as healthy before it is initialized |
| `InstanceLeases_scopes` | add the invariant | `DefinitionsCurrent` | a reload while an instance is built: its definitions are the old ones, its label is the new version (`managed_runtime.py:230`), and no later request refreshes it |
| `InstanceLeases_scopes` | `Drained = FALSE` | `LeaseSafe` | a shutdown that does not wait for the requests disposes of what they use |
| `InstanceLeases_scopes` | `"shutting"` in `Interruptible` | `ShutDownOnce` | an instance whose shutdown is cancelled is managed by nobody any more and stays half shut down |
| `AcpPrompts_turns` | `Queued = TRUE` | `TurnLive` | a prompt that waits for its turn when the server stops has no task yet: it is not cancelled, and runs on an instance that is disposed of. A session that is loaded meanwhile is neither cancelled nor awaited; that the rollback of a load takes it off the map over which the stop is iterating (`agent_acp_server.py:1034`, `:1045`), which ends the iteration with an error, is not modelled |
| `AcpPrompts_turns` | `"publish"`, `"refresh"` and `"dispose"` in `Interruptible` | `InstancesKept` | a slash command cancelled halfway through a replacement forgets the old instance or the new one |
| `AcpPrompts_turns` | add the invariant | `ActiveOnlyWhilePrompted` | a prompt cancelled a second time, in its finally clause, leaves its session in `active_prompts` until the next prompt |

Some behaviours are part of the passing runs, and the properties say so. In
`McpConnections`, a connection that another caller has just launched counts as unhealthy until its
lifecycle task begins, and is shut down; a cancelled disconnect leaves an entry whose shutdown
is requested, which counts as healthy; and a waiter whose budget is spent tears down the connection
others use (`WorkingKept` excepts it). In `WebSocketPool`, a call cancelled in its release
leaves its connection open, and busy if it is the reusable one (`Owned` excepts these by
`lost`); and closing the LLM while a request runs lets the request's retry open a new connection.

## 7. What is proved

For all values of the constants that satisfy the modules' assumptions, and checked by
TLAPS to the last leaf:

- `ToolRunner_proofs`. `TypeCorrect`; `BudgetSafe` (`BudgetRespected`),
  `FinalMessageSafe` (`FinalMessage`), `NeverRerunSafe` (`NeverRerun`). The budget is
  not inductive by itself: `LoopInv` says how the calls of the turn and
  `iteration` are related at each program point, as the round is charged only
  after its tools ran, and what `last`, `pendingReq` and `staged` are there.
  `ExecInv` says that every batch that ran has a number up to the number of calls and
  that the pending one has not run before its tools start.
  `CancelKeepsResultAlways` (`CancelKeepsResult`) and `CancelledStopsAlways`
  (`CancelledStops`, which no run needs to check) hold whatever fails or is cancelled. They
  rest on `Noted`: no message is newer than the latest answer and only batches before the
  one at hand are completed (`Numbered`); what the runner holds at each await (`Latest`);
  and, for a turn that keeps a history, that an open call at the history's end is being
  presented or answered, or that the runner still holds its result (`Pending`).
  `TurnBounded`: `StepsLeft`, which counts the calls of the model the budget still allows and the
  distance to the next one, falls with every step of the loop and is a natural number. What
  `TurnEnds` adds, that the steps are taken, is left to TLC.
  `RequestsPairedSafe` (`RequestsPaired`) and `ConversationKept` (`KeepsConversation`)
  assume `Answered`: the turn is not cut off while an answer is presented, and no tool step
  fails. `Mended` is their invariant: the history and the file can be healed, that is, calls
  and results are paired but for an open call at the end that
  `reconcile_interrupted_history` recognizes, and what the next request will hold is whole. The
  refinement maps a save ahead of the agent (an error after a completed tool) to `Store`, a
  restart to `Resume`, every step that adds or saves to `Grow`, and the rest to stutters.
- `DurableProcess_proofs`. `TypeCorrect`; `LaunchedOnceSafe` (`LaunchedOnce`). The
  invariant `LaunchInv` says that at most one client is between its claim and its
  `Popen` for a record, that then no supervisor was started, and that an unclaimed record has none.
  `TerminalStaysAlways` (`TerminalStays`), `ActiveNotPrunedAlways` (`ActiveNotPruned`) and
  `TombstoneOnlyWhenGoneAlways` (`TombstoneOnlyWhenGone`) assume `Undisturbed`: a
  process is launched by the client that created it, and no heartbeat is late before the
  launch has published the supervisor. The lock does not make them true, as a status is
  read and acted on without it; `Sound` does. A process is undertaken from its
  creation until its launch is given up or its supervisor has written the last status; while it is,
  no status in the file or in anybody's hands lets it look abandoned (`Observed`), so it is
  neither removed nor declared unavailable (`Active`), and a last status is written only when the
  command has ended (`Ended`). `Buried` adds what becomes of a status that did look abandoned.
  `ActiveBoundedSafe` (`ActiveBounded`) assumes `Punctual`: no heartbeat is late and no
  supervisor is killed. Then whatever is undertaken counts for whoever counts (`Timely`), a
  count passes over none of them (`Counted`), and what is undertaken is within the limit when
  the lock is given back (`Bounded`).
- `HarnessSessions_proofs`. `TypeCorrect` needs more than types: `Holding` (a task at a
  program point of a record holds one) and `Bounded` (`made` and the creations under way stay within `MaxRecords`).
  `OneOperationSafe` (`OneOperation`) follows from `Busy`: a record some task operates
  on or ends on is active, and no two tasks are there for one record.
  `DisposedOnceSafe` (`DisposedOnce`), `OperationSafeAlways` (`OperationSafe`) and
  `ContentKeptAlways` (`ContentKept`) hold for every interruption and failure. Their
  invariant `Sound` follows an instance and its lease on the session's folder from the creation to the disposal: one task
  has the lock (`LockHeld`), records are numbered and loaded before they are published
  (`Numbered`, `Loading`, `Published`), a listed record's folder is leased (`Held`), and
  what is taken out to be disposed is in the hands of one task (`Deleting`, `Disposals`,
  `Draining`). `AccountedAlways` (`Accounted`) and `ClosedForGoodAlways` (`ClosedForGood`)
  assume `NothingLeft`: no load and no disposal of `close_all` is cancelled. They add that an open record
  is listed or being loaded (`Traced`), what `close_all` leaves (`Swept`, `Tidy`), and that
  nothing is listed after it has returned (`Emptied`).
- `McpConnections_proofs`. `TypeCorrect`; `OneRuntimeSafe` (`OneRuntime`);
  `WorkingKeptSafe` (`WorkingKept`). A task holds the lock wherever it awaits the end of a
  lifecycle (so at most one does), and what it awaits is still registered then: entries
  are popped by the holder only, once their connections are over, and a launch takes free
  names and connections that are over only. `CallBounded`: the steps left of a call
  (`StepsLeft`) are at most ten, and each one its caller takes leaves fewer, since a retry
  with OAuth is the call's only way back to the launch and `Retrying` says it is the
  first. `LockPassedOnSafe`: what is awaited with the lock held (`Told`) was told to end
  in the step that took the lock, and goes on to its end. Both are steps towards
  `CallsReturn` that need no fairness; that the lifecycles and the lock do move on stays
  with the run.
- `InstanceLeases_proofs`. `TypeCorrect`, with `Counting`: the pool's count is the number
  of requests that use the shared instance, which bounds it. `LeaseCurrentSafe`
  (`LeaseCurrent`): `Labelled` says that the pool's version is its instance's and that
  the registry's has only ever been ahead. `LeaseSafeSafe` (`LeaseSafe`), if `Drained`: what the
  pool and requests keep is `Intact`, live and on nobody's list of disposals (`Keeping`); it is kept in one
  place (`Distinct`), so that who takes something out takes it from nobody else;
  a lease is of something kept (`Leasing`), as stale instances go only when the count, and so the
  number of users, is zero. `ShutDownOnceSafe` (`ShutDownOnce`), if moreover no request is
  cancelled in the shutdown of an instance: `Todos` and `Managing` say that what is live is managed and that
  disposals are of different instances, `Halted` that what is being shut down has
  somebody at it, and `Ending` what the shutdown has left at each phase.
- `WebSocketPool_proofs`. `ExclusiveSafe` (`Exclusive`), `OwnedSafe` (`Owned`): calls at
  work have different, busy connections, the mutex is held by who closes or dials, and
  the only ways from one owner to another are a release and a cancelled one.
  `TypeCorrect` needs more than types, as nothing in the code bounds an input: `Told` says
  whose conversation each input, planner and request holds (`Conversations`, `Memory`, `Requests`)
  and that none outgrows the bound on it (`Noted`). `ContextMatchesSafe` (`ContextMatches`),
  for callers that say different things (`~Shared`), is then that a request that continues a
  response continues one to a prefix of its own caller's input.
- `AcpPrompts_proofs`. `TypeCorrect`. If the server does not stop while prompts wait
  or a session is loaded (`~Queued`), `CancelFindsSafe` (`CancelFinds`): `Taking` has who has the turn of a session
  and where the loader and the cleanup are; a rolled back session was never announced, so has no
  prompt. `TurnLiveSafe` (`TurnLive`) adds `Lives`: the maps name live, different instances, the ones on their way
  out are in neither map, and a turn's is its session's. `InstancesKeptSafe`
  (`InstancesKept`), if moreover a replacement is not cancelled once it has made its
  instance, adds that nothing live is outside.

The assumptions are the `ASSUME`s of the modules (finite sets of tasks, processes and
session IDs, None outside of them, natural bounds), which TLC evaluates in every run, and
the ones a theorem states itself. The passing run of the property satisfies the latter,
and without them the properties fail, as TLC shows:

| Assumption | Of | Without it |
|---|---|---|
| `Answered` | `RequestsPairedSafe`, `ConversationKept` | both fail in `ToolRunner_late_cancel` (an answer cut off by a cancellation) and `ToolRunner_tool_error` (a failing hook; with `Failing = {"runTools"}`, a failing tool). With `Failing = {"presented"}` in the former, `KeepsConversation` fails, and with a restart `RequestsPaired` |
| `Undisturbed` | `TerminalStaysAlways`, `ActiveNotPrunedAlways`, `TombstoneOnlyWhenGoneAlways` | in `DurableProcess_retention` with two clients: `"starting"` in `MayLag` refutes the first and the last, `"created"` with it and `MaxTerminal = 0` the second; `"relaunch"` in `Uses`, with `Faults = {"client", "spawn"}`, refutes the first and the last. That the second needs it is not known: it holds with `"relaunch"` for two processes and two clients |
| `Punctual` | `ActiveBoundedSafe` | in `DurableProcess_capacity`: refuted by `MayLag = {"running", "stopping"}`, by `"supervisor"` in `Faults`, and by `"relaunch"` in `Uses` with `"spawn"` in `Faults` and `MaxTerminal = 0` (and `CHECK_DEADLOCK FALSE`, as the processes may be used up) |
| `NothingLeft` | `AccountedAlways`, `ClosedForGoodAlways` | `HarnessSessions_cancelled_creation`; `"disposeAll"` in `Interruptible` of `HarnessSessions_lifecycle`, with two session IDs |
| `Drained`, no cancellation in a shutdown | `LeaseSafeSafe`, `ShutDownOnceSafe` | section 6 |
| `~Shared` | `ContextMatchesSafe` | `WebSocketPool_same_prompt` |
| `~Queued`, no cancellation halfway through a replacement | `CancelFindsSafe`, `TurnLiveSafe`, `InstancesKeptSafe` | section 6 |

Only model-checked: the liveness properties (`TurnEnds`, `StopHonoured`,
`AbandonedSettles`, `CloseCompletes`, `CallsReturn`, `PromptsEnd`), which are out of the
prover's reach. Every invariant and every action property of a passing run is proved.

## 8. Running

    tlc -workers 2 -config ToolRunner_pairing.cfg MCToolRunner
    tlapm ToolRunner_proofs.tla

A configuration `M_x.cfg` belongs to the module `MCM`: `MCToolRunner`,
`MCDurableProcess`, `MCHarnessSessions`, `MCMcpConnections`, `MCInstanceLeases`,
`MCWebSocketPool`, `MCAcpPrompts`. The theorems about a module `M` are in `M_proofs`.
Definitions named `Bug...` are defects a change of the code could bring in; none of them is
part of a specification.
