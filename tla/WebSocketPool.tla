--------------------------- MODULE WebSocketPool ---------------------------
(***************************************************************************)
(* The WebSockets of the Responses providers: WebSocketConnectionManager,  *)
(* the continuation planner of llm/provider/openai/responses_websocket.py, *)
(* and the loop of attempts of _responses_completion_ws in responses.py.   *)
(*                                                                         *)
(* Calls of one LLM share one reusable connection and dial a temporary one *)
(* when it is busy. The manager's mutex is held while a connection is      *)
(* dialed or closed. A planner belongs to a connection: when the input of  *)
(* a call extends the one of the connection's last response, only the rest *)
(* is sent, after that response. An action runs from one await to the next.*)
(*                                                                         *)
(* An input is a sequence of what the client said and of answers. Answers  *)
(* to one task are not told apart by anything but their place.             *)
(***************************************************************************)
EXTENDS Integers, Sequences, FiniteSets, SequencesExt

CONSTANTS
    Tasks,         \* the callers, each with its own conversation
    Main,          \* who closes the LLM
    None,          \* nobody
    Keys,          \* reuse keys: url and headers
    MaxConns,      \* bound: connections at a time
    MaxItems,      \* bound: items of an input
    Shared,        \* whether callers may say the same
    Interruptible  \* the awaits at which a call may be cancelled

Actors == Tasks \cup {Main}
Conns == 1..MaxConns
Awaits == {"acquire", "closing", "dialing", "sending", "waiting", "streaming", "release",
           "releasing"}

(* What task t says, and what is answered to it. *)
Prompt(t) == IF Shared THEN <<"user", None>> ELSE <<"user", t>>
Answer(t) == <<"model", t>>
Items == {Prompt(t) : t \in Tasks} \cup {Answer(t) : t \in Tasks}
Inputs == BoundedSeq(Items, MaxItems + 1)

ASSUME ActorsAssumption == Main \notin Tasks /\ None \notin Actors \cup Keys
ASSUME KeysAssumption == Keys # {}
ASSUME BoundsAssumption == MaxConns \in Nat \ {0} /\ MaxItems \in Nat
ASSUME SharedAssumption == Shared \in BOOLEAN
ASSUME InterruptibleAssumption == Interruptible \subseteq Awaits

VARIABLES
    mutex,     \* holder of the manager's mutex
    pooled,    \* _reusable_connection, or 0
    life,      \* of a connection; "dropped" by the server, unnoticed here
    busy,      \* connections marked busy
    used,      \* connections whose last_used_monotonic is not 0
    routing,   \* reuse_key of a connection
    last,      \* planner: _last_input_fingerprints, or <<>> after a reset
    chain,     \* what the model had seen and said at the planner's response
    pc,        \* where each actor is
    conn,      \* the connection of an actor, or 0
    reusable,  \* is_reusable of an attempt
    reused,    \* reused_existing_connection of an attempt
    attempt,   \* number of the attempt of a call
    keep,      \* keep_connection of an attempt
    retry,     \* retry_after_release of an attempt
    said,      \* the conversation of a task
    input,     \* the input of the call of a task
    wanted,    \* the reuse key of the call of a task
    lost,      \* connections whose release was cancelled
    context    \* what the model sees of the request of a task

pool == <<mutex, pooled, life, busy, used, routing>>
planner == <<last, chain>>
flags == <<reusable, reused, attempt, keep, retry>>
call == <<said, input, wanted>>
vars == <<pool, planner, pc, conn, flags, call, context, lost>>

----------------------------------------------------------------------------
Goto(a, to) == pc' = [pc EXCEPT ![a] = to]
Lock(a) == mutex = None /\ mutex' = a
Unlocked(a) == IF mutex = a THEN None ELSE mutex
Unused == {c \in Conns : life[c] = "closed" /\ c # pooled /\ \A a \in Actors : conn[a] # c}

Init ==
    /\ mutex = None /\ pooled = 0
    /\ life = [c \in Conns |-> "closed"]
    /\ busy = {} /\ used = {}
    /\ routing = [c \in Conns |-> None]
    /\ last = [c \in Conns |-> <<>>] /\ chain = last
    /\ pc = [a \in Actors |-> "idle"] /\ conn = [a \in Actors |-> 0]
    /\ reusable = [t \in Tasks |-> FALSE] /\ reused = reusable
    /\ keep = reusable /\ retry = reusable
    /\ attempt = [t \in Tasks |-> 0] /\ lost = {}
    /\ said = [t \in Tasks |-> <<>>] /\ input = said /\ context = said
    /\ wanted = [t \in Tasks |-> None]

(* Connection c is closed; what it was is forgotten. *)
Bury(c) ==
    /\ life' = [life EXCEPT ![c] = "closed"]
    /\ busy' = busy \ {c} /\ used' = used \ {c}
    /\ routing' = [routing EXCEPT ![c] = None]
    /\ last' = [last EXCEPT ![c] = <<>>] /\ chain' = [chain EXCEPT ![c] = <<>>]

(* An attempt is over, and perhaps its call; what it was is forgotten. *)
Leave(t, again, isAnswered) ==
    /\ conn' = [conn EXCEPT ![t] = 0]
    /\ context' = [context EXCEPT ![t] = <<>>]
    /\ reusable' = [reusable EXCEPT ![t] = FALSE] /\ reused' = [reused EXCEPT ![t] = FALSE]
    /\ keep' = [keep EXCEPT ![t] = FALSE] /\ retry' = [retry EXCEPT ![t] = FALSE]
    /\ attempt' = [attempt EXCEPT ![t] = IF again THEN 1 ELSE 0]
    /\ said' = [said EXCEPT ![t] = IF isAnswered THEN Append(input[t], Answer(t)) ELSE @]
    /\ input' = [input EXCEPT ![t] = IF again THEN @ ELSE <<>>]
    /\ wanted' = [wanted EXCEPT ![t] = IF again THEN @ ELSE None]
    /\ Goto(t, IF again THEN "acquire" ELSE "idle")

----------------------------------------------------------------------------
(* A caller says the next thing, or starts over. *)

Call(t, k, s) ==
    /\ pc[t] = "idle" /\ s \in {said[t], <<>>} /\ Len(s) < MaxItems
    /\ input' = [input EXCEPT ![t] = Append(s, Prompt(t))]
    /\ wanted' = [wanted EXCEPT ![t] = k]
    /\ attempt' = [attempt EXCEPT ![t] = 0]
    /\ Goto(t, "acquire")
    /\ UNCHANGED <<pool, planner, conn, reusable, reused, keep, retry, said, context, lost>>

----------------------------------------------------------------------------
(* acquire *)

Open(c) == c # 0 /\ life[c] \in {"open", "dropped"}
BugFree == Open(pooled)

Free == Open(pooled) /\ pooled \notin busy
Matches(t) == routing[pooled] = wanted[t]

(* plan: continue after the connection's last response if the input extends *)
(* its input; answers at the front of the rest are not sent again.          *)
BugExtends(c, s) == last[c] # <<>> /\ Len(last[c]) < Len(s)

Extends(c, s) == last[c] # <<>> /\ IsStrictPrefix(last[c], s)

Stripped(s) ==
    LET first == SelectInSeq(s, LAMBDA item : item[1] = "user")
    IN IF first = 0 THEN <<>> ELSE SubSeq(s, first, Len(s))

BugRest(c, s) == SubSeq(s, Len(last[c]) + 1, Len(s))

Rest(c, s) == Stripped(SubSeq(s, Len(last[c]) + 1, Len(s)))

Seen(c, s) == IF Extends(c, s) /\ Rest(c, s) # <<>> THEN chain[c] \o Rest(c, s) ELSE s

(* An attempt has connection c, marked busy. *)
Attempt(t, c, isReusable, again) ==
    /\ conn' = [conn EXCEPT ![t] = c]
    /\ busy' = busy \cup {c}
    /\ reusable' = [reusable EXCEPT ![t] = isReusable]
    /\ reused' = [reused EXCEPT ![t] = isReusable /\ again]
    /\ keep' = [keep EXCEPT ![t] = FALSE]
    /\ retry' = [retry EXCEPT ![t] = FALSE]
    /\ Goto(t, "sending")

(* alike: the request is as the connection's last one in all but its input. *)
Reuse(t, alike) ==
    /\ pc[t] = "acquire" /\ mutex = None
    /\ Free /\ Matches(t)
    /\ Attempt(t, pooled, TRUE, pooled \in used)
    /\ context' = [context EXCEPT ![t] = IF alike THEN Seen(pooled, input[t]) ELSE input[t]]
    /\ UNCHANGED <<mutex, pooled, life, used, routing, planner, attempt, call, lost>>

(* The reusable connection is idle for too long, too old, or not usable. *)
Replace(t, expired) ==
    /\ pc[t] = "acquire" /\ Lock(t) /\ pooled # 0
    /\ IF pooled \in busy THEN ~Open(pooled)
                          ELSE expired \/ ~Open(pooled) \/ ~Matches(t)
    /\ Goto(t, "closing")
    /\ UNCHANGED <<pooled, life, busy, used, routing, planner, conn, flags, call, context, lost>>

Replaced(t) ==
    /\ pc[t] = "closing"
    /\ Bury(pooled)
    /\ pooled' = 0
    /\ Goto(t, "dialing")
    /\ UNCHANGED <<mutex, conn, flags, call, context, lost>>

Dial(t) ==
    /\ pc[t] = "acquire" /\ Lock(t)
    /\ pooled = 0 \/ (pooled \in busy /\ Open(pooled))
    /\ Goto(t, "dialing")
    /\ UNCHANGED <<pooled, life, busy, used, routing, planner, conn, flags, call, context, lost>>

Dialed(t) ==
    /\ pc[t] = "dialing" /\ Unused # {}
    /\ LET c == CHOOSE d \in Unused : TRUE
       IN /\ life' = [life EXCEPT ![c] = "open"]
          /\ routing' = [routing EXCEPT ![c] = wanted[t]]
          /\ lost' = lost \ {c}
          /\ pooled' = IF pooled = 0 THEN c ELSE pooled
          /\ Attempt(t, c, pooled = 0, FALSE)
    /\ context' = [context EXCEPT ![t] = input[t]]
    /\ mutex' = None
    /\ UNCHANGED <<used, planner, attempt, call>>

DialFails(t) ==
    /\ pc[t] = "dialing"
    /\ Leave(t, FALSE, FALSE)
    /\ mutex' = None
    /\ UNCHANGED <<pooled, life, busy, used, routing, planner, lost>>

----------------------------------------------------------------------------
(* The request: sent, its stream, and how it ends. *)

(* What the request was is forgotten. *)
Requested(t) ==
    /\ reused' = [reused EXCEPT ![t] = FALSE]
    /\ context' = [context EXCEPT ![t] = <<>>]
    /\ Goto(t, "release")

Send(t) ==
    /\ pc[t] = "sending" /\ life[conn[t]] = "open"
    /\ Goto(t, "waiting")
    /\ UNCHANGED <<pool, planner, conn, flags, call, context, lost>>

Stream(t) ==
    /\ pc[t] = "waiting" /\ life[conn[t]] = "open"
    /\ Goto(t, "streaming")
    /\ UNCHANGED <<pool, planner, conn, flags, call, context, lost>>

Rollback(c) ==
    /\ last' = [last EXCEPT ![c] = <<>>]
    /\ chain' = [chain EXCEPT ![c] = <<>>]

Commit(t) ==
    /\ last' = [last EXCEPT ![conn[t]] = input[t]]
    /\ chain' = [chain EXCEPT ![conn[t]] = Append(context[t], Answer(t))]

(* The planner of a temporary connection is reset when its call is over, and *)
(* that of any connection by a response without an ID.                       *)
Finish(t, hasId) ==
    /\ pc[t] = "streaming" /\ life[conn[t]] = "open"
    /\ IF reusable[t] /\ hasId THEN Commit(t) ELSE Rollback(conn[t])
    /\ keep' = [keep EXCEPT ![t] = TRUE]
    /\ Requested(t)
    /\ UNCHANGED <<pool, conn, reusable, attempt, retry, call, lost>>

(* why: an error code that asks to reconnect, a timeout, or anything else. *)
MayRetry(t, why) ==
    /\ attempt[t] = 0 /\ pc[t] # "streaming"
    /\ \/ why = "code"
       \/ why = "other" /\ reused[t]

Fail(t, why) ==
    /\ pc[t] \in {"sending", "waiting", "streaming"}
    /\ pc[t] = "sending" => why = "other"
    /\ Rollback(conn[t])
    /\ retry' = [retry EXCEPT ![t] = MayRetry(t, why)]
    /\ life' = [life EXCEPT ![conn[t]] = IF @ = "dropped" THEN "noticed" ELSE @]
    /\ Requested(t)
    /\ UNCHANGED <<mutex, pooled, busy, used, routing, conn, reusable, attempt, keep, call, lost>>

ServerDrops(c) ==
    /\ life[c] = "open"
    /\ life' = [life EXCEPT ![c] = "dropped"]
    /\ UNCHANGED <<mutex, pooled, busy, used, routing, planner, pc, conn, flags, call, context, lost>>

----------------------------------------------------------------------------
(* release *)

Return(t) == Leave(t, retry[t], keep[t])

BugKept(t, tooOld) == keep[t] /\ Open(conn[t]) /\ ~tooOld

Kept(t, tooOld) ==
    reusable[t] /\ conn[t] = pooled /\ keep[t] /\ Open(conn[t]) /\ ~tooOld

Keep(t) ==
    /\ pc[t] = "release" /\ mutex = None /\ Kept(t, FALSE)
    /\ busy' = busy \ {conn[t]}
    /\ used' = used \cup {conn[t]}
    /\ Return(t)
    /\ UNCHANGED <<mutex, pooled, life, routing, planner, lost>>

Drop(t, tooOld) ==
    /\ pc[t] = "release" /\ Lock(t) /\ ~Kept(t, tooOld)
    /\ Goto(t, "releasing")
    /\ UNCHANGED <<pooled, life, busy, used, routing, planner, conn, flags, call, context, lost>>

Dropped(t) ==
    /\ pc[t] = "releasing"
    /\ Bury(conn[t])
    /\ pooled' = IF reusable[t] /\ pooled = conn[t] THEN 0 ELSE pooled
    /\ mutex' = None
    /\ Return(t)
    /\ UNCHANGED lost

----------------------------------------------------------------------------
(* close of the LLM: the reusable connection, whoever uses it *)

Close ==
    /\ pc[Main] = "idle" /\ Lock(Main) /\ pooled # 0
    /\ conn' = [conn EXCEPT ![Main] = pooled]
    /\ pooled' = 0
    /\ Goto(Main, "closing")
    /\ UNCHANGED <<life, busy, used, routing, planner, flags, call, context, lost>>

Closed ==
    /\ pc[Main] = "closing"
    /\ Bury(conn[Main])
    /\ conn' = [conn EXCEPT ![Main] = 0]
    /\ mutex' = None
    /\ Goto(Main, "idle")
    /\ UNCHANGED <<pooled, flags, call, context, lost>>

----------------------------------------------------------------------------
(* Cancellation. During a request the finally clause releases; nothing      *)
(* closes a connection whose release is cancelled itself.                   *)

GiveUp(t) ==
    /\ Leave(t, FALSE, FALSE)
    /\ mutex' = Unlocked(t)
    /\ UNCHANGED <<pooled, busy, used, routing, planner>>

CancelAcquire(t) ==
    /\ pc[t] \in {"acquire", "dialing"} \cap Interruptible
    /\ GiveUp(t)
    /\ UNCHANGED <<life, lost>>

(* Of a close that is cancelled, the socket may be closed without being      *)
(* marked, or the client left open; what is closed already stays so.         *)
Halfway(c, left) ==
    /\ life[c] = "noticed" => left = "noticed"
    /\ life' = [life EXCEPT ![c] = IF @ = "closed" THEN @ ELSE left]

CancelClosing(t, left) ==
    /\ pc[t] \in {"closing"} \cap Interruptible
    /\ Halfway(pooled, left)
    /\ GiveUp(t)
    /\ UNCHANGED lost

CancelRequest(t) ==
    /\ pc[t] \in {"sending", "waiting", "streaming"} \cap Interruptible
    /\ Rollback(conn[t])
    /\ Requested(t)
    /\ UNCHANGED <<pool, conn, reusable, attempt, keep, retry, call, lost>>

CancelRelease(t, left) ==
    /\ pc[t] \in {"release", "releasing"} \cap Interruptible
    /\ IF pc[t] = "releasing" THEN Halfway(conn[t], left) ELSE UNCHANGED life
    /\ GiveUp(t)
    /\ lost' = lost \cup {conn[t]}

----------------------------------------------------------------------------
Step(t) ==
    \/ \E k \in Keys, s \in {said[t], <<>>} : Call(t, k, s)
    \/ \E alike \in BOOLEAN : Reuse(t, alike)
    \/ \E expired \in BOOLEAN : Replace(t, expired)
    \/ Replaced(t) \/ Dial(t) \/ Dialed(t) \/ DialFails(t)
    \/ Send(t) \/ Stream(t) \/ \E hasId \in BOOLEAN : Finish(t, hasId)
    \/ \E why \in {"code", "timeout", "other"} : Fail(t, why)
    \/ Keep(t) \/ \E tooOld \in BOOLEAN : Drop(t, tooOld)
    \/ Dropped(t)
    \/ CancelAcquire(t) \/ CancelRequest(t)
    \/ \E left \in {"dropped", "noticed"} : CancelClosing(t, left) \/ CancelRelease(t, left)

Next ==
    \/ \E t \in Tasks : Step(t)
    \/ \E c \in Conns : ServerDrops(c)
    \/ Close \/ Closed

Spec == Init /\ [][Next]_vars

----------------------------------------------------------------------------
Lives == {"closed", "open", "dropped", "noticed"}

TypeOK ==
    /\ mutex \in Actors \cup {None}
    /\ pooled \in Conns \cup {0}
    /\ life \in [Conns -> Lives]
    /\ busy \subseteq Conns /\ used \subseteq Conns /\ lost \subseteq Conns
    /\ routing \in [Conns -> Keys \cup {None}] /\ wanted \in [Tasks -> Keys \cup {None}]
    /\ \A c \in Conns : last[c] \in Inputs /\ chain[c] \in Inputs
    /\ pc \in [Actors -> {"idle"} \cup Awaits]
    /\ conn \in [Actors -> Conns \cup {0}]
    /\ attempt \in [Tasks -> {0, 1}]
    /\ \A f \in {reusable, reused, keep, retry} : f \in [Tasks -> BOOLEAN]
    /\ \A t \in Tasks : said[t] \in Inputs /\ input[t] \in Inputs /\ context[t] \in Inputs

Requesting == {"sending", "waiting", "streaming"}

(* Two calls never speak on one connection, although a connection is handed  *)
(* over between calls, closed under them and left busy by cancelled ones.    *)
Exclusive ==
    \A t, u \in Tasks : t # u /\ pc[t] \in Requesting /\ pc[u] \in Requesting
                            => conn[t] # conn[u]

(* Every connection that is not closed is the reusable one, in the hands of  *)
(* who will close it, or one whose release was cancelled; the reusable one   *)
(* is marked busy only for a call that has it, and the mutex is held only by *)
(* who closes or dials.                                                      *)
Owned ==
    /\ \A c \in Conns \ lost :
         /\ life[c] # "closed" => c = pooled \/ \E a \in Actors : conn[a] = c
         /\ c = pooled /\ c \in busy => \E t \in Tasks : conn[t] = c
    /\ mutex # None => pc[mutex] \in {"closing", "dialing", "releasing"}

(* What the model sees of a request, by way of the response it continues     *)
(* after, is the input of the call: nothing of another conversation, nothing *)
(* missing. Does not hold if two callers may say the same (Shared): the      *)
(* planner compares what was sent, not what was answered.                    *)
ContextMatches ==
    \A t \in Tasks : pc[t] \in Requesting => context[t] = input[t]

=============================================================================
