--------------------------- MODULE AcpPrompts_proofs ---------------------------
(***************************************************************************)
(* Theorems about AcpPrompts, for every set of prompts and sessions, every *)
(* number of instances and every await at which prompts are cancelled: the *)
(* types; and, if the server stops only while no prompt waits for its turn *)
(* and no session is loaded, that a cancel finds the prompt it is for and  *)
(* that no turn loses its instance.                                        *)
(***************************************************************************)
EXTENDS AcpPrompts, TLAPS

-----------------------------------------------------------------------------
(* A prompt has a session, and so has the loader at work.                  *)
Typed ==
    /\ TypeOK
    /\ \A t \in Tasks : pc[t] # "idle" => S(t) \in Sessions
    /\ loading # "idle" => target \in Sessions

(* A prompt is for a session the client knows; it holds the prompt lock    *)
(* from its turn on, and is the session's task once it is marked active.   *)
Turns ==
    /\ \A t \in Tasks : pc[t] # "idle" => S(t) \in announced
    /\ \A t \in Tasks : pc[t] \in {"mark"} \cup Awaits => promptLock[S(t)] = t
    /\ \A t \in Tasks : pc[t] \in Awaits => running[S(t)] = t

(* The client does not know the session that is being created: what the    *)
(* loader rolls back has no prompts.                                       *)
Loads ==
    /\ loading \in {"idle", "init"} => ~created
    /\ loading \in {"create", "rollback"} => created
    /\ loading = "create" => states[target] = 0
    /\ loading \in {"overlay", "hydrate"} => states[target] # 0
    /\ created => target \notin announced
    /\ stop # "done" => \A s \in announced : states[s] # 0

(* When the server stops, the loader is done and every prompt that is left *)
(* is waited for.                                                          *)
Stopped ==
    stop # "serving" =>
        /\ loading = "idle"
        /\ \A t \in Tasks : /\ pc[t] \notin Waiting
                            /\ pc[t] # "idle" => t \in awaited /\ stop = "gather"

-----------------------------------------------------------------------------
LEMMA NewUnused ==
    Unused # {} => /\ New \in Instances /\ New # 0 /\ state[New] = "none"
                   /\ \A s \in Sessions : New # sessions[s] /\ New # states[s]
<1> SUFFICES ASSUME Unused # {} PROVE New \in Unused
  BY BoundAssumption DEF Unused, Held, Instances
<1> QED
  BY DEF New

LEMMA InitTyped == Init => Typed
<1> SUFFICES ASSUME Init PROVE TypeOK /\ pc = [t \in Tasks |-> "idle"] /\ loading = "idle"
  BY DEF Typed
<1> QED
  BY DEF Init, TypeOK

LEMMA StepTyped ==
    ASSUME Typed, [Next]_vars
    PROVE  Typed'
<1> USE DEF Typed, TypeOK, S, Goto, At, Waiting, Awaits, InTry, Turn, Replacing, maps, prompts,
            loads, cleanup
<1>1. ASSUME NEW t \in Tasks, Go(t)
      PROVE  Typed'
  <2>1. CASE GetPromptLock(t) \/ TakeTurn(t) \/ MarkActive(t)
    BY <2>1 DEF GetPromptLock, TakeTurn, MarkActive
  <2>2. ASSUME NEW to \in {"turn", "reload"}, Prepare(t, to)
        PROVE  Typed'
    BY <2>2 DEF Prepare, EndTry
  <2>3. CASE TurnEnds(t)
    BY <2>3 DEF TurnEnds, EndTry
  <2>4. CASE MarkInactive(t)
    BY <2>4 DEF MarkInactive, Forget, Return
  <2>5. ASSUME NEW changed \in BOOLEAN, Reloaded(t, changed)
        PROVE  Typed'
    BY <2>5 DEF Reloaded, EndTry
  <2>6. CASE Create(t)
    BY <2>6, NewUnused DEF Create, Becomes
  <2>7. CASE Publish(t)
    BY <2>7 DEF Publish
  <2>8. CASE Refresh(t) \/ Dispose(t)
    BY <2>8 DEF Refresh, Dispose, Becomes, EndTry
  <2>9. CASE Raise(t) \/ Cancelled(t)
    BY <2>9 DEF Raise, Cancelled, EndTry
  <2>10. CASE CancelledAgain(t)
    BY <2>10 DEF CancelledAgain, Return
  <2> QED
    BY <1>1, <2>1, <2>2, <2>3, <2>4, <2>5, <2>6, <2>7, <2>8, <2>9, <2>10 DEF Go
<1>2. ASSUME NEW t \in Tasks, NEW s \in Sessions, Prompt(t, s)
      PROVE  Typed'
  BY <1>2 DEF Prompt
<1>3. CASE LoaderGoes
  <2>1. CASE Initialize
    BY <2>1 DEF Initialize
  <2>2. CASE CreateSession
    BY <2>2, NewUnused DEF CreateSession, Becomes
  <2>3. ASSUME NEW isNew \in BOOLEAN, Initialized(isNew)
        PROVE  Typed'
    BY <2>3 DEF Initialized, Respond
  <2>4. CASE Hydrated
    BY <2>4 DEF Hydrated, Respond
  <2>5. CASE LoadFails
    BY <2>5 DEF LoadFails, LoadEnds
  <2>6. CASE Rollback
    BY <2>6 DEF Rollback, Becomes
  <2>7. CASE RolledBack
    BY <2>7 DEF RolledBack, LoadEnds, Becomes
  <2> QED
    BY <1>3, <2>1, <2>2, <2>3, <2>4, <2>5, <2>6, <2>7 DEF LoaderGoes
<1>4. CASE CleanupGoes
  BY <1>4 DEF CleanupGoes, CleanUp, ClearAll, DisposeSession, SessionDisposed, Becomes
<1>5. ASSUME NEW s \in Sessions, Load(s) \/ Cancel(s)
      PROVE  Typed'
  BY <1>5 DEF Load, Cancel
<1>6. CASE Stop
  BY <1>6 DEF Stop
<1>7. CASE Over \/ UNCHANGED vars
  BY <1>7 DEF Over, vars
<1> QED
  BY <1>1, <1>2, <1>3, <1>4, <1>5, <1>6, <1>7 DEF Next

(* Every variable stays in its domain.                                     *)
THEOREM TypeCorrect == Spec => []TypeOK
<1>1. Init => Typed
  BY InitTyped
<1>2. Typed /\ [Next]_vars => Typed'
  BY StepTyped
<1>3. Typed => TypeOK
  BY DEF Typed
<1> QED
  BY <1>1, <1>2, <1>3, PTL DEF Spec

-----------------------------------------------------------------------------
(* A cancel finds its prompt                                               *)

Taking == Typed /\ Turns /\ Loads /\ Stopped

LEMMA NoneApart == None \notin Tasks /\ None \notin Sessions
  BY ActorsAssumption

(* Prompts whose turn it is are of different sessions.                     *)
LEMMA OneTurn ==
    ASSUME Turns, NEW t \in Tasks, NEW u \in Tasks, t # u,
           pc[t] \in {"mark"} \cup Awaits, pc[u] \in {"mark"} \cup Awaits
    PROVE  S(t) # S(u)
  BY DEF Turns

LEMMA StepTurns ==
    ASSUME Taking, [Next]_vars
    PROVE  Turns'
<1> USE NoneApart DEF Taking, Typed, TypeOK, Turns, S, Goto, At, Waiting, Awaits, InTry, Turn,
                      Replacing, maps, prompts, loads, cleanup
<1>1. ASSUME NEW t \in Tasks, Go(t)
      PROVE  Turns'
  <2>1. CASE GetPromptLock(t)
    BY <2>1 DEF GetPromptLock
  <2>2. CASE TakeTurn(t)
    BY <2>2 DEF TakeTurn, MyTurn
  <2>3. CASE MarkActive(t)
    BY <2>3 DEF MarkActive
  <2>4. ASSUME NEW to \in {"turn", "reload"}, Prepare(t, to)
        PROVE  Turns'
    BY <2>4 DEF Prepare, EndTry
  <2>5. CASE TurnEnds(t)
    BY <2>5 DEF TurnEnds, EndTry
  <2>6. CASE MarkInactive(t)
    BY <2>6 DEF MarkInactive, Forget, Return
  <2>7. ASSUME NEW changed \in BOOLEAN, Reloaded(t, changed)
        PROVE  Turns'
    BY <2>7 DEF Reloaded, EndTry
  <2>8. CASE Create(t) \/ Publish(t) \/ Refresh(t)
    BY <2>8 DEF Create, Publish, Refresh
  <2>9. CASE Dispose(t) \/ Raise(t) \/ Cancelled(t)
    BY <2>9 DEF Dispose, Raise, Cancelled, EndTry
  <2>10. CASE CancelledAgain(t)
    BY <2>10 DEF CancelledAgain, Return
  <2> QED
    BY <1>1, <2>1, <2>2, <2>3, <2>4, <2>5, <2>6, <2>7, <2>8, <2>9, <2>10 DEF Go
<1>2. ASSUME NEW t \in Tasks, NEW s \in Sessions, Prompt(t, s)
      PROVE  Turns'
  BY <1>2 DEF Prompt
<1>3. CASE LoaderGoes
  <2>1. CASE Rollback
    BY <2>1 DEF Rollback, Loads
  <2>2. CASE ~Rollback
    <3>1. /\ UNCHANGED <<promptLock, running, pc, session>>
          /\ announced \subseteq announced'
      BY <1>3, <2>2 DEF LoaderGoes, Initialize, CreateSession, Initialized, Hydrated, Respond,
                        LoadFails, RolledBack, LoadEnds
    <3> QED
      BY <3>1
  <2> QED
    BY <2>1, <2>2
<1>4. CASE ClearAll
  BY <1>4 DEF ClearAll, Stopped
<1>5. CASE (CleanupGoes /\ ~ClearAll) \/ Stop \/ Over \/ UNCHANGED vars
  <2>1. UNCHANGED <<promptLock, running, pc, session, announced>>
    BY <1>5 DEF CleanupGoes, CleanUp, DisposeSession, SessionDisposed, Stop, Over, vars
  <2> QED
    BY <2>1
<1>6. ASSUME NEW s \in Sessions, Load(s) \/ Cancel(s)
      PROVE  Turns'
  BY <1>6 DEF Load, Cancel
<1> QED
  BY <1>1, <1>2, <1>3, <1>4, <1>5, <1>6 DEF Next

LEMMA StepLoads ==
    ASSUME Taking, [Next]_vars
    PROVE  Loads'
<1> USE DEF Taking, Typed, TypeOK, Loads, maps, prompts, loads, cleanup
<1>1. ASSUME NEW t \in Tasks, Create(t)
      PROVE  Loads'
  <2>1. S(t) \in announced
    BY <1>1 DEF Create, At, Turns
  <2> QED
    BY <1>1, <2>1, NewUnused DEF Create
<1>2. ASSUME NEW t \in Tasks, Go(t), ~Create(t)
      PROVE  Loads'
  <2>1. UNCHANGED <<states, loads, cleanup>>
    BY <1>2 DEF Go, GetPromptLock, TakeTurn, MarkActive, Prepare, EndTry, TurnEnds, MarkInactive,
                Forget, Return, Reloaded, Publish, Refresh, Dispose, Raise, Cancelled, CancelledAgain
  <2> QED
    BY <2>1
<1>3. ASSUME NEW t \in Tasks, NEW s \in Sessions, Prompt(t, s)
      PROVE  Loads'
  BY <1>3 DEF Prompt
<1>4. CASE LoaderGoes
  <2>1. CASE Initialize
    BY <2>1 DEF Initialize, Stopped
  <2>2. CASE CreateSession
    BY <2>2, NewUnused DEF CreateSession
  <2>3. ASSUME NEW isNew \in BOOLEAN, Initialized(isNew)
        PROVE  Loads'
    BY <2>3 DEF Initialized, Respond
  <2>4. CASE Hydrated
    BY <2>4 DEF Hydrated, Respond
  <2>5. CASE LoadFails
    BY <2>5 DEF LoadFails, LoadEnds
  <2>6. CASE Rollback
    BY <2>6 DEF Rollback
  <2>7. CASE RolledBack
    BY <2>7 DEF RolledBack, LoadEnds
  <2> QED
    BY <1>4, <2>1, <2>2, <2>3, <2>4, <2>5, <2>6, <2>7 DEF LoaderGoes
<1>5. CASE CleanupGoes
  BY <1>5 DEF CleanupGoes, CleanUp, ClearAll, DisposeSession, SessionDisposed, Stopped
<1>6. ASSUME NEW s \in Sessions, Load(s) \/ Cancel(s)
      PROVE  Loads'
  BY <1>6 DEF Load, Cancel
<1>7. CASE Stop \/ Over \/ UNCHANGED vars
  BY <1>7 DEF Stop, Serving, Over, vars
<1> QED
  BY <1>1, <1>2, <1>3, <1>4, <1>5, <1>6, <1>7 DEF Next

LEMMA StepStopped ==
    ASSUME Taking, ~Queued, [Next]_vars
    PROVE  Stopped'
<1> USE DEF Taking, Typed, TypeOK, Stopped, Goto, At, Serving, Waiting, Awaits, InTry, Turn,
            Replacing, maps, prompts, loads, cleanup
<1>1. ASSUME NEW t \in Tasks, Go(t)
      PROVE  Stopped'
  <2>1. CASE GetPromptLock(t) \/ TakeTurn(t) \/ MarkActive(t)
    BY <2>1 DEF GetPromptLock, TakeTurn, MarkActive
  <2>2. CASE ~(GetPromptLock(t) \/ TakeTurn(t) \/ MarkActive(t))
    <3>1. UNCHANGED <<stop, awaited, loading>> /\ pc[t] # "idle"
      BY <1>1, <2>2 DEF Go, Prepare, Reloaded, TurnEnds, Dispose, Raise, Cancelled, MarkInactive,
                        CancelledAgain, Create, Publish, Refresh
    <3>2. \E to \in {"idle"} \cup Awaits : pc' = [pc EXCEPT ![t] = to]
      BY <1>1, <2>2 DEF Go, Prepare, Reloaded, TurnEnds, Dispose, Raise, Cancelled, MarkInactive,
                        CancelledAgain, Create, Publish, Refresh, EndTry, Return
    <3> QED
      BY <3>1, <3>2
  <2> QED
    BY <2>1, <2>2
<1>2. ASSUME NEW t \in Tasks, NEW s \in Sessions, Prompt(t, s)
      PROVE  Stopped'
  BY <1>2 DEF Prompt
<1>3. CASE LoaderGoes
  <2>1. Serving /\ UNCHANGED <<pc, cleanup>>
    BY <1>3 DEF LoaderGoes, Initialize, CreateSession, Initialized, Hydrated, LoadFails, Rollback,
                RolledBack
  <2> QED
    BY <2>1
<1>4. CASE CleanupGoes
  BY <1>4 DEF CleanupGoes, CleanUp, Gathered, ClearAll, DisposeSession, SessionDisposed
<1>5. ASSUME NEW s \in Sessions, Load(s) \/ Cancel(s)
      PROVE  Stopped'
  BY <1>5 DEF Load, Cancel
<1>6. CASE Stop
  <2>1. \A t \in Tasks : pc[t] # "idle" => running[S(t)] = t /\ S(t) \in Sessions
    BY <1>6 DEF Stop, Turns
  <2> QED
    BY <1>6, <2>1 DEF Stop
<1>7. CASE Over \/ UNCHANGED vars
  BY <1>7 DEF Over, vars
<1> QED
  BY <1>1, <1>2, <1>3, <1>4, <1>5, <1>6, <1>7 DEF Next

LEMMA InitTaking == Init => Taking
  BY InitTyped DEF Init, Taking, Turns, Loads, Stopped, Waiting, Awaits, InTry, Turn, Replacing

(* A cancel finds the prompt whose turn it is, if the server stops only    *)
(* while no prompt waits for its turn and no session is being loaded.      *)
THEOREM CancelFindsSafe == ASSUME ~Queued PROVE Spec => []CancelFinds
<1>1. Init => Taking
  BY InitTaking
<1>2. Taking /\ [Next]_vars => Taking'
  BY StepTyped, StepTurns, StepLoads, StepStopped DEF Taking
<1>3. Taking => CancelFinds
  BY DEF Taking, Turns, CancelFinds, Awaits
<1> QED
  BY <1>1, <1>2, <1>3, PTL DEF Spec

-----------------------------------------------------------------------------
(* No turn loses its instance                                              *)

Late == {"publish", "refresh", "dispose"}
Open == stop \in {"serving", "gather"}

(* What the maps hold is live until the cleanup disposes of it.            *)
Mapped ==
    Open => \A s \in Sessions : /\ sessions[s] # 0 => state[sessions[s]] = "live"
                                /\ states[s] # 0 => state[states[s]] = "live"

(* Sessions share no instance, nor has a session the one that is being     *)
(* rolled back.                                                            *)
Apart ==
    /\ \A r, s \in Sessions :
         r # s => /\ sessions[s] # 0 => sessions[s] # sessions[r] /\ sessions[s] # states[r]
                  /\ states[s] # 0 => states[s] # states[r]
    /\ loading = "rollback" /\ doomed # 0 =>
         /\ state[doomed] # "none"
         /\ \A s \in Sessions : doomed # sessions[s] /\ doomed # states[s]

(* A replacement has its session's new instance, and the outgoing one is   *)
(* nobody's but its own session's.                                         *)
Outgone ==
    \A t \in Tasks : pc[t] \in Late =>
        /\ using[t] \in Instances /\ state[using[t]] # "none"
        /\ using[t] # states[S(t)] /\ fresh[t] = states[S(t)]
        /\ pc[t] # "publish" => sessions[S(t)] = fresh[t]
        /\ loading = "rollback" => using[t] # doomed
        /\ \A s \in Sessions : s # S(t) => using[t] # sessions[s] /\ using[t] # states[s]
        /\ \A u \in Tasks : u # t /\ pc[u] \in Late => using[u] # using[t]

(* A turn is on its session's instance.                                    *)
OnTurn == \A t \in Tasks : pc[t] = "turn" => using[t] = sessions[S(t)] /\ using[t] # 0

IInv == Taking /\ Mapped /\ Apart /\ Outgone /\ OnTurn

(* While a prompt is at work the server is open, and nobody else works for *)
(* its session.                                                            *)
LEMMA AtWork ==
    ASSUME Taking, NEW t \in Tasks, pc[t] \in {"mark"} \cup Awaits
    PROVE  /\ Open /\ S(t) \in Sessions /\ states[S(t)] # 0
           /\ created => S(t) # target
           /\ \A u \in Tasks : u # t /\ pc[u] \in {"mark"} \cup Awaits => S(u) # S(t)
<1>1. pc[t] # "idle"
  BY DEF Awaits, InTry, Turn, Replacing
<1> QED
  BY <1>1, OneTurn DEF Taking, Stopped, Open, Turns, Loads, Typed, TypeOK

(* The instance of a turn is live: what the maps hold is.                  *)
LEMMA IInvTurnLive == IInv => TurnLive
<1> SUFFICES ASSUME IInv, NEW t \in Tasks, pc[t] = "turn" PROVE state[using[t]] = "live"
  BY DEF TurnLive
<1> QED
  BY AtWork DEF IInv, OnTurn, Mapped, Awaits, InTry, Turn

(* What a step of a prompt may do to what the invariant is about.          *)
LEMMA GoKinds ==
    ASSUME Typed, NEW t \in Tasks, Go(t), ~Create(t), ~Publish(t), ~Refresh(t), ~Dispose(t)
    PROVE  /\ UNCHANGED <<sessions, states, state, loading, doomed, stop>>
           /\ \A u \in Tasks : u # t => /\ pc'[u] = pc[u] /\ using'[u] = using[u]
                                        /\ fresh'[u] = fresh[u] /\ S(u)' = S(u)
           /\ pc'[t] \notin Late
           /\ pc'[t] = "turn" => pc[t] = "prepare" /\ S(t)' = S(t)
                                 /\ using'[t] = sessions[S(t)] /\ using'[t] # 0
<1> USE DEF Typed, TypeOK, S, Goto, At, Late, EndTry, maps, loads, cleanup
<1>1. CASE GetPromptLock(t) \/ TakeTurn(t) \/ MarkActive(t)
  BY <1>1 DEF GetPromptLock, TakeTurn, MarkActive
<1>2. CASE \E to \in {"turn", "reload"} : Prepare(t, to)
  BY <1>2 DEF Prepare
<1>3. CASE \E changed \in BOOLEAN : Reloaded(t, changed)
  BY <1>3 DEF Reloaded
<1>4. CASE TurnEnds(t) \/ Raise(t) \/ Cancelled(t)
  BY <1>4 DEF TurnEnds, Raise, Cancelled
<1>5. CASE MarkInactive(t) \/ CancelledAgain(t)
  BY <1>5 DEF MarkInactive, CancelledAgain, Forget, Return
<1> QED
  BY <1>1, <1>2, <1>3, <1>4, <1>5 DEF Go

(* Nor do the others, but for those who create or dispose of an instance.  *)
Calm ==
    /\ UNCHANGED <<sessions, states, state, using, fresh>>
    /\ loading' = "rollback" => UNCHANGED <<loading, doomed>>
    /\ \A t \in Tasks : pc[t] \in Late \/ pc'[t] \in Late \cup {"turn"} =>
                          pc'[t] = pc[t] /\ S(t)' = S(t)
    /\ Open' => Open

LEMMA OthersKinds ==
    ASSUME Typed, [Next]_vars, ~\E t \in Tasks : Go(t),
           ~CreateSession, ~Rollback, ~RolledBack, ~CleanupGoes
    PROVE  Calm
<1> USE DEF Typed, TypeOK, S, Calm, Open, Goto, Late, Serving, maps, prompts, loads, cleanup
<1>1. ASSUME NEW t \in Tasks, NEW s \in Sessions, Prompt(t, s)
      PROVE  Calm
  BY <1>1 DEF Prompt
<1>2. CASE Initialize \/ (\E isNew \in BOOLEAN : Initialized(isNew)) \/ Hydrated \/ LoadFails
  BY <1>2 DEF Initialize, Initialized, Hydrated, Respond, LoadFails, LoadEnds
<1>3. ASSUME NEW s \in Sessions, Load(s) \/ Cancel(s)
      PROVE  Calm
  BY <1>3 DEF Load, Cancel
<1>4. CASE Stop \/ Over \/ UNCHANGED vars
  BY <1>4 DEF Stop, Over, vars
<1> HIDE DEF Calm
<1> QED
  BY <1>1, <1>2, <1>3, <1>4 DEF Next, LoaderGoes

(* The four parts, one kind of step at a time.                             *)
Lives == Mapped /\ Apart /\ Outgone /\ OnTurn

LEMMA CreateLives == ASSUME IInv, NEW t \in Tasks, Create(t) PROVE Lives'
<1> USE DEF IInv, Taking, Typed, TypeOK, Lives, S, Open, Late, Goto, Becomes, maps, loads, cleanup
<1>1. /\ pc[t] = "create" /\ pc' = [pc EXCEPT ![t] = "publish"]
      /\ state' = [state EXCEPT ![New] = "live"] /\ states' = [states EXCEPT ![S(t)] = New]
      /\ using' = [using EXCEPT ![t] = states[S(t)]] /\ fresh' = [fresh EXCEPT ![t] = New]
      /\ UNCHANGED <<sessions, session, loading, doomed, stop>>
  BY DEF Create, At
<1>2. /\ New \in Instances /\ New # 0 /\ state[New] = "none"
      /\ \A s \in Sessions : New # sessions[s] /\ New # states[s]
  BY NewUnused DEF Create
<1>3. /\ Open /\ S(t) \in Sessions /\ states[S(t)] # 0
      /\ \A u \in Tasks : u # t /\ pc[u] \in Late \cup {"turn"} => S(u) # S(t)
  BY <1>1, AtWork DEF Awaits, InTry, Turn, Replacing
<1>4. \A u \in Tasks : pc[u] \in Late \cup {"turn"} => S(u) \in Sessions
  OBVIOUS
<1>5. Mapped'
  BY <1>1, <1>2, <1>3 DEF Mapped
<1>6. Apart'
  BY <1>1, <1>2, <1>3 DEF Apart
<1>7. Outgone'
  BY <1>1, <1>2, <1>3, <1>4 DEF Outgone, Mapped, Apart
<1>8. OnTurn'
  BY <1>1, <1>2, <1>3, <1>4 DEF OnTurn
<1> QED
  BY <1>5, <1>6, <1>7, <1>8

LEMMA PublishLives == ASSUME IInv, NEW t \in Tasks, Publish(t) PROVE Lives'
<1> USE DEF IInv, Taking, Typed, TypeOK, Lives, S, Open, Late, Goto, maps, loads, cleanup
<1>1. /\ pc[t] = "publish" /\ pc' = [pc EXCEPT ![t] = "refresh"]
      /\ sessions' = [sessions EXCEPT ![S(t)] = fresh[t]]
      /\ UNCHANGED <<state, states, session, using, fresh, loading, doomed, stop>>
  BY DEF Publish, At
<1>2. /\ S(t) \in Sessions /\ fresh[t] = states[S(t)]
      /\ \A u \in Tasks : u # t /\ pc[u] \in Late \cup {"turn"} => S(u) # S(t)
  BY <1>1, AtWork DEF Awaits, InTry, Turn, Replacing, Outgone
<1>3. \A u \in Tasks : pc[u] \in Late \cup {"turn"} => S(u) \in Sessions
  OBVIOUS
<1>4. Mapped'
  BY <1>1, <1>2 DEF Mapped
<1>5. Apart'
  BY <1>1, <1>2 DEF Apart
<1>6. Outgone'
  BY <1>1, <1>2, <1>3 DEF Outgone
<1>7. OnTurn'
  BY <1>1, <1>2, <1>3 DEF OnTurn
<1> QED
  BY <1>4, <1>5, <1>6, <1>7

(* The outgoing instance is in no map, so that its end harms no turn.      *)
LEMMA DisposeLives == ASSUME IInv, NEW t \in Tasks, Refresh(t) \/ Dispose(t) PROVE Lives'
<1> USE DEF IInv, Taking, Typed, TypeOK, Lives, S, Open, Late, Goto, Becomes, EndTry, maps, loads,
            cleanup
<1>1. PICK to \in {"closing", "none"} :
      /\ state' = [state EXCEPT ![using[t]] = to]
      /\ pc[t] \in Late /\ pc[t] # "publish"
      /\ to = "closing" => pc' = [pc EXCEPT ![t] = "dispose"] /\ UNCHANGED <<using, fresh>>
      /\ to = "none" => /\ pc' = [pc EXCEPT ![t] = "unmark"]
                        /\ using' = [using EXCEPT ![t] = 0] /\ fresh' = [fresh EXCEPT ![t] = 0]
      /\ UNCHANGED <<sessions, states, session, loading, doomed, stop>>
  BY DEF Refresh, Dispose, At, Outgoing
<1>2. \A s \in Sessions : using[t] # sessions[s] /\ using[t] # states[s]
  BY <1>1 DEF Outgone
<1>3. /\ loading = "rollback" => using[t] # doomed
      /\ \A u \in Tasks : u # t /\ pc[u] \in Late => using[u] # using[t]
  BY <1>1 DEF Outgone
<1>4. Mapped'
  BY <1>1, <1>2 DEF Mapped
<1>5. Apart'
  BY <1>1, <1>2, <1>3 DEF Apart
<1>6. Outgone'
  BY <1>1, <1>2, <1>3 DEF Outgone
<1>7. OnTurn'
  BY <1>1 DEF OnTurn
<1> QED
  BY <1>4, <1>5, <1>6, <1>7

LEMMA GoLives == ASSUME IInv, NEW t \in Tasks, Go(t) PROVE Lives'
<1>1. CASE Create(t) \/ Publish(t) \/ Refresh(t) \/ Dispose(t)
  BY <1>1, CreateLives, PublishLives, DisposeLives
<1>2. CASE ~(Create(t) \/ Publish(t) \/ Refresh(t) \/ Dispose(t))
  <2> USE <1>2, GoKinds DEF IInv, Taking
  <2>1. Mapped' /\ Apart'
    BY DEF Mapped, Apart, Open
  <2>2. Outgone'
    BY DEF Outgone
  <2>3. OnTurn'
    BY DEF OnTurn
  <2> QED
    BY <2>1, <2>2, <2>3 DEF Lives
<1> QED
  BY <1>1, <1>2

LEMMA CreateSessionLives == ASSUME IInv, CreateSession PROVE Lives'
<1> USE DEF IInv, Taking, Typed, TypeOK, Lives, S, Open, Late, Becomes, maps, prompts, cleanup
<1>1. /\ loading' # "rollback" /\ state' = [state EXCEPT ![New] = "live"] /\ target \in Sessions
      /\ sessions' = [sessions EXCEPT ![target] = New]
      /\ states' = [states EXCEPT ![target] = New]
      /\ UNCHANGED <<pc, session, using, fresh, stop>>
  BY DEF CreateSession
<1>2. /\ New \in Instances /\ New # 0 /\ state[New] = "none"
      /\ \A s \in Sessions : New # sessions[s] /\ New # states[s]
  BY NewUnused DEF CreateSession
<1>3. \A t \in Tasks : pc[t] \in Late \cup {"turn"} => S(t) \in Sessions /\ S(t) # target
  BY AtWork DEF CreateSession, Loads, Awaits, InTry, Turn, Replacing
<1>4. Mapped' /\ Apart'
  BY <1>1, <1>2 DEF Mapped, Apart
<1>5. Outgone'
  BY <1>1, <1>2, <1>3 DEF Outgone
<1>6. OnTurn'
  BY <1>1, <1>3 DEF OnTurn
<1> QED
  BY <1>4, <1>5, <1>6

LEMMA RollbackLives == ASSUME IInv, Rollback PROVE Lives'
<1> USE DEF IInv, Taking, Typed, TypeOK, Lives, S, Open, Late, Becomes, prompts, cleanup
<1>1. /\ loading # "rollback" /\ doomed' = sessions[target] /\ target \in Sessions
      /\ state' = [state EXCEPT ![sessions[target]] = "closing"]
      /\ sessions' = [sessions EXCEPT ![target] = 0]
      /\ states' = [states EXCEPT ![target] = 0]
      /\ UNCHANGED <<pc, session, using, fresh, stop>>
  BY DEF Rollback
<1>2. \A t \in Tasks : pc[t] \in Late \cup {"turn"} => S(t) \in Sessions /\ S(t) # target
  BY AtWork DEF Rollback, Awaits, InTry, Turn, Replacing
<1>3. 0 \notin Instances
  BY BoundAssumption DEF Instances
<1>4. Mapped'
  BY <1>1, <1>3 DEF Mapped, Apart
<1>5. Apart'
  BY <1>1, <1>3 DEF Apart
<1>6. Outgone'
  BY <1>1, <1>2, <1>3 DEF Outgone
<1>7. OnTurn'
  BY <1>1, <1>2 DEF OnTurn
<1> QED
  BY <1>4, <1>5, <1>6, <1>7

LEMMA RolledBackLives == ASSUME IInv, RolledBack PROVE Lives'
<1> USE DEF IInv, Taking, Typed, TypeOK, Lives, S, Open, Late, Becomes, maps, prompts, cleanup
<1>1. /\ loading = "rollback" /\ loading' = "idle" /\ state' = [state EXCEPT ![doomed] = "none"]
      /\ UNCHANGED <<sessions, states, pc, session, using, fresh, stop>>
  BY DEF RolledBack, LoadEnds
<1>2. 0 \notin Instances
  BY BoundAssumption DEF Instances
<1>3. Mapped' /\ Apart'
  BY <1>1, <1>2 DEF Mapped, Apart
<1>4. Outgone' /\ OnTurn'
  BY <1>1, <1>2 DEF Outgone, OnTurn
<1> QED
  BY <1>3, <1>4

(* The cleanup finds no prompt at work.                                    *)
LEMMA CleanupLives == ASSUME IInv, CleanupGoes PROVE Lives'
<1> USE DEF IInv, Taking, Typed, TypeOK, Lives, S, Open, Late, Becomes, maps, prompts, loads
<1>1. CASE CleanUp
  BY <1>1 DEF CleanUp, Mapped, Apart, Outgone, OnTurn
<1>2. CASE ~CleanUp
  <2>1. /\ stop = "clean" /\ ~Open' /\ UNCHANGED <<pc, loading, doomed>>
        /\ \/ UNCHANGED <<sessions, states>>
           \/ sessions' = [s \in Sessions |-> 0] /\ states' = [s \in Sessions |-> 0]
    BY <1>2 DEF CleanupGoes, DisposeSession, SessionDisposed, ClearAll, cleanup
  <2>2. \A t \in Tasks : pc[t] \notin Late \cup {"turn"}
    BY <2>1, AtWork DEF Awaits, InTry, Turn, Replacing
  <2>3. loading # "rollback"
    BY <2>1 DEF Stopped
  <2> QED
    BY <2>1, <2>2, <2>3 DEF Mapped, Apart, Outgone, OnTurn
<1> QED
  BY <1>1, <1>2

LEMMA StepIInv ==
    ASSUME IInv, ~Queued, [Next]_vars
    PROVE  IInv'
<1>1. Taking'
  BY StepTyped, StepTurns, StepLoads, StepStopped DEF IInv, Taking
<1>2. Lives'
  <2>1. CASE Calm
    BY <2>1 DEF Calm, IInv, Taking, Typed, TypeOK, Lives, Mapped, Apart, Outgone, OnTurn
  <2>2. CASE ~Calm
    BY <2>2, OthersKinds, GoLives, CreateSessionLives, RollbackLives, RolledBackLives, CleanupLives
       DEF IInv, Taking
  <2> QED
    BY <2>1, <2>2
<1> QED
  BY <1>1, <1>2 DEF IInv, Lives

LEMMA InitIInv == Init => IInv
  BY InitTaking
     DEF Init, IInv, Mapped, Apart, Outgone, OnTurn, Late

(* No agent's turn has its instance disposed of under it, on the same      *)
(* condition, whatever fails and wherever prompts are cancelled.           *)
THEOREM TurnLiveSafe == ASSUME ~Queued PROVE Spec => []TurnLive
<1>1. Init => IInv
  BY InitIInv
<1>2. IInv /\ [Next]_vars => IInv'
  BY StepIInv
<1>3. IInv => TurnLive
  BY IInvTurnLive
<1> QED
  BY <1>1, <1>2, <1>3, PTL DEF Spec

-----------------------------------------------------------------------------
(* No instance is forgotten                                                *)

(* Until a replacement publishes its instance, the maps have the old one.  *)
Both == \A t \in Tasks : pc[t] = "publish" => using[t] = sessions[S(t)]

Kept == IInv /\ Both /\ InstancesKept

LEMMA CreateKept == ASSUME Kept, NEW t \in Tasks, Create(t) PROVE Both' /\ InstancesKept'
<1> USE DEF Kept, IInv, Taking, Typed, TypeOK, S, Late, Goto, Becomes
<1>1. /\ pc[t] = "create" /\ pc' = [pc EXCEPT ![t] = "publish"]
      /\ state' = [state EXCEPT ![New] = "live"] /\ states' = [states EXCEPT ![S(t)] = New]
      /\ using' = [using EXCEPT ![t] = states[S(t)]] /\ fresh' = [fresh EXCEPT ![t] = New]
      /\ UNCHANGED <<sessions, session>>
  BY DEF Create, At
<1>2. /\ S(t) \in Sessions
      /\ \A u \in Tasks : u # t /\ pc[u] \in Late => S(u) # S(t)
  BY <1>1, AtWork DEF Awaits, InTry, Turn, Replacing
<1>3. sessions[S(t)] = states[S(t)]
  BY <1>1, <1>2 DEF InstancesKept
<1>4. Both'
  BY <1>1, <1>2, <1>3 DEF Both
<1>5. InstancesKept'
  BY <1>1, <1>2, <1>3 DEF InstancesKept
<1> QED
  BY <1>4, <1>5

LEMMA PublishKept == ASSUME Kept, NEW t \in Tasks, Publish(t) PROVE Both' /\ InstancesKept'
<1> USE DEF Kept, IInv, Taking, Typed, TypeOK, S, Late, Goto, Becomes
<1>1. /\ pc[t] = "publish" /\ pc' = [pc EXCEPT ![t] = "refresh"]
      /\ sessions' = [sessions EXCEPT ![S(t)] = fresh[t]]
      /\ UNCHANGED <<state, states, session, using, fresh>>
  BY DEF Publish, At
<1>2. /\ S(t) \in Sessions /\ fresh[t] = states[S(t)]
      /\ \A u \in Tasks : u # t /\ pc[u] \in Late => S(u) # S(t)
  BY <1>1, AtWork DEF Awaits, InTry, Turn, Replacing, Outgone
<1>3. using[t] = sessions[S(t)]
  BY <1>1 DEF Both
<1>4. Both'
  BY <1>1, <1>2 DEF Both
<1>5. InstancesKept'
  BY <1>1, <1>2, <1>3 DEF InstancesKept
<1> QED
  BY <1>4, <1>5

LEMMA DisposeKept ==
    ASSUME Kept, NEW t \in Tasks, Refresh(t) \/ Dispose(t) PROVE Both' /\ InstancesKept'
<1> USE DEF Kept, IInv, Taking, Typed, TypeOK, S, Late, Goto, Becomes, EndTry
<1>1. CASE Refresh(t)
  <2>1. sessions[S(t)] = states[S(t)]
    BY <1>1 DEF Refresh, At, Outgone
  <2> QED
    BY <1>1, <2>1 DEF Refresh, At, Outgoing, maps, Both, InstancesKept
<1>2. CASE Dispose(t)
  BY <1>2 DEF Dispose, At, Outgoing, maps, Both, InstancesKept
<1> QED
  BY <1>1, <1>2

LEMMA GoKept ==
    ASSUME Kept, Interruptible \cap Late = {}, NEW t \in Tasks, Go(t)
    PROVE  Both' /\ InstancesKept'
<1>1. CASE Create(t) \/ Publish(t) \/ Refresh(t) \/ Dispose(t)
  BY <1>1, CreateKept, PublishKept, DisposeKept
<1>2. CASE ~(Create(t) \/ Publish(t) \/ Refresh(t) \/ Dispose(t))
  <2>1. pc[t] \notin Late
    BY <1>2 DEF Go, GetPromptLock, TakeTurn, MarkActive, Prepare, TurnEnds, MarkInactive, Reloaded,
                Raise, Cancelled, CancelledAgain, At, Late
  <2> QED
    BY <1>2, <2>1, GoKinds DEF Kept, IInv, Taking, Both, InstancesKept, Late
<1> QED
  BY <1>1, <1>2

(* The loader creates a session where there is none, and rolls back all of *)
(* what it has created.                                                    *)
LEMMA LoaderKept ==
    ASSUME Kept, CreateSession \/ Rollback \/ RolledBack PROVE Both' /\ InstancesKept'
<1> USE DEF Kept, IInv, Taking, Typed, TypeOK, S, Late, Becomes, maps, prompts, cleanup
<1>1. UNCHANGED <<pc, session, using, fresh>> /\ target \in Sessions
  BY DEF CreateSession, Rollback, RolledBack
<1>2. \A t \in Tasks : pc[t] \in Late /\ created => S(t) # target
  BY AtWork DEF Awaits, InTry, Turn, Replacing
<1>3. CASE CreateSession
  <2>1. sessions[target] = 0 /\ created
    BY <1>2, <1>3 DEF CreateSession, Loads, InstancesKept
  <2>2. New \in Instances /\ New # 0
    BY <1>3, NewUnused DEF CreateSession
  <2>3. 0 \notin Instances
    BY BoundAssumption DEF Instances
  <2> QED
    BY <1>1, <1>2, <1>3, <2>1, <2>2, <2>3 DEF CreateSession, Both, InstancesKept
<1>4. CASE Rollback
  BY <1>1, <1>2, <1>4 DEF Rollback, Both, InstancesKept
<1>5. CASE RolledBack
  BY <1>1, <1>5 DEF RolledBack, LoadEnds, Both, InstancesKept
<1> QED
  BY <1>3, <1>4, <1>5

LEMMA CleanupKept == ASSUME Kept, CleanupGoes PROVE Both' /\ InstancesKept'
<1> USE DEF Kept, IInv, Taking, Typed, TypeOK, S, Open, Late, Becomes, maps, prompts, loads
<1>1. CASE CleanUp
  BY <1>1 DEF CleanUp, Both, InstancesKept
<1>2. CASE ~CleanUp
  <2>1. stop = "clean" /\ UNCHANGED prompts
    BY <1>2 DEF CleanupGoes, DisposeSession, SessionDisposed, ClearAll
  <2>2. \A t \in Tasks : pc[t] \notin Late
    BY <2>1, AtWork DEF Awaits, InTry, Turn, Replacing
  <2>3. CASE ClearAll
    BY <2>1, <2>2, <2>3 DEF ClearAll, Both, InstancesKept
  <2>4. ASSUME NEW s \in Sessions, DisposeSession(s) \/ SessionDisposed(s)
        PROVE  Both' /\ InstancesKept'
    BY <2>1, <2>2, <2>4 DEF DisposeSession, SessionDisposed, Both, InstancesKept
  <2> QED
    BY <1>2, <2>3, <2>4 DEF CleanupGoes
<1> QED
  BY <1>1, <1>2

(* A live instance belongs to a session or is on its way in or out, if     *)
(* moreover no replacement is cancelled or fails once it has an instance.  *)
THEOREM InstancesKeptSafe ==
    ASSUME ~Queued, Interruptible \cap Late = {} PROVE Spec => []InstancesKept
<1>1. Init => Kept
  BY InitIInv DEF Init, Kept, Both, InstancesKept
<1>2. Kept /\ [Next]_vars => Kept'
  <2> SUFFICES ASSUME Kept, [Next]_vars PROVE Kept'
    OBVIOUS
  <2>1. IInv'
    BY StepIInv DEF Kept
  <2>2. Both' /\ InstancesKept'
    <3>1. CASE Calm
      BY <3>1 DEF Calm, Kept, IInv, Taking, Typed, Both, InstancesKept, Late
    <3>2. CASE ~Calm
      BY <3>2, OthersKinds, GoKept, LoaderKept, CleanupKept DEF Kept, IInv, Taking
    <3> QED
      BY <3>1, <3>2
  <2> QED
    BY <2>1, <2>2 DEF Kept
<1>3. Kept => InstancesKept
  BY DEF Kept
<1> QED
  BY <1>1, <1>2, <1>3, PTL DEF Spec

==============================================================================
