------------------------- MODULE WebSocketPool_proofs -------------------------
(***************************************************************************)
(* Theorems about WebSocketPool, for every set of callers and keys and     *)
(* every bound, failure and cancellation: a connection serves one call at  *)
(* a time, none is forgotten but by a cancelled release, and the model     *)
(* sees of a request what its caller said and was answered.                *)
(***************************************************************************)
EXTENDS WebSocketPool, SequenceTheorems, TLAPS

-----------------------------------------------------------------------------
(* What the proofs use of the types.                                       *)
Typed ==
    /\ mutex \in Actors \cup {None}
    /\ pooled \in Conns \cup {0}
    /\ life \in [Conns -> Lives]
    /\ busy \subseteq Conns /\ lost \subseteq Conns
    /\ pc \in [Actors -> {"idle"} \cup Awaits]
    /\ conn \in [Actors -> Conns \cup {0}]

(* A caller has a connection from its request on until the release is over, *)
(* and not before.                                                         *)
Handed ==
    \A t \in Tasks : conn[t] = 0 <=> pc[t] \in {"idle", "acquire", "closing", "dialing"}

(* Who closes the LLM has a connection only while it closes it.            *)
AtRest == pc[Main] = "idle" => conn[Main] = 0

(* No two callers have one connection, the reusable one is busy while a     *)
(* caller has it, and what is being closed is not reusable any more.       *)
Apart ==
    /\ \A t, u \in Tasks : t # u /\ conn[t] # 0 => conn[t] # conn[u]
    /\ \A t \in Tasks : conn[t] # 0 /\ conn[t] = pooled => pooled \in busy
    /\ conn[Main] # 0 => conn[Main] # pooled

IInv == Typed /\ Handed /\ AtRest /\ Apart /\ Owned

-----------------------------------------------------------------------------
LEMMA ActorsApart == Main \notin Tasks /\ None \notin Actors /\ Tasks \subseteq Actors
  BY ActorsAssumption DEF Actors

LEMMA ConnsNotZero == 0 \notin Conns
  BY BoundsAssumption DEF Conns

(* The number of a new connection is nobody's.                             *)
LEMMA UnusedConn ==
    ASSUME Unused # {}, NEW c, c = CHOOSE d \in Unused : TRUE
    PROVE  c \in Conns /\ c # pooled /\ \A a \in Actors : conn[a] # c
  BY DEF Unused

LEMMA InitIInv == Init => IInv
<1> SUFFICES ASSUME Init PROVE IInv
  OBVIOUS
<1>1. Typed
  BY DEF Init, Typed, Lives
<1> QED
  BY <1>1, ActorsApart DEF Init, IInv, Handed, AtRest, Apart, Owned, Typed, Actors

(* Every step keeps the types.                                             *)
LEMMA StepTyped ==
    ASSUME Typed, Handed, [Next]_vars
    PROVE  Typed'
<1> USE ActorsApart, ConnsNotZero DEF Typed, Awaits, Lives
<1>1. ASSUME NEW t \in Tasks, Step(t)
      PROVE  Typed'
  <2>1. ASSUME NEW k \in Keys, NEW s, Call(t, k, s)
        PROVE  Typed'
    BY <2>1 DEF Call, pool, Goto
  <2>2. CASE \E x : Reuse(t, x)
    BY <2>2 DEF Reuse, Attempt, Goto, Free, Open
  <2>3. ASSUME NEW x, Replace(t, x) \/ Drop(t, x)
        PROVE  Typed'
    BY <2>3 DEF Replace, Drop, Lock, Goto, Actors
  <2>4. CASE Replaced(t)
    BY <2>4 DEF Replaced, Bury, Goto
  <2>5. CASE Dial(t)
    BY <2>5 DEF Dial, Lock, Goto, Actors
  <2>6. CASE Dialed(t)
    <3>1. PICK c : c = CHOOSE d \in Unused : TRUE
      OBVIOUS
    <3>2. c \in Conns
      BY <2>6, <3>1, UnusedConn DEF Dialed
    <3>3. /\ life' = [life EXCEPT ![c] = "open"] /\ lost' = lost \ {c}
          /\ pooled' = IF pooled = 0 THEN c ELSE pooled
          /\ conn' = [conn EXCEPT ![t] = c] /\ busy' = busy \cup {c}
          /\ pc' = [pc EXCEPT ![t] = "sending"] /\ mutex' = None
      BY <2>6, <3>1 DEF Dialed, Attempt, Goto
    <3> QED
      BY <3>2, <3>3
  <2>7. CASE DialFails(t)
    BY <2>7 DEF DialFails, Leave, Goto
  <2>8. CASE Send(t) \/ Stream(t)
    BY <2>8 DEF Send, Stream, pool, Goto
  <2>9. CASE (\E x : Finish(t, x)) \/ CancelRequest(t)
    BY <2>9 DEF Finish, CancelRequest, Requested, pool, Goto
  <2>10. ASSUME NEW why, Fail(t, why)
         PROVE  Typed'
    BY <2>10 DEF Fail, Requested, Goto
  <2>11. CASE Keep(t)
    BY <2>11 DEF Keep, Return, Leave, Goto
  <2>12. CASE Dropped(t)
    BY <2>12 DEF Dropped, Bury, Return, Leave, Goto
  <2>13. CASE CancelAcquire(t)
    BY <2>13 DEF CancelAcquire, GiveUp, Leave, Unlocked, Goto
  <2>14. ASSUME NEW left \in {"dropped", "noticed"}, CancelClosing(t, left)
         PROVE  Typed'
    BY <2>14 DEF CancelClosing, Halfway, GiveUp, Leave, Unlocked, Goto
  <2>15. ASSUME NEW left \in {"dropped", "noticed"}, CancelRelease(t, left)
         PROVE  Typed'
    BY <2>15 DEF CancelRelease, Halfway, GiveUp, Leave, Unlocked, Goto, Handed
  <2> QED
    BY <1>1, <2>1, <2>2, <2>3, <2>4, <2>5, <2>6, <2>7, <2>8, <2>9, <2>10, <2>11, <2>12,
       <2>13, <2>14, <2>15 DEF Step
<1>2. ASSUME NEW c \in Conns, ServerDrops(c)
      PROVE  Typed'
  BY <1>2 DEF ServerDrops
<1>3. CASE Close
  BY <1>3 DEF Close, Lock, Goto, Actors
<1>4. CASE Closed
  BY <1>4 DEF Closed, Bury, Goto
<1>5. CASE UNCHANGED vars
  BY <1>5 DEF vars, pool
<1> QED
  BY <1>1, <1>2, <1>3, <1>4, <1>5 DEF Next

-----------------------------------------------------------------------------
(* What a step does to the connections in hand                             *)

(* Every step keeps callers and connections apart.                         *)
LEMMA StepHanded ==
    ASSUME Typed, Handed, [Next]_vars
    PROVE  Handed'
<1> USE ActorsApart, ConnsNotZero DEF Typed, Handed
<1>1. ASSUME NEW t \in Tasks, Step(t)
      PROVE  Handed'
  <2>1. ASSUME NEW k \in Keys, NEW s, Call(t, k, s)
        PROVE  Handed'
    BY <2>1 DEF Call, Goto
  <2>2. CASE \E x : Reuse(t, x)
    BY <2>2 DEF Reuse, Attempt, Goto, Free, Open
  <2>3. ASSUME NEW x, Replace(t, x) \/ Drop(t, x)
        PROVE  Handed'
    BY <2>3 DEF Replace, Drop, Goto
  <2>4. CASE Replaced(t) \/ Dial(t)
    BY <2>4 DEF Replaced, Dial, Goto
  <2>5. CASE Dialed(t)
    <3>1. PICK c : c = CHOOSE d \in Unused : TRUE
      OBVIOUS
    <3>2. c \in Conns
      BY <2>5, <3>1, UnusedConn DEF Dialed
    <3>3. conn' = [conn EXCEPT ![t] = c] /\ pc' = [pc EXCEPT ![t] = "sending"]
      BY <2>5, <3>1 DEF Dialed, Attempt, Goto
    <3> QED
      BY <3>2, <3>3
  <2>6. CASE DialFails(t) \/ Keep(t) \/ Dropped(t)
    BY <2>6 DEF DialFails, Keep, Dropped, Return, Leave, Goto
  <2>7. CASE Send(t) \/ Stream(t)
    BY <2>7 DEF Send, Stream, Goto
  <2>8. CASE (\E x : Finish(t, x)) \/ CancelRequest(t)
    BY <2>8 DEF Finish, CancelRequest, Requested, Goto
  <2>9. ASSUME NEW why, Fail(t, why)
        PROVE  Handed'
    BY <2>9 DEF Fail, Requested, Goto
  <2>10. CASE CancelAcquire(t) \/ (\E x : CancelRelease(t, x))
    BY <2>10 DEF CancelAcquire, CancelRelease, GiveUp, Leave, Goto
  <2>11. ASSUME NEW left, CancelClosing(t, left)
         PROVE  Handed'
    BY <2>11 DEF CancelClosing, GiveUp, Leave, Goto
  <2> QED
    BY <1>1, <2>1, <2>2, <2>3, <2>4, <2>5, <2>6, <2>7, <2>8, <2>9, <2>10, <2>11 DEF Step
<1>2. ASSUME NEW c \in Conns, ServerDrops(c)
      PROVE  Handed'
  BY <1>2 DEF ServerDrops
<1>3. CASE Close \/ Closed
  BY <1>3 DEF Close, Closed, Goto
<1>4. CASE UNCHANGED vars
  BY <1>4 DEF vars
<1> QED
  BY <1>1, <1>2, <1>3, <1>4 DEF Next

LEMMA StepAtRest ==
    ASSUME Typed, AtRest, [Next]_vars
    PROVE  AtRest'
<1> USE ActorsApart DEF Typed, AtRest
<1>0. Main \in Actors
  BY DEF Actors
<1>1. ASSUME NEW t \in Tasks, NEW to, Goto(t, to), conn'[Main] = conn[Main]
      PROVE  AtRest'
  BY <1>0, <1>1 DEF Goto
<1>2. ASSUME NEW t \in Tasks, Step(t)
      PROVE  AtRest'
  <2>1. ASSUME NEW c, conn' = [conn EXCEPT ![t] = c]
        PROVE  conn'[Main] = conn[Main]
    BY <1>0, <2>1
  <2>2. CASE \/ (\E k \in Keys : \E s : Call(t, k, s)) \/ (\E x : Reuse(t, x))
             \/ Replaced(t) \/ Dial(t)
    BY <1>1, <2>1, <2>2 DEF Call, Reuse, Attempt, Replaced, Dial
  <2>3. CASE Dialed(t) \/ DialFails(t) \/ Keep(t) \/ Dropped(t)
    BY <1>1, <2>1, <2>3 DEF Dialed, Attempt, DialFails, Keep, Dropped, Return, Leave
  <2>4. CASE \E x : Replace(t, x) \/ Drop(t, x) \/ Fail(t, x)
    BY <1>1, <2>4 DEF Replace, Drop, Fail, Requested
  <2>5. CASE Send(t) \/ Stream(t) \/ (\E x : Finish(t, x)) \/ CancelRequest(t)
    BY <1>1, <2>5 DEF Send, Stream, Finish, CancelRequest, Requested
  <2>6. CASE CancelAcquire(t) \/ (\E x : CancelRelease(t, x)) \/ \E left : CancelClosing(t, left)
    BY <1>1, <2>1, <2>6 DEF CancelAcquire, CancelRelease, CancelClosing, GiveUp, Leave
  <2> QED
    BY <1>2, <2>2, <2>3, <2>4, <2>5, <2>6 DEF Step
<1>3. CASE Close \/ Closed
  BY <1>0, <1>3 DEF Close, Closed, Goto
<1>4. CASE UNCHANGED <<pc, conn>>
  BY <1>4
<1> QED
  BY <1>2, <1>3, <1>4 DEF Next, ServerDrops, vars

(* A connection is handed to a caller when it is in no other's hands.      *)
LEMMA StepApart ==
    ASSUME Typed, Handed, Apart, [Next]_vars
    PROVE  Apart'
<1> USE ActorsApart, ConnsNotZero DEF Typed, Apart
<1>0. CASE UNCHANGED <<conn, pooled, busy>>
  BY <1>0
<1>1. ASSUME NEW t \in Tasks, conn' = [conn EXCEPT ![t] = 0],
             \/ UNCHANGED <<pooled, busy>>
             \/ UNCHANGED pooled /\ busy' = busy \ {conn[t]}
             \/ busy' = busy \ {conn[t]} /\ pooled' \in {0, pooled}
      PROVE  Apart'
  BY <1>1
<1>2. ASSUME NEW t \in Tasks, Step(t)
      PROVE  Apart'
  <2>1. CASE \E x : Reuse(t, x)
    BY <2>1 DEF Reuse, Attempt, Free, Open
  <2>2. CASE Replaced(t)
    BY <2>2 DEF Replaced, Bury
  <2>3. CASE Dialed(t)
    <3>1. PICK c : c = CHOOSE d \in Unused : TRUE
      OBVIOUS
    <3>2. c \in Conns /\ c # pooled /\ \A a \in Actors : conn[a] # c
      BY <2>3, <3>1, UnusedConn DEF Dialed
    <3>3. /\ pooled' = IF pooled = 0 THEN c ELSE pooled
          /\ conn' = [conn EXCEPT ![t] = c] /\ busy' = busy \cup {c}
      BY <2>3, <3>1 DEF Dialed, Attempt
    <3>4. /\ conn'[t] = c /\ \A a \in Actors \ {t} : conn'[a] = conn[a] /\ conn[a] # c
          /\ c # 0 /\ t # Main /\ Main \in Actors
      BY <3>2, <3>3 DEF Actors
    <3>5. \A u \in Tasks : conn'[u] # 0 /\ conn'[u] = pooled' => pooled' \in busy'
      BY <3>2, <3>3, <3>4
    <3>6. conn'[Main] # 0 => conn'[Main] # pooled'
      BY <3>2, <3>3, <3>4
    <3> QED
      BY <3>4, <3>5, <3>6
  <2>4. CASE Keep(t) \/ DialFails(t)
    BY <1>1, <2>4 DEF Keep, DialFails, Return, Leave
  <2>5. CASE Dropped(t)
    BY <1>1, <2>5 DEF Dropped, Bury, Return, Leave
  <2>6. CASE CancelAcquire(t) \/ (\E x : CancelRelease(t, x)) \/ \E left : CancelClosing(t, left)
    BY <1>1, <2>6 DEF CancelAcquire, CancelRelease, CancelClosing, GiveUp, Leave
  <2>7. CASE UNCHANGED <<conn, pooled, busy>>
    BY <1>0, <2>7
  <2> QED
    BY <1>2, <2>1, <2>2, <2>3, <2>4, <2>5, <2>6, <2>7 DEF Step, Call, Replace, Dial, Send,
       Stream, Finish, CancelRequest, Fail, Drop, pool
<1>3. CASE Close
  BY <1>3 DEF Close, Actors
<1>4. CASE Closed
  <2>1. Main \in Actors /\ \A t \in Tasks : conn'[t] = conn[t]
    BY <1>4 DEF Closed, Actors
  <2> QED
    BY <1>4, <2>1 DEF Closed, Bury
<1> QED
  BY <1>0, <1>2, <1>3, <1>4 DEF Next, ServerDrops, vars, pool

-----------------------------------------------------------------------------
(* Who will close a connection                                             *)

(* The parts of Owned.                                                     *)
Closable ==
    \A c \in Conns \ lost :
        life[c] # "closed" => c = pooled \/ \E a \in Actors : conn[a] = c

Taken == \A c \in Conns \ lost : c = pooled /\ c \in busy => \E t \in Tasks : conn[t] = c

Locked == mutex # None => pc[mutex] \in {"closing", "dialing", "releasing"}

LEMMA OwnedParts == Owned <=> Closable /\ Taken /\ Locked
  BY DEF Owned, Closable, Taken, Locked

(* The mutex is handed on before its holder goes on to anything else.      *)
LEMMA StepLocked ==
    ASSUME Typed, Locked, [Next]_vars
    PROVE  Locked'
<1> USE ActorsApart DEF Typed, Locked
<1>0. CASE UNCHANGED <<mutex, pc>>
  BY <1>0
<1>1. ASSUME NEW a \in Actors, NEW to, Goto(a, to), mutex' = None \/ mutex' = Unlocked(a)
      PROVE  Locked'
  BY <1>1 DEF Goto, Unlocked
<1>2. ASSUME NEW a \in Actors, NEW to \in {"closing", "dialing", "releasing"}, Goto(a, to),
             UNCHANGED mutex \/ Lock(a)
      PROVE  Locked'
  BY <1>2 DEF Goto, Lock
<1>3. ASSUME NEW a \in Actors, NEW to, Goto(a, to), UNCHANGED mutex,
             pc[a] \notin {"closing", "dialing", "releasing"}
      PROVE  Locked'
  BY <1>3 DEF Goto
<1>4. ASSUME NEW t \in Tasks, Step(t)
      PROVE  Locked'
  <2>1. CASE \/ (\E k \in Keys : \E s : Call(t, k, s)) \/ (\E x : Reuse(t, x))
             \/ Keep(t) \/ Send(t) \/ Stream(t)
    BY <1>3, <2>1 DEF Call, Reuse, Keep, Send, Stream, Attempt, Return, Leave, pool
  <2>2. CASE (\E x : Finish(t, x)) \/ CancelRequest(t) \/ \E why : Fail(t, why)
    BY <1>3, <2>2 DEF Finish, CancelRequest, Fail, Requested, pool
  <2>3. CASE Replaced(t) \/ Dial(t) \/ \E x : Replace(t, x) \/ Drop(t, x)
    BY <1>2, <2>3 DEF Replaced, Dial, Replace, Drop
  <2>4. CASE Dialed(t) \/ DialFails(t) \/ Dropped(t)
    BY <1>1, <2>4 DEF Dialed, DialFails, Dropped, Attempt, Return, Leave
  <2>5. CASE CancelAcquire(t) \/ (\E x : CancelRelease(t, x)) \/ \E left : CancelClosing(t, left)
    BY <1>1, <2>5 DEF CancelAcquire, CancelRelease, CancelClosing, GiveUp, Leave
  <2> QED
    BY <1>4, <2>1, <2>2, <2>3, <2>4, <2>5 DEF Step
<1>5. CASE Close
  BY <1>2, <1>5 DEF Close, Actors
<1>6. CASE Closed
  BY <1>1, <1>6 DEF Closed, Actors
<1> QED
  BY <1>0, <1>4, <1>5, <1>6 DEF Next, ServerDrops, vars, pool

(* What is not closed is reusable or in somebody's hands.                  *)
LEMMA StepClosable ==
    ASSUME Typed, Handed, AtRest, Closable, [Next]_vars
    PROVE  Closable'
<1> USE ActorsApart, ConnsNotZero DEF Typed, Closable
<1>0. ASSUME UNCHANGED <<conn, pooled, lost>>,
             \A c \in Conns : life'[c] # "closed" => life[c] # "closed"
      PROVE  Closable'
  BY <1>0
<1>1. ASSUME NEW t \in Tasks, Step(t)
      PROVE  Closable'
  <2>1. CASE \E x : Reuse(t, x)
    BY <2>1 DEF Reuse, Attempt, Handed
  <2>2. CASE Replaced(t)
    BY <2>2 DEF Replaced, Bury
  <2>3. CASE Dialed(t)
    <3>1. PICK c : c = CHOOSE d \in Unused : TRUE
      OBVIOUS
    <3>2. c \in Conns
      BY <2>3, <3>1, UnusedConn DEF Dialed
    <3>3. /\ pooled' = IF pooled = 0 THEN c ELSE pooled
          /\ life' = [life EXCEPT ![c] = "open"] /\ lost' = lost \ {c}
          /\ conn' = [conn EXCEPT ![t] = c] /\ conn[t] = 0
      BY <2>3, <3>1 DEF Dialed, Attempt, Handed
    <3>4. conn'[t] = c
      BY <3>3
    <3>5. ASSUME NEW d \in Conns \ lost, d # c, life'[d] # "closed"
          PROVE  d = pooled' \/ \E a \in Actors : conn'[a] = d
      BY <3>3, <3>5
    <3> QED
      BY <3>3, <3>4, <3>5
  <2>4. CASE Keep(t)
    BY <2>4 DEF Keep, Kept, Return, Leave
  <2>5. CASE Dropped(t)
    BY <2>5 DEF Dropped, Bury, Return, Leave
  <2>6. CASE DialFails(t) \/ CancelAcquire(t)
    BY <2>6 DEF DialFails, CancelAcquire, GiveUp, Leave, Handed
  <2>7. CASE \E x : CancelRelease(t, x)
    BY <2>7 DEF CancelRelease, Halfway, GiveUp, Leave
  <2>8. ASSUME NEW left, CancelClosing(t, left)
        PROVE  Closable'
    BY <2>8 DEF CancelClosing, Halfway, GiveUp, Leave, Handed
  <2>9. ASSUME NEW why, Fail(t, why)
        PROVE  Closable'
    BY <1>0, <2>9 DEF Fail
  <2>10. CASE UNCHANGED <<conn, pooled, lost, life>>
    BY <1>0, <2>10
  <2> QED
    BY <1>1, <2>1, <2>2, <2>3, <2>4, <2>5, <2>6, <2>7, <2>8, <2>9, <2>10 DEF Step, Call, Replace,
       Dial, Send, Stream, Finish, CancelRequest, Drop, pool
<1>2. ASSUME NEW c \in Conns, ServerDrops(c)
      PROVE  Closable'
  BY <1>0, <1>2 DEF ServerDrops
<1>3. CASE Close
  <2>1. Main \in Actors
    BY DEF Actors
  <2>2. conn'[Main] = pooled /\ conn[Main] = 0 /\ \A a \in Actors \ {Main} : conn'[a] = conn[a]
    BY <1>3, <2>1 DEF Close, AtRest
  <2>3. ASSUME NEW c \in Conns \ lost, life[c] # "closed"
        PROVE  \E a \in Actors : conn'[a] = c
    BY <1>3, <2>1, <2>2, <2>3
  <2> QED
    BY <1>3, <2>3 DEF Close
<1>4. CASE Closed
  BY <1>4 DEF Closed, Bury, Actors
<1> QED
  BY <1>0, <1>1, <1>2, <1>3, <1>4 DEF Next, vars, pool

(* The reusable connection is not left busy.                               *)
LEMMA StepTaken ==
    ASSUME Typed, Handed, Apart, Taken, [Next]_vars
    PROVE  Taken'
<1> USE ActorsApart, ConnsNotZero DEF Typed, Taken
<1>0. CASE UNCHANGED <<conn, pooled, lost, busy>>
  BY <1>0
<1>1. ASSUME NEW t \in Tasks, Step(t)
      PROVE  Taken'
  <2>1. CASE \E x : Reuse(t, x)
    BY <2>1 DEF Reuse, Attempt, Handed
  <2>2. CASE Replaced(t)
    BY <2>2 DEF Replaced, Bury
  <2>3. CASE Dialed(t)
    <3>1. PICK c : c = CHOOSE d \in Unused : TRUE
      OBVIOUS
    <3>2. c \in Conns /\ c # pooled
      BY <2>3, <3>1, UnusedConn DEF Dialed
    <3>3. /\ pooled' = IF pooled = 0 THEN c ELSE pooled
          /\ lost' = lost \ {c} /\ busy' = busy \cup {c}
          /\ conn' = [conn EXCEPT ![t] = c] /\ conn[t] = 0
      BY <2>3, <3>1 DEF Dialed, Attempt, Handed
    <3>4. conn'[t] = c
      BY <3>3
    <3>5. ASSUME NEW d \in Conns \ lost, d # c, d = pooled', d \in busy'
          PROVE  \E u \in Tasks : conn'[u] = d
      BY <3>3, <3>5
    <3> QED
      BY <3>3, <3>4, <3>5
  <2>4. CASE Keep(t)
    BY <2>4 DEF Keep, Kept, Return, Leave
  <2>5. CASE Dropped(t)
    BY <2>5 DEF Dropped, Bury, Return, Leave
  <2>6. CASE DialFails(t) \/ CancelAcquire(t) \/ \E left : CancelClosing(t, left)
    BY <2>6 DEF DialFails, CancelAcquire, CancelClosing, GiveUp, Leave, Handed
  <2>7. CASE \E x : CancelRelease(t, x)
    BY <2>7 DEF CancelRelease, GiveUp, Leave
  <2>8. CASE UNCHANGED <<conn, pooled, lost, busy>>
    BY <1>0, <2>8
  <2> QED
    BY <1>1, <2>1, <2>2, <2>3, <2>4, <2>5, <2>6, <2>7, <2>8 DEF Step, Call, Replace, Dial, Send,
       Stream, Finish, CancelRequest, Fail, Drop, pool
<1>2. CASE Close
  BY <1>2 DEF Close
<1>3. CASE Closed
  BY <1>3 DEF Closed, Bury, Apart
<1> QED
  BY <1>0, <1>1, <1>2, <1>3 DEF Next, ServerDrops, vars, pool

-----------------------------------------------------------------------------
LEMMA StepIInv == IInv /\ [Next]_vars => IInv'
<1> SUFFICES ASSUME IInv, [Next]_vars PROVE IInv'
  OBVIOUS
<1>1. Closable' /\ Taken' /\ Locked'
  BY OwnedParts, StepClosable, StepTaken, StepLocked DEF IInv
<1>2. Owned'
  BY <1>1 DEF Owned, Closable, Taken, Locked
<1> QED
  BY <1>2, StepTyped, StepHanded, StepAtRest, StepApart DEF IInv

LEMMA Invariant == Spec => []IInv
  BY InitIInv, StepIInv, PTL DEF Spec

(* Two calls never speak on one connection, for any number of callers,     *)
(* connections and keys, whatever is dropped, closed or cancelled.         *)
THEOREM ExclusiveSafe == Spec => []Exclusive
<1>1. IInv => Exclusive
  BY ActorsApart DEF IInv, Apart, Handed, Exclusive, Requesting
<1> QED
  BY <1>1, Invariant, PTL

(* Every connection that is open has someone who will close it, unless its *)
(* release was cancelled, and the mutex is held to dial or close only.     *)
THEOREM OwnedSafe == Spec => []Owned
  BY Invariant, PTL DEF IInv

-----------------------------------------------------------------------------
(* What is said, and what the model sees of it                             *)

(* A conversation of task t: what it says and what it is answered in turn.  *)
Talk(t, s) ==
    /\ s \in Seq(Items)
    /\ \A i \in 1..Len(s) : s[i] = IF i % 2 = 1 THEN Prompt(t) ELSE Answer(t)

(* What is said and what is answered are items, of two kinds.              *)
LEMMA ItemKinds ==
    ASSUME NEW t \in Tasks
    PROVE  /\ Prompt(t) \in Items /\ Answer(t) \in Items
           /\ Prompt(t)[1] = "user" /\ Answer(t)[1] = "model"
  BY DEF Items, Prompt, Answer

(* Sequences of items within a bound.                                      *)
LEMMA InputsAre ==
    ASSUME NEW s
    PROVE  s \in Inputs <=> s \in Seq(Items) /\ Len(s) <= MaxItems + 1
<1> USE BoundsAssumption DEF Inputs, BoundedSeq, SeqOf
<1>1. ASSUME s \in Inputs
      PROVE  s \in Seq(Items) /\ Len(s) <= MaxItems + 1
  <2>1. PICK m \in 0..(MaxItems + 1) : s \in [1..m -> Items]
    BY <1>1
  <2> QED
    BY <2>1
<1>2. ASSUME s \in Seq(Items), Len(s) <= MaxItems + 1
      PROVE  s \in Inputs
  <2>1. Len(s) \in 0..(MaxItems + 1) /\ s \in [1..Len(s) -> Items]
    BY <1>2, LenProperties
  <2> QED
    BY <2>1
<1> QED
  BY <1>1, <1>2

(* A conversation goes on with a prompt, or with the answer to one.        *)
LEMMA TalkAppend ==
    ASSUME NEW t \in Tasks, NEW s, Talk(t, s)
    PROVE  /\ Len(s) % 2 = 0 => Talk(t, Append(s, Prompt(t)))
           /\ Len(s) % 2 = 1 => Talk(t, Append(s, Answer(t)))
           /\ Len(Append(s, Prompt(t))) = Len(s) + 1
           /\ Len(Append(s, Answer(t))) = Len(s) + 1
<1> USE ItemKinds DEF Talk
<1>1. Len(s) \in Nat
  OBVIOUS
<1>2. ASSUME NEW e \in Items
      PROVE  /\ Append(s, e) \in Seq(Items) /\ Len(Append(s, e)) = Len(s) + 1
             /\ \A i \in 1..(Len(s) + 1) : Append(s, e)[i] = IF i = Len(s) + 1 THEN e ELSE s[i]
  OBVIOUS
<1>3. ASSUME Len(s) % 2 = 0
      PROVE  Talk(t, Append(s, Prompt(t)))
  <2>1. (Len(s) + 1) % 2 = 1
    BY <1>1, <1>3
  <2> QED
    BY <1>1, <1>2, <2>1
<1>4. ASSUME Len(s) % 2 = 1
      PROVE  Talk(t, Append(s, Answer(t)))
  <2>1. (Len(s) + 1) % 2 # 1
    BY <1>1, <1>4
  <2> QED
    BY <1>1, <1>2, <2>1
<1> QED
  BY <1>2, <1>3, <1>4

(* The answers at the front of a rest that begins with one answer.          *)
LEMMA StrippedOne ==
    ASSUME NEW s \in Seq(Items), Len(s) >= 2, s[1][1] = "model", s[2][1] = "user"
    PROVE  Stripped(s) = SubSeq(s, 2, Len(s))
<1> DEFINE I == {i \in 1..Len(s) : s[i][1] = "user"}
<1>1. Len(s) \in Nat
  OBVIOUS
<1>2. 2 \in I /\ 1 \notin I /\ \A i \in I : i \in Int /\ 2 <= i
  <2>1. "model" # "user"
    OBVIOUS
  <2> QED
    BY <1>1, <2>1
<1>3. Min(I) = 2
  <2>1. \A x \in I : (\A y \in I : x =< y) => x = 2
    BY <1>2
  <2> HIDE DEF I
  <2> QED
    BY <1>2, <2>1 DEF Min
<1>4. SelectInSeq(s, LAMBDA item : item[1] = "user") = 2
  BY <1>2, <1>3 DEF SelectInSeq
<1> QED
  BY <1>4 DEF Stripped

(* A prefix that is shorter agrees where it is.                            *)
LEMMA PrefixIs ==
    ASSUME NEW l \in Seq(Items), NEW s \in Seq(Items), IsStrictPrefix(l, s)
    PROVE  Len(l) < Len(s) /\ \A i \in 1..Len(l) : l[i] = s[i]
<1>1. Len(l) \in Nat /\ Len(s) \in Nat /\ Len(l) <= Len(s)
  BY DEF IsStrictPrefix, IsPrefix
<1>2. ASSUME NEW i \in 1..Len(l)
      PROVE  l[i] = s[i]
  <2>1. SubSeq(l, 1, Len(l))[i] = l[i] /\ SubSeq(s, 1, Len(l))[i] = s[i]
    BY <1>1
  <2> QED
    BY <2>1 DEF IsStrictPrefix, IsPrefix
<1>3. Len(l) # Len(s)
  BY <1>2, SeqEqual DEF IsStrictPrefix
<1> QED
  BY <1>1, <1>2, <1>3

(* The end of a sequence, from its m-th element on.                        *)
LEMMA EndIs ==
    ASSUME NEW s \in Seq(Items), NEW m \in Nat, 1 <= m, m <= Len(s)
    PROVE  /\ SubSeq(s, m, Len(s)) \in Seq(Items)
           /\ Len(SubSeq(s, m, Len(s))) = Len(s) - m + 1
           /\ \A i \in 1..(Len(s) - m + 1) : SubSeq(s, m, Len(s))[i] = s[m + i - 1]
<1>1. Len(s) \in Nat /\ m \in Int /\ Len(s) \in Int
  OBVIOUS
<1>2. \A i \in m..Len(s) : s[i] \in Items
  BY <1>1
<1> QED
  BY <1>1, <1>2, SubSeqProperties

-----------------------------------------------------------------------------
(* What the planner of a connection remembers: nothing, or the input of a   *)
(* call and a chain that has one answer more.                              *)
Turn(t, s) == Talk(t, s) /\ Len(s) % 2 = 1 /\ Len(s) <= MaxItems

Remembered(l, k) ==
    \/ l = <<>> /\ k = <<>>
    \/ \E u \in Tasks :
          /\ Turn(u, l)
          /\ k \in Seq(Items) /\ Len(k) = Len(l) + 1
          /\ ~Shared => k = Append(l, Answer(u))

(* An input that extends one of another call extends it by an answer and a  *)
(* prompt at least: what is left to send begins after the answer.           *)
LEMMA RestIs ==
    ASSUME NEW t \in Tasks, NEW s, Turn(t, s), NEW n \in Nat, n % 2 = 1, n < Len(s)
    PROVE  /\ n + 2 <= Len(s)
           /\ Stripped(SubSeq(s, n + 1, Len(s))) = SubSeq(s, n + 2, Len(s))
<1>1. s \in Seq(Items) /\ Len(s) \in Nat /\ Len(s) % 2 = 1
  BY DEF Turn, Talk
<1>2. n + 2 <= Len(s)
  BY <1>1
<1> DEFINE r == SubSeq(s, n + 1, Len(s))
<1>3. /\ r \in Seq(Items) /\ Len(r) = Len(s) - n
      /\ \A i \in 1..(Len(s) - n) : r[i] = s[n + i]
  <2>1. n + 1 \in Nat /\ 1 <= n + 1 /\ n + 1 <= Len(s)
    BY <1>1, <1>2
  <2>2. /\ r \in Seq(Items) /\ Len(r) = Len(s) - (n + 1) + 1
        /\ \A i \in 1..(Len(s) - (n + 1) + 1) : r[i] = s[(n + 1) + i - 1]
    BY <1>1, <2>1, EndIs
  <2> HIDE DEF r
  <2> QED
    BY <1>1, <2>2
<1> HIDE DEF r
<1>4. Len(r) >= 2 /\ r[1][1] = "model" /\ r[2][1] = "user"
  <2>0. Len(s) - n >= 2 /\ 1 \in 1..(Len(s) - n) /\ 2 \in 1..(Len(s) - n)
    BY <1>1, <1>2
  <2>1. r[1] = s[n + 1] /\ r[2] = s[n + 2] /\ Len(r) >= 2
    BY <1>3, <2>0
  <2>2. (n + 1) % 2 # 1 /\ (n + 2) % 2 = 1
    OBVIOUS
  <2>3. n + 1 \in 1..Len(s) /\ n + 2 \in 1..Len(s)
    BY <1>1, <1>2
  <2> QED
    BY <2>1, <2>2, <2>3, ItemKinds DEF Turn, Talk
<1>5. Stripped(r) = SubSeq(r, 2, Len(r))
  BY <1>3, <1>4, StrippedOne
<1>6. SubSeq(r, 2, Len(r)) = SubSeq(s, n + 2, Len(s))
  <2>1. /\ SubSeq(r, 2, Len(r)) \in Seq(Items)
        /\ Len(SubSeq(r, 2, Len(r))) = Len(r) - 2 + 1
        /\ \A i \in 1..(Len(r) - 2 + 1) : SubSeq(r, 2, Len(r))[i] = r[2 + i - 1]
    BY <1>3, <1>4, EndIs
  <2>2. /\ SubSeq(s, n + 2, Len(s)) \in Seq(Items)
        /\ Len(SubSeq(s, n + 2, Len(s))) = Len(s) - (n + 2) + 1
        /\ \A i \in 1..(Len(s) - (n + 2) + 1) : SubSeq(s, n + 2, Len(s))[i] = s[(n + 2) + i - 1]
    BY <1>1, <1>2, EndIs
  <2>3. Len(r) - 2 + 1 = Len(s) - n - 1 /\ Len(s) - (n + 2) + 1 = Len(s) - n - 1
    BY <1>1, <1>3
  <2>4. ASSUME NEW i \in 1..(Len(s) - n - 1)
        PROVE  SubSeq(r, 2, Len(r))[i] = SubSeq(s, n + 2, Len(s))[i]
    <3>1. 2 + i - 1 = i + 1 /\ (n + 2) + i - 1 = n + (i + 1) /\ i + 1 \in 1..(Len(s) - n)
      BY <1>1
    <3>2. r[i + 1] = s[n + (i + 1)]
      BY <1>3, <3>1
    <3>3. SubSeq(r, 2, Len(r))[i] = r[i + 1]
      BY <2>1, <2>3, <3>1
    <3>4. SubSeq(s, n + 2, Len(s))[i] = s[n + (i + 1)]
      BY <2>2, <2>3, <3>1
    <3> QED
      BY <3>2, <3>3, <3>4
  <2> QED
    BY <2>1, <2>2, <2>3, <2>4, SeqEqual
<1> QED
  BY <1>2, <1>5, <1>6 DEF r

(* A continuation shows the model as much as the input, and the input       *)
(* itself when callers do not say the same.                                *)
LEMMA ContinuedIs ==
    ASSUME NEW t \in Tasks, NEW s, Turn(t, s),
           NEW u \in Tasks, NEW l, Turn(u, l), IsStrictPrefix(l, s),
           NEW k \in Seq(Items), Len(k) = Len(l) + 1,
           ~Shared => k = Append(l, Answer(u)),
           NEW rest, rest = Stripped(SubSeq(s, Len(l) + 1, Len(s)))
    PROVE  /\ k \o rest \in Seq(Items) /\ Len(k \o rest) = Len(s)
           /\ ~Shared => k \o rest = s
<1>1. PICK n \in Nat : n = Len(l) /\ n % 2 = 1
  BY DEF Turn, Talk
<1>2. /\ s \in Seq(Items) /\ Len(s) \in Nat /\ l \in Seq(Items)
      /\ \A i \in 1..Len(s) : s[i] = IF i % 2 = 1 THEN Prompt(t) ELSE Answer(t)
      /\ \A i \in 1..n : l[i] = IF i % 2 = 1 THEN Prompt(u) ELSE Answer(u)
  BY <1>1 DEF Turn, Talk
<1>3. n < Len(s) /\ \A i \in 1..n : l[i] = s[i]
  BY <1>1, <1>2, PrefixIs
<1>4. n + 2 <= Len(s) /\ rest = SubSeq(s, n + 2, Len(s))
  BY <1>1, <1>3, RestIs
<1>5. /\ rest \in Seq(Items) /\ Len(rest) = Len(s) - n - 1
      /\ \A i \in 1..(Len(s) - n - 1) : rest[i] = s[n + 1 + i]
  <2>1. n + 2 \in Nat /\ 1 <= n + 2
    OBVIOUS
  <2>2. /\ rest \in Seq(Items) /\ Len(rest) = Len(s) - (n + 2) + 1
        /\ \A i \in 1..(Len(s) - (n + 2) + 1) : rest[i] = s[(n + 2) + i - 1]
    <3>1. s \in Seq(Items) /\ n + 2 <= Len(s)
      BY <1>2, <1>4
    <3>2. PICK m \in Nat : m = n + 2
      BY <2>1
    <3>3. /\ SubSeq(s, m, Len(s)) \in Seq(Items)
          /\ Len(SubSeq(s, m, Len(s))) = Len(s) - m + 1
          /\ \A i \in 1..(Len(s) - m + 1) : SubSeq(s, m, Len(s))[i] = s[m + i - 1]
      BY <2>1, <3>1, <3>2, EndIs
    <3> QED
      BY <1>4, <3>2, <3>3
  <2>3. /\ Len(s) - (n + 2) + 1 = Len(s) - n - 1
        /\ \A i \in 1..(Len(s) - n - 1) : (n + 2) + i - 1 = n + 1 + i
    BY <1>1, <1>2
  <2> QED
    BY <2>2, <2>3
<1>6. /\ k \o rest \in Seq(Items) /\ Len(k \o rest) = Len(s)
      /\ \A i \in 1..Len(s) : (k \o rest)[i] = IF i <= n + 1 THEN k[i] ELSE rest[i - (n + 1)]
  <2>1. Len(k) = n + 1
    BY <1>1
  <2>2. Len(k) + Len(rest) = Len(s)
    BY <1>1, <1>2, <1>5, <2>1
  <2>3. /\ k \o rest \in Seq(Items) /\ Len(k \o rest) = Len(k) + Len(rest)
        /\ \A i \in 1..(Len(k) + Len(rest)) :
              (k \o rest)[i] = IF i <= Len(k) THEN k[i] ELSE rest[i - Len(k)]
    BY <1>5, ConcatProperties
  <2> QED
    BY <2>1, <2>2, <2>3
<1>7. ASSUME ~Shared
      PROVE  k \o rest = s
  <2>1. u = t
    <3>1. 1 \in 1..n /\ 1 \in 1..Len(s) /\ 1 % 2 = 1
      BY <1>1, <1>2, <1>3
    <3>2. Prompt(u) = Prompt(t)
      BY <1>2, <1>3, <3>1
    <3> QED
      BY <1>7, <3>2 DEF Prompt
  <2>2. /\ \A i \in 1..n : k[i] = s[i]
        /\ k[n + 1] = Answer(t)
    BY <1>1, <1>2, <1>3, <1>7, <2>1, ItemKinds
  <2>3. s[n + 1] = Answer(t)
    <3>1. (n + 1) % 2 # 1
      BY <1>1
    <3>2. n + 1 \in 1..Len(s)
      BY <1>2, <1>4
    <3> QED
      BY <1>2, <3>1, <3>2
  <2>4. ASSUME NEW i \in 1..Len(s)
        PROVE  (k \o rest)[i] = s[i]
    <3>1. CASE i <= n
      BY <1>2, <1>6, <2>2, <3>1
    <3>2. CASE i = n + 1
      BY <1>2, <1>6, <2>2, <2>3, <3>2
    <3>3. CASE i > n + 1
      <4>1. i - (n + 1) \in 1..(Len(s) - n - 1) /\ n + 1 + (i - (n + 1)) = i
        BY <1>2, <3>3
      <4>2. (k \o rest)[i] = rest[i - (n + 1)]
        BY <1>1, <1>6, <3>3
      <4> QED
        BY <1>5, <4>1, <4>2
    <3>4. i <= n \/ i = n + 1 \/ i > n + 1
      BY <1>1, <1>2
    <3> QED
      BY <3>1, <3>2, <3>3, <3>4, Zenon
  <2> QED
    BY <1>2, <1>6, <2>4, SeqEqual
<1> QED
  BY <1>6, <1>7

(* What the model sees is as long as the input, and the input itself when  *)
(* callers do not say the same.                                            *)
LEMMA SeenIs ==
    ASSUME NEW c, Remembered(last[c], chain[c]), NEW t \in Tasks, NEW s, Turn(t, s)
    PROVE  /\ Seen(c, s) \in Seq(Items) /\ Len(Seen(c, s)) = Len(s)
           /\ ~Shared => Seen(c, s) = s
<1>1. CASE ~(Extends(c, s) /\ Rest(c, s) # <<>>)
  BY <1>1 DEF Seen, Turn, Talk
<1>2. CASE Extends(c, s) /\ Rest(c, s) # <<>>
  <2>1. PICK u \in Tasks :
          /\ Turn(u, last[c])
          /\ chain[c] \in Seq(Items) /\ Len(chain[c]) = Len(last[c]) + 1
          /\ ~Shared => chain[c] = Append(last[c], Answer(u))
    BY <1>2 DEF Remembered, Extends
  <2>2. Seen(c, s) = chain[c] \o Stripped(SubSeq(s, Len(last[c]) + 1, Len(s)))
    BY <1>2 DEF Seen, Rest
  <2>3. IsStrictPrefix(last[c], s)
    BY <1>2 DEF Extends
  <2>4. PICK l, k, rest : /\ l = last[c] /\ k = chain[c]
                          /\ rest = Stripped(SubSeq(s, Len(l) + 1, Len(s)))
    OBVIOUS
  <2>5. /\ Turn(u, l) /\ IsStrictPrefix(l, s)
        /\ k \in Seq(Items) /\ Len(k) = Len(l) + 1 /\ (~Shared => k = Append(l, Answer(u)))
    BY <2>1, <2>3, <2>4
  <2>6. k \o rest \in Seq(Items) /\ Len(k \o rest) = Len(s) /\ (~Shared => k \o rest = s)
    <3> HIDE DEF Turn, Stripped, IsStrictPrefix
    <3>1. t \in Tasks /\ u \in Tasks /\ Turn(t, s)
      OBVIOUS
    <3>2. ASSUME NEW r, r = Stripped(SubSeq(s, Len(l) + 1, Len(s)))
          PROVE k \o r \in Seq(Items) /\ Len(k \o r) = Len(s) /\ (~Shared => k \o r = s)
      BY <2>5, <3>1, <3>2, ContinuedIs
    <3>3. rest = Stripped(SubSeq(s, Len(l) + 1, Len(s)))
      BY <2>4
    <3> QED
      BY <3>2, <3>3
  <2> QED
    BY <2>2, <2>4, <2>6
<1> QED
  BY <1>1, <1>2

-----------------------------------------------------------------------------
(* What callers said, and say: their own words and the answers in turn.    *)
Conversations ==
    /\ DOMAIN said = Tasks /\ DOMAIN input = Tasks
    /\ \A t \in Tasks :
         /\ Talk(t, said[t]) /\ Len(said[t]) % 2 = 0 /\ Len(said[t]) <= MaxItems + 1
         /\ IF pc[t] = "idle" THEN input[t] = <<>> ELSE Turn(t, input[t])

(* What every planner remembers.                                           *)
Memory ==
    /\ DOMAIN last = Conns /\ DOMAIN chain = Conns
    /\ \A c \in Conns : Remembered(last[c], chain[c])

(* What the model sees of a request is as long as the input, and the input  *)
(* itself when callers do not say the same.                                *)
Requests ==
    /\ DOMAIN context = Tasks
    /\ \A t \in Tasks :
         IF pc[t] \in Requesting
         THEN /\ context[t] \in Seq(Items) /\ Len(context[t]) = Len(input[t])
              /\ ~Shared => context[t] = input[t]
         ELSE context[t] = <<>>

(* The types of what no other part is about.                               *)
Noted ==
    /\ used \subseteq Conns
    /\ routing \in [Conns -> Keys \cup {None}] /\ wanted \in [Tasks -> Keys \cup {None}]
    /\ attempt \in [Tasks -> {0, 1}]
    /\ reusable \in [Tasks -> BOOLEAN] /\ reused \in [Tasks -> BOOLEAN]
    /\ keep \in [Tasks -> BOOLEAN] /\ retry \in [Tasks -> BOOLEAN]

Told == Conversations /\ Memory /\ Requests /\ Noted

(* At first nothing is said, remembered or requested.                      *)
LEMMA InitTold == Init => Told
<1> SUFFICES ASSUME Init PROVE Told
  OBVIOUS
<1>1. \A t \in Tasks : Talk(t, <<>>)
  BY DEF Talk
<1>2. Len(<<>>) = 0 /\ 0 % 2 = 0 /\ 0 <= MaxItems + 1
  BY BoundsAssumption
<1>3. \A t \in Tasks : t \in Actors /\ pc[t] = "idle"
  BY ActorsApart DEF Init
<1>4. Conversations
  BY <1>1, <1>2, <1>3 DEF Init, Conversations
<1>5. Memory
  BY DEF Init, Memory, Remembered
<1>6. Requests
  BY <1>3 DEF Init, Requests, Requesting
<1>7. Noted
  BY DEF Init, Noted
<1> QED
  BY <1>4, <1>5, <1>6, <1>7 DEF Told

(* A call begins with a conversation and the caller's next words.          *)
LEMMA CallTold ==
    ASSUME Typed, Told, NEW t \in Tasks, NEW k \in Keys, NEW s \in {said[t], <<>>}, Call(t, k, s)
    PROVE  Told'
<1> USE ActorsApart DEF Told, Typed
<1>1. /\ input' = [input EXCEPT ![t] = Append(s, Prompt(t))]
      /\ wanted' = [wanted EXCEPT ![t] = k] /\ attempt' = [attempt EXCEPT ![t] = 0]
      /\ pc' = [pc EXCEPT ![t] = "acquire"] /\ pc[t] = "idle" /\ Len(s) < MaxItems
      /\ UNCHANGED <<used, routing, planner, reusable, reused, keep, retry, said, context>>
  BY DEF Call, Goto, pool
<1>2. Talk(t, s) /\ Len(s) % 2 = 0 /\ Len(s) \in Nat
  <2>1. Talk(t, <<>>) /\ Len(<<>>) % 2 = 0
    BY DEF Talk
  <2>2. Talk(t, said[t]) /\ Len(said[t]) % 2 = 0
    BY DEF Conversations
  <2>3. Talk(t, s) /\ Len(s) % 2 = 0
    BY <2>1, <2>2
  <2> QED
    BY <2>3 DEF Talk
<1>3. Turn(t, Append(s, Prompt(t)))
  <2>1. Talk(t, Append(s, Prompt(t))) /\ Len(Append(s, Prompt(t))) = Len(s) + 1
    BY <1>2, TalkAppend
  <2> QED
    BY <1>1, <1>2, <2>1, BoundsAssumption DEF Turn
<1>4. Conversations'
  <2>1. DOMAIN said' = Tasks /\ DOMAIN input' = Tasks
    BY <1>1 DEF Conversations
  <2>2. ASSUME NEW u \in Tasks
        PROVE  /\ Talk(u, said'[u]) /\ Len(said'[u]) % 2 = 0 /\ Len(said'[u]) <= MaxItems + 1
               /\ IF pc'[u] = "idle" THEN input'[u] = <<>> ELSE Turn(u, input'[u])
    <3>1. CASE u = t
      BY <1>1, <1>3, <3>1 DEF Conversations
    <3>2. CASE u # t
      BY <1>1, <3>2 DEF Conversations
    <3> QED
      BY <3>1, <3>2
  <2> QED
    BY <2>1, <2>2 DEF Conversations
<1>5. Memory'
  BY <1>1 DEF Memory, planner
<1>6. Requests'
  BY <1>1 DEF Requests, Requesting
<1>7. Noted'
  BY <1>1 DEF Noted
<1> QED
  BY <1>4, <1>5, <1>6, <1>7

(* A call that is over leaves its conversation with the answer, or as it    *)
(* was; an attempt that is over leaves the input as it was.                *)
LEMMA LeaveTold ==
    ASSUME Typed, Told, NEW t \in Tasks, NEW again \in BOOLEAN, NEW isAnswered \in BOOLEAN,
           Leave(t, again, isAnswered), pc[t] # "idle"
    PROVE  Conversations' /\ Requests'
<1> USE ActorsApart DEF Typed
<1>1. /\ context' = [context EXCEPT ![t] = <<>>]
      /\ said' = [said EXCEPT ![t] = IF isAnswered THEN Append(input[t], Answer(t)) ELSE said[t]]
      /\ input' = [input EXCEPT ![t] = IF again THEN input[t] ELSE <<>>]
      /\ pc' = [pc EXCEPT ![t] = IF again THEN "acquire" ELSE "idle"]
  BY DEF Leave, Goto
<1>2. Turn(t, input[t])
  BY DEF Told, Conversations
<1>3. /\ Talk(t, Append(input[t], Answer(t)))
      /\ Len(Append(input[t], Answer(t))) % 2 = 0
      /\ Len(Append(input[t], Answer(t))) <= MaxItems + 1
  <2>1. Talk(t, input[t]) /\ Len(input[t]) % 2 = 1 /\ Len(input[t]) <= MaxItems
    BY <1>2 DEF Turn
  <2>2. PICK n \in Nat : n = Len(input[t])
    BY <2>1 DEF Talk
  <2>3. Talk(t, Append(input[t], Answer(t))) /\ Len(Append(input[t], Answer(t))) = n + 1
    BY <2>1, <2>2, TalkAppend
  <2>4. n % 2 = 1 /\ n <= MaxItems
    BY <2>1, <2>2
  <2>5. (n + 1) % 2 = 0 /\ n + 1 <= MaxItems + 1
    BY <2>4, BoundsAssumption
  <2> QED
    BY <2>3, <2>5
<1>4. Conversations'
  <2>1. DOMAIN said' = Tasks /\ DOMAIN input' = Tasks
    BY <1>1 DEF Told, Conversations
  <2>2. ASSUME NEW u \in Tasks
        PROVE  /\ Talk(u, said'[u]) /\ Len(said'[u]) % 2 = 0 /\ Len(said'[u]) <= MaxItems + 1
               /\ IF pc'[u] = "idle" THEN input'[u] = <<>> ELSE Turn(u, input'[u])
    <3>1. CASE u = t
      <4>1. said'[t] = IF isAnswered THEN Append(input[t], Answer(t)) ELSE said[t]
        BY <1>1 DEF Told, Conversations
      <4>2. Talk(t, said'[t]) /\ Len(said'[t]) % 2 = 0 /\ Len(said'[t]) <= MaxItems + 1
        BY <1>3, <4>1 DEF Told, Conversations
      <4>3. IF pc'[t] = "idle" THEN input'[t] = <<>> ELSE Turn(t, input'[t])
        BY <1>1, <1>2 DEF Told, Conversations
      <4> QED
        BY <3>1, <4>2, <4>3
    <3>2. CASE u # t
      BY <1>1, <3>2 DEF Told, Conversations
    <3> QED
      BY <3>1, <3>2
  <2> QED
    BY <2>1, <2>2 DEF Conversations
<1>5. Requests'
  <2>1. DOMAIN context' = Tasks
    BY <1>1 DEF Told, Requests
  <2>2. ASSUME NEW u \in Tasks
        PROVE  IF pc'[u] \in Requesting
               THEN /\ context'[u] \in Seq(Items) /\ Len(context'[u]) = Len(input'[u])
                    /\ ~Shared => context'[u] = input'[u]
               ELSE context'[u] = <<>>
    <3>1. CASE u = t
      BY <1>1, <3>1 DEF Told, Requests, Requesting
    <3>2. CASE u # t
      BY <1>1, <3>2 DEF Told, Requests, Conversations
    <3> QED
      BY <3>1, <3>2
  <2> QED
    BY <2>1, <2>2 DEF Requests
<1> QED
  BY <1>4, <1>5

(* Within a call the conversation and the input stay as they are.          *)
LEMMA DuringCall ==
    ASSUME Typed, Told, NEW t \in Tasks, UNCHANGED <<said, input>>, pc[t] # "idle",
           NEW to, to # "idle", Goto(t, to)
    PROVE  Conversations'
<1>1. \A u \in Tasks : pc'[u] = "idle" <=> pc[u] = "idle"
  BY ActorsApart DEF Goto, Typed
<1> QED
  BY <1>1 DEF Told, Conversations

(* A step that changes one context, and with it where its caller is.       *)
LEMMA OneRequest ==
    ASSUME Typed, Told, NEW t \in Tasks, UNCHANGED input, NEW x, NEW to, Goto(t, to),
           context' = [context EXCEPT ![t] = x],
           IF to \in Requesting
           THEN /\ x \in Seq(Items) /\ Len(x) = Len(input[t])
                /\ ~Shared => x = input[t]
           ELSE x = <<>>
    PROVE  Requests'
<1>1. DOMAIN context' = Tasks /\ context'[t] = x /\ pc'[t] = to
  BY ActorsApart DEF Told, Requests, Typed, Goto
<1>2. \A u \in Tasks : u # t => context'[u] = context[u] /\ pc'[u] = pc[u]
  BY ActorsApart DEF Told, Requests, Typed, Goto
<1> QED
  BY <1>1, <1>2 DEF Told, Requests

(* Only one who has a request, or begins one, may go on with one.          *)
LEMMA SameRequests ==
    ASSUME Typed, Told, UNCHANGED <<input, context>>,
           \A u \in Tasks : pc'[u] \in Requesting <=> pc[u] \in Requesting
    PROVE  Requests'
  BY DEF Told, Requests

(* A planner that is reset remembers nothing.                              *)
LEMMA Forgotten ==
    ASSUME Memory, NEW d, last' = [last EXCEPT ![d] = <<>>], chain' = [chain EXCEPT ![d] = <<>>]
    PROVE  Memory'
<1>1. \A c \in Conns : \/ last'[c] = last[c] /\ chain'[c] = chain[c]
                       \/ last'[c] = <<>> /\ chain'[c] = <<>>
  BY DEF Memory
<1> QED
  BY <1>1 DEF Memory, Remembered

(* The planner remembers the input that was answered, and the answer.      *)
LEMMA Committed ==
    ASSUME Typed, Told, NEW t \in Tasks, Commit(t), pc[t] \in Requesting
    PROVE  Memory'
<1> DEFINE k == Append(context[t], Answer(t))
<1>1. last' = [last EXCEPT ![conn[t]] = input[t]] /\ chain' = [chain EXCEPT ![conn[t]] = k]
  BY DEF Commit
<1>2. Turn(t, input[t])
  BY DEF Told, Conversations, Requesting
<1>3. /\ context[t] \in Seq(Items) /\ Len(context[t]) = Len(input[t])
      /\ ~Shared => context[t] = input[t]
  BY DEF Told, Requests
<1>4. k \in Seq(Items) /\ Len(k) = Len(input[t]) + 1 /\ (~Shared => k = Append(input[t], Answer(t)))
  BY <1>3, ItemKinds
<1>5. Remembered(input[t], k)
  BY <1>2, <1>4 DEF Remembered
<1> HIDE DEF k
<1>6. \A c \in Conns : \/ last'[c] = last[c] /\ chain'[c] = chain[c]
                       \/ last'[c] = input[t] /\ chain'[c] = k
  BY <1>1 DEF Told, Memory
<1>7. DOMAIN last' = Conns /\ DOMAIN chain' = Conns
  BY <1>1 DEF Told, Memory
<1> QED
  BY <1>5, <1>6, <1>7 DEF Told, Memory

(* A request begins with what the model sees of it.                        *)
LEMMA DialTold ==
    ASSUME Typed, Told, NEW t \in Tasks, (\E x : Reuse(t, x)) \/ Dialed(t)
    PROVE  Told'
<1> USE ActorsApart, ConnsNotZero DEF Typed
<1>1. Turn(t, input[t]) /\ pc[t] # "idle"
  BY DEF Reuse, Dialed, Told, Conversations
<1>2. input[t] \in Seq(Items)
  BY <1>1 DEF Turn, Talk
<1>3. /\ UNCHANGED <<said, input, last, chain, wanted, attempt, used>>
      /\ Goto(t, "sending")
  BY DEF Reuse, Dialed, Attempt, call, planner
<1>4. Conversations' /\ Memory'
  <2>1. Conversations'
    BY <1>1, <1>3, DuringCall
  <2> QED
    BY <1>3, <2>1 DEF Told, Memory
<1>5. Requests'
  <2>1. PICK x : /\ context' = [context EXCEPT ![t] = x]
                 /\ x \in Seq(Items) /\ Len(x) = Len(input[t]) /\ (~Shared => x = input[t])
    <3>1. CASE \E x : Reuse(t, x)
      <4>1. pooled \in Conns
        BY <3>1 DEF Reuse, Free, Open
      <4>2. Remembered(last[pooled], chain[pooled])
        BY <4>1 DEF Told, Memory
      <4>3. PICK p \in Conns : p = pooled
        BY <4>1
      <4>4. Seen(p, input[t]) \in Seq(Items) /\ Len(Seen(p, input[t])) = Len(input[t])
            /\ (~Shared => Seen(p, input[t]) = input[t])
        BY <1>1, <4>2, <4>3, SeenIs
      <4>5. PICK x \in {Seen(p, input[t]), input[t]} : context' = [context EXCEPT ![t] = x]
        BY <3>1, <4>3 DEF Reuse
      <4> QED
        BY <1>2, <4>4, <4>5
    <3>2. CASE Dialed(t)
      BY <1>2, <3>2 DEF Dialed
    <3> QED
      BY <3>1, <3>2
  <2> QED
    BY <1>3, <2>1, OneRequest DEF Requesting
<1>6. Noted'
  <2>1. UNCHANGED routing \/ \E c : routing' = [routing EXCEPT ![c] = wanted[t]]
    BY DEF Reuse, Dialed
  <2>2. routing' \in [Conns -> Keys \cup {None}]
    BY <2>1 DEF Told, Noted
  <2>3. PICK isReusable \in BOOLEAN, again \in BOOLEAN :
          /\ reusable' = [reusable EXCEPT ![t] = isReusable]
          /\ reused' = [reused EXCEPT ![t] = isReusable /\ again]
          /\ keep' = [keep EXCEPT ![t] = FALSE]
          /\ retry' = [retry EXCEPT ![t] = FALSE]
    BY DEF Reuse, Dialed, Attempt
  <2> QED
    BY <1>3, <2>2, <2>3 DEF Told, Noted
<1> QED
  BY <1>4, <1>5, <1>6 DEF Told

(* The end of an attempt, whether the connection is closed or not.         *)
LEMMA EndTold ==
    ASSUME Typed, Told, NEW t \in Tasks, pc[t] # "idle",
           NEW again \in BOOLEAN, NEW isAnswered \in BOOLEAN, Leave(t, again, isAnswered),
           \/ UNCHANGED <<used, routing, planner>>
           \/ used' = used \cup {conn[t]} /\ conn[t] \in Conns /\ UNCHANGED <<routing, planner>>
           \/ Bury(conn[t])
    PROVE  Told'
<1> USE ActorsApart DEF Typed
<1>1. Conversations' /\ Requests'
  BY LeaveTold
<1>2. Memory'
  BY Forgotten DEF Told, Memory, planner, Bury
<1>3. Noted'
  <2>1. /\ reusable' = [reusable EXCEPT ![t] = FALSE] /\ reused' = [reused EXCEPT ![t] = FALSE]
        /\ keep' = [keep EXCEPT ![t] = FALSE] /\ retry' = [retry EXCEPT ![t] = FALSE]
        /\ attempt' = [attempt EXCEPT ![t] = IF again THEN 1 ELSE 0]
        /\ wanted' = [wanted EXCEPT ![t] = IF again THEN wanted[t] ELSE None]
    BY DEF Leave
  <2>2. used' \subseteq Conns
    BY DEF Told, Noted, Bury
  <2>3. UNCHANGED routing \/ routing' = [routing EXCEPT ![conn[t]] = None]
    BY DEF Bury
  <2> QED
    BY <2>1, <2>2, <2>3 DEF Told, Noted
<1> QED
  BY <1>1, <1>2, <1>3 DEF Told

(* A call that fails, is released or is cancelled is over.                 *)
LEMMA OverTold ==
    ASSUME Typed, Handed, Told, NEW t \in Tasks,
           \/ DialFails(t) \/ Keep(t) \/ Dropped(t) \/ CancelAcquire(t)
           \/ (\E x : CancelRelease(t, x)) \/ \E left : CancelClosing(t, left)
    PROVE  Told'
<1>1. keep[t] \in BOOLEAN /\ retry[t] \in BOOLEAN
  BY DEF Told, Noted
<1>2. CASE DialFails(t)
  BY <1>2, EndTold DEF DialFails
<1>3. CASE Keep(t)
  <2>1. conn[t] \in Conns
    BY <1>3, ActorsApart DEF Keep, Handed, Typed
  <2> QED
    BY <1>1, <1>3, <2>1, EndTold DEF Keep, Return
<1>4. CASE Dropped(t)
  BY <1>1, <1>4, EndTold DEF Dropped, Return
<1>5. CASE CancelAcquire(t) \/ (\E x : CancelRelease(t, x)) \/ \E left : CancelClosing(t, left)
  <2>1. Leave(t, FALSE, FALSE) /\ pc[t] # "idle" /\ UNCHANGED <<used, routing, planner>>
    BY <1>5 DEF CancelAcquire, CancelRelease, CancelClosing, GiveUp
  <2> QED
    BY <2>1, EndTold
<1> QED
  BY <1>2, <1>3, <1>4, <1>5

(* A request that is over: its planner committed or reset.                 *)
LEMMA RequestedTold ==
    ASSUME Typed, Told, NEW t \in Tasks,
           \/ (\E x : Finish(t, x)) \/ CancelRequest(t)
           \/ \E why \in {"code", "timeout", "other"} : Fail(t, why)
    PROVE  Told'
<1> USE ActorsApart DEF Typed
<1>1. /\ pc[t] \in Requesting /\ pc[t] # "idle"
      /\ UNCHANGED <<said, input, wanted, used, routing, attempt, reusable>>
  BY DEF Finish, CancelRequest, Fail, Requesting, call, pool
<1>2. Goto(t, "release") /\ context' = [context EXCEPT ![t] = <<>>]
  BY DEF Finish, CancelRequest, Fail, Requested
<1>3. Conversations'
  BY <1>1, <1>2, DuringCall
<1>4. Requests'
  BY <1>1, <1>2, OneRequest DEF Requesting
<1>5. Memory'
  <2>1. Commit(t) \/ Rollback(conn[t])
    BY DEF Finish, CancelRequest, Fail
  <2> QED
    BY <1>1, <2>1, Committed, Forgotten DEF Told, Rollback
<1>6. Noted'
  <2>1. /\ reused' = [reused EXCEPT ![t] = FALSE]
        /\ UNCHANGED keep \/ keep' = [keep EXCEPT ![t] = TRUE]
    BY DEF Finish, CancelRequest, Fail, Requested
  <2>2. retry' \in [Tasks -> BOOLEAN]
    <3>1. CASE (\E x : Finish(t, x)) \/ CancelRequest(t)
      BY <3>1 DEF Finish, CancelRequest, Told, Noted
    <3>2. ASSUME NEW why, Fail(t, why)
          PROVE  retry' \in [Tasks -> BOOLEAN]
      <4>1. MayRetry(t, why) \in BOOLEAN
        BY DEF MayRetry
      <4>2. retry' = [retry EXCEPT ![t] = MayRetry(t, why)]
        BY <3>2 DEF Fail
      <4> HIDE DEF MayRetry
      <4> QED
        BY <4>1, <4>2 DEF Told, Noted
    <3> QED
      BY <3>1, <3>2
  <2> QED
    BY <1>1, <2>1, <2>2 DEF Told, Noted
<1> QED
  BY <1>3, <1>4, <1>5, <1>6 DEF Told

(* The steps that move a caller along, and those of the server and of who   *)
(* closes the LLM.                                                         *)
LEMMA MovedTold ==
    ASSUME Typed, Told, NEW t \in Tasks,
           \/ Replaced(t) \/ Dial(t) \/ Send(t) \/ Stream(t)
           \/ \E x : Replace(t, x) \/ Drop(t, x)
    PROVE  Told'
<1> USE ActorsApart DEF Typed
<1>1. /\ UNCHANGED <<said, input, wanted, context, attempt, reusable, reused, keep, retry>>
      /\ pc[t] # "idle" /\ (Bury(pooled) \/ UNCHANGED <<used, routing, planner>>)
  BY DEF Replaced, Dial, Send, Stream, Replace, Drop, call, flags, pool
<1>2. PICK to : /\ Goto(t, to) /\ to # "idle"
                /\ to \in Requesting <=> pc[t] \in Requesting
  BY DEF Replaced, Dial, Send, Stream, Replace, Drop, Requesting
<1>3. Conversations'
  BY <1>1, <1>2, DuringCall
<1>4. Requests'
  <2>1. \A u \in Tasks : pc'[u] \in Requesting <=> pc[u] \in Requesting
    BY <1>2 DEF Goto
  <2> QED
    BY <1>1, <2>1, SameRequests
<1>5. Memory'
  BY <1>1, Forgotten DEF Told, Memory, planner, Bury
<1>6. Noted'
  BY <1>1 DEF Told, Noted, Bury
<1> QED
  BY <1>3, <1>4, <1>5, <1>6 DEF Told

(* The server, and who closes the LLM, say nothing.                        *)
LEMMA OtherTold ==
    ASSUME Typed, Told, (\E c \in Conns : ServerDrops(c)) \/ Close \/ Closed \/ UNCHANGED vars
    PROVE  Told'
<1> USE ActorsApart DEF Typed
<1>1. /\ UNCHANGED <<said, input, wanted, context, attempt, reusable, reused, keep, retry>>
      /\ (Bury(conn[Main]) \/ UNCHANGED <<used, routing, planner>>)
  BY DEF ServerDrops, Close, Closed, vars, pool, planner, call, flags
<1>2. \A u \in Tasks : pc'[u] = pc[u]
  BY DEF ServerDrops, Close, Closed, vars, Goto
<1>3. Conversations'
  BY <1>1, <1>2 DEF Told, Conversations
<1>4. Requests'
  BY <1>1, <1>2, SameRequests
<1>5. Memory'
  BY <1>1, Forgotten DEF Told, Memory, planner, Bury
<1>6. Noted'
  BY <1>1 DEF Told, Noted, Bury
<1> QED
  BY <1>3, <1>4, <1>5, <1>6 DEF Told

(* Every step keeps what is said, remembered and requested.                *)
LEMMA StepTold ==
    ASSUME Typed, Handed, Told, [Next]_vars
    PROVE  Told'
<1>1. ASSUME NEW t \in Tasks, Step(t)
      PROVE  Told'
  BY <1>1, CallTold, DialTold, OverTold, RequestedTold, MovedTold DEF Step
<1> QED
  BY <1>1, OtherTold DEF Next

(* The whole invariant.                                                    *)
LEMMA AlwaysTold == Spec => [](IInv /\ Told)
<1>1. Init => IInv /\ Told
  BY InitIInv, InitTold
<1>2. (IInv /\ Told) /\ [Next]_vars => (IInv /\ Told)'
  BY StepIInv, StepTold DEF IInv
<1> QED
  BY <1>1, <1>2, PTL DEF Spec

-----------------------------------------------------------------------------
(* Every variable has its type in every reachable state, for every set of    *)
(* callers and keys and every bound, whether or not callers say the same:    *)
(* no input, planner or request outgrows the bound on conversations.         *)
THEOREM TypeCorrect == Spec => []TypeOK
<1>1. IInv /\ Told => TypeOK
  <2> SUFFICES ASSUME IInv, Told PROVE TypeOK
    OBVIOUS
  <2> USE InputsAre, BoundsAssumption
  <2>1. \A c \in Conns : last[c] \in Inputs /\ chain[c] \in Inputs
    <3> SUFFICES ASSUME NEW c \in Conns PROVE last[c] \in Inputs /\ chain[c] \in Inputs
      OBVIOUS
    <3>1. Remembered(last[c], chain[c])
      BY DEF Told, Memory
    <3>2. <<>> \in Seq(Items) /\ Len(<<>>) <= MaxItems + 1
      OBVIOUS
    <3>3. ASSUME NEW u \in Tasks, Turn(u, last[c]), chain[c] \in Seq(Items),
                 Len(chain[c]) = Len(last[c]) + 1
          PROVE  last[c] \in Inputs /\ chain[c] \in Inputs
      <4>1. last[c] \in Seq(Items) /\ Len(last[c]) \in Nat /\ Len(last[c]) <= MaxItems
        BY <3>3 DEF Turn, Talk
      <4> QED
        BY <3>3, <4>1
    <3> QED
      BY <3>1, <3>2, <3>3 DEF Remembered
  <2>2. \A t \in Tasks : said[t] \in Inputs /\ input[t] \in Inputs /\ context[t] \in Inputs
    <3> SUFFICES ASSUME NEW t \in Tasks
                 PROVE  said[t] \in Inputs /\ input[t] \in Inputs /\ context[t] \in Inputs
      OBVIOUS
    <3>1. <<>> \in Seq(Items) /\ Len(<<>>) <= MaxItems + 1
      OBVIOUS
    <3>2. said[t] \in Inputs
      BY DEF Told, Conversations, Talk
    <3>3. input[t] \in Seq(Items) /\ Len(input[t]) <= MaxItems + 1
      <4>1. CASE pc[t] = "idle"
        BY <3>1, <4>1 DEF Told, Conversations
      <4>2. CASE pc[t] # "idle"
        <5>1. /\ input[t] \in Seq(Items) /\ Len(input[t]) \in Nat
              /\ Len(input[t]) <= MaxItems
          BY <4>2 DEF Told, Conversations, Turn, Talk
        <5> QED
          BY <5>1
      <4> QED
        BY <4>1, <4>2
    <3>4. context[t] \in Inputs
      BY <3>1, <3>3 DEF Told, Requests
    <3> QED
      BY <3>2, <3>3, <3>4
  <2>3. \A f \in {reusable, reused, keep, retry} : f \in [Tasks -> BOOLEAN]
    BY DEF Told, Noted
  <2> QED
    BY <2>1, <2>2, <2>3 DEF TypeOK, IInv, Typed, Told, Noted
<1> QED
  BY <1>1, AlwaysTold, PTL

(* What the model sees of a request is the input of the call, however many    *)
(* callers hand a connection and its planner over to one another, when no two *)
(* callers say the same. Without that assumption it fails: the planner does   *)
(* not look at what was answered.                                            *)
THEOREM ContextMatchesSafe ==
    ASSUME ~Shared
    PROVE  Spec => []ContextMatches
<1>1. Told => ContextMatches
  BY DEF Told, Requests, ContextMatches
<1> QED
  BY <1>1, AlwaysTold, PTL

=============================================================================
