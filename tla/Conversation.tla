---------------------------- MODULE Conversation ----------------------------
(***************************************************************************)
(* What an agent's history promises to the provider that is sent it and to *)
(* the session that stores it: it only grows, and a batch of tool calls is *)
(* answered, at once and by its own results. The history may rest with its *)
(* last batch unanswered, as it does while the tools run.                  *)
(***************************************************************************)
EXTENDS Naturals, Sequences

VARIABLES log,   \* the agent's history
          disk   \* the session's copy of it

IsCall(e) == e.calls
IsResult(e) == e.kind = "result"

(* Each result answers the entry before it, each call but an open one at   *)
(* the end is answered by the entry after it.                              *)
Paired(l) ==
    /\ \A i \in 1..Len(l) : IsResult(l[i]) =>
            i > 1 /\ IsCall(l[i-1]) /\ l[i-1].id = l[i].id
    /\ \A i \in 1..Len(l) - 1 : IsCall(l[i]) =>
            IsResult(l[i+1]) /\ l[i+1].id = l[i].id

Extends(l, m) == Len(l) <= Len(m) /\ SubSeq(m, 1, Len(l)) = l

Init == log = <<>> /\ disk = <<>>

(* A turn adds to the conversation; the session may be saved with it.      *)
Grow == /\ Extends(log, log')
        /\ Paired(log')
        /\ disk' \in {disk, log'}

(* The session is saved, perhaps ahead of the agent by one result.         *)
Store == /\ log' = log
         /\ Extends(log, disk')
         /\ Len(disk') <= Len(log) + 1
         /\ Paired(disk')

(* The agent starts over from the session's copy.                          *)
Resume == log' = disk /\ disk' = disk

Next == Grow \/ Store \/ Resume

Spec == Init /\ [][Next]_<<log, disk>>
=============================================================================
