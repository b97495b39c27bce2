------------------------------ MODULE WriteQueue ------------------------------
(***************************************************************************)
(* What Firestore promises an app that writes: every write joins its       *)
(* user's queue and stays there, across restarts, until the server has     *)
(* committed or refused it.  The server takes the current user's writes in *)
(* order, but an acknowledgement may be lost, and then it takes the same   *)
(* writes again.  WritePipeline shows how the client keeps the promise.    *)
(***************************************************************************)
EXTENDS Integers, Sequences

CONSTANTS
    Users,      \* accounts that use the device
    WriteRace,  \* may an error overtake an acknowledgement?
    MaxWrites   \* bound: writes the app issues

VARIABLES
    owner,      \* owner[w]: the user of the w-th write
    pending,    \* per user, the writes not yet settled, oldest first
    user,       \* whose queue is being sent
    cursor,     \* writes of it the server has taken since the last loss
    committed,  \* writes the server has committed at least once
    over,       \* <<x, w>>: the server last committed w after it last did x
    waiting,    \* writes whose completion has not run
    done        \* what the completion of each write was told

vars == <<owner, pending, user, cursor, committed, over, waiting, done>>

Writes == 1 .. MaxWrites
Outcome == {"none", "ok", "error"}

TypeOK ==
    /\ owner \in Seq(Users) /\ Len(owner) <= MaxWrites
    /\ pending \in [Users -> Seq(Writes)]
    /\ user \in Users
    /\ cursor \in 0 .. Len(pending[user])
    /\ committed \subseteq Writes
    /\ over \subseteq Writes \X Writes
    /\ waiting \subseteq Writes
    /\ done \in [Writes -> Outcome]

\* What the server holds last after it commits w (again).
Overwrite(w) == {p \in over : p[1] # w} \cup ((committed \ {w}) \X {w})

\* The completion of w runs with r, if there is still one.
Told(w, r) == IF w \in waiting THEN [done EXCEPT ![w] = r] ELSE done

Init ==
    /\ owner = <<>>
    /\ pending = [u \in Users |-> <<>>]
    /\ user \in Users
    /\ cursor = 0
    /\ committed = {} /\ over = {} /\ waiting = {}
    /\ done = [w \in Writes |-> "none"]

Issue ==
    /\ Len(owner) < MaxWrites
    /\ owner' = Append(owner, user)
    /\ pending' = [pending EXCEPT ![user] = Append(@, Len(owner) + 1)]
    /\ waiting' = waiting \cup {Len(owner) + 1}
    /\ UNCHANGED <<user, cursor, committed, over, done>>

Commit ==
    /\ cursor < Len(pending[user])
    /\ LET w == pending[user][cursor + 1]
       IN  /\ over' = Overwrite(w)
           /\ committed' = committed \cup {w}
    /\ cursor' = cursor + 1
    /\ UNCHANGED <<owner, pending, user, waiting, done>>

Acknowledge ==
    /\ cursor > 0
    /\ LET w == Head(pending[user])
       IN  /\ done' = Told(w, "ok")
           /\ waiting' = waiting \ {w}
    /\ pending' = [pending EXCEPT ![user] = Tail(@)]
    /\ cursor' = cursor - 1
    /\ UNCHANGED <<owner, user, committed, over>>

\* The server has refused the next write and the client gives up the oldest.
\* They are the same, unless the error has overtaken one acknowledgement.
Reject ==
    /\ cursor = 0 \/ (WriteRace /\ cursor = 1)
    /\ cursor < Len(pending[user])
    /\ LET w == Head(pending[user])
       IN  /\ done' = Told(w, "error")
           /\ waiting' = waiting \ {w}
    /\ pending' = [pending EXCEPT ![user] = Tail(@)]
    /\ cursor' = 0
    /\ UNCHANGED <<owner, user, committed, over>>

\* Acknowledgements are lost; the server will be sent those writes again.
Lose ==
    /\ cursor' \in 0 .. cursor - 1
    /\ UNCHANGED <<owner, pending, user, committed, over, waiting, done>>

SwitchUser(u) ==
    /\ user' = u
    /\ cursor' = 0
    /\ UNCHANGED <<owner, pending, committed, over, waiting, done>>

\* The process ends, possibly after it has told the app that the oldest write
\* succeeded and before it has taken that write out of the queue.
Crash ==
    /\ cursor' = 0
    /\ waiting' = {}
    /\ \/ done' = done
       \/ cursor > 0 /\ done' = Told(Head(pending[user]), "ok")
    /\ UNCHANGED <<owner, pending, user, committed, over>>

Next ==
    \/ Issue \/ Commit \/ Acknowledge \/ Reject \/ Lose \/ Crash
    \/ \E u \in Users : SwitchUser(u)

Spec == Init /\ [][Next]_vars

-----------------------------------------------------------------------------
\* Sending a write again after a lost acknowledgement never undoes a later
\* one: once a completion has reported success, no earlier write of the same
\* user is committed over it.
AckedNotOverwritten ==
    \A p \in over :
        p[2] < p[1] /\ owner[p[2]] = owner[p[1]] => done[p[1]] # "ok"

=============================================================================
