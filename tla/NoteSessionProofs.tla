-------------------------- MODULE NoteSessionProofs --------------------------
(***************************************************************************)
(* TLAPS proofs about NoteSession, for any accounts and any bounds on the  *)
(* main queue and on the registered listeners.                             *)
(***************************************************************************)
EXTENDS NoteSession, SequenceTheorems, TLAPS

Queued(b) == \E k \in 1 .. Len(main) : main[k] = b

\* A first call is queued for a listener that exists, and for every listener
\* that has not been called yet.
InitialCalls ==
    /\ \A l \in Int : Queued(Initial(l)) => l \in 1 .. Len(previous)
    /\ \A l \in 1 .. Len(previous) : previous[l] = Unset => Queued(Initial(l))

\* Unless a notification waits, every listener that has been called knows the
\* current user or is yet to be called by the notification that is running.
ListenersInformed ==
    \/ Queued(Notify)
    \/ \A l \in 1 .. Len(previous) :
          previous[l] \in {Unset, currentUser} \/ (turn > 0 /\ l >= turn)

\* The model holds what some listener last passed on.
UserFromListener ==
    \/ \E l \in 1 .. Len(previous) : previous[l] = user
    \/ \A l \in 1 .. Len(previous) : previous[l] = Unset

SessionInv ==
    /\ TypeOK
    /\ Len(previous) > 0
    /\ InitialCalls
    /\ ListenersInformed
    /\ UserFromListener

-----------------------------------------------------------------------------
(* The main queue as the set of blocks that wait in it.                    *)

LEMMA BlockTypes ==
    /\ Notify \in Block
    /\ \A u \in Users : Created(u) \in Block
    /\ \A l \in 1 .. MaxListeners : Initial(l) \in Block
  BY DEF Notify, Created, Initial, Block

\* The three kinds of blocks differ.
LEMMA BlocksDiffer ==
    /\ \A l : Initial(l) # Notify
    /\ \A u, l : Created(u) # Initial(l)
    /\ \A u : Created(u) # Notify
    /\ \A l, m : Initial(l) = Initial(m) => l = m
<1>1. /\ \A l : Initial(l).op = "initial" /\ Initial(l).listener = l
      /\ \A u : Created(u).op = "created"
      /\ Notify.op = "notify"
  BY DEF Initial, Created, Notify
<1> QED
  BY <1>1

LEMMA AppendBlock ==
    ASSUME NEW q \in Seq(Block), NEW b \in Block
    PROVE  /\ Append(q, b) \in Seq(Block)
           /\ \A c : (\E k \in 1 .. Len(Append(q, b)) : Append(q, b)[k] = c)
                        <=> (c = b \/ \E k \in 1 .. Len(q) : q[k] = c)
<1>1. /\ Append(q, b) \in Seq(Block) /\ Len(q) \in Nat
      /\ Len(Append(q, b)) = Len(q) + 1
      /\ \A k \in 1 .. Len(q) : Append(q, b)[k] = q[k]
      /\ Append(q, b)[Len(q) + 1] = b
  BY AppendProperties, LenProperties
<1> DEFINE r == Append(q, b)
           n == Len(q)
<1> HIDE DEF r, n
<1>2. \A c : (\E k \in 1 .. n + 1 : r[k] = c) <=> (c = b \/ \E k \in 1 .. n : r[k] = c)
  <2>1. n \in Nat /\ r[n + 1] = b
    BY <1>1 DEF r, n
  <2>2. \A k : k \in 1 .. n + 1 <=> k \in 1 .. n \/ k = n + 1
    BY <2>1
  <2> QED
    BY <2>1, <2>2
<1> QED
  BY <1>1, <1>2 DEF r, n

LEMMA TailBlock ==
    ASSUME NEW q \in Seq(Block), q # <<>>
    PROVE  /\ Tail(q) \in Seq(Block)
           /\ Head(q) \in Block
           /\ \E k \in 1 .. Len(q) : q[k] = Head(q)
           /\ \A c : (\E k \in 1 .. Len(q) : q[k] = c) =>
                        (c = Head(q) \/ \E k \in 1 .. Len(Tail(q)) : Tail(q)[k] = c)
           /\ \A c : (\E k \in 1 .. Len(Tail(q)) : Tail(q)[k] = c) =>
                        (\E k \in 1 .. Len(q) : q[k] = c)
<1>1. /\ Tail(q) \in Seq(Block) /\ Len(Tail(q)) = Len(q) - 1 /\ Head(q) \in Block
      /\ \A k \in 1 .. Len(Tail(q)) : Tail(q)[k] = q[k + 1]
  BY HeadTailProperties
<1>2. Len(q) \in Nat \ {0} /\ Head(q) = q[1]
  BY EmptySeq, LenProperties
<1> DEFINE r == Tail(q)
           n == Len(q)
           h == Head(q)
<1> HIDE DEF r, n, h
<1>3. n \in Nat \ {0} /\ h = q[1] /\ \A k \in 1 .. n - 1 : r[k] = q[k + 1]
  BY <1>1, <1>2 DEF r, n, h
<1>4. ASSUME NEW k \in 1 .. n
      PROVE  q[k] = h \/ \E m \in 1 .. n - 1 : r[m] = q[k]
  <2>1. CASE k = 1
    BY <1>3, <2>1
  <2>2. CASE k # 1
    <3>1. k - 1 \in 1 .. n - 1 /\ (k - 1) + 1 = k
      BY <1>3, <2>2
    <3> QED
      BY <1>3, <3>1
  <2> QED
    BY <2>1, <2>2
<1>5. ASSUME NEW k \in 1 .. n - 1
      PROVE  k + 1 \in 1 .. n /\ q[k + 1] = r[k]
  BY <1>3
<1>6. 1 \in 1 .. n
  BY <1>3
<1> QED
  BY <1>1, <1>2, <1>4, <1>5, <1>6 DEF r, n, h

-----------------------------------------------------------------------------
(* Type correctness.                                                       *)

\* Queueing a notification, alone or with a completion.
LEMMA QueueTypes ==
    ASSUME main \in Seq(Block), NEW u \in Users
    PROVE  /\ Append(main, Notify) \in Seq(Block)
           /\ Append(Append(main, Notify), Created(u)) \in Seq(Block)
<1>1. Notify \in Block /\ Created(u) \in Block
  BY BlockTypes
<1>2. Append(main, Notify) \in Seq(Block)
  BY <1>1, AppendBlock
<1> QED
  BY <1>1, <1>2, AppendBlock

\* A call of a listener keeps the number of listeners and their types.
LEMMA CallTypes ==
    ASSUME TypeOK, NEW l \in 1 .. Len(previous), CallListener(l)
    PROVE  /\ previous' \in Seq(MaybeUser \cup {Unset})
           /\ Len(previous') = Len(previous)
           /\ previous'[l] = currentUser
           /\ \A m \in 1 .. Len(previous) : m # l => previous'[m] = previous[m]
           /\ user' \in MaybeUser
<1>1. /\ previous \in Seq(MaybeUser \cup {Unset})
      /\ currentUser \in MaybeUser \cup {Unset}
      /\ previous' = [previous EXCEPT ![l] = currentUser]
  BY DEF TypeOK, CallListener
<1>2. previous' \in Seq(MaybeUser \cup {Unset}) /\ Len(previous') = Len(previous)
  BY <1>1, ExceptSeq
<1>3. DOMAIN previous = 1 .. Len(previous)
  BY <1>1, LenProperties
<1> QED
  BY <1>1, <1>2, <1>3 DEF CallListener, TypeOK

\* The new listener of listenToAuthState is the last one.
LEMMA ListenFacts ==
    ASSUME TypeOK, ListenToAuthState, Len(previous) < MaxListeners
    PROVE  /\ previous' \in Seq(MaybeUser \cup {Unset})
           /\ Len(previous) \in Nat
           /\ Len(previous') = Len(previous) + 1
           /\ Len(previous') <= MaxListeners
           /\ \A m \in 1 .. Len(previous) : previous'[m] = previous[m]
           /\ previous'[Len(previous) + 1] = Unset
           /\ main' \in Seq(Block)
           /\ Initial(Len(previous) + 1) \in Block
<1> DEFINE n == Len(previous)
<1>1. previous \in Seq(MaybeUser \cup {Unset}) /\ Unset \in MaybeUser \cup {Unset}
      /\ previous' = Append(previous, Unset)
  BY DEF TypeOK, ListenToAuthState
<1>2. n \in Nat /\ MaxListeners \in Nat /\ n < MaxListeners
  BY <1>1, LenProperties, SessionAssumption
<1>3. /\ previous' \in Seq(MaybeUser \cup {Unset})
      /\ Len(previous') = n + 1
      /\ \A m \in 1 .. n : previous'[m] = previous[m]
      /\ previous'[n + 1] = Unset
  BY <1>1, AppendProperties
<1> HIDE DEF n
<1>4. n + 1 \in 1 .. MaxListeners
  BY <1>2
<1>5. Initial(n + 1) \in Block
  BY <1>4, BlockTypes
<1>6. main' \in Seq(Block)
  <2>1. main \in Seq(Block) /\ main' = Append(main, Initial(n + 1))
    BY DEF TypeOK, ListenToAuthState, n
  <2> QED
    BY <1>5, <2>1, AppendBlock
<1>7. n + 1 <= MaxListeners
  BY <1>2
<1> QED
  BY <1>2, <1>3, <1>5, <1>6, <1>7 DEF n

\* A queued block comes from the types of its kind.
LEMMA HeadFacts ==
    ASSUME TypeOK, main # <<>>
    PROVE  /\ Tail(main) \in Seq(Block)
           /\ Head(main).op = "created" =>
                 Head(main).user \in Users /\ Head(main) = Created(Head(main).user)
           /\ Head(main).op = "initial" =>
                 /\ Head(main).listener \in 1 .. MaxListeners
                 /\ Head(main) = Initial(Head(main).listener)
           /\ Head(main).op = "notify" => Head(main) = Notify
<1>1. Tail(main) \in Seq(Block) /\ Head(main) \in Block
  BY TailBlock DEF TypeOK
<1>2. /\ Head(main).op = "created" =>
            Head(main).user \in Users /\ Head(main) = Created(Head(main).user)
      /\ Head(main).op = "initial" =>
            /\ Head(main).listener \in 1 .. MaxListeners
            /\ Head(main) = Initial(Head(main).listener)
      /\ Head(main).op = "notify" => Head(main) = Notify
  BY <1>1 DEF Block, Created, Initial, Notify
<1> QED
  BY <1>1, <1>2

\* The listener of the first call that is about to run exists.
LEMMA InitialFacts ==
    ASSUME SessionInv, main # <<>>, Head(main).op = "initial"
    PROVE  Head(main).listener \in 1 .. Len(previous)
<1>1. TypeOK
  BY DEF SessionInv
<1>2. /\ Head(main) = Initial(Head(main).listener)
      /\ Head(main).listener \in 1 .. MaxListeners
  BY <1>1, HeadFacts
<1>3. \E k \in 1 .. Len(main) : main[k] = Head(main)
  BY <1>1, TailBlock DEF TypeOK
<1>4. Queued(Initial(Head(main).listener))
  BY <1>2, <1>3 DEF Queued
<1>5. Head(main).listener \in Int
  BY <1>2
<1> QED
  BY <1>4, <1>5 DEF SessionInv, InitialCalls

LEMMA SessionTypeStep ==
    ASSUME SessionInv, [Next]_vars
    PROVE  TypeOK'
<1>1. TypeOK
  BY DEF SessionInv
<1>0. /\ previous \in Seq(MaybeUser \cup {Unset}) /\ main \in Seq(Block)
      /\ Len(previous) \in Nat \ {0}
  BY <1>1, LenProperties DEF TypeOK, SessionInv
<1>2. ASSUME NEW r \in Request, Press(r) PROVE TypeOK'
  BY <1>1, <1>2 DEF TypeOK, Press
<1>3. ASSUME NEW r \in requests, SignInSucceeds(r) PROVE TypeOK'
  <2>1. r.user \in Users
    BY <1>1 DEF TypeOK, Request
  <2>2. main' \in Seq(Block)
    BY <1>0, <1>3, <2>1, QueueTypes DEF SignInSucceeds, UpdateCurrentUser
  <2> QED
    BY <1>1, <1>3, <2>1, <2>2 DEF TypeOK, SignInSucceeds, UpdateCurrentUser, MaybeUser
<1>4. ASSUME NEW r \in requests, SignUpSucceeds(r) PROVE TypeOK'
  <2>1. r.user \in Users
    BY <1>1 DEF TypeOK, Request
  <2>2. main' \in Seq(Block)
    BY <1>0, <1>4, <2>1, QueueTypes DEF SignUpSucceeds, UpdateCurrentUser
  <2> QED
    BY <1>1, <1>4, <2>1, <2>2 DEF TypeOK, SignUpSucceeds, UpdateCurrentUser, MaybeUser
<1>5. ASSUME NEW r \in requests, RequestFails(r) PROVE TypeOK'
  BY <1>1, <1>5 DEF TypeOK, RequestFails
<1>6. ASSUME SignOut \/ SessionEnds PROVE TypeOK'
  <2>1. main' \in Seq(Block)
    BY <1>0, <1>6, BlockTypes, AppendBlock DEF SignOut, SessionEnds, UpdateCurrentUser
  <2> QED
    BY <1>1, <1>6, <2>1 DEF TypeOK, SignOut, SessionEnds, UpdateCurrentUser, MaybeUser
<1>7. ASSUME RunCreated PROVE TypeOK'
  <2>1. main' \in Seq(Block) /\ Head(main).user \in Users
    BY <1>1, <1>7, HeadFacts DEF RunCreated
  <2>2. profiles' \in [Users -> MaybeUser]
    BY <1>1, <1>7, <2>1 DEF TypeOK, RunCreated, MaybeUser
  <2> QED
    BY <1>1, <1>7, <2>1, <2>2 DEF TypeOK, RunCreated, viewVars
<1>8. ASSUME RunInitial PROVE TypeOK'
  <2>1. main' \in Seq(Block) /\ Head(main).listener \in 1 .. Len(previous)
    BY <1>1, <1>8, HeadFacts, InitialFacts DEF RunInitial
  <2>2. /\ previous' \in Seq(MaybeUser \cup {Unset})
        /\ Len(previous') = Len(previous) /\ user' \in MaybeUser
    BY <1>1, <1>8, <2>1, CallTypes DEF RunInitial
  <2> QED
    BY <1>1, <1>8, <2>1, <2>2 DEF TypeOK, RunInitial, authVars, viewVars
<1>9. ASSUME RunNotify PROVE TypeOK'
  <2>1. main' \in Seq(Block)
    BY <1>1, <1>9, HeadFacts DEF RunNotify
  <2>2. turn' \in 0 .. Len(previous)
    BY <1>0, <1>9 DEF RunNotify
  <2> QED
    BY <1>1, <1>9, <2>1, <2>2 DEF TypeOK, RunNotify, authVars, viewVars
<1>10. ASSUME RunListener PROVE TypeOK'
  <2>1. turn \in 1 .. Len(previous)
    BY <1>0, <1>1, <1>10 DEF TypeOK, RunListener
  <2>2. /\ previous' \in Seq(MaybeUser \cup {Unset})
        /\ Len(previous') = Len(previous) /\ user' \in MaybeUser
    BY <1>1, <1>10, <2>1, CallTypes DEF RunListener
  <2>3. turn' \in 0 .. Len(previous)
    BY <1>0, <1>10, <2>1 DEF RunListener
  <2> QED
    BY <1>1, <1>10, <2>2, <2>3 DEF TypeOK, RunListener, authVars, viewVars
<1>11. ASSUME Render PROVE TypeOK'
  <2>1. /\ screen' \in {"signUp", "list"} /\ ref' \in MaybeUser \cup {Unset}
        /\ notes' \in MaybeUser /\ overlapped' \in BOOLEAN
    BY <1>1, <1>11 DEF Render, ShowList, ShowSignUp, TypeOK, MaybeUser
  <2>2. /\ previous' \in Seq(MaybeUser \cup {Unset}) /\ main' \in Seq(Block)
        /\ Len(previous') <= MaxListeners /\ Len(previous') \in Nat
    <3>1. CASE ListenToAuthState /\ Len(previous) < MaxListeners
      BY <1>1, <3>1, ListenFacts
    <3>2. CASE UNCHANGED <<previous, main>>
      BY <1>0, <1>1, <3>2 DEF TypeOK
    <3> QED
      BY <1>11, <3>1, <3>2 DEF Render
  <2>3. turn' = 0 /\ turn' \in 0 .. Len(previous')
    BY <1>11, <2>2 DEF Render, Idle
  <2> QED
    BY <1>1, <1>11, <2>1, <2>2, <2>3 DEF TypeOK, Render, authVars
<1>12. ASSUME Snapshot PROVE TypeOK'
  BY <1>1, <1>12 DEF TypeOK, Snapshot, authVars, MaybeUser
<1>13. CASE UNCHANGED vars
  BY <1>1, <1>13 DEF TypeOK, vars
<1> QED
  BY <1>2, <1>3, <1>4, <1>5, <1>6, <1>7, <1>8, <1>9, <1>10, <1>11, <1>12, <1>13
     DEF Next

-----------------------------------------------------------------------------
(* The inductive invariant.                                                *)

\* A change of the current user queues a notification, and that is enough.
LEMMA ChangeStep ==
    ASSUME SessionInv, TypeOK',
           UNCHANGED <<previous, turn, user>>,
           Queued(Notify)', \A b : Queued(b) => Queued(b)',
           \A l : Queued(Initial(l))' => Queued(Initial(l))
    PROVE  SessionInv'
<1>1. InitialCalls'
  BY DEF SessionInv, InitialCalls
<1>2. ListenersInformed'
  BY DEF ListenersInformed
<1>3. UserFromListener'
  BY DEF SessionInv, UserFromListener
<1> QED
  BY <1>1, <1>2, <1>3 DEF SessionInv

\* A listener l has been called with the current user; its own first call may
\* have left the queue.
LEMMA CallStep ==
    ASSUME SessionInv, TypeOK', NEW l \in 1 .. Len(previous), CallListener(l),
           currentUser' = currentUser,
           \A b : Queued(b)' => Queued(b),
           \A b : Queued(b) => Queued(b)' \/ b = Initial(l),
           \A m \in 1 .. Len(previous) :
              m # l /\ turn > 0 /\ m >= turn => turn' > 0 /\ m >= turn'
    PROVE  SessionInv'
<1>1. TypeOK
  BY DEF SessionInv
<1>2. /\ Len(previous') = Len(previous)
      /\ previous'[l] = currentUser
      /\ \A m \in 1 .. Len(previous) : m # l => previous'[m] = previous[m]
  BY <1>1, CallTypes
<1>3. currentUser # Unset
  BY <1>1, SessionAssumption DEF TypeOK, MaybeUser
<1>4. InitialCalls'
  <2>1. \A m \in 1 .. Len(previous') : previous'[m] = Unset => Queued(Initial(m))'
    BY <1>2, <1>3, BlocksDiffer DEF SessionInv, InitialCalls
  <2> QED
    BY <1>2, <2>1 DEF SessionInv, InitialCalls
<1>5. ListenersInformed'
  <2>1. CASE Queued(Notify)
    BY <2>1, BlocksDiffer DEF ListenersInformed
  <2>2. CASE ~Queued(Notify)
    BY <1>2, <2>2 DEF SessionInv, ListenersInformed
  <2> QED
    BY <2>1, <2>2
<1>6. UserFromListener'
  <2>1. CASE previous[l] = currentUser
    <3>1. user' = user /\ previous[l] # Unset
      BY <1>3, <2>1 DEF CallListener
    <3>2. PICK m \in 1 .. Len(previous) : previous[m] = user
      BY <3>1 DEF SessionInv, UserFromListener
    <3>3. previous'[m] = user
      BY <1>2, <2>1, <3>2
    <3> QED
      BY <1>2, <3>1, <3>2, <3>3 DEF UserFromListener
  <2>2. CASE previous[l] # currentUser
    BY <1>2, <2>2 DEF CallListener, UserFromListener
  <2> QED
    BY <2>1, <2>2
<1> QED
  BY <1>2, <1>4, <1>5, <1>6 DEF SessionInv

LEMMA SessionInvStep ==
    ASSUME SessionInv, [Next]_vars
    PROVE  SessionInv'
<1>1. TypeOK /\ TypeOK'
  BY SessionTypeStep DEF SessionInv
<1>0. main \in Seq(Block) /\ Notify \in Block
  BY <1>1, BlockTypes DEF TypeOK
<1>s. ASSUME UNCHANGED <<currentUser, main, turn, previous, user>>
      PROVE  SessionInv'
  BY <1>1, <1>s DEF SessionInv, InitialCalls, ListenersInformed, UserFromListener, Queued
<1>q. ASSUME main' = Append(main, Notify), UNCHANGED <<previous, turn, user>>
      PROVE  SessionInv'
  <2>1. \A b : Queued(b)' <=> b = Notify \/ Queued(b)
    BY <1>0, <1>q, AppendBlock DEF Queued
  <2> QED
    BY <1>1, <1>q, <2>1, ChangeStep, BlocksDiffer
<1>2. ASSUME NEW r \in Request, Press(r) PROVE SessionInv'
  BY <1>2, <1>s DEF Press
<1>3. ASSUME NEW r \in requests, SignInSucceeds(r) PROVE SessionInv'
  BY <1>3, <1>q DEF SignInSucceeds, UpdateCurrentUser
<1>4. ASSUME NEW r \in requests, SignUpSucceeds(r) PROVE SessionInv'
  <2> DEFINE q == Append(main, Notify)
  <2>1. Created(r.user) \in Block
    BY <1>1, BlockTypes DEF TypeOK, Request
  <2>2. main' = Append(q, Created(r.user)) /\ UNCHANGED <<previous, turn, user>>
    BY <1>4 DEF SignUpSucceeds, UpdateCurrentUser
  <2>3. /\ q \in Seq(Block)
        /\ \A b : (\E k \in 1 .. Len(q) : q[k] = b) <=> (b = Notify \/ Queued(b))
    BY <1>0, AppendBlock DEF Queued
  <2> HIDE DEF q
  <2>4. \A b : Queued(b)' <=> (b = Created(r.user) \/ \E k \in 1 .. Len(q) : q[k] = b)
    BY <2>1, <2>2, <2>3, AppendBlock DEF Queued
  <2>5. \A b : Queued(b)' <=> b = Created(r.user) \/ b = Notify \/ Queued(b)
    BY <2>3, <2>4
  <2> QED
    BY <1>1, <2>2, <2>5, ChangeStep, BlocksDiffer
<1>5. ASSUME NEW r \in requests, RequestFails(r) PROVE SessionInv'
  BY <1>5, <1>s DEF RequestFails
<1>6. ASSUME SignOut \/ SessionEnds PROVE SessionInv'
  BY <1>6, <1>q DEF SignOut, SessionEnds, UpdateCurrentUser
<1>t. ASSUME main # <<>>, main' = Tail(main)
      PROVE  /\ \A b : Queued(b)' => Queued(b)
             /\ \A b : Queued(b) => Queued(b)' \/ b = Head(main)
  BY <1>0, <1>t, TailBlock DEF Queued
<1>7. ASSUME RunCreated PROVE SessionInv'
  <2>1. Head(main) = Created(Head(main).user)
    BY <1>1, <1>7, HeadFacts DEF RunCreated
  <2>2. /\ \A l : Queued(Initial(l))' <=> Queued(Initial(l))
        /\ Queued(Notify)' <=> Queued(Notify)
    BY <1>7, <1>t, <2>1, BlocksDiffer DEF RunCreated
  <2> QED
    BY <1>1, <1>7, <2>2 DEF RunCreated, SessionInv, InitialCalls, ListenersInformed,
                            UserFromListener
<1>8. ASSUME RunInitial PROVE SessionInv'
  <2>1. PICK l \in 1 .. Len(previous) : l = Head(main).listener
    BY <1>8, InitialFacts DEF RunInitial
  <2>2. Head(main) = Initial(l)
    BY <1>1, <1>8, <2>1, HeadFacts DEF RunInitial
  <2>3. CallListener(l) /\ currentUser' = currentUser /\ turn' = turn
    BY <1>8, <2>1 DEF RunInitial, authVars
  <2>4. /\ \A b : Queued(b)' => Queued(b)
        /\ \A b : Queued(b) => Queued(b)' \/ b = Initial(l)
    BY <1>8, <1>t, <2>2 DEF RunInitial
  <2> QED
    BY <1>1, <2>3, <2>4, CallStep
<1>9. ASSUME RunNotify PROVE SessionInv'
  <2>1. Head(main) = Notify
    BY <1>1, <1>9, HeadFacts DEF RunNotify
  <2>2. \A l : Queued(Initial(l))' <=> Queued(Initial(l))
    BY <1>9, <1>t, <2>1, BlocksDiffer DEF RunNotify
  <2>3. InitialCalls'
    BY <1>9, <2>2 DEF RunNotify, SessionInv, InitialCalls
  <2>4. ListenersInformed'
    BY <1>9 DEF RunNotify, ListenersInformed
  <2> QED
    BY <1>1, <1>9, <2>3, <2>4 DEF RunNotify, SessionInv, UserFromListener
<1>10. ASSUME RunListener PROVE SessionInv'
  <2>0. Len(previous) \in Nat
    BY <1>1, LenProperties DEF TypeOK
  <2>1. PICK l \in 1 .. Len(previous) : l = turn
    BY <1>1, <1>10, <2>0 DEF TypeOK, RunListener
  <2>2. CallListener(l) /\ currentUser' = currentUser /\ main' = main
    BY <1>10, <2>1 DEF RunListener, authVars
  <2>3. \A b : Queued(b)' <=> Queued(b)
    BY <2>2 DEF Queued
  <2>4. \A m \in 1 .. Len(previous) :
           m # l /\ turn > 0 /\ m >= turn => turn' > 0 /\ m >= turn'
    BY <1>10, <2>0, <2>1 DEF RunListener
  <2> QED
    BY <1>1, <2>2, <2>3, <2>4, CallStep
<1>11. ASSUME Render PROVE SessionInv'
  <2>1. CASE UNCHANGED <<previous, main>>
    BY <1>11, <1>s, <2>1 DEF Render, authVars
  <2>2. CASE ListenToAuthState /\ Len(previous) < MaxListeners
    <3>1. PICK n \in Nat : n = Len(previous) + 1 /\ n - 1 = Len(previous)
      BY <1>1, <2>2, ListenFacts
    <3>2. /\ Len(previous') = n /\ previous'[n] = Unset
          /\ \A m \in 1 .. n - 1 : previous'[m] = previous[m]
          /\ Initial(n) \in Block /\ n - 1 \in Nat
      BY <1>1, <2>2, <3>1, ListenFacts
    <3>3. \A b : Queued(b)' <=> b = Initial(n) \/ Queued(b)
      BY <1>0, <2>2, <3>1, <3>2, AppendBlock DEF Queued, ListenToAuthState
    <3>4. \A m : m \in 1 .. n <=> m \in 1 .. n - 1 \/ m = n
      BY <3>2
    <3>5. InitialCalls'
      <4>1. \A l \in Int : Queued(Initial(l))' => l \in 1 .. n
        BY <3>1, <3>3, <3>4, BlocksDiffer DEF SessionInv, InitialCalls
      <4>2. \A l \in 1 .. n : previous'[l] = Unset => Queued(Initial(l))'
        BY <3>1, <3>2, <3>3, <3>4 DEF SessionInv, InitialCalls
      <4> QED
        BY <3>2, <4>1, <4>2 DEF InitialCalls
    <3>6. ListenersInformed'
      BY <1>11, <3>1, <3>2, <3>3, <3>4 DEF SessionInv, ListenersInformed, Render, authVars
    <3>7. UserFromListener'
      BY <1>11, <3>1, <3>2, <3>4 DEF SessionInv, UserFromListener, Render
    <3> QED
      BY <1>1, <3>2, <3>5, <3>6, <3>7 DEF SessionInv
  <2> QED
    BY <1>11, <2>1, <2>2 DEF Render
<1>12. ASSUME Snapshot PROVE SessionInv'
  BY <1>12, <1>s DEF Snapshot, authVars
<1>13. CASE UNCHANGED vars
  BY <1>13, <1>s DEF vars
<1> QED
  BY <1>2, <1>3, <1>4, <1>5, <1>6, <1>7, <1>8, <1>9, <1>10, <1>11, <1>12, <1>13
     DEF Next

LEMMA SessionInvInit ==
    Init => SessionInv
<1> SUFFICES ASSUME Init PROVE SessionInv
  OBVIOUS
<1>1. Initial(1) \in Block
  BY BlockTypes, SessionAssumption
<1>2. main = <<Initial(1)>> /\ previous = <<Unset>>
  BY DEF Init
<1>3. /\ main \in Seq(Block) /\ Len(main) = 1 /\ main[1] = Initial(1)
      /\ previous \in Seq(MaybeUser \cup {Unset}) /\ Len(previous) = 1
      /\ previous[1] = Unset
  BY <1>1, <1>2
<1>4. TypeOK
  <2>1. Len(previous) <= MaxListeners /\ turn \in 0 .. Len(previous)
    BY <1>3, SessionAssumption DEF Init
  <2>2. profiles \in [Users -> MaybeUser]
    BY DEF Init, MaybeUser
  <2>3. /\ accounts \in SUBSET Users /\ requests \in SUBSET Request
        /\ currentUser \in MaybeUser /\ user \in MaybeUser
        /\ screen \in {"signUp", "list"} /\ ref \in MaybeUser \cup {Unset}
        /\ notes \in MaybeUser /\ overlapped \in BOOLEAN
    BY DEF Init, MaybeUser
  <2> QED
    BY <1>3, <2>1, <2>2, <2>3 DEF TypeOK
<1>5. \A b : Queued(b) <=> b = Initial(1)
  BY <1>3 DEF Queued
<1>6. InitialCalls
  BY <1>3, <1>5, BlocksDiffer DEF InitialCalls
<1>7. ListenersInformed /\ UserFromListener
  BY <1>3 DEF ListenersInformed, UserFromListener
<1> QED
  BY <1>3, <1>4, <1>6, <1>7 DEF SessionInv

\* The inductive invariant holds in every behaviour of the app.
THEOREM SessionInvariant == Spec => []SessionInv
<1>1. Init => SessionInv
  BY SessionInvInit
<1>2. SessionInv /\ [Next]_vars => SessionInv'
  BY SessionInvStep
<1> QED
  BY <1>1, <1>2, PTL DEF Spec

-----------------------------------------------------------------------------
(* What follows from it.                                                   *)

\* The variables keep their types; in particular a notification never calls a
\* listener that is not registered.
THEOREM SessionTypeCorrect == Spec => []TypeOK
<1>1. SessionInv => TypeOK
  BY DEF SessionInv
<1> QED
  BY <1>1, SessionInvariant, PTL

\* Once the main queue has run dry, AuthViewModel.user is the account that is
\* signed in.
THEOREM UserConverges == Spec => []UserIsCurrent
<1>1. SessionInv => UserIsCurrent
  <2> SUFFICES ASSUME SessionInv, main = <<>>, turn = 0
               PROVE  user = currentUser
    BY DEF UserIsCurrent, Idle
  <2>1. \A b : ~Queued(b)
    BY DEF Queued
  <2>2. Len(previous) \in Nat \ {0}
    BY LenProperties DEF SessionInv, TypeOK
  <2>3. \A l \in 1 .. Len(previous) : previous[l] = currentUser
    BY <2>1 DEF SessionInv, InitialCalls, ListenersInformed
  <2>4. 1 \in 1 .. Len(previous) /\ currentUser # Unset
    BY <2>2, SessionAssumption DEF SessionInv, TypeOK, MaybeUser
  <2> QED
    BY <2>3, <2>4 DEF SessionInv, UserFromListener
<1> QED
  BY <1>1, SessionInvariant, PTL

\* After a press that found nothing under way, nothing is shown and nobody is
\* signed in until its call returns, so that a list comes after it.
TidyInv ==
    ~overlapped =>
        /\ \A r, s \in requests : r = s
        /\ requests # {} =>
              currentUser = None /\ user = None /\ screen = "signUp"
        /\ screen = "list" => currentUser \in {ref, None}

\* No press of a button leads to a list of another account than the one that
\* is signed in, if the buttons are pressed one call at a time.
THEOREM ListsAreOwn == Spec => []ListIsOwn
<1>1. Init => TidyInv
  BY DEF Init, TidyInv
<1>2. ASSUME TidyInv, [Next]_vars PROVE TidyInv'
  <2>1. ASSUME NEW r \in Request, Press(r) PROVE TidyInv'
    <3>1. CASE requests = {} /\ currentUser = None /\ user = None
      BY <2>1, <3>1 DEF Press, TidyInv
    <3>2. CASE ~(requests = {} /\ currentUser = None /\ user = None)
      BY <2>1, <3>2 DEF Press, TidyInv
    <3> QED
      BY <3>1, <3>2
  <2>2. ASSUME NEW r \in requests, SignInSucceeds(r) \/ SignUpSucceeds(r)
        PROVE  TidyInv'
    BY <1>2, <2>2 DEF SignInSucceeds, SignUpSucceeds, UpdateCurrentUser, TidyInv
  <2>3. ASSUME NEW r \in requests, RequestFails(r) PROVE TidyInv'
    BY <1>2, <2>3 DEF RequestFails, TidyInv
  <2>4. CASE SignOut \/ SessionEnds
    BY <1>2, <2>4 DEF SignOut, SessionEnds, UpdateCurrentUser, TidyInv
  <2>5. ASSUME NEW l, CallListener(l),
               UNCHANGED <<requests, currentUser, screen, ref, overlapped>>
        PROVE  TidyInv'
    BY <1>2, <2>5 DEF CallListener, TidyInv
  <2>6. CASE Render
    BY <1>2, <2>6 DEF Render, Branch, ShowList, ShowSignUp, authVars, TidyInv
  <2>7. ASSUME UNCHANGED <<requests, currentUser, user, screen, ref, overlapped>>
        PROVE  TidyInv'
    BY <1>2, <2>7 DEF TidyInv
  <2> QED
    BY <1>2, <2>1, <2>2, <2>3, <2>4, <2>5, <2>6, <2>7
       DEF Next, vars, authVars, viewVars, RunCreated, RunInitial, RunNotify,
           RunListener, Snapshot
<1>3. TidyInv => ListIsOwn
  BY DEF TidyInv, ListIsOwn
<1> QED
  BY <1>1, <1>2, <1>3, PTL DEF Spec

\* What a list shows and what it writes to are the same collection, whatever
\* account becomes current while it is on screen.
THEOREM ListsDoNotMix == Spec => []ShownIsWritten
<1>1. Init => ShownIsWritten
  BY DEF Init, ShownIsWritten
<1>2. ASSUME ShownIsWritten, [Next]_vars PROVE ShownIsWritten'
  <2>1. CASE Render
    BY <2>1 DEF Render, ShowList, ShowSignUp, ShownIsWritten
  <2>2. CASE Snapshot
    BY <2>2 DEF Snapshot, ShownIsWritten, DatabaseReference
  <2>3. ASSUME UNCHANGED <<screen, ref, notes>> PROVE ShownIsWritten'
    BY <1>2, <2>3 DEF ShownIsWritten, DatabaseReference
  <2> QED
    BY <1>2, <2>1, <2>2, <2>3 DEF Next, vars, viewVars, Press, SignInSucceeds,
       SignUpSucceeds, RequestFails, SignOut, SessionEnds, RunCreated, RunInitial,
       RunNotify, RunListener, UpdateCurrentUser
<1> QED
  BY <1>1, <1>2, PTL DEF Spec

\* The document of an account never holds another account's email.
THEOREM ProfilesAreOwn == Spec => []ProfileIsOwn
<1>1. Init => ProfileIsOwn
  BY DEF Init, ProfileIsOwn
<1>2. ASSUME TypeOK, ProfileIsOwn, [Next]_vars PROVE ProfileIsOwn'
  <2>1. CASE RunCreated
    <3>1. Head(main).user \in Users
      BY <1>2, <2>1, HeadFacts DEF RunCreated
    <3> QED
      BY <1>2, <2>1, <3>1 DEF RunCreated, ProfileIsOwn, TypeOK
  <2>2. ASSUME UNCHANGED profiles PROVE ProfileIsOwn'
    BY <1>2, <2>2 DEF ProfileIsOwn
  <2> QED
    BY <1>2, <2>1, <2>2 DEF Next, vars, authVars, Press, SignInSucceeds,
       SignUpSucceeds, RequestFails, SignOut, SessionEnds, RunInitial, RunNotify,
       RunListener, Render, Snapshot
<1> QED
  BY <1>1, <1>2, SessionTypeCorrect, PTL DEF Spec

=============================================================================
