---------------------------- MODULE CredentialFlow ----------------------------
(***************************************************************************)
(* Which user's token a Firestore write stream is opened with, and which   *)
(* user's mutation queue it then carries.  Firebase Auth changes its       *)
(* current user and fetches tokens on a work queue of its own; it tells    *)
(* the credentials provider, on the main queue, which tells the Firestore  *)
(* client, on its worker queue, which exchanges the mutation queue and     *)
(* restarts its streams.  A token asked for in between may be anybody's.   *)
(* Two counters, each enough for it, keep it from the wrong queue: the     *)
(* provider's token_counter and the stream's close_count_.                 *)
(***************************************************************************)
EXTENDS Integers, Sequences

CONSTANTS
    Users,       \* accounts that use the device
    None,        \* nobody is signed in
    MaxChanges,  \* bound: changes of the current user and renewed tokens
    MaxStarts,   \* bound: times the stream is started
    MaxWrites    \* bound: writes of the app

ASSUME CredentialFlowAssumption ==
    /\ None \notin Users
    /\ MaxChanges \in Nat /\ MaxStarts \in Nat /\ MaxWrites \in Nat

VARIABLES
    authUser,    \* FIRAuth._currentUser
    asked,       \* token requests waiting for Auth's work queue
    fetching,    \* token requests under way, each with its user
    main,        \* blocks waiting on the main queue
    counter,     \* the provider's token_counter
    provUser,    \* the provider's current_user
    worker,      \* jobs waiting on Firestore's worker queue
    engineUser,  \* SyncEngine::current_user_, whose queue is open
    stream,      \* the write stream: Initial, Starting or Open
    token,       \* the user whose token opened the call
    closes,      \* close_count_
    bounds       \* what has been used of the three bounds

vars == <<authUser, asked, fetching, main, counter, provUser, worker,
          engineUser, stream, token, closes, bounds>>

authVars == <<authUser, asked, fetching>>
provVars == <<counter, provUser>>
streamVars == <<engineUser, stream, token, closes>>

MaybeUser == Users \cup {None}

\* What a token request remembers: the two counters when it was made.
Request == [counter : Nat, closes : Nat]
Block == [op : {"notify"}, user : MaybeUser]
         \cup [op : {"token"}, user : MaybeUser, ok : BOOLEAN, req : Request]
Job == [op : {"change", "write"}, user : MaybeUser]
       \cup [op : {"resume"}, user : MaybeUser, ok : BOOLEAN, closes : Nat]

TypeOK ==
    /\ authUser \in MaybeUser /\ provUser \in MaybeUser
    /\ engineUser \in MaybeUser /\ token \in MaybeUser
    /\ asked \subseteq Request
    /\ fetching \subseteq Request \X Users
    /\ main \in Seq(Block)
    /\ worker \in Seq(Job)
    /\ stream \in {"Initial", "Starting", "Open"}
    /\ counter \in Nat /\ closes \in Nat
    /\ bounds \in [changes : 0 .. MaxChanges, starts : 0 .. MaxStarts,
                   writes : 0 .. MaxWrites]

Init ==
    /\ authUser \in MaybeUser
    /\ provUser = authUser /\ engineUser = authUser /\ token = None
    /\ asked = {} /\ fetching = {}
    /\ main = <<>> /\ worker = <<>>
    /\ counter = 0 /\ closes = 0
    /\ stream = "Initial"
    /\ bounds = [changes |-> 0, starts |-> 0, writes |-> 0]

Notify(u) == [op |-> "notify", user |-> u]
Change(u) == [op |-> "change", user |-> u]
WriteOf(u) == [op |-> "write", user |-> u]
Token(u, ok, r) == [op |-> "token", user |-> u, ok |-> ok, req |-> r]
Resume(u, ok, n) == [op |-> "resume", user |-> u, ok |-> ok, closes |-> n]

-----------------------------------------------------------------------------
(* Firebase Auth, on its work queue. *)

\* updateCurrentUser: a sign-in or a sign-out.
UpdateCurrentUser(u) ==
    /\ u # authUser /\ bounds.changes < MaxChanges
    /\ bounds' = [bounds EXCEPT !.changes = @ + 1]
    /\ authUser' = u
    /\ main' = Append(main, Notify(u))
    /\ UNCHANGED <<asked, fetching, provVars, worker, streamVars>>

\* Mutant of TakeRequest: a token is fetched although nobody is signed in.
TakeRequestUnchecked(r) ==
    /\ r \in asked
    /\ asked' = asked \ {r}
    /\ fetching' = fetching \cup {<<r, authUser>>}
    /\ UNCHANGED <<authUser, main, provVars, worker, streamVars, bounds>>

\* getTokenForcingRefresh: whose token it is, is decided here.
TakeRequest(r) ==
    /\ r \in asked
    /\ asked' = asked \ {r}
    /\ IF authUser = None
       THEN /\ main' = Append(main, Token(None, TRUE, r))
            /\ UNCHANGED fetching
       ELSE /\ fetching' = fetching \cup {<<r, authUser>>}
            /\ UNCHANGED main
    /\ UNCHANGED <<authUser, provVars, worker, streamVars, bounds>>

\* The token service answers from its cache, or after a round trip.
TokenFetched(f) ==
    /\ f \in fetching
    /\ fetching' = fetching \ {f}
    /\ main' = Append(main, Token(f[2], TRUE, f[1]))
    /\ UNCHANGED <<authUser, asked, provVars, worker, streamVars, bounds>>

\* The round trip renewed the token: updateKeychain posts a notification
\* first, if the user is still the current one.
TokenRenewed(f) ==
    /\ f \in fetching /\ bounds.changes < MaxChanges
    /\ bounds' = [bounds EXCEPT !.changes = @ + 1]
    /\ fetching' = fetching \ {f}
    /\ main' = main \o (IF f[2] = authUser THEN <<Notify(f[2])>> ELSE <<>>)
                    \o <<Token(f[2], TRUE, f[1])>>
    /\ UNCHANGED <<authUser, asked, provVars, worker, streamVars>>

\* The round trip fails; signOutIfTokenIsInvalidWithError first signs the
\* user out if his account is gone.
TokenFailed(f, gone) ==
    /\ f \in fetching /\ bounds.changes < MaxChanges
    /\ bounds' = [bounds EXCEPT !.changes = @ + 1]
    /\ fetching' = fetching \ {f}
    /\ LET signOut == gone /\ f[2] = authUser
       IN  /\ authUser' = IF signOut THEN None ELSE authUser
           /\ main' = main \o (IF signOut THEN <<Notify(None)>> ELSE <<>>)
                           \o <<Token(f[2], FALSE, f[1])>>
    /\ UNCHANGED <<asked, provVars, worker, streamVars>>

\* scheduleAutoTokenRefresh: the token is renewed before it expires.
AutoTokenRefresh ==
    /\ authUser # None /\ bounds.changes < MaxChanges
    /\ bounds' = [bounds EXCEPT !.changes = @ + 1]
    /\ main' = Append(main, Notify(authUser))
    /\ UNCHANGED <<authVars, provVars, worker, streamVars>>

-----------------------------------------------------------------------------
(* The main queue. *)

\* Mutant of HandleNotify: the client is not told of a sign-out.
HandleNotifySignIn ==
    /\ main # <<>> /\ Head(main).op = "notify"
    /\ main' = Tail(main)
    /\ provUser' = Head(main).user
    /\ counter' = counter + 1
    /\ worker' = IF provUser' = None THEN worker ELSE Append(worker, Change(provUser'))
    /\ UNCHANGED <<authVars, streamVars, bounds>>

\* The provider's observer, and with it the client's credential listener.
HandleNotify ==
    /\ main # <<>> /\ Head(main).op = "notify"
    /\ main' = Tail(main)
    /\ provUser' = Head(main).user
    /\ counter' = counter + 1
    /\ worker' = Append(worker, Change(Head(main).user))
    /\ UNCHANGED <<authVars, streamVars, bounds>>

\* get_token_callback: asks again if a notification came in between.
HandleToken ==
    /\ main # <<>> /\ Head(main).op = "token"
    /\ main' = Tail(main)
    /\ LET b == Head(main)
       IN  IF b.req.counter # counter
           THEN /\ asked' = asked \cup {[b.req EXCEPT !.counter = counter]}
                /\ UNCHANGED worker
           ELSE /\ worker' = Append(worker, Resume(b.user, b.ok, b.req.closes))
                /\ UNCHANGED asked
    /\ UNCHANGED <<authUser, fetching, provVars, streamVars, bounds>>

\* The app writes for the user its own auth listener has reported.
AppWrite ==
    /\ bounds.writes < MaxWrites
    /\ bounds' = [bounds EXCEPT !.writes = @ + 1]
    /\ worker' = Append(worker, WriteOf(provUser))
    /\ UNCHANGED <<authVars, main, provVars, streamVars>>

-----------------------------------------------------------------------------
(* The worker queue. *)

\* Stream::Start and RequestCredentials, at close count n.
StartAt(n) ==
    /\ bounds.starts < MaxStarts
    /\ bounds' = [bounds EXCEPT !.starts = @ + 1]
    /\ stream' = "Starting"
    /\ asked' = asked \cup {[counter |-> counter, closes |-> n]}

\* There is something to send.
StartStream ==
    /\ stream = "Initial"
    /\ StartAt(closes)
    /\ UNCHANGED <<authUser, fetching, main, provVars, worker, engineUser,
                   token, closes>>

\* Mutant of CloseStream: the close is not counted.
CloseStreamUncounted ==
    /\ stream # "Initial"
    /\ stream' = "Initial"
    /\ UNCHANGED <<authVars, main, provVars, worker, engineUser, token, closes, bounds>>

\* An error, or the idle timer.
CloseStream ==
    /\ stream # "Initial"
    /\ stream' = "Initial"
    /\ closes' = closes + 1
    /\ UNCHANGED <<authVars, main, provVars, worker, engineUser, token, bounds>>

\* Mutant of HandleChange: the streams go on.
HandleChangeKeepsStream ==
    /\ worker # <<>> /\ Head(worker).op = "change"
    /\ worker' = Tail(worker)
    /\ engineUser' = Head(worker).user
    /\ UNCHANGED <<authVars, main, provVars, stream, token, closes, bounds>>

\* HandleCredentialChange: the new user's queue is opened and the streams are
\* restarted, the write stream only if that queue has something to send.
HandleChange ==
    /\ worker # <<>> /\ Head(worker).op = "change"
    /\ worker' = Tail(worker)
    /\ engineUser' = Head(worker).user
    /\ closes' = IF stream = "Initial" THEN closes ELSE closes + 1
    /\ \/ StartAt(closes')
       \/ stream' = "Initial" /\ UNCHANGED <<asked, bounds>>
    /\ UNCHANGED <<authUser, fetching, main, provVars, token>>

\* Mutant of HandleResume: an error is not handled.
HandleResumeIgnoresError ==
    /\ worker # <<>> /\ Head(worker).op = "resume"
    /\ worker' = Tail(worker)
    /\ LET j == Head(worker)
       IN  IF j.closes = closes /\ j.ok
           THEN stream' = "Open" /\ token' = j.user
           ELSE UNCHANGED <<stream, token>>
    /\ UNCHANGED <<authVars, main, provVars, engineUser, closes, bounds>>

\* The callback of RequestCredentials: dropped if the stream was closed since.
HandleResume ==
    /\ worker # <<>> /\ Head(worker).op = "resume"
    /\ worker' = Tail(worker)
    /\ LET j == Head(worker)
       IN  IF j.closes # closes THEN UNCHANGED <<stream, token, closes>>
           ELSE IF j.ok
           THEN stream' = "Open" /\ token' = j.user /\ UNCHANGED closes
           ELSE stream' = "Initial" /\ closes' = closes + 1 /\ UNCHANGED token
    /\ UNCHANGED <<authVars, main, provVars, engineUser, bounds>>

\* SyncEngine::WriteMutations; the queue itself is WritePipeline's matter.
HandleWrite ==
    /\ worker # <<>> /\ Head(worker).op = "write"
    /\ worker' = Tail(worker)
    /\ UNCHANGED <<authVars, main, provVars, streamVars, bounds>>

-----------------------------------------------------------------------------

AuthStep ==
    \/ \E r \in asked : TakeRequest(r)
    \/ \E f \in fetching : TokenFetched(f)

MainStep == HandleNotify \/ HandleToken
WorkerStep == HandleChange \/ HandleResume \/ HandleWrite

Next ==
    \/ \E u \in MaybeUser : UpdateCurrentUser(u)
    \/ \E f \in fetching :
          TokenRenewed(f) \/ \E gone \in BOOLEAN : TokenFailed(f, gone)
    \/ AutoTokenRefresh
    \/ AppWrite \/ StartStream \/ CloseStream
    \/ AuthStep \/ MainStep \/ WorkerStep

Spec == Init /\ [][Next]_vars

\* The three queues run what is posted to them, and a token arrives.
FairSpec ==
    Spec /\ WF_vars(AuthStep) /\ WF_vars(MainStep) /\ WF_vars(WorkerStep)

-----------------------------------------------------------------------------

\* A user's mutations are sent under his own token, whatever changes of user
\* and late tokens cross on the three queues.
CallMatchesQueue == stream = "Open" => token = engineUser

\* A token that is taken finds the stream as it left it: the assertion of
\* ResumeStartWithCredentials.
ResumeFindsStarting ==
    \A i \in DOMAIN worker :
        worker[i].op = "resume" /\ worker[i].closes = closes
            => stream = "Starting"

\* A write joins the queue of the user the app believed to be signed in.
WriteJoinsItsQueue ==
    worker # <<>> /\ Head(worker).op = "write"
        => Head(worker).user = engineUser

\* A stream does not stay in Starting: a token that comes too late for the
\* provider is asked for again.
StartLeadsOn == stream = "Starting" ~> stream # "Starting"

=============================================================================
