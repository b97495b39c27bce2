---------------------------- MODULE WritePipeline ----------------------------
(***************************************************************************)
(* How the Firestore client brings the apps' writes to the server.  The    *)
(* local store keeps one queue of mutation batches per user on disk;       *)
(* RemoteStore copies the oldest ones into a pipeline in memory and sends  *)
(* them over a write stream, a gRPC call that is opened on demand, closed  *)
(* when idle, and reopened with backoff after an error.  A response names  *)
(* no batch: it belongs to the front of the pipeline.                      *)
(*                                                                         *)
(* All of it runs on one serial worker queue, so a handler is one step.    *)
(* The handlers call each other; those that change only the client's       *)
(* volatile state c are operators from one value of c to the next.  The    *)
(* HARD_ASSERTs they pass are collected in c.fatal.                        *)
(***************************************************************************)
EXTENDS Integers, Sequences, FiniteSetsExt, SequencesExt, TLC

CONSTANTS
    Users,              \* accounts that use the device
    kMaxPendingWrites,  \* batches the pipeline holds
    WriteRace,          \* may a failed Write overtake a response?
    MaxWrites,          \* bound: writes the app issues
    MaxFaults           \* bound: errors, restarts and idle closes together

ASSUME WritePipelineAssumption ==
    /\ Users # {} /\ WriteRace \in BOOLEAN
    /\ kMaxPendingWrites \in Nat \ {0}
    /\ MaxWrites \in Nat /\ MaxFaults \in Nat

VARIABLES
    owner,      \* history: owner[w] is the user who issued the w-th write
    queue,      \* on disk, per user: the mutation batches, by batch id
    nextId,     \* next_batch_id_
    user,       \* SyncEngine::current_user_
    callbacks,  \* mutation_callbacks_, as user, batch id and the write
    done,       \* what each write's completion was told
    c,          \* RemoteStore and its write stream
    committed,  \* server: writes committed at least once
    over,       \* server: <<x, w>>, w last committed after x was
    refused,    \* server: writes it has refused
    faults      \* faults so far

vars == <<owner, queue, nextId, user, callbacks, done, c,
          committed, over, refused, faults>>

serverVars == <<committed, over, refused>>
queueVars == <<owner, queue, nextId, user, callbacks, done>>

Writes == 1 .. MaxWrites
Batch == [id : 1 .. MaxWrites, w : Writes]
Hello == [id |-> 0, w |-> 0]   \* the handshake and its response
Message == Batch \cup {Hello}
StreamState == {"Initial", "Starting", "Open", "Healthy", "Error", "Backoff"}
Status == {"ok", "transient", "permanent"}

Client ==
    [enabled : BOOLEAN,          \* is_network_enabled_
     pipeline : Seq(Batch),      \* write_pipeline_
     state : StreamState,        \* Stream::state_
     handshake : BOOLEAN,        \* handshake_complete_
     idle : BOOLEAN,             \* idleness_timer_ is set
     closes : 0 .. MaxFaults,    \* close_count_
     creds : SUBSET (0 .. MaxFaults),  \* close counts of token requests
     out : Seq(Message),         \* the call, towards the server
     in : Seq(Message),          \* responses not yet read
     status : Status,            \* the call's status; ok: it goes on
     failing : {"no", "armed", "ready"},  \* a Write that failed
     fatal : BOOLEAN]            \* a HARD_ASSERT failed

TypeOK ==
    /\ owner \in Seq(Users) /\ Len(owner) <= MaxWrites
    /\ queue \in [Users -> Seq(Batch)]
    /\ nextId \in 1 .. MaxWrites + 1
    /\ user \in Users
    /\ callbacks \subseteq Users \X Batch
    /\ done \in [Writes -> {"none", "ok", "error"}]
    /\ c \in Client
    /\ committed \subseteq Writes /\ refused \subseteq Writes
    /\ over \subseteq Writes \X Writes
    /\ faults \in 0 .. MaxFaults

-----------------------------------------------------------------------------
(* The write stream. *)

IsOpen(s) == s.state \in {"Open", "Healthy"}
IsStarted(s) == IsOpen(s) \/ s.state \in {"Starting", "Backoff"}

HardAssert(s, holds) == [s EXCEPT !.fatal = @ \/ ~holds]

\* Mutant of Send: the idle timer goes on.
SendKeepsTimer(s, messages) ==
    IF messages = <<>> THEN s
    ELSE [HardAssert(s, IsOpen(s)) EXCEPT !.out = @ \o messages]

\* Messages handed to the call.  Once the server has closed it, gRPC fails
\* the Write; a response that came before has left the call already and is
\* read first.
Send(s, messages) ==
    IF messages = <<>> THEN s
    ELSE [HardAssert(s, IsOpen(s)) EXCEPT
             !.idle = FALSE,
             !.out = @ \o messages,
             !.failing = IF ~WriteRace \/ s.status = "ok" \/ @ # "no" THEN @
                         ELSE IF s.in = <<>> THEN "ready" ELSE "armed"]

WriteHandshake(s) == Send(HardAssert(s, ~s.handshake), <<Hello>>)
WriteMutations(s, batches) == Send(HardAssert(s, s.handshake), batches)

\* Stream::Start: after an error only a timer is set.
Start(s) ==
    IF s.state = "Error" THEN [s EXCEPT !.state = "Backoff"]
    ELSE [HardAssert(s, s.state = "Initial") EXCEPT
             !.state = "Starting",
             !.creds = @ \cup {s.closes}]

InhibitBackoff(s) == [HardAssert(s, ~IsStarted(s)) EXCEPT !.state = "Initial"]

MarkIdle(s) == [s EXCEPT !.idle = @ \/ IsOpen(s)]

-----------------------------------------------------------------------------
(* RemoteStore. *)

ShouldStartWriteStream(s) == s.enabled /\ ~IsStarted(s) /\ s.pipeline # <<>>
MaybeStart(s) == IF ShouldStartWriteStream(s) THEN Start(s) ELSE s

\* The batches of q that follow the back of the pipeline, as many as fit.
NextMutationBatches(s, q) ==
    LET last == IF s.pipeline = <<>> THEN 0 ELSE Last(s.pipeline).id
        skip == CHOOSE k \in 0 .. Len(q) :
                    \A i \in 1 .. Len(q) : q[i].id > last <=> i > k
        room == IF s.enabled THEN kMaxPendingWrites - Len(s.pipeline) ELSE 0
    IN  SubSeq(q, skip + 1, Min({skip + room, Len(q)}))

FillWritePipeline(s, q) ==
    LET new == NextMutationBatches(s, q)
        filled == [s EXCEPT !.pipeline = @ \o new]
        sent == IF IsOpen(s) /\ s.handshake THEN WriteMutations(filled, new)
                ELSE filled
        marked == IF s.enabled /\ sent.pipeline = <<>> THEN MarkIdle(sent)
                  ELSE sent
    IN  MaybeStart(marked)

\* Mutant of RejectsFront: a failed handshake is charged to the front batch.
RejectsFrontUnshaken(s, status) == status = "permanent" /\ s.pipeline # <<>>

\* HandleWriteError: a permanent error is taken for the front batch's.
RejectsFront(s, status) ==
    status = "permanent" /\ s.pipeline # <<>> /\ s.handshake

\* Mutant of OnWriteStreamClose: the stream is not started again.
OnWriteStreamCloseWaits(s, status, q) ==
    LET checked == HardAssert(s, status = "ok" => ~ShouldStartWriteStream(s))
    IN  IF RejectsFront(s, status)
        THEN FillWritePipeline(
                 InhibitBackoff([checked EXCEPT !.pipeline = Tail(@)]), q)
        ELSE checked

\* OnWriteStreamClose; q is the user's queue once a rejected batch is gone.
OnWriteStreamClose(s, status, q) ==
    LET checked == HardAssert(s, status = "ok" => ~ShouldStartWriteStream(s))
        handled ==
            IF RejectsFront(s, status)
            THEN FillWritePipeline(
                     InhibitBackoff([checked EXCEPT !.pipeline = Tail(@)]), q)
            ELSE checked
    IN  MaybeStart(handled)

\* Stream::Close and WriteStream::NotifyStreamClose, which forgets the
\* handshake only after its delegate has run.  What was still on the wire of
\* the closed call is never committed: an assumption about the server, to
\* which the call is cancelled.
Close(s, status, q) ==
    LET closed == [HardAssert(s, IsStarted(s)) EXCEPT
                      !.idle = FALSE,
                      !.closes = @ + 1,
                      !.out = <<>>, !.in = <<>>,
                      !.status = "ok", !.failing = "no",
                      !.state = IF status = "ok" THEN "Initial" ELSE "Error"]
    IN  [OnWriteStreamClose(closed, status, q) EXCEPT !.handshake = FALSE]

Stop(s, q) == IF IsStarted(s) THEN Close(s, "ok", q) ELSE s

\* Mutant of Restart: the pipeline survives.
RestartKeepsPipeline(s, q) ==
    LET stopped == Stop([s EXCEPT !.enabled = FALSE], q)
    IN  FillWritePipeline([InhibitBackoff(stopped) EXCEPT !.enabled = TRUE], q)

\* RestartNetwork: after a connectivity or a credential change.
Restart(s, q) ==
    LET stopped == Stop([s EXCEPT !.enabled = FALSE], q)
        cleared == InhibitBackoff([stopped EXCEPT !.pipeline = <<>>])
    IN  FillWritePipeline([cleared EXCEPT !.enabled = TRUE], q)

\* RemoteStore::Start in a new process.
Launch(q) ==
    FillWritePipeline(
        [enabled |-> TRUE, pipeline |-> <<>>, state |-> "Initial",
         handshake |-> FALSE, idle |-> FALSE, closes |-> 0, creds |-> {},
         out |-> <<>>, in |-> <<>>, status |-> "ok", failing |-> "no",
         fatal |-> FALSE], q)

-----------------------------------------------------------------------------
(* The local store and the sync engine. *)

\* Mutants of LoadNextBatchId: the largest id itself; the number of batches.
LoadLastBatchId(q) ==
    Max({0} \cup UNION {{q[u][i].id : i \in DOMAIN q[u]} : u \in Users})
LoadNextByCount(q) == 1 + Max({Len(q[u]) : u \in Users})

\* LoadNextBatchIdFromDb: one past the largest id in any user's queue.
LoadNextBatchId(q) ==
    1 + Max({0} \cup UNION {{q[u][i].id : i \in DOMAIN q[u]} : u \in Users})

Exists(b) == \E i \in DOMAIN queue[user] : queue[user][i] = b

RemoveMutationBatch(b) ==
    [queue EXCEPT ![user] =
        IF Exists(b)
        THEN RemoveAt(@, CHOOSE i \in DOMAIN @ : @[i] = b)
        ELSE @]

\* NotifyUser: batches restored from disk have no callback.
NotifyUser(b, r) ==
    /\ done' = IF <<user, b>> \in callbacks THEN [done EXCEPT ![b.w] = r]
               ELSE done
    /\ callbacks' = callbacks \ {<<user, b>>}

Fault == faults < MaxFaults /\ faults' = faults + 1

-----------------------------------------------------------------------------

Init ==
    /\ owner = <<>>
    /\ queue = [u \in Users |-> <<>>]
    /\ nextId = 1
    /\ user \in Users
    /\ callbacks = {}
    /\ done = [w \in Writes |-> "none"]
    /\ c = Launch(<<>>)
    /\ committed = {} /\ over = {} /\ refused = {}
    /\ faults = 0

\* The app writes: SyncEngine::WriteMutations.
Write ==
    /\ Len(owner) < MaxWrites
    /\ LET b == [id |-> nextId, w |-> Len(owner) + 1]
       IN  /\ queue' = [queue EXCEPT ![user] = Append(@, b)]
           /\ callbacks' = callbacks \cup {<<user, b>>}
    /\ owner' = Append(owner, user)
    /\ nextId' = nextId + 1
    /\ c' = FillWritePipeline(c, queue'[user])
    /\ UNCHANGED <<user, done, serverVars, faults>>

\* The token a Start asked for arrives.  A request made before the last
\* close is ignored; an error closes the stream; a token opens the call.
Credentials(n, ok) ==
    /\ n \in c.creds
    /\ IF ok THEN UNCHANGED faults ELSE Fault
    /\ LET s == [c EXCEPT !.creds = @ \ {n}]
           resumed == HardAssert(s, s.state = "Starting")
       IN  c' = IF n # c.closes THEN s
                ELSE IF ok
                THEN WriteHandshake([resumed EXCEPT !.state = "Open"])
                ELSE Close(resumed, "transient", queue[user])
    /\ UNCHANGED <<queueVars, serverVars>>

\* Stream::OnStreamRead of the handshake's response: send the pipeline.
HandshakeComplete ==
    /\ c.in # <<>> /\ ~c.handshake
    /\ LET s == [c EXCEPT !.in = Tail(@), !.handshake = TRUE]
       IN  c' = WriteMutations(s, s.pipeline)
    /\ UNCHANGED <<queueVars, serverVars, faults>>

\* The volatile state after the response to the front batch is read.
AfterResult ==
    [HardAssert(c, c.pipeline # <<>>) EXCEPT
        !.in = Tail(@), !.pipeline = Tail(@),
        !.failing = IF @ = "armed" THEN "ready" ELSE @]

\* Mutant of MutationResult: the batch stays in the queue.
MutationResultKeepsBatch ==
    /\ c.in # <<>> /\ c.handshake /\ c.pipeline # <<>>
    /\ NotifyUser(Head(c.pipeline), "ok")
    /\ c' = FillWritePipeline(AfterResult, queue[user])
    /\ UNCHANGED <<owner, queue, nextId, user, serverVars, faults>>

\* OnStreamRead of a response: it is taken for the front batch's.  The
\* completion runs before the batch leaves the queue.
MutationResult ==
    /\ c.in # <<>> /\ c.handshake /\ c.pipeline # <<>>
    /\ LET b == Head(c.pipeline)
       IN  /\ NotifyUser(b, "ok")
           /\ queue' = RemoveMutationBatch(b)
           /\ c' = FillWritePipeline(HardAssert(AfterResult, Exists(b)),
                                     queue'[user])
    /\ UNCHANGED <<owner, nextId, user, serverVars, faults>>

\* OnStreamFinish with an error status: after every response is read, or as
\* soon as a failed Write is noticed, which takes one unread response with it.
StreamFinish ==
    /\ c.status # "ok"
    /\ c.in = <<>> \/ (c.failing = "ready" /\ Len(c.in) = 1)
    /\ LET rejects == RejectsFront(c, c.status)
           b == Head(c.pipeline)
       IN  IF rejects
           THEN /\ queue' = RemoveMutationBatch(b)
                /\ NotifyUser(b, "error")
                /\ c' = Close(HardAssert(c, Exists(b)), c.status, queue'[user])
           ELSE /\ c' = Close(c, c.status, queue[user])
                /\ UNCHANGED <<queue, done, callbacks>>
    /\ UNCHANGED <<owner, nextId, user, serverVars, faults>>

BackoffElapsed ==
    /\ c.state = "Backoff"
    /\ c' = Start([c EXCEPT !.state = "Initial"])
    /\ UNCHANGED <<queueVars, serverVars, faults>>

HealthCheck ==
    /\ c.state = "Open"
    /\ c' = [c EXCEPT !.state = "Healthy"]
    /\ UNCHANGED <<queueVars, serverVars, faults>>

IdleTimeout ==
    /\ c.idle /\ Fault
    /\ c' = Stop(c, queue[user])
    /\ UNCHANGED <<queueVars, serverVars>>

\* The network comes back, or the user's token is renewed.
RestartNetwork ==
    /\ Fault
    /\ c' = Restart(c, queue[user])
    /\ UNCHANGED <<queueVars, serverVars>>

\* Mutant of CredentialChange: the network is restarted before the queue of
\* the new user is opened.
CredentialChangeOldQueue(u) ==
    /\ u # user /\ Fault
    /\ user' = u
    /\ nextId' = LoadNextBatchId(queue)
    /\ c' = Restart(c, queue[user])
    /\ UNCHANGED <<owner, queue, callbacks, done, serverVars>>

\* SyncEngine::HandleCredentialChange with another user: his queue is
\* opened and the pipeline filled from it.
CredentialChange(u) ==
    /\ u # user /\ Fault
    /\ user' = u
    /\ nextId' = LoadNextBatchId(queue)
    /\ c' = Restart(c, queue[u])
    /\ UNCHANGED <<owner, queue, callbacks, done, serverVars>>

\* The process ends and is launched again with the same user.
Relaunch ==
    /\ callbacks' = {}
    /\ nextId' = LoadNextBatchId(queue)
    /\ c' = Launch(queue[user])
    /\ UNCHANGED <<owner, queue, user, serverVars>>

Kill == Fault /\ Relaunch /\ UNCHANGED done

\* It ends inside HandleSuccessfulWrite: the completion has run, the
\* transaction that removes the batch has not been committed.
KillInResult ==
    /\ c.in # <<>> /\ c.handshake /\ c.pipeline # <<>>
    /\ Fault /\ Relaunch
    /\ LET b == Head(c.pipeline)
       IN  done' = IF <<user, b>> \in callbacks THEN [done EXCEPT ![b.w] = "ok"]
                   ELSE done

-----------------------------------------------------------------------------
(* The server and the network, as the client meets them. *)

Serving == c.status = "ok" /\ c.out # <<>>

ServerHandshake ==
    /\ Serving /\ Head(c.out) = Hello
    /\ c' = [c EXCEPT !.out = Tail(@), !.in = Append(@, Hello)]
    /\ UNCHANGED <<queueVars, serverVars, faults>>

ServerCommit ==
    /\ Serving /\ Head(c.out) # Hello
    /\ LET b == Head(c.out)
       IN  /\ over' = {p \in over : p[1] # b.w}
                          \cup ((committed \ {b.w}) \X {b.w})
           /\ committed' = committed \cup {b.w}
           /\ c' = [c EXCEPT !.out = Tail(@), !.in = Append(@, b)]
    /\ UNCHANGED <<queueVars, refused, faults>>

\* A refusal ends the call; the messages behind it are not looked at.
ServerRefuse ==
    /\ Serving /\ Fault
    /\ refused' = refused \cup ({Head(c.out).w} \ {0})
    /\ c' = [c EXCEPT !.status = "permanent"]
    /\ UNCHANGED <<queueVars, committed, over>>

\* The call breaks; the last responses may be lost.
Break ==
    /\ IsOpen(c) /\ c.status = "ok" /\ Fault
    /\ \E k \in 0 .. Len(c.in) :
           c' = [c EXCEPT !.status = "transient", !.in = SubSeq(@, 1, k)]
    /\ UNCHANGED <<queueVars, serverVars>>

-----------------------------------------------------------------------------

ClientStep ==
    \/ \E n \in c.creds : Credentials(n, TRUE)
    \/ HandshakeComplete \/ MutationResult \/ StreamFinish \/ BackoffElapsed

ServerStep == ServerHandshake \/ ServerCommit

Disturbance ==
    \/ \E n \in c.creds : Credentials(n, FALSE)
    \/ \E u \in Users : CredentialChange(u)
    \/ IdleTimeout \/ RestartNetwork \/ Kill \/ KillInResult
    \/ ServerRefuse \/ Break

Next == Write \/ ClientStep \/ HealthCheck \/ ServerStep \/ Disturbance

Spec == Init /\ [][Next]_vars

\* The accounts can be exchanged.
UserSymmetry == Permutations(Users)

\* The worker queue runs what is ready, a token and an elapsed backoff
\* included, and the server answers while the call is up.
FairSpec == Spec /\ WF_vars(ClientStep) /\ WF_vars(ServerStep)

-----------------------------------------------------------------------------

BatchesOf(q) == {q[i] : i \in DOMAIN q}

\* No HARD_ASSERT of the stream, the pipeline or the mutation queue fails: a
\* stream is started, closed and written to only in the states meant for it,
\* and the idle timer never stops one that still has batches to send.
NoHardAssert == ~c.fatal

\* A response names no batch, so the call must carry the pipeline and nothing
\* else: the unread responses answer its front, in order, and what is not
\* answered yet is on its way, or the call is already broken.
StreamCarriesPipeline ==
    /\ IsPrefix(c.pipeline, queue[user])
    /\ c.handshake => IsPrefix(c.in, c.pipeline)
    /\ c.handshake /\ c.status # "transient" => c.in \o c.out = c.pipeline

\* Batch ids are reused after a change of user and after a restart.  Still a
\* completion waits only for a batch that is in its user's queue under the
\* same id, and no two batches of a queue share one.
CompletionsTrackQueue ==
    /\ \A p \in callbacks : p[2] \in BatchesOf(queue[p[1]])
    /\ \A u \in Users : \A i, j \in DOMAIN queue[u] :
           i < j => queue[u][i].id < queue[u][j].id

\* A completion that reports an error is that of a write the server refused.
RejectionHitsRefused == \A w \in Writes : done[w] = "error" => w \in refused

\* What is left of that when a failed Write overtakes a response, and all of
\* it when none does: an error is told of a refused write, or of one that was
\* committed and has a refused write of the same user behind it.  Errors are
\* never charged to another user, nor to a write the server has not answered.
RejectionFollowsRefusal ==
    \A w \in Writes : done[w] = "error" =>
        \/ w \in refused
        \/ /\ WriteRace /\ w \in committed
           /\ \E v \in refused : v > w /\ owner[v] = owner[w]

\* The refinement mapping: the acknowledgements in flight are the writes the
\* server has taken since the last loss.
Pending == [u \in Users |-> [i \in DOMAIN queue[u] |-> queue[u][i].w]]
Cursor == IF c.handshake THEN Len(c.in) ELSE 0
Waiting == {p[2].w : p \in callbacks}

WQ == INSTANCE WriteQueue WITH
          pending <- Pending, cursor <- Cursor, waiting <- Waiting

\* The pipeline keeps the promise of WriteQueue: the writes of a user reach the
\* server in order, stay queued across restarts until they are settled, and
\* only the oldest is given up, with at most one acknowledgement overtaken.
KeepsPromise == WQ!Spec

\* No earlier write of a user is ever committed over a later one of his whose
\* completion has reported success.
AckedNotOverwritten == WQ!AckedNotOverwritten

\* Once the faults stop the queue of the user who is signed in is emptied,
\* wherever they had left the stream and the timers.
QueueDrains == []<>(queue[user] = <<>>)

=============================================================================
