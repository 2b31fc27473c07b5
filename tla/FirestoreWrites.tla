--------------------------- MODULE FirestoreWrites ---------------------------
(***************************************************************************)
(* What becomes of addDocument, setData, updateData and delete: the write  *)
(* path of the Firestore client in Pods/FirebaseFirestore.                 *)
(*                                                                         *)
(* A write is stored in the mutation queue of the current user, which      *)
(* outlives the process.  RemoteStore copies the head of that queue into a *)
(* pipeline, sends it over the write stream, and takes the answers as      *)
(* being for the front of the pipeline, in order: nothing in an answer     *)
(* says which write it is for.  A stream that breaks is started again,     *)
(* with backoff and a fresh token, and the pipeline is sent anew; a change *)
(* of user replaces the queue.                                             *)
(*                                                                         *)
(* Everything but the server and the provider of tokens runs on one worker *)
(* queue, so that a handler is one step.  The n-th write made is called n. *)
(* The stream token is left out: the handshake never sends it.             *)
(***************************************************************************)
EXTENDS Integers, FiniteSets, Sequences, SequencesExt

CONSTANTS
    Users,             \* Firebase users of the device, the signed-out one included
    MaxPendingWrites,  \* kMaxPendingWrites
    MaxWrites,         \* bound: writes made
    MaxDisruptions,    \* bound: broken streams, failing tokens, changes of user, kills
    Nil

ASSUME WritesAssumption ==
    /\ Nil \notin Users
    /\ MaxPendingWrites \in Nat \ {0}
    /\ MaxWrites \in Nat
    /\ MaxDisruptions \in Nat

VARIABLES
    mutations,     \* the stored queues: the writes of each user by batch id
    authUser,      \* Contents.current_user
    tokenCounter,  \* Contents.token_counter
    tasks,         \* what others have enqueued on the worker queue
    user,          \* SyncEngine.current_user_
    nextBatchId,   \* of the mutation queue in use
    callbacks,     \* mutation_callbacks_: the write whose completion waits, by user and batch id
    pipeline,      \* write_pipeline_
    stream,        \* the write stream
    wire,          \* writes sent on it and not yet taken by the server
    answers,       \* answers of the server not yet read
    streamUser,    \* whose token opened it
    applied,       \* history: what the server applied as each user, in order
    refused,       \* history: writes the server refused at least once
    owner,         \* history: who made each write
    told,          \* history: what its completion was told
    disruptions

provider == <<authUser, tokenCounter>>
channel == <<wire, answers, streamUser>>
client == <<user, nextBatchId, callbacks, pipeline, stream>>

vars == <<mutations, provider, tasks, client, channel, applied, refused, owner,
          told, disruptions>>

-----------------------------------------------------------------------------

Writes == 1..MaxWrites

Batch == [id: Nat, write: Writes]

TokenRequest == [closeCount: Nat, counter: Nat]

Task == [op: {"credential"}, user: Users]
            \cup [op: {"token"}, user: Users \cup {Nil}, closeCount: Nat]

Stream == [state: {"Initial", "Starting", "Open", "Error", "Backoff"},
           handshakeComplete: BOOLEAN, idleTimer: BOOLEAN,
           closeCount: Nat, requests: SUBSET TokenRequest]

Answer == [write: Writes, verdict: {"applied", "refused", "aborted"}]

\* A queue is stored as a function from its batch ids.
Stored(q) == DOMAIN q \subseteq Nat /\ \A id \in DOMAIN q : q[id] \in Writes

TypeOK ==
    /\ DOMAIN mutations = Users /\ \A u \in Users : Stored(mutations[u])
    /\ authUser \in Users /\ tokenCounter \in Nat
    /\ tasks \in Seq(Task)
    /\ user \in Users /\ nextBatchId \in Nat
    /\ DOMAIN callbacks = Users /\ \A u \in Users : Stored(callbacks[u])
    /\ pipeline \in Seq(Batch) /\ Len(pipeline) <= MaxPendingWrites
    /\ stream \in Stream
    /\ wire \in Seq(Writes) /\ answers \in Seq(Answer)
    /\ streamUser \in Users \cup {Nil}
    /\ applied \in [Users -> Seq(Writes)]
    /\ refused \subseteq Writes
    /\ owner \in Seq(Users)
    /\ told \in [Writes -> Seq({"ok", "failed"})]
    /\ disruptions \in 0..MaxDisruptions

NoBatches == [id \in {} |-> 0]

Init ==
    /\ mutations = [u \in Users |-> NoBatches]
    /\ authUser \in Users /\ tokenCounter = 0
    /\ tasks = <<>>
    /\ user = authUser /\ nextBatchId = 1
    /\ callbacks = [u \in Users |-> NoBatches]
    /\ pipeline = <<>>
    /\ stream = [state |-> "Initial", handshakeComplete |-> FALSE, idleTimer |-> FALSE,
                 closeCount |-> 0, requests |-> {}]
    /\ wire = <<>> /\ answers = <<>> /\ streamUser = Nil
    /\ applied = [u \in Users |-> <<>>] /\ refused = {}
    /\ owner = <<>> /\ told = [w \in Writes |-> <<>>]
    /\ disruptions = 0

Disrupt == disruptions < MaxDisruptions /\ disruptions' = disruptions + 1

-----------------------------------------------------------------------------
(* LevelDbMutationQueue                                                    *)

\* Mutant: ids start over, whatever is stored.
FirstBatchId(stored) == 1

\* Ids start over when the stored queues have been emptied.
LoadNextBatchId(stored) == 1 + Max({0} \cup UNION {DOMAIN stored[u] : u \in Users})

AddMutationBatch(q, w) ==
    [id \in DOMAIN q \cup {nextBatchId} |-> IF id = nextBatchId THEN w ELSE q[id]]

\* insert leaves a completion that is there.
AddMutationCallback(c, w) ==
    [id \in DOMAIN c \cup {nextBatchId} |-> IF id \in DOMAIN c THEN c[id] ELSE w]

RemoveMutationBatch(q, id) == Restrict(q, DOMAIN q \ {id})

\* The n-th id of a queue, in the order of its keys.
NthId(ids, n) == CHOOSE id \in ids : Cardinality({earlier \in ids : earlier < id}) = n - 1

\* Mutant: the pipeline takes one batch too many.
NextBatchesAndOne(q, p) ==
    LET later == {id \in DOMAIN q : p = <<>> \/ id > Last(p).id}
        count == Min({MaxPendingWrites + 1 - Len(p), Cardinality(later)})
    IN [n \in 1..count |-> [id |-> NthId(later, n), write |-> q[NthId(later, n)]]]

\* Mutant: the newest batch goes first.
NextBatchesNewest(q, p) ==
    LET later == {id \in DOMAIN q : p = <<>> \/ id > Last(p).id}
    IN IF later = {} \/ Len(p) = MaxPendingWrites THEN <<>>
       ELSE <<[id |-> Max(later), write |-> q[Max(later)]]>>

\* What the loop of FillWritePipeline finds with NextMutationBatchAfterBatchId
\* after the last batch of p, until the pipeline is full or the queue ends.
NextBatches(q, p) ==
    LET later == {id \in DOMAIN q : p = <<>> \/ id > Last(p).id}
        count == Min({MaxPendingWrites - Len(p), Cardinality(later)})
    IN [n \in 1..count |-> [id |-> NthId(later, n), write |-> q[NthId(later, n)]]]

-----------------------------------------------------------------------------
(* Stream and WriteStream                                                  *)

IsStarted(s) == s.state \in {"Starting", "Backoff", "Open"}

CanSend(s) == s.state = "Open" /\ s.handshakeComplete

\* RequestCredentials remembers how often the stream had been closed.
Start(s) ==
    IF s.state = "Error" THEN [s EXCEPT !.state = "Backoff"]
    ELSE [s EXCEPT !.state = "Starting",
                   !.requests = @ \cup {[closeCount |-> s.closeCount, counter |-> tokenCounter]}]

MarkIdle(s) == IF s.state = "Open" THEN [s EXCEPT !.idleTimer = TRUE] ELSE s

\* Stop does nothing to a stream that is not started, even after an error.
Close(s, state) ==
    IF IsStarted(s)
    THEN [s EXCEPT !.state = state, !.handshakeComplete = FALSE, !.idleTimer = FALSE,
                   !.closeCount = @ + 1]
    ELSE s

StartIfNeeded(s, p) == IF p # <<>> /\ ~IsStarted(s) THEN Start(s) ELSE s

-----------------------------------------------------------------------------
(* RemoteStore                                                             *)

Mutations(batches) == [i \in DOMAIN batches |-> batches[i].write]

\* From the queue q and the pipeline p, with s the stream and sent on its wire.
FillWritePipeline(q, p, s, sent) ==
    LET added == NextBatches(q, p)
        sends == CanSend(s) /\ added # <<>>
    IN /\ pipeline' = p \o added
       /\ wire' = IF sends THEN sent \o Mutations(added) ELSE sent
       /\ stream' = StartIfNeeded(
              IF p \o added = <<>> THEN MarkIdle(s)
              ELSE IF sends THEN [s EXCEPT !.idleTimer = FALSE] ELSE s, p \o added)

\* NotifyUser: a batch of an earlier process has no completion.
NotifyUser(id, outcome) ==
    /\ told' = IF id \in DOMAIN callbacks[user]
               THEN [told EXCEPT ![callbacks[user][id]] = Append(@, outcome)] ELSE told
    /\ callbacks' = [callbacks EXCEPT ![user] = RemoveMutationBatch(@, id)]

Ended == answers # <<>> /\ Last(answers).verdict # "applied"

\* The stream goes; of what was on its way the server may have taken a part.
Disconnect ==
    /\ answers' = <<>> /\ streamUser' = Nil
    /\ \E n \in 0..(IF Ended THEN 0 ELSE Len(wire)) :
          applied' = [u \in Users |->
              IF u = streamUser THEN applied[u] \o SubSeq(wire, 1, n) ELSE applied[u]]

-----------------------------------------------------------------------------
(* SyncEngine                                                              *)

WriteMutations ==
    /\ Len(owner) < MaxWrites
    /\ LET w == Len(owner) + 1
           q == AddMutationBatch(mutations[user], w)
       IN /\ mutations' = [mutations EXCEPT ![user] = q]
          /\ nextBatchId' = nextBatchId + 1
          /\ callbacks' = [callbacks EXCEPT ![user] = AddMutationCallback(@, w)]
          /\ owner' = Append(owner, user)
          /\ FillWritePipeline(q, pipeline, stream, wire)
    /\ UNCHANGED <<provider, tasks, user, answers, streamUser, applied, refused, told, disruptions>>

Run(op) == tasks # <<>> /\ Head(tasks).op = op /\ tasks' = Tail(tasks)

\* Mutant: the queue is swapped, the write stream goes on.
SwapQueueOnly ==
    /\ Run("credential")
    /\ user' = Head(tasks).user
    /\ nextBatchId' = IF user' = user THEN nextBatchId ELSE LoadNextBatchId(mutations)
    /\ FillWritePipeline(mutations[user'], <<>>, stream, wire)
    /\ UNCHANGED <<mutations, provider, callbacks, answers, streamUser, applied, refused,
                   owner, told, disruptions>>

\* Mutant: the streams restart with the pipeline they had.
RestartStreamsOnly ==
    /\ Run("credential")
    /\ user' = Head(tasks).user
    /\ nextBatchId' = IF user' = user THEN nextBatchId ELSE LoadNextBatchId(mutations)
    /\ Disconnect
    /\ FillWritePipeline(mutations[user'], pipeline, Close(stream, "Initial"), <<>>)
    /\ UNCHANGED <<mutations, provider, callbacks, refused, owner, told, disruptions>>

\* The queue is swapped if the user is another one, the streams restart in any case.
HandleCredentialChange ==
    /\ Run("credential")
    /\ user' = Head(tasks).user
    /\ nextBatchId' = IF user' = user THEN nextBatchId ELSE LoadNextBatchId(mutations)
    /\ Disconnect
    /\ FillWritePipeline(mutations[user'], <<>>, Close(stream, "Initial"), <<>>)
    /\ UNCHANGED <<mutations, provider, callbacks, refused, owner, told, disruptions>>

-----------------------------------------------------------------------------
(* Credentials                                                             *)

\* Auth posts FIRAuthStateDidChangeInternalNotification.
AuthStateChange(u) ==
    /\ Disrupt
    /\ authUser' = u
    /\ tokenCounter' = tokenCounter + 1
    /\ tasks' = Append(tasks, [op |-> "credential", user |-> u])
    /\ UNCHANGED <<mutations, client, channel, applied, refused, owner, told>>

TokenTask(r, u) == [op |-> "token", user |-> u, closeCount |-> r.closeCount]

\* A token asked for before the user changed is refused by the provider.
GetToken(r) ==
    /\ r \in stream.requests
    /\ stream' = [stream EXCEPT !.requests = @ \ {r}]
    /\ \/ /\ r.counter = tokenCounter
          /\ tasks' = Append(tasks, TokenTask(r, authUser))
          /\ UNCHANGED disruptions
       \/ /\ r.counter # tokenCounter
          /\ tasks' = Append(tasks, TokenTask(r, Nil))
          /\ UNCHANGED disruptions
       \/ /\ r.counter = tokenCounter /\ Disrupt
          /\ tasks' = Append(tasks, TokenTask(r, Nil))
    /\ UNCHANGED <<mutations, provider, user, nextBatchId, callbacks, pipeline, channel,
                   applied, refused, owner, told>>

\* The stream was closed, and perhaps started again, since the token was asked for.
IgnoreToken ==
    /\ Run("token") /\ Head(tasks).closeCount # stream.closeCount
    /\ UNCHANGED <<mutations, provider, client, channel, applied, refused, owner, told, disruptions>>

\* Mutant: a token that fails is not asked for again.
TokenFailedForGood ==
    /\ Run("token") /\ Head(tasks).closeCount = stream.closeCount
    /\ Head(tasks).user = Nil
    /\ stream' = Close(stream, "Error")
    /\ UNCHANGED <<mutations, provider, user, nextBatchId, callbacks, pipeline, channel,
                   applied, refused, owner, told, disruptions>>

TokenFailed ==
    /\ Run("token") /\ Head(tasks).closeCount = stream.closeCount
    /\ Head(tasks).user = Nil
    /\ stream' = StartIfNeeded(Close(stream, "Error"), pipeline)
    /\ UNCHANGED <<mutations, provider, user, nextBatchId, callbacks, pipeline, channel,
                   applied, refused, owner, told, disruptions>>

\* gRPC reports the start before it connects, and the handshake is sent at once.
ResumeStart ==
    /\ Run("token") /\ Head(tasks).closeCount = stream.closeCount
    /\ Head(tasks).user # Nil
    /\ stream' = [stream EXCEPT !.state = "Open", !.idleTimer = FALSE]
    /\ streamUser' = Head(tasks).user
    /\ UNCHANGED <<mutations, provider, user, nextBatchId, callbacks, pipeline, wire, answers,
                   applied, refused, owner, told, disruptions>>

BackoffElapsed ==
    /\ stream.state = "Backoff"
    /\ stream' = Start([stream EXCEPT !.state = "Initial"])
    /\ UNCHANGED <<mutations, provider, tasks, user, nextBatchId, callbacks, pipeline, channel,
                   applied, refused, owner, told, disruptions>>

-----------------------------------------------------------------------------
(* The open stream                                                         *)

\* Mutant: what was sent on an earlier stream is not sent again.
HandshakeOnly ==
    /\ stream.state = "Open" /\ ~stream.handshakeComplete
    /\ stream' = [stream EXCEPT !.handshakeComplete = TRUE]
    /\ UNCHANGED <<mutations, provider, tasks, user, nextBatchId, callbacks, pipeline, channel,
                   applied, refused, owner, told, disruptions>>

\* The first answer is the handshake's; the pipeline is sent after it.
OnHandshakeComplete ==
    /\ stream.state = "Open" /\ ~stream.handshakeComplete
    /\ stream' = [stream EXCEPT !.handshakeComplete = TRUE,
                                !.idleTimer = @ /\ pipeline = <<>>]
    /\ wire' = wire \o Mutations(pipeline)
    /\ UNCHANGED <<mutations, provider, tasks, user, nextBatchId, callbacks, pipeline, answers,
                   streamUser, applied, refused, owner, told, disruptions>>

\* Mutant: the room an answer makes in the pipeline is not filled.
AcknowledgeOnly ==
    /\ answers # <<>> /\ Head(answers).verdict = "applied"
    /\ answers' = Tail(answers)
    /\ NotifyUser(Head(pipeline).id, "ok")
    /\ mutations' = [mutations EXCEPT ![user] = RemoveMutationBatch(@, Head(pipeline).id)]
    /\ pipeline' = Tail(pipeline)
    /\ UNCHANGED <<provider, tasks, user, nextBatchId, stream, wire, streamUser, applied, refused,
                   owner, disruptions>>

\* OnWriteStreamMutationResult, HandleSuccessfulWrite, AcknowledgeBatch.
OnMutationResult ==
    /\ answers # <<>> /\ Head(answers).verdict = "applied"
    /\ answers' = Tail(answers)
    /\ LET batch == Head(pipeline)
           q == RemoveMutationBatch(mutations[user], batch.id)
       IN /\ NotifyUser(batch.id, "ok")
          /\ mutations' = [mutations EXCEPT ![user] = q]
          /\ FillWritePipeline(q, Tail(pipeline), stream, wire)
    /\ UNCHANGED <<provider, tasks, user, nextBatchId, streamUser, applied, refused, owner,
                   disruptions>>

\* Mutant: the next write will start the stream.
CloseOnly ==
    /\ Disconnect
    /\ wire' = <<>>
    /\ stream' = Close(stream, "Initial")
    /\ UNCHANGED <<mutations, callbacks, pipeline, told>>

\* OnWriteStreamClose with an error that resending may cure.
CloseAndRetry ==
    /\ Disconnect
    /\ wire' = <<>>
    /\ stream' = StartIfNeeded(Close(stream, "Error"), pipeline)
    /\ UNCHANGED <<mutations, callbacks, pipeline, told>>

\* HandleWriteError with a permanent error: the front of the pipeline is given up.
CloseAndReject ==
    /\ Disconnect
    /\ LET batch == Head(pipeline)
           q == RemoveMutationBatch(mutations[user], batch.id)
       IN /\ NotifyUser(batch.id, "failed")
          /\ mutations' = [mutations EXCEPT ![user] = q]
          /\ FillWritePipeline(q, Tail(pipeline), Close(stream, "Initial"), <<>>)


\* The status of the stream comes after the answers, when all are read; or as
\* soon as a write still to be sent fails, and then those that wait are dropped.
StreamFinishes == Ended /\ (Len(answers) = 1 \/ wire # <<>>)

\* Mutant: IsPermanentError, where kAborted counts, decides.
FinishPermanently ==
    /\ StreamFinishes
    /\ CloseAndReject
    /\ UNCHANGED <<provider, tasks, user, nextBatchId, refused, owner, disruptions>>

OnStreamFinish ==
    /\ StreamFinishes
    /\ IF Last(answers).verdict = "refused" THEN CloseAndReject ELSE CloseAndRetry
    /\ UNCHANGED <<provider, tasks, user, nextBatchId, refused, owner, disruptions>>

ConnectionLost ==
    /\ stream.state = "Open" /\ Disrupt
    /\ CloseAndRetry
    /\ UNCHANGED <<provider, tasks, user, nextBatchId, refused, owner>>

IdleTimeout ==
    /\ stream.idleTimer
    /\ Disconnect
    /\ wire' = <<>>
    /\ stream' = StartIfNeeded(Close(stream, "Initial"), pipeline)
    /\ UNCHANGED <<mutations, provider, tasks, user, nextBatchId, callbacks, pipeline,
                   refused, owner, told, disruptions>>

-----------------------------------------------------------------------------
(* The server and the process                                              *)

TakeWrite(verdict) ==
    /\ wire # <<>> /\ ~Ended
    /\ wire' = Tail(wire)
    /\ answers' = Append(answers, [write |-> Head(wire), verdict |-> verdict])
    /\ UNCHANGED <<mutations, provider, tasks, client, streamUser, owner, told>>

ServerApplies ==
    /\ TakeWrite("applied")
    /\ applied' = [applied EXCEPT ![streamUser] = Append(@, Head(wire))]
    /\ UNCHANGED <<refused, disruptions>>

ServerRefuses ==
    /\ TakeWrite("refused")
    /\ refused' = refused \cup {Head(wire)}
    /\ UNCHANGED <<applied, disruptions>>

\* kAborted is permanent for IsPermanentError, and not for IsPermanentWriteError.
ServerAborts ==
    /\ TakeWrite("aborted") /\ Disrupt
    /\ UNCHANGED <<applied, refused>>

\* The process is killed and started again: FirestoreClient::Initialize.
\* Counters are only compared with what the same process captured, and go on.
Restart(stored) ==
    /\ mutations' = stored
    /\ Disconnect
    /\ tasks' = <<>>
    /\ user' = authUser /\ nextBatchId' = LoadNextBatchId(stored)
    /\ callbacks' = [u \in Users |-> NoBatches]
    /\ FillWritePipeline(stored[authUser], <<>>,
          [state |-> "Initial", handshakeComplete |-> FALSE, idleTimer |-> FALSE,
           closeCount |-> stream.closeCount, requests |-> {}], <<>>)
    /\ UNCHANGED <<provider, refused, owner>>

Kill == Disrupt /\ Restart(mutations) /\ UNCHANGED told

\* HandleSuccessfulWrite tells the application first and removes the batch next.
KillInSuccess ==
    /\ Disrupt
    /\ answers # <<>> /\ Head(answers).verdict = "applied"
    /\ LET id == Head(pipeline).id
       IN /\ id \in DOMAIN callbacks[user]
          /\ told' = [told EXCEPT ![callbacks[user][id]] = Append(@, "ok")]
    /\ Restart(mutations)

\* HandleRejectedWrite does it the other way round.
KillInRejection ==
    /\ Disrupt
    /\ StreamFinishes /\ Last(answers).verdict = "refused"
    /\ Restart([mutations EXCEPT ![user] = RemoveMutationBatch(@, Head(pipeline).id)])
    /\ UNCHANGED told

-----------------------------------------------------------------------------

Server == ServerApplies \/ ServerRefuses

Token == \E r \in stream.requests : GetToken(r)

Tasks == HandleCredentialChange \/ IgnoreToken \/ TokenFailed \/ ResumeStart

Next ==
    \/ WriteMutations
    \/ \E u \in Users : AuthStateChange(u)
    \/ Token \/ Tasks \/ BackoffElapsed
    \/ OnHandshakeComplete \/ OnMutationResult \/ OnStreamFinish
    \/ ConnectionLost \/ IdleTimeout
    \/ Server \/ ServerAborts
    \/ Kill \/ KillInSuccess \/ KillInRejection

Spec == Init /\ [][Next]_vars

\* The worker queue runs what is enqueued, timers elapse, and the provider and
\* the server answer.  Nobody has to write, and streams may break as long as
\* disruptions last.
Fairness ==
    /\ WF_vars(Token) /\ WF_vars(Tasks) /\ WF_vars(BackoffElapsed)
    /\ WF_vars(OnHandshakeComplete) /\ WF_vars(OnMutationResult) /\ WF_vars(OnStreamFinish)
    /\ WF_vars(Server)

FairSpec == Spec /\ Fairness

-----------------------------------------------------------------------------

\* However streams break and users change, the pipeline is what a fresh start
\* would load: the oldest batches of the user, in order, as many as fit.  A gap
\* or a leftover of the last user would give answers to the wrong write.
PipelineIsQueueHead == pipeline = NextBatches(mutations[user], <<>>)

\* Writes that wait have a stream that will take them, and the idle timer of an
\* open stream never runs while writes wait (the assertion of OnWriteStreamClose).
PipelineIsServed ==
    /\ pipeline # <<>> => IsStarted(stream) /\ ~stream.idleTimer
    /\ stream.state = "Starting" =>
          \/ \E r \in stream.requests : r.closeCount = stream.closeCount
          \/ \E i \in DOMAIN tasks :
                tasks[i].op = "token" /\ tasks[i].closeCount = stream.closeCount

\* What is on the wire and in the answers is the pipeline, in its order, and
\* nothing of an earlier stream: taking an answer for the front is right.
AnswersMatchPipeline ==
    IF CanSend(stream)
    THEN Mutations(pipeline) = [i \in DOMAIN answers |-> answers[i].write] \o wire
    ELSE wire = <<>> /\ answers = <<>>

\* Ids are used again once the queues are empty, and completions are kept under
\* user and id while another user is active: one that waits is for the write
\* that is stored there.
CallbacksBelong ==
    \A u \in Users : \A id \in DOMAIN callbacks[u] :
        id \in DOMAIN mutations[u] /\ mutations[u][id] = callbacks[u][id]

\* The token of a stream is asked for on the worker, made by Auth and used on
\* the worker again, while users change: it is always the current user's.
StreamOfUser == streamUser \in {Nil, user}

\* A stream opened with the token of one user carries no write of another.
SentAsOwner ==
    \A u \in Users : \A i \in DOMAIN applied[u] : owner[applied[u][i]] = u

\* Writes are resent when their answer is lost, so the server may apply one
\* twice; but once nothing waits, no older write of a user has been applied
\* after a newer one, unless the server refused the newer one.
LastWriteWins ==
    \A u \in Users :
        mutations[u] = NoBatches /\ applied[u] # <<>> =>
            \A w \in DOMAIN owner :
                owner[w] = u /\ w > Last(applied[u]) => w \in refused

\* Once nobody disrupts them and nobody writes more, the writes of the current
\* user are acknowledged or given up, every one.
WritesSettle == mutations[user] # NoBatches ~> mutations[user] = NoBatches

\* The guard of each step that is not up to the application or a disruption.
StepIsDue ==
    \/ stream.requests # {} \/ tasks # <<>> \/ stream.state = "Backoff"
    \/ stream.state = "Open" /\ ~stream.handshakeComplete
    \/ answers # <<>> /\ Head(answers).verdict = "applied"
    \/ StreamFinishes
    \/ wire # <<>> /\ ~Ended

\* As long as a write of the user waits, some step is due.  Queue, pipeline,
\* stream, token, server and answers wait for each other in a circle: a write for
\* room, the pipeline for the stream, the stream for a token, the front for its
\* answer.
WaitingWritesMove == DOMAIN mutations[user] # {} => StepIsDue

\* A completion told of a failure belongs to a write the server refused.
FailedWasRefused ==
    \A w \in Writes : \A i \in DOMAIN told[w] : told[w][i] = "failed" => w \in refused

-----------------------------------------------------------------------------
(* What the client promises                                                *)

AppliedWrites == {w \in Writes : \E u \in Users : \E i \in DOMAIN applied[u] : applied[u][i] = w}

Stays(w) == \E u \in Users : \E id \in DOMAIN mutations[u] : mutations[u][id] = w

SettledWrites == {w \in DOMAIN owner : ~Stays(w)}

Promise == INSTANCE Outbox WITH applied <- AppliedWrites, settled <- SettledWrites

\* The pipeline implements the outbox, without its fairness.
ImplementsOutbox == Promise!Spec

-----------------------------------------------------------------------------
(* The inductive invariant behind the safety properties.                   *)

\* Every id in use is that of a write made by now, and below the next one.
IdsAreTaken ==
    /\ nextBatchId \in 1..(Len(owner) + 1)
    /\ \A u \in Users : \A id \in DOMAIN mutations[u] : id < nextBatchId

\* A handshake is of an open stream, and only an empty pipeline is idle after it.
TimerIsIdle ==
    /\ stream.handshakeComplete => stream.state = "Open"
    /\ stream.idleTimer => CanSend(stream)

WrittenBy(w, u) == w \in DOMAIN owner /\ owner[w] = u

OwnersKnown ==
    /\ \A u \in Users : \A id \in DOMAIN mutations[u] : WrittenBy(mutations[u][id], u)
    /\ \A i \in DOMAIN pipeline : WrittenBy(pipeline[i].write, user)
    /\ \A u \in Users : \A i \in DOMAIN applied[u] : WrittenBy(applied[u][i], u)

IsToken(i) == tasks[i].op = "token" /\ tasks[i].closeCount = stream.closeCount

IsAsked(r) == r.closeCount = stream.closeCount

\* At most one token is asked for or on its way to the stream that is starting;
\* the others are of streams that are closed.
OneToken ==
    /\ \A r \in stream.requests :
          /\ r.closeCount <= stream.closeCount
          /\ IsAsked(r) =>
                /\ stream.state = "Starting"
                /\ \A other \in stream.requests : IsAsked(other) => other = r
                /\ \A i \in DOMAIN tasks : ~IsToken(i)
    /\ \A i \in DOMAIN tasks : tasks[i].op = "token" =>
          /\ tasks[i].closeCount <= stream.closeCount
          /\ IsToken(i) =>
                /\ stream.state = "Starting"
                /\ \A j \in DOMAIN tasks : IsToken(j) => j = i

IsCredential(i) == tasks[i].op = "credential"

\* The worker will learn who Auth's user is.
UserIsComing ==
    /\ (\A i \in DOMAIN tasks : ~IsCredential(i)) => authUser = user
    /\ \A i \in DOMAIN tasks :
          /\ IsCredential(i)
          /\ \A j \in DOMAIN tasks : IsCredential(j) => j <= i
          => tasks[i].user = authUser

\* A token that comes before any change of user is the user's.
TokenIsOfUser ==
    \A i \in DOMAIN tasks :
        /\ IsToken(i)
        /\ \A j \in DOMAIN tasks : IsCredential(j) => i < j
        => tasks[i].user \in {Nil, user}

IInv ==
    /\ TypeOK /\ IdsAreTaken /\ CallbacksBelong
    /\ AnswersMatchPipeline /\ PipelineIsServed /\ TimerIsIdle
    /\ OwnersKnown /\ OneToken /\ UserIsComing /\ TokenIsOfUser /\ StreamOfUser

-----------------------------------------------------------------------------
(* The order of writes: an invariant that is inductive together with IInv. *)

\* p holds batches of q in the order of their ids, and none after one it lacks.
IsHead(q, p) ==
    /\ \A i \in DOMAIN p : p[i].id \in DOMAIN q /\ p[i].write = q[p[i].id]
    /\ \A i, j \in DOMAIN p : i < j => p[i].id < p[j].id
    /\ \A id \in DOMAIN q :
          (\A i \in DOMAIN p : p[i].id # id) => \A i \in DOMAIN p : p[i].id < id

\* p has all of q, or all there is room for.
IsFilled(q, p) ==
    \/ Len(p) = MaxPendingWrites
    \/ \A id \in DOMAIN q : \E i \in DOMAIN p : p[i].id = id

PipelineIsOldest == IsHead(mutations[user], pipeline) /\ IsFilled(mutations[user], pipeline)

\* Ids of a queue grow as the writes do, although they start over.
QueuesInOrder ==
    \A u \in Users : \A id, later \in DOMAIN mutations[u] :
        id < later => mutations[u][id] < mutations[u][later]

JudgedWrites == AppliedWrites \cup refused

EarlierOf(w) == {v \in DOMAIN owner : v < w /\ owner[v] = owner[w]}

\* The server comes to know the writes of a user in their order, and they leave
\* the queue in their order, after that.
JudgedInOrder ==
    \A w \in JudgedWrites : w \in DOMAIN owner /\ EarlierOf(w) \subseteq JudgedWrites

SettledInOrder ==
    \A w \in SettledWrites : w \in JudgedWrites /\ EarlierOf(w) \subseteq SettledWrites

\* Only the last answer can be a refusal, and the last write applied is not older
\* than one whose answer waits.
AnswersAreTrue ==
    \A i \in DOMAIN answers :
        /\ i < Len(answers) => answers[i].verdict = "applied"
        /\ answers[i].verdict = "refused" => answers[i].write \in refused
        /\ answers[i].verdict = "applied" =>
              /\ answers[i].write \in AppliedWrites
              /\ applied[user] # <<>> /\ answers[i].write <= Last(applied[user])

\* What is newer than the last write applied will be sent, or was refused.
NewerWait ==
    \A u \in Users : applied[u] # <<>> =>
        \A w \in DOMAIN owner :
            owner[w] = u /\ w > Last(applied[u]) => w \in refused \/ w \notin SettledWrites

\* Nobody is told of a write twice: who waits has not been told.
WaitingAreUntold ==
    /\ \A u \in Users : \A id \in DOMAIN callbacks[u] : told[callbacks[u][id]] = <<>>
    /\ \A w \in Writes : w > Len(owner) => told[w] = <<>>

OpenIsOfUser == stream.state = "Open" => streamUser = user

OrderInv ==
    /\ PipelineIsOldest /\ QueuesInOrder
    /\ JudgedInOrder /\ SettledInOrder /\ AnswersAreTrue /\ NewerWait
    /\ WaitingAreUntold /\ OpenIsOfUser

=============================================================================
