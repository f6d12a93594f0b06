---------------------------- MODULE TextToSpeech ----------------------------
(***************************************************************************)
(* POST /text-to-speech (app/routers/tts.py) in both of its modes, the     *)
(* text_to_speech table, the usage counters of app/services/usage.py and   *)
(* the queue to the voice worker (app/services/sqs_client.py).             *)
(*                                                                         *)
(* The handler runs on the event loop and its database calls are           *)
(* synchronous, so what it does between two awaits is one step.  It awaits *)
(* the send to SQS, the engine and the audio store; other handlers, the    *)
(* worker, a crash or a redeployment come in between.  The quota is one    *)
(* counter per user here: RateLimiter models how it is kept.               *)
(***************************************************************************)
EXTENDS Naturals, Sequences, FiniteSets

CONSTANTS
  User,
  Clip,      \* what text_hash tells apart: (text, voice, format) triples
  Handler,   \* requests the process serves at once
  Limit,     \* the smaller of rate_limit_rpm and rate_limit_rpd
  MaxJobs,   \* bound: rows in text_to_speech
  Faults     \* what may go wrong: see Fault

Fault == {"AckLost",   \* SQS takes a message and send_message still raises
          "Crash",     \* the process dies and is started again
          "DbLost"}    \* the except branch cannot reach the database either

ASSUME BoundsAssumption == Limit \in Nat /\ MaxJobs \in Nat
ASSUME FaultsAssumption == Faults \subseteq Fault

VARIABLES
  async,    \* settings.use_async_queue of the running process
  jobs,     \* the text_to_speech rows, by request_id
  audio,    \* the audio store: the clip under each key tts/<request_id>
  usage,    \* users.total_processing and users.total_failed
  used,     \* requests counted against each user's quota
  calls,    \* where each handler is
  reply,    \* what each handler last answered
  queue,    \* SQS messages not yet taken
  taken,    \* jobs the voice worker has in hand
  lost      \* history: jobs whose handler was cut off before its last commit

rowVars == <<jobs, audio, usage>>
vars == <<async, jobs, audio, usage, used, calls, reply, queue, taken, lost>>

JobId == 1 .. MaxJobs
Status == {"queued", "processing", "completed", "failed"}
NoClip == "no clip"

(* url is the key of the clip, 0 while audio_url is NULL.  position is the *)
(* queue_position column, 0 (NULL) in the rows of the sync mode.  error    *)
(* says who wrote error_message.                                           *)
Row == [user : User, clip : Clip, status : Status, url : 0 .. MaxJobs,
        position : Nat, error : {"none", "gateway", "worker"}]

Idle == [pc |-> "idle"]
Busy == [pc : {"sending", "sent", "synthesizing", "saving", "saved"}, job : JobId]

NoReply == [status |-> "none"]
Reply == [status : {"limited", "error"}] \cup
         [status : {"queued", "completed"}, job : JobId, clip : Clip]

Queued == {j \in DOMAIN jobs : jobs[j].status = "queued"}

QueuePosition == Cardinality(Queued) + 1

Init ==
  /\ async \in BOOLEAN
  /\ jobs = << >>
  /\ audio = [j \in JobId |-> NoClip]
  /\ usage = [u \in User |-> [processing |-> 0, failed |-> 0]]
  /\ used = [u \in User |-> 0]
  /\ calls = [h \in Handler |-> Idle]
  /\ reply = [h \in Handler |-> NoReply]
  /\ queue = {}
  /\ taken = {}
  /\ lost = {}

-----------------------------------------------------------------------------
(* The request, up to its first await *)

Answer(h, r) ==
  /\ calls' = [calls EXCEPT ![h] = Idle]
  /\ reply' = [reply EXCEPT ![h] = r]

Await(h, pc, j) ==
  /\ calls' = [calls EXCEPT ![h] = [pc |-> pc, job |-> j]]
  /\ reply' = [reply EXCEPT ![h] = NoReply]

(* mutant: the count is kept but never compared with the limit *)
ChargeUnchecked(u) == used' = [used EXCEPT ![u] = @ + 1]
Charge(u) == used[u] < Limit /\ used' = [used EXCEPT ![u] = @ + 1]

(* check_rate_limit raises: HTTP 429. *)
Refuse(h, u) ==
  /\ calls[h] = Idle
  /\ used[u] >= Limit
  /\ Answer(h, [status |-> "limited"])
  /\ UNCHANGED <<async, rowVars, used, queue, taken, lost>>

(* mutant: the lookup without its text_hash filter *)
AnyCompleted(x) == {j \in DOMAIN jobs : jobs[j].status = "completed" /\ jobs[j].url # 0}

(* Completed rows with audio for the same text_hash. *)
Cached(x) ==
  {j \in DOMAIN jobs : jobs[j].clip = x /\ jobs[j].status = "completed" /\ jobs[j].url # 0}

Latest(js) == CHOOSE j \in js : \A i \in js : i <= j

ServeFromCache(h, u, x) ==
  /\ calls[h] = Idle
  /\ Charge(u)
  /\ Cached(x) # {}
  /\ Answer(h, [status |-> "completed", job |-> Latest(Cached(x)), clip |-> x])
  /\ UNCHANGED <<async, rowVars, queue, taken, lost>>

NewRow(u, x, status, position) ==
  [user |-> u, clip |-> x, status |-> status, url |-> 0,
   position |-> position, error |-> "none"]

(* Async mode: the row is committed queued, then the message is sent. *)
Enqueue(h, u, x) ==
  /\ calls[h] = Idle
  /\ async
  /\ Cached(x) = {}
  /\ Len(jobs) < MaxJobs
  /\ Charge(u)
  /\ jobs' = Append(jobs, NewRow(u, x, "queued", QueuePosition))
  /\ Await(h, "sending", Len(jobs) + 1)
  /\ UNCHANGED <<async, audio, usage, queue, taken, lost>>

(* Sync mode: the row is committed processing, then the engine is called. *)
StartSync(h, u, x) ==
  /\ calls[h] = Idle
  /\ ~ async
  /\ Cached(x) = {}
  /\ Len(jobs) < MaxJobs
  /\ Charge(u)
  /\ jobs' = Append(jobs, NewRow(u, x, "processing", 0))
  /\ Await(h, "synthesizing", Len(jobs) + 1)
  /\ UNCHANGED <<async, audio, usage, queue, taken, lost>>

-----------------------------------------------------------------------------
(* After the awaits *)

At(h, pcs) == calls[h] # Idle /\ calls[h].pc \in pcs
Continue(h, pc) == calls' = [calls EXCEPT ![h].pc = pc] /\ UNCHANGED reply

SetRow(j, row) == jobs' = [jobs EXCEPT ![j] = row]
FailedRow(j, who) == [jobs[j] EXCEPT !.status = "failed", !.error = who]

(* mutant: the row completed before audio_url is assigned *)
CompletedWithoutUrl(j) == [jobs[j] EXCEPT !.status = "completed"]
CompletedRow(j) == [jobs[j] EXCEPT !.status = "completed", !.url = j]

Count(u, counter) == usage' = [usage EXCEPT ![u][counter] = @ + 1]

(* mutant: send_job swallows the error of a message SQS never got *)
SendDropped(h) ==
  /\ At(h, {"sending"})
  /\ Continue(h, "sent")
  /\ UNCHANGED <<async, rowVars, used, queue, taken, lost>>

(* SQS takes the message; send_message has not returned yet. *)
SqsAccepts(h) ==
  /\ At(h, {"sending"})
  /\ queue' = queue \cup {calls[h].job}
  /\ Continue(h, "sent")
  /\ UNCHANGED <<async, rowVars, used, taken, lost>>

EnqueueReturns(h) ==
  /\ At(h, {"sent"})
  /\ Answer(h, [status |-> "queued", job |-> calls[h].job,
                clip |-> jobs[calls[h].job].clip])
  /\ UNCHANGED <<async, rowVars, used, queue, taken, lost>>

(* mutant: the except branch counts the failure and leaves the row *)
FailWithoutRow(h) ==
  LET j == calls[h].job
  IN /\ Count(jobs[j].user, "failed")
     /\ Answer(h, [status |-> "error"])
     /\ UNCHANGED <<async, jobs, audio, used, queue, taken, lost>>

(* The except branches: the row is failed and the failure counted in one   *)
(* commit, whatever the row's status has become meanwhile.                 *)
Fail(h) ==
  LET j == calls[h].job
  IN /\ SetRow(j, FailedRow(j, "gateway"))
     /\ Count(jobs[j].user, "failed")
     /\ Answer(h, [status |-> "error"])
     /\ UNCHANGED <<async, audio, used, queue, taken, lost>>

(* send_message raises, before SQS has the message or (AckLost) after. *)
SendRaises(h) ==
  \/ At(h, {"sending"})
  \/ At(h, {"sent"}) /\ "AckLost" \in Faults

EnqueueFails(h) == SendRaises(h) /\ Fail(h)

SynthesizeReturns(h) ==
  /\ At(h, {"synthesizing"})
  /\ Continue(h, "saving")
  /\ UNCHANGED <<async, rowVars, used, queue, taken, lost>>

(* mutant: save_audio returns a URL and stores nothing *)
StoreDropped(h) ==
  /\ At(h, {"saving"})
  /\ Continue(h, "saved")
  /\ UNCHANGED <<async, rowVars, used, queue, taken, lost>>

StoreAccepts(h) ==
  /\ At(h, {"saving"})
  /\ audio' = [audio EXCEPT ![calls[h].job] = jobs[calls[h].job].clip]
  /\ Continue(h, "saved")
  /\ UNCHANGED <<async, jobs, usage, used, queue, taken, lost>>

(* mutant: increment_success after the commit, in a session that is closed *)
CompleteUncounted(h) ==
  LET j == calls[h].job
  IN /\ At(h, {"saved"})
     /\ SetRow(j, CompletedRow(j))
     /\ Answer(h, [status |-> "completed", job |-> j, clip |-> jobs[j].clip])
     /\ UNCHANGED <<async, audio, usage, used, queue, taken, lost>>

Complete(h) ==
  LET j == calls[h].job
  IN /\ At(h, {"saved"})
     /\ SetRow(j, CompletedRow(j))
     /\ Count(jobs[j].user, "processing")
     /\ Answer(h, [status |-> "completed", job |-> j, clip |-> jobs[j].clip])
     /\ UNCHANGED <<async, audio, used, queue, taken, lost>>

(* The engine or the store raises, or the last commit does. *)
SyncFails(h) ==
  /\ At(h, {"synthesizing", "saving", "saved"})
  /\ Fail(h)

(* The except branch's own commit raises: the row stays as it is. *)
Abandon(h) ==
  /\ "DbLost" \in Faults
  /\ SendRaises(h) \/ At(h, {"synthesizing", "saving", "saved"})
  /\ lost' = lost \cup {calls[h].job}
  /\ Answer(h, [status |-> "error"])
  /\ UNCHANGED <<async, rowVars, used, queue, taken>>

(* The process is killed and started again, maybe with another setting;    *)
(* nothing at startup looks at the rows its handlers left behind.          *)
Crash ==
  /\ "Crash" \in Faults
  /\ async' \in BOOLEAN
  /\ lost' = lost \cup {calls[h].job : h \in {g \in Handler : calls[g] # Idle
                                                           /\ calls[g].pc # "sent"}}
  /\ calls' = [h \in Handler |-> Idle]
  /\ reply' = [h \in Handler |-> NoReply]
  /\ UNCHANGED <<rowVars, used, queue, taken>>

-----------------------------------------------------------------------------
(* The voice worker, another service: it consumes each message once, marks *)
(* the row processing, and completes or fails it.                          *)

WorkerTakes(j) ==
  /\ j \in queue
  /\ queue' = queue \ {j}
  /\ taken' = taken \cup {j}
  /\ SetRow(j, [jobs[j] EXCEPT !.status = "processing"])
  /\ UNCHANGED <<async, audio, usage, used, calls, reply, lost>>

WorkerCompletes(j) ==
  /\ j \in taken
  /\ taken' = taken \ {j}
  /\ audio' = [audio EXCEPT ![j] = jobs[j].clip]
  /\ SetRow(j, CompletedRow(j))
  /\ UNCHANGED <<async, usage, used, calls, reply, queue, lost>>

WorkerFails(j) ==
  /\ j \in taken
  /\ taken' = taken \ {j}
  /\ SetRow(j, FailedRow(j, "worker"))
  /\ UNCHANGED <<async, audio, usage, used, calls, reply, queue, lost>>

-----------------------------------------------------------------------------
Request(h) ==
  \E u \in User :
    \/ Refuse(h, u)
    \/ \E x \in Clip : ServeFromCache(h, u, x) \/ Enqueue(h, u, x) \/ StartSync(h, u, x)

Step(h) ==
  \/ SqsAccepts(h)
  \/ EnqueueReturns(h)
  \/ EnqueueFails(h)
  \/ SynthesizeReturns(h)
  \/ StoreAccepts(h)
  \/ Complete(h)
  \/ SyncFails(h)
  \/ Abandon(h)

Worker(j) == WorkerTakes(j) \/ WorkerCompletes(j) \/ WorkerFails(j)

Next ==
  \/ \E h \in Handler : Request(h) \/ Step(h)
  \/ \E j \in JobId : Worker(j)
  \/ Crash

(* An await returns or times out (engine_timeout_seconds, boto's own), and *)
(* the worker keeps consuming.                                             *)
Fairness ==
  /\ \A h \in Handler : WF_vars(Step(h))
  /\ \A j \in JobId : WF_vars(Worker(j))

Spec == Init /\ [][Next]_vars
FairSpec == Spec /\ Fairness

-----------------------------------------------------------------------------
(* Every variable has its type; in particular no user is charged past the  *)
(* limit (check_rate_limit, tts.py:70).                                    *)
TypeOK ==
  /\ async \in BOOLEAN
  /\ jobs \in Seq(Row) /\ Len(jobs) <= MaxJobs
  /\ audio \in [JobId -> Clip \cup {NoClip}]
  /\ usage \in [User -> [processing : Nat, failed : Nat]]
  /\ used \in [User -> 0 .. Limit]
  /\ calls \in [Handler -> Busy \cup {Idle}]
  /\ \A h \in Handler : calls[h] # Idle => calls[h].job \in DOMAIN jobs
  /\ reply \in [Handler -> Reply \cup {NoReply}]
  /\ queue \subseteq DOMAIN jobs
  /\ taken \subseteq DOMAIN jobs
  /\ lost \subseteq DOMAIN jobs

HasAudio(j) == jobs[j].url # 0 /\ audio[jobs[j].url] = jobs[j].clip

(* A completed row names a clip the store holds, and it is the clip the    *)
(* row was asked for: "so the DB never shows status=completed with NULL    *)
(* results" (tts.py:232), through crashes and failed commits.              *)
CompletedHasAudio == \A j \in DOMAIN jobs : jobs[j].status = "completed" => HasAudio(j)

(* Whoever is told "completed", from the cache or not, is handed a job     *)
(* whose audio is the clip they asked for, whichever user it was made for  *)
(* (tts.py:73-104, 218-230).                                               *)
ServedAudioIsRequested ==
  \A h \in Handler :
    reply[h].status = "completed" =>
      /\ HasAudio(reply[h].job)
      /\ jobs[reply[h].job].clip = reply[h].clip

Jobs(u, P(_)) == {j \in DOMAIN jobs : jobs[j].user = u /\ P(jobs[j])}
SyncCompleted(row) == row.status = "completed" /\ row.position = 0
GatewayFailed(row) == row.error = "gateway"

(* The usage counters agree with the rows: total_processing is the number  *)
(* of rows the gateway itself completed and total_failed of those it       *)
(* failed (usage.py, tts.py:157, 215, 238), however handlers interleave,   *)
(* crash, or fail to commit.                                               *)
UsageMatchesRows ==
  \A u \in User :
    /\ usage[u].processing = Cardinality(Jobs(u, SyncCompleted))
    /\ usage[u].failed = Cardinality(Jobs(u, GatewayFailed))

Settled(j) == jobs[j].status \in {"completed", "failed"}
Writing(h, j) == calls[h] # Idle /\ calls[h].pc # "sent" /\ calls[h].job = j

(* A job that is under way has one party that will still write its row: a  *)
(* handler, the queue, or the worker that took it; a settled job has none, *)
(* so nothing overwrites its outcome.  Only a job whose handler was cut    *)
(* off may be left with none.                                              *)
OneWriter ==
  \A j \in DOMAIN jobs :
    /\ \A g, h \in Handler : Writing(g, j) /\ Writing(h, j) => g = h
    /\ (\E h \in Handler : Writing(h, j)) => j \notin queue \cup taken
    /\ ~ (j \in queue /\ j \in taken)
    /\ Settled(j) => j \notin queue \cup taken /\ \A h \in Handler : ~ Writing(h, j)
    /\ ~ Settled(j) => \/ j \in lost \cup queue \cup taken
                       \/ \E h \in Handler : Writing(h, j)

JobStatus == [j \in JobId |-> IF j \in DOMAIN jobs THEN jobs[j].status ELSE "absent"]
JobResult == [j \in JobId |-> j \in DOMAIN jobs /\ HasAudio(j)]

JL == INSTANCE JobLifecycle WITH status <- JobStatus, result <- JobResult

(* The table is a job table: status moves only forward, and a job gets its *)
(* audio in the step that completes it.                                    *)
ImplementsJobLifecycle == JL!Spec

(* tts.py:152: "Never leave a phantom "queued" row the worker will never   *)
(* pick up."                                                               *)
NoPhantomQueued ==
  \A j \in Queued : j \in queue \/ \E h \in Handler : Writing(h, j)

(* Every job is completed or failed in the end, unless its handler was cut *)
(* off before its last commit.                                             *)
EveryJobSettles ==
  \A j \in JobId : j \in DOMAIN jobs ~> (j \in lost \/ (j \in DOMAIN jobs /\ Settled(j)))
=============================================================================
