---------------------------- MODULE SpeechToText ----------------------------
(***************************************************************************)
(* POST /speech-to-text (app/routers/stt.py) in both of its modes, the     *)
(* speech_to_text table and the usage counters.  It differs from           *)
(* TextToSpeech in what is uploaded and when: the async mode stores the    *)
(* recording under a uuid key before there is a row, the sync mode stores  *)
(* it under the row's key and commits the URL only with the transcript.    *)
(* A step is what the handler does between two awaits.  Uploads refused    *)
(* with 413 or 415 touch nothing and are left out.                         *)
(***************************************************************************)
EXTENDS Naturals, Sequences, FiniteSets

CONSTANTS
  User,
  Handler,      \* requests the process serves at once
  Limit,        \* the smaller of rate_limit_rpm and rate_limit_rpd
  MaxJobs,      \* bound: rows in speech_to_text
  MaxUploads,   \* bound: uuid keys in use
  Answers,      \* the keys under which the engine may put the transcript
  Faults        \* what may go wrong: see Fault

Fault == {"AckLost",   \* SQS takes a message and send_message still raises
          "Crash",     \* the process dies and is started again
          "DbLost"}    \* an insert, or the except branch's commit, raises

(* README.md:305-311 lists four keys; the handler reads one of them. *)
AnswerKey == {"text", "another key"}

ASSUME BoundsAssumption == Limit \in Nat /\ MaxJobs \in Nat /\ MaxUploads \in Nat
ASSUME EnvironmentAssumption == Answers \subseteq AnswerKey /\ Faults \subseteq Fault

VARIABLES
  async,    \* settings.use_async_queue of the running process
  jobs,     \* the speech_to_text rows, by request_id
  store,    \* the keys under which the audio store holds a recording
  usage,    \* users.total_processing and users.total_failed
  used,     \* requests counted against each user's quota
  calls,    \* where each handler is
  queue,    \* SQS messages not yet taken
  taken,    \* jobs the voice worker has in hand
  lost      \* history: jobs whose handler was cut off before its last commit

vars == <<async, jobs, store, usage, used, calls, queue, taken, lost>>

JobId == 1 .. MaxJobs
UuidKey == 1 .. MaxUploads          \* stt/<uuid>_<filename>
RowKey(j) == MaxUploads + j         \* stt/<request_id>_<filename>
Key == 1 .. MaxUploads + MaxJobs

(* url is the key of the recording, 0 while audio_url is "".  position is  *)
(* the queue_position column, 0 (NULL) in the rows of the sync mode.       *)
Row == [user : User, status : {"queued", "processing", "completed", "failed"},
        url : Key \cup {0}, transcript : {"NULL", "text"}, position : Nat,
        error : {"none", "gateway", "worker"}]

Idle == [pc |-> "idle"]
(* Before its row exists a handler holds a key, afterwards a job. *)
Uploading == [pc : {"uploading", "uploaded"}, user : User, key : UuidKey]
WithRow == [pc : {"sending", "sent", "saving", "transcribing"}, job : JobId]

Queued == {j \in DOMAIN jobs : jobs[j].status = "queued"}
At(h, pcs) == calls[h] # Idle /\ calls[h].pc \in pcs

Init ==
  /\ async \in BOOLEAN
  /\ jobs = << >>
  /\ store = {}
  /\ usage = [u \in User |-> [processing |-> 0, failed |-> 0]]
  /\ used = [u \in User |-> 0]
  /\ calls = [h \in Handler |-> Idle]
  /\ queue = {}
  /\ taken = {}
  /\ lost = {}

-----------------------------------------------------------------------------
(* mutant: the count is kept but never compared with the limit *)
ChargeUnchecked(u) == used' = [used EXCEPT ![u] = @ + 1]
Charge(u) == used[u] < Limit /\ used' = [used EXCEPT ![u] = @ + 1]
Goto(h, call) == calls' = [calls EXCEPT ![h] = call]
SetRow(j, row) == jobs' = [jobs EXCEPT ![j] = row]
Count(u, counter) == usage' = [usage EXCEPT ![u][counter] = @ + 1]

NewRow(u, status, url, position) ==
  [user |-> u, status |-> status, url |-> url, transcript |-> "NULL",
   position |-> position, error |-> "none"]

-----------------------------------------------------------------------------
(* Async mode.  Over quota a request is refused and nothing changes.       *)

KeysHeld == {calls[h].key : h \in {g \in Handler : At(g, {"uploading", "uploaded"})}}
FreshKeys == UuidKey \ (store \cup KeysHeld)

StartUpload(h, u) ==
  /\ calls[h] = Idle
  /\ async
  /\ FreshKeys # {}
  /\ Charge(u)
  /\ Goto(h, [pc |-> "uploading", user |-> u, key |-> CHOOSE k \in FreshKeys : TRUE])
  /\ UNCHANGED <<async, jobs, store, usage, queue, taken, lost>>

StoreAccepts(h) ==
  /\ At(h, {"uploading"})
  /\ store' = store \cup {calls[h].key}
  /\ Goto(h, [calls[h] EXCEPT !.pc = "uploaded"])
  /\ UNCHANGED <<async, jobs, usage, used, queue, taken, lost>>

(* HTTP 500 with no row: save_audio raises, or the insert does. *)
UploadFails(h) ==
  /\ At(h, {"uploading"}) \/ (At(h, {"uploaded"}) /\ "DbLost" \in Faults)
  /\ Goto(h, Idle)
  /\ UNCHANGED <<async, jobs, store, usage, used, queue, taken, lost>>

QueuePosition == Cardinality(Queued) + 1

(* mutant: the row inserted as soon as the key is known *)
EnqueueBeforeUpload(h) ==
  /\ At(h, {"uploading"})
  /\ Len(jobs) < MaxJobs
  /\ jobs' = Append(jobs, NewRow(calls[h].user, "queued", calls[h].key, QueuePosition))
  /\ Goto(h, [pc |-> "sending", job |-> Len(jobs) + 1])
  /\ UNCHANGED <<async, store, usage, used, queue, taken, lost>>

Enqueue(h) ==
  /\ At(h, {"uploaded"})
  /\ Len(jobs) < MaxJobs
  /\ jobs' = Append(jobs, NewRow(calls[h].user, "queued", calls[h].key, QueuePosition))
  /\ Goto(h, [pc |-> "sending", job |-> Len(jobs) + 1])
  /\ UNCHANGED <<async, store, usage, used, queue, taken, lost>>

(* SQS takes the message; send_message has not returned yet. *)
SqsAccepts(h) ==
  /\ At(h, {"sending"})
  /\ queue' = queue \cup {calls[h].job}
  /\ Goto(h, [calls[h] EXCEPT !.pc = "sent"])
  /\ UNCHANGED <<async, jobs, store, usage, used, taken, lost>>

EnqueueReturns(h) ==
  /\ At(h, {"sent"})
  /\ Goto(h, Idle)
  /\ UNCHANGED <<async, jobs, store, usage, used, queue, taken, lost>>

SendRaises(h) ==
  \/ At(h, {"sending"})
  \/ At(h, {"sent"}) /\ "AckLost" \in Faults

-----------------------------------------------------------------------------
(* Sync mode *)

StartSync(h, u) ==
  /\ calls[h] = Idle
  /\ ~ async
  /\ Len(jobs) < MaxJobs
  /\ Charge(u)
  /\ jobs' = Append(jobs, NewRow(u, "processing", 0, 0))
  /\ Goto(h, [pc |-> "saving", job |-> Len(jobs) + 1])
  /\ UNCHANGED <<async, store, usage, queue, taken, lost>>

(* The row's URL is assigned and not committed; transcribe is called. *)
StoreAcceptsSync(h) ==
  /\ At(h, {"saving"})
  /\ store' = store \cup {RowKey(calls[h].job)}
  /\ Goto(h, [calls[h] EXCEPT !.pc = "transcribing"])
  /\ UNCHANGED <<async, jobs, usage, used, queue, taken, lost>>

(* result.get("text") *)
TranscriptOf(answer) == IF answer = "text" THEN "text" ELSE "NULL"

(* mutant: the status set, the transcript forgotten *)
TranscribedEmpty(j, answer) == [jobs[j] EXCEPT !.status = "completed", !.url = RowKey(j)]

Transcribed(j, answer) ==
  [jobs[j] EXCEPT !.status = "completed", !.url = RowKey(j),
                  !.transcript = TranscriptOf(answer)]

Complete(h) ==
  LET j == calls[h].job
  IN /\ At(h, {"transcribing"})
     /\ \E answer \in Answers : SetRow(j, Transcribed(j, answer))
     /\ Count(jobs[j].user, "processing")
     /\ Goto(h, Idle)
     /\ UNCHANGED <<async, store, used, queue, taken, lost>>

-----------------------------------------------------------------------------
(* Both modes *)

Raises(h) == SendRaises(h) \/ At(h, {"saving", "transcribing"})
FailedRow(j, who) == [jobs[j] EXCEPT !.status = "failed", !.error = who]

(* mutant: the except branch answers 500 and forgets the row *)
FailWithoutRow(h) ==
  /\ Raises(h)
  /\ Count(jobs[calls[h].job].user, "failed")
  /\ Goto(h, Idle)
  /\ UNCHANGED <<async, jobs, store, used, queue, taken, lost>>

(* The except branches: the session is rolled back, then the row failed    *)
(* and the failure counted in one commit.                                  *)
Fail(h) ==
  LET j == calls[h].job
  IN /\ Raises(h)
     /\ SetRow(j, FailedRow(j, "gateway"))
     /\ Count(jobs[j].user, "failed")
     /\ Goto(h, Idle)
     /\ UNCHANGED <<async, store, used, queue, taken, lost>>

(* The except branch's own commit raises: the row stays as it is. *)
Abandon(h) ==
  /\ "DbLost" \in Faults
  /\ Raises(h)
  /\ lost' = lost \cup {calls[h].job}
  /\ Goto(h, Idle)
  /\ UNCHANGED <<async, jobs, store, usage, used, queue, taken>>

Crash ==
  /\ "Crash" \in Faults
  /\ async' \in BOOLEAN
  /\ lost' = lost \cup {calls[h].job : h \in {g \in Handler :
                                       At(g, {"sending", "saving", "transcribing"})}}
  /\ calls' = [h \in Handler |-> Idle]
  /\ UNCHANGED <<jobs, store, usage, used, queue, taken>>

-----------------------------------------------------------------------------
(* The voice worker, another service: it takes each message once, fetches  *)
(* the recording by its URL, and completes or fails the row.               *)

WorkerTakes(j) ==
  /\ j \in queue
  /\ queue' = queue \ {j}
  /\ taken' = taken \cup {j}
  /\ SetRow(j, [jobs[j] EXCEPT !.status = "processing"])
  /\ UNCHANGED <<async, store, usage, used, calls, lost>>

WorkerCompletes(j) ==
  /\ j \in taken
  /\ taken' = taken \ {j}
  /\ SetRow(j, [jobs[j] EXCEPT !.status = "completed", !.transcript = "text"])
  /\ UNCHANGED <<async, store, usage, used, calls, queue, lost>>

WorkerFails(j) ==
  /\ j \in taken
  /\ taken' = taken \ {j}
  /\ SetRow(j, FailedRow(j, "worker"))
  /\ UNCHANGED <<async, store, usage, used, calls, queue, lost>>

-----------------------------------------------------------------------------
Step(h) ==
  \/ StoreAccepts(h)
  \/ UploadFails(h)
  \/ Enqueue(h)
  \/ SqsAccepts(h)
  \/ EnqueueReturns(h)
  \/ StoreAcceptsSync(h)
  \/ Complete(h)
  \/ Fail(h)
  \/ Abandon(h)

Worker(j) == WorkerTakes(j) \/ WorkerCompletes(j) \/ WorkerFails(j)

Next ==
  \/ \E h \in Handler : Step(h) \/ \E u \in User : StartUpload(h, u) \/ StartSync(h, u)
  \/ \E j \in JobId : Worker(j)
  \/ Crash

(* An await returns or times out (engine_timeout_seconds, boto's own), and *)
(* the worker keeps consuming.                                             *)
Fairness ==
  /\ \A h \in Handler : WF_vars(Step(h))
  /\ \A j \in JobId : WF_vars(Worker(j))

Spec == Init /\ [][Next]_vars
FairSpec == Spec /\ Fairness

-----------------------------------------------------------------------------
(* Every variable has its type, every key and job a handler, message or    *)
(* row refers to exists, and no user is charged past the limit.            *)
TypeOK ==
  /\ async \in BOOLEAN
  /\ jobs \in Seq(Row) /\ Len(jobs) <= MaxJobs
  /\ store \subseteq Key
  /\ usage \in [User -> [processing : Nat, failed : Nat]]
  /\ used \in [User -> 0 .. Limit]
  /\ calls \in [Handler -> Uploading \cup WithRow \cup {Idle}]
  /\ \A h \in Handler :
       At(h, {"sending", "sent", "saving", "transcribing"}) => calls[h].job \in DOMAIN jobs
  /\ queue \subseteq DOMAIN jobs
  /\ taken \subseteq DOMAIN jobs
  /\ lost \subseteq DOMAIN jobs

(* Whoever looks for the recording of a row finds it: every URL a row      *)
(* shows is a stored key, a job the worker may take has one, and no two    *)
(* rows share it ("Upload to S3 FIRST", stt.py:50-52, 92-93, 137-138).     *)
RecordingsStored ==
  /\ \A j \in DOMAIN jobs :
       /\ jobs[j].url # 0 => jobs[j].url \in store
       /\ jobs[j].position > 0 \/ jobs[j].status = "completed" => jobs[j].url # 0
  /\ \A i, j \in DOMAIN jobs : jobs[i].url = jobs[j].url /\ jobs[i].url # 0 => i = j

Settled(j) == jobs[j].status \in {"completed", "failed"}

JobStatus == [j \in JobId |-> IF j \in DOMAIN jobs THEN jobs[j].status ELSE "absent"]
JobResult == [j \in JobId |-> j \in DOMAIN jobs /\ jobs[j].transcript = "text"]

JL == INSTANCE JobLifecycle WITH status <- JobStatus, result <- JobResult

(* The table is a job table: status moves only forward, and a job gets its *)
(* transcript in the step that completes it.                               *)
ImplementsJobLifecycle == JL!Spec

(* Every job is completed or failed in the end, unless its handler was cut *)
(* off before its last commit.                                             *)
EveryJobSettles ==
  \A j \in JobId : j \in DOMAIN jobs ~> (j \in lost \/ (j \in DOMAIN jobs /\ Settled(j)))
=============================================================================
