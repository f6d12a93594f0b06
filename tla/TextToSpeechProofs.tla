------------------------- MODULE TextToSpeechProofs -------------------------
(***************************************************************************)
(* What holds of TextToSpeech for every set of users, clips and handlers,  *)
(* every quota and every number of rows.                                   *)
(***************************************************************************)
EXTENDS TextToSpeech, WellFoundedInduction, FiniteSetTheorems, TLAPS

(* The rows are numbered as the jobs are. *)
LEMMA RowsAreJobs ==
  ASSUME TypeOK
  PROVE  /\ Len(jobs) \in Nat /\ DOMAIN jobs = 1 .. Len(jobs)
         /\ \A j \in DOMAIN jobs : j \in JobId /\ j \in Nat /\ j # 0 /\ jobs[j] \in Row
<1>1. jobs \in Seq(Row) /\ Len(jobs) <= MaxJobs
  BY DEF TypeOK
<1>2. Len(jobs) \in Nat /\ DOMAIN jobs = 1 .. Len(jobs)
  BY <1>1
<1>3. \A j \in 1 .. Len(jobs) : j \in JobId /\ j \in Nat /\ j # 0
  BY <1>1, <1>2, BoundsAssumption DEF JobId
<1>4. \A j \in DOMAIN jobs : jobs[j] \in Row
  BY <1>1
<1> QED
  BY <1>2, <1>3, <1>4

(* A handler that is At some point has a job with a row. *)
LEMMA HandlerHasJob ==
  ASSUME TypeOK, NEW h \in Handler, NEW pcs, At(h, pcs)
  PROVE  /\ calls[h] \in Busy /\ calls[h].pc \in pcs
         /\ calls[h].job \in DOMAIN jobs /\ calls[h].job \in JobId
         /\ jobs[calls[h].job] \in Row
<1>1. calls[h] # Idle /\ calls[h].pc \in pcs /\ calls[h] \in Busy
  BY DEF TypeOK, At
<1>2. calls[h].job \in DOMAIN jobs
  BY <1>1 DEF TypeOK
<1> QED
  BY <1>1, <1>2, RowsAreJobs

(* Replacing a row keeps the table a table of the same jobs. *)
LEMMA SetRowKeepsTable ==
  ASSUME TypeOK, NEW j \in DOMAIN jobs, NEW row \in Row, SetRow(j, row)
  PROVE  /\ jobs' \in Seq(Row) /\ Len(jobs') = Len(jobs) /\ DOMAIN jobs' = DOMAIN jobs
         /\ jobs'[j] = row
         /\ \A i \in DOMAIN jobs : i # j => jobs'[i] = jobs[i]
BY DEF TypeOK, SetRow

(* A new row is appended after the others. *)
LEMMA AppendKeepsTable ==
  ASSUME TypeOK, Len(jobs) < MaxJobs, NEW row \in Row, jobs' = Append(jobs, row)
  PROVE  /\ jobs' \in Seq(Row) /\ Len(jobs') = Len(jobs) + 1 /\ Len(jobs') <= MaxJobs
         /\ DOMAIN jobs' = DOMAIN jobs \cup {Len(jobs) + 1}
         /\ Len(jobs) + 1 \notin DOMAIN jobs
         /\ Len(jobs) + 1 \in JobId
         /\ jobs'[Len(jobs) + 1] = row
         /\ \A i \in DOMAIN jobs : jobs'[i] = jobs[i]
<1>1. Len(jobs) \in Nat /\ jobs \in Seq(Row)
  BY RowsAreJobs DEF TypeOK
<1>2. /\ jobs' \in Seq(Row) /\ Len(jobs') = Len(jobs) + 1
      /\ jobs'[Len(jobs) + 1] = row
      /\ \A i \in 1 .. Len(jobs) : jobs'[i] = jobs[i]
  BY <1>1
<1>3. DOMAIN jobs' = 1 .. Len(jobs) + 1 /\ DOMAIN jobs = 1 .. Len(jobs)
  BY <1>1, <1>2
<1>4. Len(jobs) + 1 \in JobId /\ Len(jobs') <= MaxJobs
  BY <1>1, <1>2, BoundsAssumption DEF JobId
<1> QED
  BY <1>1, <1>2, <1>3, <1>4

-----------------------------------------------------------------------------
(* Type correctness *)

LEMMA InitTyped == Init => TypeOK
<1> SUFFICES ASSUME Init PROVE TypeOK
  OBVIOUS
<1>1. jobs \in Seq(Row) /\ Len(jobs) = 0 /\ DOMAIN jobs = {}
  BY DEF Init
<1> QED
  BY <1>1, BoundsAssumption DEF Init, TypeOK

(* What starting a request does, whatever the mode. *)
LEMMA StartTyped ==
  ASSUME TypeOK, NEW h \in Handler, NEW u \in User, NEW x \in Clip,
         NEW status \in Status, NEW position \in Nat, NEW pc,
         pc \in {"sending", "synthesizing"},
         Charge(u), Len(jobs) < MaxJobs,
         jobs' = Append(jobs, NewRow(u, x, status, position)),
         Await(h, pc, Len(jobs) + 1),
         UNCHANGED <<async, audio, usage, queue, taken, lost>>
  PROVE  TypeOK'
<1>1. NewRow(u, x, status, position) \in Row
  BY BoundsAssumption DEF NewRow, Row
<1>2. /\ jobs' \in Seq(Row) /\ Len(jobs') <= MaxJobs
      /\ DOMAIN jobs' = DOMAIN jobs \cup {Len(jobs) + 1}
      /\ Len(jobs) + 1 \in JobId
  BY <1>1, AppendKeepsTable
<1>3. used' \in [User -> 0 .. Limit]
  BY BoundsAssumption DEF TypeOK, Charge
<1>4. calls' \in [Handler -> Busy \cup {Idle}]
  BY <1>2 DEF TypeOK, Await, Busy
<1>5. \A g \in Handler : calls'[g] # Idle => calls'[g].job \in DOMAIN jobs'
  BY <1>2 DEF TypeOK, Await
<1>6. reply' \in [Handler -> Reply \cup {NoReply}]
  BY DEF TypeOK, Await
<1> QED
  BY <1>2, <1>3, <1>4, <1>5, <1>6 DEF TypeOK

(* What answering does to the handlers. *)
LEMMA AnswerTyped ==
  ASSUME TypeOK, NEW h \in Handler, NEW r \in Reply, Answer(h, r)
  PROVE  /\ calls' \in [Handler -> Busy \cup {Idle}]
         /\ calls'[h] = Idle
         /\ \A g \in Handler : g # h => calls'[g] = calls[g]
         /\ reply' \in [Handler -> Reply \cup {NoReply}]
         /\ reply'[h] = r
         /\ \A g \in Handler : g # h => reply'[g] = reply[g]
BY DEF TypeOK, Answer

(* What going on to another await does to them. *)
LEMMA ContinueTyped ==
  ASSUME TypeOK, NEW h \in Handler, NEW pcs, At(h, pcs),
         NEW pc \in {"sent", "saving", "saved"}, Continue(h, pc)
  PROVE  /\ calls' \in [Handler -> Busy \cup {Idle}]
         /\ calls'[h] # Idle /\ calls'[h].pc = pc /\ calls'[h].job = calls[h].job
         /\ \A g \in Handler : g # h => calls'[g] = calls[g]
         /\ reply' = reply
<1>1. calls[h] \in Busy
  BY HandlerHasJob
<1>2. /\ [calls[h] EXCEPT !.pc = pc] \in Busy
      /\ [calls[h] EXCEPT !.pc = pc].pc = pc
      /\ [calls[h] EXCEPT !.pc = pc].job = calls[h].job
  BY <1>1 DEF Busy
<1>3. calls' = [calls EXCEPT ![h] = [calls[h] EXCEPT !.pc = pc]] /\ reply' = reply
  BY DEF Continue
<1>4. calls'[h] # Idle
  BY <1>2, <1>3 DEF TypeOK, Idle
<1> QED
  BY <1>2, <1>3, <1>4 DEF TypeOK

LEMMA CountTyped ==
  ASSUME TypeOK, NEW u \in User, NEW counter \in {"processing", "failed"}, Count(u, counter)
  PROVE  usage' \in [User -> [processing : Nat, failed : Nat]]
<1>1. [usage[u] EXCEPT ![counter] = @ + 1] \in [processing : Nat, failed : Nat]
  <2>1. usage[u] \in [processing : Nat, failed : Nat]
    BY DEF TypeOK
  <2>2. CASE counter = "processing"
    BY <2>1, <2>2
  <2>3. CASE counter = "failed"
    BY <2>1, <2>3
  <2> QED
    BY <2>2, <2>3
<1> QED
  BY <1>1 DEF TypeOK, Count

(* The three rows a job's row is replaced by. *)
LEMMA RowsTyped ==
  ASSUME TypeOK, NEW j \in DOMAIN jobs
  PROVE  /\ CompletedRow(j) \in Row
         /\ \A who \in {"gateway", "worker"} : FailedRow(j, who) \in Row
         /\ [jobs[j] EXCEPT !.status = "processing"] \in Row
<1>1. jobs[j] \in Row /\ j \in 0 .. MaxJobs
  BY RowsAreJobs DEF JobId
<1> QED
  BY <1>1 DEF Row, CompletedRow, FailedRow, Status


LEMMA FailTyped ==
  ASSUME TypeOK, NEW h \in Handler, NEW pcs, At(h, pcs), Fail(h)
  PROVE  TypeOK'
<1> DEFINE j == calls[h].job
<1>1. j \in DOMAIN jobs /\ jobs[j].user \in User
  BY HandlerHasJob DEF Row
<1>2. FailedRow(j, "gateway") \in Row
  BY <1>1, RowsTyped
<1>3. SetRow(j, FailedRow(j, "gateway")) /\ Count(jobs[j].user, "failed")
  BY DEF Fail
<1>4. jobs' \in Seq(Row) /\ Len(jobs') = Len(jobs) /\ DOMAIN jobs' = DOMAIN jobs
  BY <1>1, <1>2, <1>3, SetRowKeepsTable
<1>5. usage' \in [User -> [processing : Nat, failed : Nat]]
  BY <1>1, <1>3, CountTyped
<1>6. Answer(h, [status |-> "error"]) /\ [status |-> "error"] \in Reply
  BY DEF Fail, Reply
<1>7. /\ calls' \in [Handler -> Busy \cup {Idle}] /\ calls'[h] = Idle
      /\ \A g \in Handler : g # h => calls'[g] = calls[g]
      /\ reply' \in [Handler -> Reply \cup {NoReply}]
  BY <1>6, AnswerTyped
<1> HIDE DEF j
<1> QED
  BY <1>4, <1>5, <1>7 DEF TypeOK, Fail

(* A step that only answers, or only goes on. *)
LEMMA QuietTyped ==
  ASSUME TypeOK, NEW h \in Handler,
         \/ \E r \in Reply : Answer(h, r)
         \/ \E pcs : \E pc \in {"sent", "saving", "saved"} : At(h, pcs) /\ Continue(h, pc)
  PROVE  /\ calls' \in [Handler -> Busy \cup {Idle}]
         /\ \A g \in Handler : calls'[g] # Idle => calls'[g].job \in DOMAIN jobs
         /\ reply' \in [Handler -> Reply \cup {NoReply}]
<1>1. CASE \E r \in Reply : Answer(h, r)
  <2>1. PICK r \in Reply : Answer(h, r)
    BY <1>1
  <2> QED
    BY <2>1, AnswerTyped DEF TypeOK
<1>2. CASE \E pcs : \E pc \in {"sent", "saving", "saved"} : At(h, pcs) /\ Continue(h, pc)
  <2>1. PICK pcs : \E pc \in {"sent", "saving", "saved"} : At(h, pcs) /\ Continue(h, pc)
    BY <1>2
  <2>2. PICK pc \in {"sent", "saving", "saved"} : At(h, pcs) /\ Continue(h, pc)
    BY <2>1
  <2>3. /\ calls' \in [Handler -> Busy \cup {Idle}] /\ calls'[h].job = calls[h].job
        /\ \A g \in Handler : g # h => calls'[g] = calls[g]
        /\ reply' = reply
    BY <2>2, ContinueTyped
  <2>4. calls[h].job \in DOMAIN jobs
    BY <2>2, HandlerHasJob
  <2> QED
    BY <2>3, <2>4 DEF TypeOK
<1> QED
  BY <1>1, <1>2

(* A bounded set of numbers that is not empty has a greatest one: the one  *)
(* at the least distance below the bound.                                  *)
LEMMA BoundedHasMax ==
  ASSUME NEW n \in Nat, NEW S, S \subseteq 0 .. n, S # {}
  PROVE  \E x \in S : \A y \in S : y <= x
<1> DEFINE Below == {n - y : y \in S}
           Less == {p \in Nat \X Nat : p[1] < p[2]}
<1>1. IsWellFoundedOn(Less, Nat)
  BY NatLessThanWellFounded DEF OpToRel
<1>2. Below \subseteq Nat /\ Below # {}
  <2>1. \A y \in S : n - y \in Nat
    OBVIOUS
  <2> QED
    BY <2>1
<1>3. PICK d \in Below : \A e \in Below : ~ (<<e, d>> \in Less)
  <2> HIDE DEF Below, Less
  <2> QED
    BY <1>1, <1>2, WFMin
<1>4. PICK x \in S : d = n - x
  OBVIOUS
<1>5. ASSUME NEW y \in S PROVE y <= x
  <2>1. n - y \in Below /\ n - y \in Nat /\ d \in Nat
    BY <1>2
  <2>2. ~ (n - y < d)
    BY <2>1, <1>3
  <2> QED
    BY <2>2, <1>4, <1>5
<1> QED
  BY <1>5

(* The cache finds a job of the table. *)
LEMMA CachedHasJob ==
  ASSUME TypeOK, NEW x, Cached(x) # {}
  PROVE  Latest(Cached(x)) \in Cached(x)
<1>1. Len(jobs) \in Nat /\ Cached(x) \subseteq 0 .. Len(jobs)
  BY RowsAreJobs DEF Cached
<1>2. \E j \in Cached(x) : \A i \in Cached(x) : i <= j
  BY <1>1, BoundedHasMax
<1> QED
  BY <1>2 DEF Latest

(* The queued rows can be counted. *)
LEMMA QueueFinite ==
  ASSUME TypeOK
  PROVE  IsFiniteSet(Queued) /\ Cardinality(Queued) \in Nat
<1>1. Len(jobs) \in Nat /\ Queued \in SUBSET (1 .. Len(jobs))
  BY RowsAreJobs DEF Queued
<1>2. IsFiniteSet(1 .. Len(jobs))
  BY <1>1, FS_Interval
<1>3. IsFiniteSet(Queued)
  BY <1>1, <1>2, FS_Subset
<1> QED
  BY <1>3, FS_CardinalityType

(* Every action keeps every variable in its type. *)
LEMMA TypeStep == TypeOK /\ [Next]_vars => TypeOK'
<1> SUFFICES ASSUME TypeOK, [Next]_vars PROVE TypeOK'
  OBVIOUS
<1>0. CASE UNCHANGED vars
  BY <1>0 DEF TypeOK, vars, rowVars
<1>1. ASSUME NEW h \in Handler, NEW u \in User, Refuse(h, u) PROVE TypeOK'
  <2>1. [status |-> "limited"] \in Reply
    BY DEF Reply
  <2> QED
    BY <1>1, <2>1, QuietTyped DEF TypeOK, Refuse, rowVars
<1>2. ASSUME NEW h \in Handler, NEW u \in User, NEW x \in Clip, ServeFromCache(h, u, x)
      PROVE  TypeOK'
  <2> DEFINE r == [status |-> "completed", job |-> Latest(Cached(x)), clip |-> x]
  <2>1. Latest(Cached(x)) \in JobId
    BY <1>2, CachedHasJob, RowsAreJobs DEF ServeFromCache, Cached
  <2>2. r \in Reply
    BY <2>1 DEF Reply
  <2>3. /\ calls' \in [Handler -> Busy \cup {Idle}]
        /\ \A g \in Handler : calls'[g] # Idle => calls'[g].job \in DOMAIN jobs
        /\ reply' \in [Handler -> Reply \cup {NoReply}]
    BY <1>2, <2>2, QuietTyped DEF ServeFromCache
  <2>4. used' \in [User -> 0 .. Limit]
    BY <1>2, BoundsAssumption DEF TypeOK, Charge, ServeFromCache
  <2> QED
    BY <1>2, <2>3, <2>4 DEF TypeOK, ServeFromCache, rowVars
<1>3. ASSUME NEW h \in Handler, NEW u \in User, NEW x \in Clip, Enqueue(h, u, x)
      PROVE  TypeOK'
  <2>1. QueuePosition \in Nat
    BY QueueFinite DEF QueuePosition
  <2> QED
    BY <1>3, <2>1, StartTyped DEF Enqueue, Status
<1>4. ASSUME NEW h \in Handler, NEW u \in User, NEW x \in Clip, StartSync(h, u, x)
      PROVE  TypeOK'
  BY <1>4, StartTyped DEF StartSync, Status
<1>5. ASSUME NEW h \in Handler, SqsAccepts(h) PROVE TypeOK'
  BY <1>5, QuietTyped, HandlerHasJob DEF TypeOK, SqsAccepts, rowVars
<1>6. ASSUME NEW h \in Handler, EnqueueReturns(h) PROVE TypeOK'
  <2>1. calls[h].job \in JobId /\ jobs[calls[h].job].clip \in Clip
    BY <1>6, HandlerHasJob DEF EnqueueReturns, Row
  <2>2. [status |-> "queued", job |-> calls[h].job, clip |-> jobs[calls[h].job].clip] \in Reply
    BY <2>1 DEF Reply
  <2> QED
    BY <1>6, <2>2, QuietTyped DEF TypeOK, EnqueueReturns, rowVars
<1>7. ASSUME NEW h \in Handler, EnqueueFails(h) PROVE TypeOK'
  BY <1>7, FailTyped DEF EnqueueFails, SendRaises
<1>8. ASSUME NEW h \in Handler, SynthesizeReturns(h) PROVE TypeOK'
  BY <1>8, QuietTyped DEF TypeOK, SynthesizeReturns, rowVars
<1>9. ASSUME NEW h \in Handler, StoreAccepts(h) PROVE TypeOK'
  <2>1. calls[h].job \in JobId /\ jobs[calls[h].job].clip \in Clip
    BY <1>9, HandlerHasJob DEF StoreAccepts, Row
  <2>2. audio' \in [JobId -> Clip \cup {NoClip}]
    BY <1>9, <2>1 DEF TypeOK, StoreAccepts
  <2> QED
    BY <1>9, <2>2, QuietTyped DEF TypeOK, StoreAccepts
<1>10. ASSUME NEW h \in Handler, Complete(h) PROVE TypeOK'
  <2> DEFINE j == calls[h].job
             r == [status |-> "completed", job |-> j, clip |-> jobs[j].clip]
  <2>1. j \in DOMAIN jobs /\ j \in JobId /\ jobs[j].clip \in Clip /\ jobs[j].user \in User
    BY <1>10, HandlerHasJob DEF Complete, Row
  <2>2. r \in Reply
    BY <2>1 DEF Reply
  <2>3. SetRow(j, CompletedRow(j)) /\ Count(jobs[j].user, "processing") /\ Answer(h, r)
    BY <1>10 DEF Complete
  <2>4. CompletedRow(j) \in Row
    BY <2>1, RowsTyped
  <2> HIDE DEF j, r
  <2>5. jobs' \in Seq(Row) /\ Len(jobs') = Len(jobs) /\ DOMAIN jobs' = DOMAIN jobs
    BY <2>1, <2>3, <2>4, SetRowKeepsTable
  <2>6. usage' \in [User -> [processing : Nat, failed : Nat]]
    BY <2>1, <2>3, CountTyped
  <2> QED
    BY <1>10, <2>2, <2>3, <2>5, <2>6, QuietTyped DEF TypeOK, Complete
<1>11. ASSUME NEW h \in Handler, SyncFails(h) PROVE TypeOK'
  BY <1>11, FailTyped DEF SyncFails
<1>12. ASSUME NEW h \in Handler, Abandon(h) PROVE TypeOK'
  <2>1. calls[h].job \in DOMAIN jobs
    BY <1>12, HandlerHasJob DEF Abandon, SendRaises
  <2>2. [status |-> "error"] \in Reply
    BY DEF Reply
  <2> QED
    BY <1>12, <2>1, <2>2, QuietTyped DEF TypeOK, Abandon, rowVars
<1>13. ASSUME Crash PROVE TypeOK'
  <2>1. lost' \subseteq DOMAIN jobs
    BY <1>13 DEF TypeOK, Crash
  <2> QED
    BY <1>13, <2>1 DEF TypeOK, Crash, rowVars
<1>14. ASSUME NEW j \in JobId, Worker(j) PROVE TypeOK'
  <2>1. j \in DOMAIN jobs /\ jobs[j].clip \in Clip
    BY <1>14, RowsAreJobs DEF TypeOK, Row, Worker, WorkerTakes, WorkerCompletes, WorkerFails
  <2>2. PICK row \in Row : SetRow(j, row)
    BY <1>14, <2>1, RowsTyped DEF Worker, WorkerTakes, WorkerCompletes, WorkerFails
  <2>3. jobs' \in Seq(Row) /\ Len(jobs') = Len(jobs) /\ DOMAIN jobs' = DOMAIN jobs
    BY <2>1, <2>2, SetRowKeepsTable
  <2>4. audio' \in [JobId -> Clip \cup {NoClip}]
    BY <1>14, <2>1 DEF TypeOK, Worker, WorkerTakes, WorkerCompletes, WorkerFails
  <2>5. queue' \subseteq DOMAIN jobs /\ taken' \subseteq DOMAIN jobs
    BY <1>14, <2>1 DEF TypeOK, Worker, WorkerTakes, WorkerCompletes, WorkerFails
  <2>6. UNCHANGED <<async, usage, used, calls, reply, lost>>
    BY <1>14 DEF Worker, WorkerTakes, WorkerCompletes, WorkerFails
  <2> QED
    BY <2>3, <2>4, <2>5, <2>6 DEF TypeOK
<1> QED
  BY <1>0, <1>1, <1>2, <1>3, <1>4, <1>5, <1>6, <1>7, <1>8, <1>9, <1>10, <1>11, <1>12,
     <1>13, <1>14 DEF Next, Request, Step

(* Every reachable state is typed: no user is ever charged past the quota, *)
(* and every handler, message and reply names a row that exists.           *)
THEOREM TypeCorrect == Spec => []TypeOK
<1> QED
  BY InitTyped, TypeStep, PTL DEF Spec

-----------------------------------------------------------------------------
(* Completed means audio *)

(* A row's url is its own key or NULL, the store holds its clip under that *)
(* key, and it is completed only with a url.                               *)
RowAudio ==
  \A j \in DOMAIN jobs :
    /\ jobs[j].url \in {0, j}
    /\ jobs[j].url = j => audio[j] = jobs[j].clip
    /\ jobs[j].status = "completed" => jobs[j].url = j

(* A handler past save_audio finds its clip in the store. *)
SavedAudio ==
  \A h \in Handler :
    calls[h] # Idle /\ calls[h].pc = "saved" => audio[calls[h].job] = jobs[calls[h].job].clip

(* A job answered as completed has its url, and the clip asked for. *)
RepliedAudio ==
  \A h \in Handler :
    reply[h].status = "completed" =>
      /\ reply[h].job \in DOMAIN jobs
      /\ jobs[reply[h].job].url = reply[h].job
      /\ jobs[reply[h].job].clip = reply[h].clip

AudioInv == RowAudio /\ SavedAudio /\ RepliedAudio

LEMMA InitAudio == Init => AudioInv
<1> SUFFICES ASSUME Init PROVE AudioInv
  OBVIOUS
<1>1. DOMAIN jobs = {}
  BY DEF Init
<1> QED
  BY <1>1 DEF Init, AudioInv, RowAudio, SavedAudio, RepliedAudio, Idle, NoReply

(* A step that leaves rows and store alone keeps the invariant unless it   *)
(* brings a handler to saved or answers completed.                         *)
LEMMA QuietAudio ==
  ASSUME TypeOK, AudioInv, UNCHANGED <<jobs, audio>>,
         \A h \in Handler : calls'[h] # Idle /\ calls'[h].pc = "saved" => calls'[h] = calls[h],
         \A h \in Handler : reply'[h].status = "completed" => reply'[h] = reply[h]
  PROVE  AudioInv'
BY DEF AudioInv, RowAudio, SavedAudio, RepliedAudio

(* A step that replaces the row of job j and maybe stores its clip. *)
LEMMA RowAudioStep ==
  ASSUME TypeOK, AudioInv, NEW j \in DOMAIN jobs, NEW row \in Row, SetRow(j, row),
         row.clip = jobs[j].clip, row.url \in {jobs[j].url, j},
         row.url = j => audio'[j] = row.clip,
         row.status = "completed" => row.url = j,
         audio' = audio \/ audio' = [audio EXCEPT ![j] = jobs[j].clip],
         \A h \in Handler : calls'[h] # Idle /\ calls'[h].pc = "saved" => calls'[h] = calls[h],
         \A h \in Handler : reply'[h].status = "completed" =>
           \/ reply'[h] = reply[h]
           \/ reply'[h].job = j /\ reply'[h].clip = row.clip /\ row.url = j
  PROVE  AudioInv'
<1>1. /\ DOMAIN jobs' = DOMAIN jobs /\ jobs'[j] = row
      /\ \A i \in DOMAIN jobs : i # j => jobs'[i] = jobs[i]
  BY SetRowKeepsTable
<1>2. \A i \in DOMAIN jobs : i \in JobId
  BY RowsAreJobs
<1>3. \A i \in DOMAIN jobs : /\ jobs'[i].clip = jobs[i].clip
                             /\ jobs'[i].url \in {jobs[i].url, i}
                             /\ audio'[i] \in {audio[i], jobs[i].clip}
  BY <1>1, <1>2 DEF TypeOK
<1>4. RowAudio'
  <2> SUFFICES ASSUME NEW i \in DOMAIN jobs
      PROVE  /\ jobs'[i].url \in {0, i}
             /\ jobs'[i].url = i => audio'[i] = jobs'[i].clip
             /\ jobs'[i].status = "completed" => jobs'[i].url = i
    BY <1>1 DEF RowAudio
  <2>1. CASE i = j
    BY <1>1, <1>3, <2>1 DEF AudioInv, RowAudio
  <2>2. CASE i # j
    BY <1>1, <1>3, <2>2 DEF AudioInv, RowAudio
  <2> QED
    BY <2>1, <2>2
<1>5. SavedAudio'
  BY <1>1, <1>3 DEF AudioInv, SavedAudio, TypeOK
<1>6. RepliedAudio'
  <2> SUFFICES ASSUME NEW h \in Handler, reply'[h].status = "completed"
      PROVE  /\ reply'[h].job \in DOMAIN jobs'
             /\ jobs'[reply'[h].job].url = reply'[h].job
             /\ jobs'[reply'[h].job].clip = reply'[h].clip
    BY DEF RepliedAudio
  <2>1. CASE reply'[h] = reply[h]
    <3>1. /\ reply[h].job \in DOMAIN jobs /\ jobs[reply[h].job].url = reply[h].job
          /\ jobs[reply[h].job].clip = reply[h].clip
      BY <2>1 DEF AudioInv, RepliedAudio
    <3> QED
      BY <1>1, <1>3, <2>1, <3>1
  <2>2. CASE reply'[h].job = j /\ reply'[h].clip = row.clip /\ row.url = j
    BY <1>1, <2>2
  <2> QED
    BY <2>1, <2>2
<1> QED
  BY <1>4, <1>5, <1>6 DEF AudioInv

LEMMA StartAudio ==
  ASSUME TypeOK, AudioInv, NEW h \in Handler, NEW u \in User, NEW x \in Clip,
         NEW status \in {"queued", "processing"}, NEW position \in Nat,
         NEW pc \in {"sending", "synthesizing"}, Len(jobs) < MaxJobs,
         jobs' = Append(jobs, NewRow(u, x, status, position)),
         Await(h, pc, Len(jobs) + 1), UNCHANGED audio
  PROVE  AudioInv'
<1> DEFINE n == Len(jobs) + 1
           row == NewRow(u, x, status, position)
<1>1. row \in Row
  BY BoundsAssumption DEF NewRow, Row, Status
<1>2. /\ DOMAIN jobs' = DOMAIN jobs \cup {n} /\ n \notin DOMAIN jobs /\ n \in JobId
      /\ jobs'[n] = row /\ \A i \in DOMAIN jobs : jobs'[i] = jobs[i]
  BY <1>1, AppendKeepsTable
<1>3. row.url = 0 /\ row.status # "completed" /\ n # 0
  BY <1>2 DEF NewRow, JobId
<1>4. \A g \in Handler : calls'[g] # Idle /\ calls'[g].pc = "saved" => calls'[g] = calls[g]
  BY DEF Await, TypeOK
<1>5. \A g \in Handler : reply'[g].status = "completed" => reply'[g] = reply[g]
  BY DEF Await, TypeOK, NoReply
<1> HIDE DEF n, row
<1>6. RowAudio'
  BY <1>2, <1>3 DEF AudioInv, RowAudio
<1>7. SavedAudio'
  BY <1>2, <1>4 DEF AudioInv, SavedAudio, TypeOK
<1>8. RepliedAudio'
  BY <1>2, <1>5 DEF AudioInv, RepliedAudio
<1> QED
  BY <1>6, <1>7, <1>8 DEF AudioInv

LEMMA FailAudio ==
  ASSUME TypeOK, AudioInv, NEW h \in Handler, NEW pcs, At(h, pcs), Fail(h)
  PROVE  AudioInv'
<1> DEFINE j == calls[h].job
           row == FailedRow(j, "gateway")
<1>1. j \in DOMAIN jobs /\ jobs[j] \in Row /\ row \in Row
  BY HandlerHasJob, RowsTyped
<1>2. row.clip = jobs[j].clip /\ row.url = jobs[j].url /\ row.status = "failed"
  BY <1>1 DEF FailedRow, Row
<1>3. row.url = j => audio'[j] = row.clip
  BY <1>1, <1>2 DEF AudioInv, RowAudio, Fail
<1>4. SetRow(j, row) /\ audio' = audio /\ Answer(h, [status |-> "error"])
  BY DEF Fail
<1>5. \A g \in Handler : calls'[g] # Idle /\ calls'[g].pc = "saved" => calls'[g] = calls[g]
  BY <1>4 DEF Answer, TypeOK
<1>6. \A g \in Handler : reply'[g].status = "completed" => reply'[g] = reply[g]
  BY <1>4 DEF Answer, TypeOK
<1> HIDE DEF j, row
<1> QED
  BY <1>1, <1>2, <1>3, <1>4, <1>5, <1>6, RowAudioStep

LEMMA AudioStep == TypeOK /\ AudioInv /\ [Next]_vars => AudioInv'
<1> SUFFICES ASSUME TypeOK, AudioInv, [Next]_vars PROVE AudioInv'
  OBVIOUS
<1> USE DEF rowVars
<1>0. CASE UNCHANGED vars
  BY <1>0, QuietAudio DEF vars
<1>1. ASSUME NEW h \in Handler, NEW u \in User, Refuse(h, u) PROVE AudioInv'
  BY <1>1, QuietAudio DEF TypeOK, Refuse, Answer
<1>2. ASSUME NEW h \in Handler, NEW u \in User, NEW x \in Clip, ServeFromCache(h, u, x)
      PROVE  AudioInv'
  <2> DEFINE j == Latest(Cached(x))
  <2>1. j \in DOMAIN jobs /\ jobs[j].clip = x /\ jobs[j].url # 0
    BY <1>2, CachedHasJob DEF ServeFromCache, Cached
  <2>2. jobs[j].url = j
    BY <2>1 DEF AudioInv, RowAudio
  <2>3. UNCHANGED <<jobs, audio>> /\ Answer(h, [status |-> "completed", job |-> j, clip |-> x])
    BY <1>2 DEF ServeFromCache
  <2> HIDE DEF j
  <2>4. RowAudio' /\ SavedAudio'
    BY <2>3 DEF AudioInv, RowAudio, SavedAudio, Answer, TypeOK
  <2>5. RepliedAudio'
    BY <2>1, <2>2, <2>3 DEF AudioInv, RepliedAudio, Answer, TypeOK
  <2> QED
    BY <2>4, <2>5 DEF AudioInv
<1>3. ASSUME NEW h \in Handler, NEW u \in User, NEW x \in Clip, Enqueue(h, u, x)
      PROVE  AudioInv'
  <2>1. QueuePosition \in Nat
    BY QueueFinite DEF QueuePosition
  <2> QED
    BY <1>3, <2>1, StartAudio DEF Enqueue
<1>4. ASSUME NEW h \in Handler, NEW u \in User, NEW x \in Clip, StartSync(h, u, x)
      PROVE  AudioInv'
  BY <1>4, StartAudio DEF StartSync
<1>5. ASSUME NEW h \in Handler, SqsAccepts(h) \/ SynthesizeReturns(h) PROVE AudioInv'
  <2>1. /\ calls'[h].pc # "saved" /\ reply' = reply
        /\ \A g \in Handler : g # h => calls'[g] = calls[g]
    <3>1. CASE SqsAccepts(h)
      BY <3>1, ContinueTyped DEF SqsAccepts
    <3>2. CASE SynthesizeReturns(h)
      BY <3>2, ContinueTyped DEF SynthesizeReturns
    <3> QED
      BY <1>5, <3>1, <3>2
  <2> QED
    BY <1>5, <2>1, QuietAudio DEF SqsAccepts, SynthesizeReturns
<1>6. ASSUME NEW h \in Handler, EnqueueReturns(h) \/ Abandon(h) PROVE AudioInv'
  BY <1>6, QuietAudio DEF TypeOK, EnqueueReturns, Abandon, Answer
<1>7. ASSUME NEW h \in Handler, EnqueueFails(h) \/ SyncFails(h) PROVE AudioInv'
  BY <1>7, FailAudio DEF EnqueueFails, SendRaises, SyncFails
<1>8. ASSUME NEW h \in Handler, StoreAccepts(h) PROVE AudioInv'
  <2> DEFINE j == calls[h].job
  <2>1. j \in DOMAIN jobs /\ j \in JobId /\ At(h, {"saving"}) /\ Continue(h, "saved")
    BY <1>8, HandlerHasJob DEF StoreAccepts
  <2>2. /\ calls'[h].job = j /\ reply' = reply
        /\ \A g \in Handler : g # h => calls'[g] = calls[g]
    BY <2>1, ContinueTyped
  <2>3. audio' = [audio EXCEPT ![j] = jobs[j].clip] /\ jobs' = jobs
    BY <1>8 DEF StoreAccepts
  <2> HIDE DEF j
  <2>4. /\ audio'[j] = jobs[j].clip
        /\ \A i \in DOMAIN jobs : audio'[i] \in {audio[i], jobs[i].clip}
    BY <2>1, <2>3, RowsAreJobs DEF TypeOK
  <2>5. RowAudio'
    BY <2>3, <2>4 DEF AudioInv, RowAudio
  <2>6. SavedAudio'
    BY <2>2, <2>3, <2>4 DEF AudioInv, SavedAudio, TypeOK
  <2>7. RepliedAudio'
    BY <2>2, <2>3 DEF AudioInv, RepliedAudio
  <2> QED
    BY <2>5, <2>6, <2>7 DEF AudioInv
<1>9. ASSUME NEW h \in Handler, Complete(h) PROVE AudioInv'
  <2> DEFINE j == calls[h].job
             row == CompletedRow(j)
             r == [status |-> "completed", job |-> j, clip |-> jobs[j].clip]
  <2>1. /\ j \in DOMAIN jobs /\ jobs[j] \in Row /\ row \in Row
        /\ calls[h] # Idle /\ calls[h].pc = "saved"
    BY <1>9, HandlerHasJob, RowsTyped DEF Complete, At
  <2>2. row.clip = jobs[j].clip /\ row.url = j
    BY <2>1 DEF CompletedRow, Row
  <2>3. SetRow(j, row) /\ audio' = audio /\ Answer(h, r)
    BY <1>9 DEF Complete
  <2>4. audio'[j] = row.clip
    BY <2>1, <2>2, <2>3 DEF AudioInv, SavedAudio
  <2>5. \A g \in Handler : calls'[g] # Idle /\ calls'[g].pc = "saved" => calls'[g] = calls[g]
    BY <2>3 DEF Answer, TypeOK
  <2>6. \A g \in Handler : reply'[g] = reply[g] \/ reply'[g] = r
    BY <2>3 DEF Answer, TypeOK
  <2>7. r.job = j /\ r.clip = jobs[j].clip
    OBVIOUS
  <2> HIDE DEF j, row, r
  <2> QED
    BY <2>1, <2>2, <2>3, <2>4, <2>5, <2>6, <2>7, RowAudioStep
<1>10. ASSUME Crash PROVE AudioInv'
  BY <1>10, QuietAudio DEF Crash, NoReply
<1>11. ASSUME NEW j \in JobId, Worker(j) PROVE AudioInv'
  <2>1. j \in DOMAIN jobs /\ jobs[j] \in Row
    BY <1>11, RowsAreJobs DEF TypeOK, Worker, WorkerTakes, WorkerCompletes, WorkerFails
  <2>2. calls' = calls /\ reply' = reply
    BY <1>11 DEF Worker, WorkerTakes, WorkerCompletes, WorkerFails
  <2>3. CASE WorkerCompletes(j)
    <3>1. /\ CompletedRow(j) \in Row /\ CompletedRow(j).clip = jobs[j].clip
          /\ CompletedRow(j).url = j
      BY <2>1, RowsTyped DEF CompletedRow, Row
    <3>2. audio'[j] = jobs[j].clip
      BY <2>3 DEF WorkerCompletes, TypeOK
    <3> QED
      BY <2>1, <2>2, <2>3, <3>1, <3>2, RowAudioStep DEF WorkerCompletes
  <2>4. CASE WorkerTakes(j)
    <3> DEFINE row == [jobs[j] EXCEPT !.status = "processing"]
    <3>1. /\ row \in Row /\ row.clip = jobs[j].clip /\ row.url = jobs[j].url
          /\ row.status # "completed"
      BY <2>1, RowsTyped DEF Row
    <3>2. row.url = j => audio[j] = row.clip
      BY <2>1, <3>1 DEF AudioInv, RowAudio
    <3>3. SetRow(j, row) /\ audio' = audio
      BY <2>4 DEF WorkerTakes
    <3> HIDE DEF row
    <3> QED
      BY <2>1, <2>2, <3>1, <3>2, <3>3, RowAudioStep
  <2>5. CASE WorkerFails(j)
    <3> DEFINE row == FailedRow(j, "worker")
    <3>1. /\ row \in Row /\ row.clip = jobs[j].clip /\ row.url = jobs[j].url
          /\ row.status # "completed"
      BY <2>1, RowsTyped DEF Row, FailedRow
    <3>2. row.url = j => audio[j] = row.clip
      BY <2>1, <3>1 DEF AudioInv, RowAudio
    <3>3. SetRow(j, row) /\ audio' = audio
      BY <2>5 DEF WorkerFails
    <3> HIDE DEF row
    <3> QED
      BY <2>1, <2>2, <3>1, <3>2, <3>3, RowAudioStep
  <2> QED
    BY <1>11, <2>3, <2>4, <2>5 DEF Worker
<1> QED
  BY <1>0, <1>1, <1>2, <1>3, <1>4, <1>5, <1>6, <1>7, <1>8, <1>9, <1>10, <1>11
     DEF Next, Request, Step

(* Whatever fails or is cut off, a completed row names a stored clip, and  *)
(* it is the clip the row was asked for (tts.py:211-229, 232).             *)
THEOREM CompletedAlwaysHasAudio == Spec => []CompletedHasAudio
<1>1. TypeOK /\ AudioInv => CompletedHasAudio
  <2> SUFFICES ASSUME TypeOK, AudioInv, NEW j \in DOMAIN jobs, jobs[j].status = "completed"
               PROVE  HasAudio(j)
    BY DEF CompletedHasAudio
  <2> QED
    BY RowsAreJobs DEF AudioInv, RowAudio, HasAudio
<1> QED
  BY <1>1, InitTyped, TypeStep, InitAudio, AudioStep, PTL DEF Spec

(* Whoever is answered "completed", from the cache or not, is handed a job *)
(* that holds the clip they asked for (tts.py:78-104, 218-230).            *)
THEOREM AnswersCarryTheClip == Spec => []ServedAudioIsRequested
<1>1. TypeOK /\ AudioInv => ServedAudioIsRequested
  BY RowsAreJobs DEF AudioInv, RowAudio, RepliedAudio, ServedAudioIsRequested, HasAudio
<1> QED
  BY <1>1, InitTyped, TypeStep, InitAudio, AudioStep, PTL DEF Spec

-----------------------------------------------------------------------------
(* One writer per job.  The step that can break it is a send_message that  *)
(* raises for a message SQS has (AckLost): the except branch then fails a   *)
(* row the worker is also going to write.                                  *)

(* Where a job is in the hands of a party, its row has the matching status. *)
Staged ==
  /\ \A h \in Handler : calls[h] # Idle =>
       /\ calls[h].pc = "sending" => jobs[calls[h].job].status = "queued"
       /\ calls[h].pc \in {"synthesizing", "saving", "saved"} =>
            jobs[calls[h].job].status = "processing"
  /\ \A j \in queue : jobs[j].status = "queued"
  /\ \A j \in taken : jobs[j].status = "processing"

WriterInv == OneWriter /\ Staged

LEMMA InitWriter == Init => WriterInv
<1> SUFFICES ASSUME Init PROVE WriterInv
  OBVIOUS
<1>1. DOMAIN jobs = {}
  BY DEF Init
<1> QED
  BY <1>1 DEF Init, WriterInv, OneWriter, Staged, Idle

(* A step in which every handler writes the row it wrote before. *)
LEMMA QuietWriter ==
  ASSUME TypeOK, WriterInv, UNCHANGED <<jobs, queue, taken, lost>>,
         \A h \in Handler :
           \/ calls'[h] = calls[h]
           \/ calls'[h] = Idle /\ calls[h].pc = "sent"
           \/ /\ calls'[h] # Idle /\ calls[h] # Idle /\ calls'[h].job = calls[h].job
              /\ calls'[h].pc \in {"saving", "saved"}
              /\ calls[h].pc \in {"synthesizing", "saving"}
  PROVE  WriterInv'
<1>1. \A h \in Handler, j \in DOMAIN jobs : Writing(h, j)' <=> Writing(h, j)
  BY DEF Writing, Idle
<1>2. OneWriter'
  BY <1>1 DEF WriterInv, OneWriter, Settled
<1>3. Staged'
  BY DEF WriterInv, Staged
<1> QED
  BY <1>2, <1>3 DEF WriterInv

(* A new row has its handler as only writer. *)
LEMMA StartWriter ==
  ASSUME TypeOK, WriterInv, NEW h \in Handler, calls[h] = Idle,
         NEW u \in User, NEW x \in Clip, NEW status, NEW position \in Nat, NEW pc,
         \/ status = "queued" /\ pc = "sending"
         \/ status = "processing" /\ pc = "synthesizing",
         Len(jobs) < MaxJobs, jobs' = Append(jobs, NewRow(u, x, status, position)),
         Await(h, pc, Len(jobs) + 1), UNCHANGED <<queue, taken, lost>>
  PROVE  WriterInv'
<1> DEFINE row == NewRow(u, x, status, position)
<1>0. PICK n : n = Len(jobs) + 1
  OBVIOUS
<1>1. row \in Row /\ row.status = status
  BY BoundsAssumption DEF NewRow, Row, Status
<1>2. /\ DOMAIN jobs' = DOMAIN jobs \cup {n} /\ n \notin DOMAIN jobs
      /\ jobs'[n] = row /\ \A i \in DOMAIN jobs : jobs'[i] = jobs[i]
  BY <1>0, <1>1, AppendKeepsTable
<1>3. /\ calls'[h].pc = pc /\ calls'[h].job = n /\ calls'[h] # Idle
      /\ \A g \in Handler : g # h => calls'[g] = calls[g]
  BY <1>0 DEF Await, TypeOK, Idle
<1>4. \A g \in Handler : g # h => (calls[g] # Idle => calls[g].job \in DOMAIN jobs)
  BY DEF TypeOK
<1>5. queue \subseteq DOMAIN jobs /\ taken \subseteq DOMAIN jobs
  BY DEF TypeOK
<1> HIDE DEF row
<1>6. /\ \A j \in DOMAIN jobs, g \in Handler : Writing(g, j)' <=> Writing(g, j)
      /\ \A g \in Handler : Writing(g, n)' <=> g = h
  BY <1>2, <1>3, <1>4 DEF Writing
<1>7. \A j \in DOMAIN jobs : Settled(j)' <=> Settled(j)
  BY <1>2 DEF Settled
<1>8. ~ Settled(n)'
  BY <1>1, <1>2 DEF Settled
<1>9. OneWriter'
  BY <1>2, <1>5, <1>6, <1>7, <1>8 DEF WriterInv, OneWriter
<1>10. Staged'
  BY <1>1, <1>2, <1>3, <1>4, <1>5 DEF WriterInv, Staged
<1> QED
  BY <1>9, <1>10 DEF WriterInv

(* The handler that is a job's only writer settles it and lets go. *)
LEMMA SettleWriter ==
  ASSUME TypeOK, WriterInv, NEW h \in Handler, NEW j \in DOMAIN jobs, Writing(h, j),
         NEW row \in Row, row.status \in {"completed", "failed"}, SetRow(j, row),
         NEW r, Answer(h, r), UNCHANGED <<queue, taken, lost>>
  PROVE  WriterInv'
<1>1. /\ DOMAIN jobs' = DOMAIN jobs /\ jobs'[j] = row
      /\ \A i \in DOMAIN jobs : i # j => jobs'[i] = jobs[i]
  BY SetRowKeepsTable
<1>2. calls'[h] = Idle /\ \A g \in Handler : g # h => calls'[g] = calls[g]
  BY DEF Answer, TypeOK
<1>3. j \notin queue \cup taken /\ \A g \in Handler : Writing(g, j) => g = h
  BY DEF WriterInv, OneWriter
<1>4. \A i \in DOMAIN jobs, g \in Handler :
        Writing(g, i)' <=> (g # h /\ Writing(g, i))
  BY <1>2 DEF Writing
<1>5. \A i \in DOMAIN jobs : Writing(h, i) => i = j
  BY DEF Writing
<1>6. OneWriter'
  <2>1. \A i \in DOMAIN jobs : i # j => (Settled(i)' <=> Settled(i))
    BY <1>1 DEF Settled
  <2>2. Settled(j)'
    BY <1>1 DEF Settled
  <2> QED
    BY <1>1, <1>3, <1>4, <1>5, <2>1, <2>2 DEF WriterInv, OneWriter
<1>7. Staged'
  <2>1. \A g \in Handler : g # h /\ calls[g] # Idle /\ calls[g].pc # "sent" => calls[g].job # j
    BY <1>3 DEF Writing
  <2>2. \A g \in Handler : calls[g] # Idle => calls[g].job \in DOMAIN jobs
    BY DEF TypeOK
  <2>3. ASSUME NEW g \in Handler, calls'[g] # Idle
        PROVE  /\ calls'[g].pc = "sending" => jobs'[calls'[g].job].status = "queued"
               /\ calls'[g].pc \in {"synthesizing", "saving", "saved"} =>
                    jobs'[calls'[g].job].status = "processing"
    BY <1>1, <1>2, <2>1, <2>2, <2>3 DEF WriterInv, Staged
  <2>4. /\ \A i \in queue : jobs'[i].status = "queued"
        /\ \A i \in taken : jobs'[i].status = "processing"
    BY <1>1, <1>3 DEF WriterInv, Staged, TypeOK
  <2> QED
    BY <2>3, <2>4 DEF Staged
<1> QED
  BY <1>6, <1>7 DEF WriterInv

NoAckLost == "AckLost" \notin Faults

(* A failing handler was its job's writer. *)
LEMMA FailingWrites ==
  ASSUME TypeOK, WriterInv, NoAckLost, NEW h \in Handler, EnqueueFails(h) \/ SyncFails(h)
  PROVE  /\ Fail(h) /\ Writing(h, calls[h].job)
         /\ calls[h].job \in DOMAIN jobs
         /\ jobs[calls[h].job].status \in {"queued", "processing"}
<1>1. Fail(h) /\ calls[h] # Idle
      /\ calls[h].pc \in {"sending", "synthesizing", "saving", "saved"}
  BY DEF EnqueueFails, SendRaises, SyncFails, At, NoAckLost
<1>2. calls[h].job \in DOMAIN jobs
  BY <1>1 DEF TypeOK
<1> QED
  BY <1>1, <1>2 DEF Writing, WriterInv, Staged

LEMMA WriterStep == TypeOK /\ WriterInv /\ NoAckLost /\ [Next]_vars => WriterInv'
<1> SUFFICES ASSUME TypeOK, WriterInv, NoAckLost, [Next]_vars PROVE WriterInv'
  OBVIOUS
<1> USE DEF rowVars
<1>0. CASE UNCHANGED vars
  BY <1>0, QuietWriter DEF vars
<1>1. ASSUME NEW h \in Handler, NEW u \in User, NEW x \in Clip, ServeFromCache(h, u, x)
      PROVE  WriterInv'
  <2>1. calls' = calls
    BY <1>1 DEF ServeFromCache, Answer, TypeOK
  <2> QED
    BY <1>1, <2>1, QuietWriter DEF ServeFromCache
<1>2. ASSUME NEW h \in Handler, NEW u \in User, Refuse(h, u) PROVE WriterInv'
  <2>1. calls' = calls
    BY <1>2 DEF Refuse, Answer, TypeOK
  <2> QED
    BY <1>2, <2>1, QuietWriter DEF Refuse
<1>3. ASSUME NEW h \in Handler, NEW u \in User, NEW x \in Clip, Enqueue(h, u, x)
      PROVE  WriterInv'
  <2>1. QueuePosition \in Nat
    BY QueueFinite DEF QueuePosition
  <2> QED
    BY <1>3, <2>1, StartWriter DEF Enqueue
<1>4. ASSUME NEW h \in Handler, NEW u \in User, NEW x \in Clip, StartSync(h, u, x)
      PROVE  WriterInv'
  BY <1>4, StartWriter DEF StartSync
<1>5. ASSUME NEW h \in Handler, SqsAccepts(h) PROVE WriterInv'
  <2>0. PICK j : j = calls[h].job
    OBVIOUS
  <2>1. j \in DOMAIN jobs /\ Writing(h, j) /\ jobs[j].status = "queued"
    BY <1>5, <2>0, HandlerHasJob DEF SqsAccepts, At, Writing, WriterInv, Staged
  <2>2. /\ calls'[h].pc = "sent" /\ \A g \in Handler : g # h => calls'[g] = calls[g]
    BY <1>5, ContinueTyped DEF SqsAccepts
  <2>3. queue' = queue \cup {j} /\ UNCHANGED <<jobs, taken, lost>>
    BY <1>5, <2>0 DEF SqsAccepts
  <2>4. \A i \in DOMAIN jobs, g \in Handler : Writing(g, i)' <=> (g # h /\ Writing(g, i))
    BY <2>2, <2>3 DEF Writing
  <2>5. \A i \in DOMAIN jobs : Writing(h, i) => i = j
    BY <2>0 DEF Writing
  <2>6. OneWriter'
    BY <2>1, <2>3, <2>4, <2>5 DEF WriterInv, OneWriter, Settled
  <2>7. Staged'
    BY <2>1, <2>2, <2>3 DEF WriterInv, Staged
  <2> QED
    BY <2>6, <2>7 DEF WriterInv
<1>6. ASSUME NEW h \in Handler, EnqueueReturns(h) PROVE WriterInv'
  <2>1. calls[h].pc = "sent" /\ calls'[h] = Idle
        /\ \A g \in Handler : g # h => calls'[g] = calls[g]
    BY <1>6 DEF EnqueueReturns, At, Answer, TypeOK
  <2> QED
    BY <1>6, <2>1, QuietWriter DEF EnqueueReturns
<1>7. ASSUME NEW h \in Handler, EnqueueFails(h) \/ SyncFails(h) PROVE WriterInv'
  <2>0. PICK j : j = calls[h].job
    OBVIOUS
  <2>1. Fail(h) /\ Writing(h, j) /\ j \in DOMAIN jobs
    BY <1>7, <2>0, FailingWrites
  <2>2. FailedRow(j, "gateway") \in Row /\ FailedRow(j, "gateway").status = "failed"
    BY <2>1, RowsTyped, RowsAreJobs DEF FailedRow, Row
  <2>3. SetRow(j, FailedRow(j, "gateway")) /\ Answer(h, [status |-> "error"])
        /\ UNCHANGED <<queue, taken, lost>>
    BY <2>0, <2>1 DEF Fail
  <2> QED
    BY <2>1, <2>2, <2>3, SettleWriter
<1>8. ASSUME NEW h \in Handler, SynthesizeReturns(h) \/ StoreAccepts(h) PROVE WriterInv'
  <2>1. /\ calls[h].pc \in {"synthesizing", "saving"} /\ calls[h] # Idle
        /\ calls'[h].pc \in {"saving", "saved"} /\ calls'[h] # Idle
        /\ calls'[h].job = calls[h].job
        /\ \A g \in Handler : g # h => calls'[g] = calls[g]
    <3>1. CASE SynthesizeReturns(h)
      BY <3>1, ContinueTyped DEF SynthesizeReturns, At
    <3>2. CASE StoreAccepts(h)
      BY <3>2, ContinueTyped DEF StoreAccepts, At
    <3> QED
      BY <1>8, <3>1, <3>2
  <2> QED
    BY <1>8, <2>1, QuietWriter DEF SynthesizeReturns, StoreAccepts
<1>9. ASSUME NEW h \in Handler, Complete(h) PROVE WriterInv'
  <2>0. PICK j : j = calls[h].job
    OBVIOUS
  <2>1. j \in DOMAIN jobs /\ Writing(h, j)
    BY <1>9, <2>0, HandlerHasJob DEF Complete, At, Writing
  <2>2. CompletedRow(j) \in Row /\ CompletedRow(j).status = "completed"
    BY <2>1, RowsTyped, RowsAreJobs DEF CompletedRow, Row
  <2>3. SetRow(j, CompletedRow(j)) /\ UNCHANGED <<queue, taken, lost>>
        /\ Answer(h, [status |-> "completed", job |-> j, clip |-> jobs[j].clip])
    BY <1>9, <2>0 DEF Complete
  <2> QED
    BY <2>1, <2>2, <2>3, SettleWriter
<1>10. ASSUME NEW h \in Handler, Abandon(h) PROVE WriterInv'
  <2>0. PICK j : j = calls[h].job
    OBVIOUS
  <2>1. calls'[h] = Idle /\ \A g \in Handler : g # h => calls'[g] = calls[g]
    BY <1>10 DEF Abandon, Answer, TypeOK
  <2>2. lost' = lost \cup {j} /\ UNCHANGED <<jobs, queue, taken>>
    BY <1>10, <2>0 DEF Abandon
  <2>3. \A i \in DOMAIN jobs, g \in Handler : Writing(g, i)' <=> (g # h /\ Writing(g, i))
    BY <2>1 DEF Writing
  <2>4. \A i \in DOMAIN jobs : Writing(h, i) => i = j
    BY <2>0 DEF Writing
  <2>5. OneWriter'
    BY <2>2, <2>3, <2>4 DEF WriterInv, OneWriter, Settled
  <2>6. Staged'
    BY <2>1, <2>2 DEF WriterInv, Staged
  <2> QED
    BY <2>5, <2>6 DEF WriterInv
<1>11. ASSUME Crash PROVE WriterInv'
  <2>1. \A h \in Handler : calls'[h] = Idle
    BY <1>11 DEF Crash
  <2>2. \A j \in DOMAIN jobs, h \in Handler : Writing(h, j) => j \in lost'
    BY <1>11 DEF Crash, Writing
  <2>3. lost \subseteq lost' /\ UNCHANGED <<jobs, queue, taken>>
    BY <1>11 DEF Crash
  <2>4. \A j \in DOMAIN jobs, h \in Handler : ~ Writing(h, j)'
    BY <2>1 DEF Writing
  <2>5. OneWriter'
    BY <2>2, <2>3, <2>4 DEF WriterInv, OneWriter, Settled
  <2>6. Staged'
    BY <2>1, <2>3 DEF WriterInv, Staged
  <2> QED
    BY <2>5, <2>6 DEF WriterInv
<1>12. ASSUME NEW j \in JobId, Worker(j) PROVE WriterInv'
  <2>1. j \in DOMAIN jobs /\ UNCHANGED <<calls, lost>> /\ j \in queue \cup taken
    BY <1>12 DEF TypeOK, Worker, WorkerTakes, WorkerCompletes, WorkerFails
  <2>2. \A h \in Handler : ~ Writing(h, j)
    BY <2>1 DEF WriterInv, OneWriter
  <2>3. PICK row \in Row :
          /\ SetRow(j, row)
          /\ queue' = queue \ {j}
          /\ \/ row.status = "processing" /\ taken' = taken \cup {j}
             \/ row.status \in {"completed", "failed"} /\ taken' = taken \ {j}
    <3>1. /\ CompletedRow(j).status = "completed"
          /\ FailedRow(j, "worker").status = "failed"
          /\ [jobs[j] EXCEPT !.status = "processing"].status = "processing"
      BY <2>1, RowsAreJobs DEF CompletedRow, FailedRow, Row
    <3>2. CASE WorkerTakes(j)
      BY <2>1, <3>1, <3>2, RowsTyped DEF WorkerTakes
    <3>3. ASSUME j \in taken, queue' = queue PROVE queue' = queue \ {j}
      BY <2>1, <3>3 DEF WriterInv, OneWriter
    <3>4. CASE WorkerCompletes(j)
      BY <2>1, <3>1, <3>3, <3>4, RowsTyped DEF WorkerCompletes
    <3>5. CASE WorkerFails(j)
      BY <2>1, <3>1, <3>3, <3>5, RowsTyped DEF WorkerFails
    <3> QED
      BY <1>12, <3>2, <3>4, <3>5 DEF Worker
  <2>4. /\ DOMAIN jobs' = DOMAIN jobs /\ jobs'[j] = row
        /\ \A i \in DOMAIN jobs : i # j => jobs'[i] = jobs[i]
    BY <2>1, <2>3, SetRowKeepsTable
  <2>5. \A i \in DOMAIN jobs, h \in Handler : Writing(h, i)' <=> Writing(h, i)
    BY <2>1 DEF Writing
  <2>6. \A i \in DOMAIN jobs : i # j => (Settled(i)' <=> Settled(i))
    BY <2>4 DEF Settled
  <2>7. Settled(j)' <=> row.status \in {"completed", "failed"}
    BY <2>4 DEF Settled
  <2>8. OneWriter'
    BY <2>1, <2>2, <2>3, <2>4, <2>5, <2>6, <2>7 DEF WriterInv, OneWriter
  <2>9. Staged'
    <3>1. \A h \in Handler : calls[h] # Idle /\ calls[h].pc # "sent" =>
            calls[h].job # j /\ calls[h].job \in DOMAIN jobs
      BY <2>2 DEF Writing, TypeOK
    <3>2. ASSUME NEW h \in Handler, calls'[h] # Idle
          PROVE  /\ calls'[h].pc = "sending" => jobs'[calls'[h].job].status = "queued"
                 /\ calls'[h].pc \in {"synthesizing", "saving", "saved"} =>
                      jobs'[calls'[h].job].status = "processing"
      BY <2>1, <2>4, <3>1, <3>2 DEF WriterInv, Staged
    <3>3. \A i \in queue' : jobs'[i].status = "queued"
      BY <2>3, <2>4 DEF WriterInv, Staged, TypeOK
    <3>4. \A i \in taken' : jobs'[i].status = "processing"
      BY <2>3, <2>4 DEF WriterInv, Staged, TypeOK
    <3> QED
      BY <3>2, <3>3, <3>4 DEF Staged
  <2> QED
    BY <2>8, <2>9 DEF WriterInv
<1> QED
  BY <1>0, <1>1, <1>2, <1>3, <1>4, <1>5, <1>6, <1>7, <1>8, <1>9, <1>10, <1>11, <1>12
     DEF Next, Request, Step

(* As long as send_message raises only for messages SQS does not have, a   *)
(* job under way has exactly one party that will write its row, unless its *)
(* handler was cut off, and a settled job has none, whatever crashes.      *)
THEOREM OneWriterPerJob ==
  ASSUME NoAckLost
  PROVE  Spec => []OneWriter
<1>1. TypeOK /\ WriterInv /\ [Next]_vars => WriterInv'
  BY NoAckLost, WriterStep
<1>2. WriterInv => OneWriter
  BY DEF WriterInv
<1> QED
  BY <1>1, <1>2, InitTyped, TypeStep, InitWriter, PTL DEF Spec

-----------------------------------------------------------------------------
(* The usage counters.  They count the rows of the gateway's own making,   *)
(* so the proof has to keep its rows and the worker's apart.               *)

Completions(u) == Jobs(u, SyncCompleted)
Failures(u) == Jobs(u, GatewayFailed)

(* A row of the sync mode has no position and never leaves the gateway; a  *)
(* row the gateway failed stays failed.                                    *)
Modes ==
  /\ \A h \in Handler : calls[h] # Idle =>
       /\ calls[h].pc \in {"synthesizing", "saving", "saved"} =>
            jobs[calls[h].job].position = 0
       /\ calls[h].pc \in {"sending", "sent"} => jobs[calls[h].job].position > 0
  /\ \A j \in queue \cup taken : jobs[j].position > 0
  /\ \A j \in DOMAIN jobs : jobs[j].error = "gateway" => jobs[j].status = "failed"

UsageInv == UsageMatchesRows /\ Modes

LEMMA RowsCounted ==
  ASSUME TypeOK, NEW u
  PROVE  /\ IsFiniteSet(Completions(u)) /\ IsFiniteSet(Failures(u))
         /\ Cardinality(Completions(u)) \in Nat /\ Cardinality(Failures(u)) \in Nat
<1>1. Len(jobs) \in Nat
      /\ Completions(u) \in SUBSET (1 .. Len(jobs))
      /\ Failures(u) \in SUBSET (1 .. Len(jobs))
  BY RowsAreJobs DEF Completions, Failures, Jobs
<1>2. IsFiniteSet(1 .. Len(jobs))
  BY <1>1, FS_Interval
<1>3. IsFiniteSet(Completions(u)) /\ IsFiniteSet(Failures(u))
  BY <1>1, <1>2, FS_Subset
<1> QED
  BY <1>3, FS_CardinalityType

LEMMA InitUsage == Init => UsageInv
<1> SUFFICES ASSUME Init PROVE UsageInv
  OBVIOUS
<1>1. DOMAIN jobs = {}
  BY DEF Init
<1>2. \A u \in User : Jobs(u, SyncCompleted) = {} /\ Jobs(u, GatewayFailed) = {}
  BY <1>1 DEF Jobs
<1>3. UsageMatchesRows
  BY <1>2, FS_EmptySet DEF Init, UsageMatchesRows
<1> QED
  BY <1>1, <1>3 DEF Init, UsageInv, Modes

(* The counters match as long as the rows they count are the same. *)
LEMMA SameUsage ==
  ASSUME UsageMatchesRows, usage' = usage,
         \A u \in User : Completions(u)' = Completions(u) /\ Failures(u)' = Failures(u)
  PROVE  UsageMatchesRows'
BY DEF UsageMatchesRows, Completions, Failures

LEMMA SameJobsUsage ==
  ASSUME UsageMatchesRows, UNCHANGED <<jobs, usage>>
  PROVE  UsageMatchesRows'
<1>1. \A u \in User : Completions(u)' = Completions(u) /\ Failures(u)' = Failures(u)
  BY DEF Completions, Failures, Jobs
<1> QED
  BY <1>1, SameUsage

LEMMA NewRowUsage ==
  ASSUME TypeOK, UsageMatchesRows, usage' = usage, Len(jobs) < MaxJobs,
         NEW row \in Row, jobs' = Append(jobs, row),
         row.status # "completed", row.error = "none"
  PROVE  UsageMatchesRows'
<1>1. PICK n : /\ DOMAIN jobs' = DOMAIN jobs \cup {n} /\ n \notin DOMAIN jobs
               /\ jobs'[n] = row /\ \A i \in DOMAIN jobs : jobs'[i] = jobs[i]
  BY AppendKeepsTable
<1>2. \A u \in User : Completions(u)' = Completions(u) /\ Failures(u)' = Failures(u)
  BY <1>1 DEF Completions, Failures, Jobs, SyncCompleted, GatewayFailed
<1> QED
  BY <1>2, SameUsage

LEMMA SameRowUsage ==
  ASSUME TypeOK, UsageMatchesRows, usage' = usage,
         NEW j \in DOMAIN jobs, NEW row \in Row, SetRow(j, row),
         row.user = jobs[j].user,
         SyncCompleted(row) <=> SyncCompleted(jobs[j]),
         GatewayFailed(row) <=> GatewayFailed(jobs[j])
  PROVE  UsageMatchesRows'
<1>1. /\ DOMAIN jobs' = DOMAIN jobs /\ jobs'[j] = row
      /\ \A i \in DOMAIN jobs : i # j => jobs'[i] = jobs[i]
  BY SetRowKeepsTable
<1>2. \A u \in User : Completions(u)' = Completions(u) /\ Failures(u)' = Failures(u)
  BY <1>1 DEF Completions, Failures, Jobs
<1> QED
  BY <1>2, SameUsage

(* A row that comes to be counted, with its counter in the same commit. *)
LEMMA CountedUsage ==
  ASSUME TypeOK, UsageMatchesRows,
         NEW j \in DOMAIN jobs, NEW row \in Row, SetRow(j, row),
         row.user = jobs[j].user,
         ~ SyncCompleted(jobs[j]), ~ GatewayFailed(jobs[j]),
         \/ SyncCompleted(row) /\ ~ GatewayFailed(row) /\ Count(row.user, "processing")
         \/ ~ SyncCompleted(row) /\ GatewayFailed(row) /\ Count(row.user, "failed")
  PROVE  UsageMatchesRows'
<1>1. /\ DOMAIN jobs' = DOMAIN jobs /\ jobs'[j] = row
      /\ \A i \in DOMAIN jobs : i # j => jobs'[i] = jobs[i]
  BY SetRowKeepsTable
<1>2. row.user \in User /\ usage \in [User -> [processing : Nat, failed : Nat]]
  BY DEF TypeOK, Row
<1>3. \A u \in User : j \notin Completions(u) /\ j \notin Failures(u)
  BY DEF Completions, Failures, Jobs
<1>4. \A u \in User : u # row.user =>
        /\ Completions(u)' = Completions(u) /\ Failures(u)' = Failures(u)
  BY <1>1 DEF Completions, Failures, Jobs
<1>5. CASE SyncCompleted(row) /\ ~ GatewayFailed(row) /\ Count(row.user, "processing")
  <2>1. /\ Completions(row.user)' = Completions(row.user) \cup {j}
        /\ Failures(row.user)' = Failures(row.user)
    BY <1>1, <1>5 DEF Completions, Failures, Jobs
  <2>2. Cardinality(Completions(row.user) \cup {j}) = Cardinality(Completions(row.user)) + 1
    BY <1>2, <1>3, RowsCounted, FS_AddElement
  <2>3. /\ \A u \in User : u # row.user => usage'[u] = usage[u]
        /\ usage'[row.user].processing = usage[row.user].processing + 1
        /\ usage'[row.user].failed = usage[row.user].failed
    BY <1>2, <1>5 DEF Count
  <2>4. ASSUME NEW u \in User
        PROVE  /\ usage'[u].processing = Cardinality(Completions(u)')
               /\ usage'[u].failed = Cardinality(Failures(u)')
    <3>1. /\ usage[u].processing = Cardinality(Completions(u))
          /\ usage[u].failed = Cardinality(Failures(u))
      BY DEF UsageMatchesRows, Completions, Failures
    <3> QED
      BY <1>4, <2>1, <2>2, <2>3, <3>1
  <2> QED
    BY <2>4 DEF UsageMatchesRows, Completions, Failures
<1>6. CASE ~ SyncCompleted(row) /\ GatewayFailed(row) /\ Count(row.user, "failed")
  <2>1. /\ Completions(row.user)' = Completions(row.user)
        /\ Failures(row.user)' = Failures(row.user) \cup {j}
    BY <1>1, <1>6 DEF Completions, Failures, Jobs
  <2>2. Cardinality(Failures(row.user) \cup {j}) = Cardinality(Failures(row.user)) + 1
    BY <1>2, <1>3, RowsCounted, FS_AddElement
  <2>3. /\ \A u \in User : u # row.user => usage'[u] = usage[u]
        /\ usage'[row.user].failed = usage[row.user].failed + 1
        /\ usage'[row.user].processing = usage[row.user].processing
    BY <1>2, <1>6 DEF Count
  <2>4. ASSUME NEW u \in User
        PROVE  /\ usage'[u].processing = Cardinality(Completions(u)')
               /\ usage'[u].failed = Cardinality(Failures(u)')
    <3>1. /\ usage[u].processing = Cardinality(Completions(u))
          /\ usage[u].failed = Cardinality(Failures(u))
      BY DEF UsageMatchesRows, Completions, Failures
    <3> QED
      BY <1>4, <2>1, <2>2, <2>3, <3>1
  <2> QED
    BY <2>4 DEF UsageMatchesRows, Completions, Failures
<1> QED
  BY <1>5, <1>6

SyncStages == {"synthesizing", "saving", "saved"}

(* A step that adds no row and changes no position. *)
LEMMA ModesKept ==
  ASSUME TypeOK, Modes, DOMAIN jobs' = DOMAIN jobs,
         \A j \in DOMAIN jobs :
           /\ jobs'[j].position = jobs[j].position
           /\ jobs'[j].error = "gateway" => jobs'[j].status = "failed",
         \A g \in Handler :
           \/ calls'[g] = calls[g]
           \/ calls'[g] = Idle
           \/ /\ calls[g] # Idle /\ calls'[g].job = calls[g].job
              /\ \/ calls[g].pc \in SyncStages /\ calls'[g].pc \in SyncStages
                 \/ calls[g].pc = "sending" /\ calls'[g].pc = "sent",
         \A j \in queue' \cup taken' :
           \/ j \in queue \cup taken
           \/ \E g \in Handler : calls[g] # Idle /\ calls[g].pc = "sending" /\ calls[g].job = j
  PROVE  Modes'
<1>1. ASSUME NEW g \in Handler, calls'[g] # Idle
      PROVE  /\ calls'[g].pc \in SyncStages => jobs'[calls'[g].job].position = 0
             /\ calls'[g].pc \in {"sending", "sent"} => jobs'[calls'[g].job].position > 0
  <2>1. calls[g] # Idle /\ calls'[g].job = calls[g].job /\ calls[g].job \in DOMAIN jobs
    BY <1>1 DEF TypeOK
  <2> QED
    BY <1>1, <2>1 DEF Modes, SyncStages
<1>2. ASSUME NEW j \in queue' \cup taken' PROVE jobs'[j].position > 0
  <2>1. j \in DOMAIN jobs /\ jobs[j].position > 0
    <3>1. CASE j \in queue \cup taken
      BY <3>1 DEF TypeOK, Modes
    <3>2. ASSUME NEW g \in Handler, calls[g] # Idle, calls[g].pc = "sending",
                 calls[g].job = j
          PROVE  j \in DOMAIN jobs /\ jobs[j].position > 0
      BY <3>2 DEF TypeOK, Modes
    <3> QED
      BY <3>1, <3>2
  <2> QED
    BY <2>1
<1> QED
  BY <1>1, <1>2 DEF Modes, SyncStages

LEMMA QuietModes ==
  ASSUME TypeOK, Modes, UNCHANGED jobs,
         \A g \in Handler :
           \/ calls'[g] = calls[g]
           \/ calls'[g] = Idle
           \/ /\ calls[g] # Idle /\ calls'[g].job = calls[g].job
              /\ \/ calls[g].pc \in SyncStages /\ calls'[g].pc \in SyncStages
                 \/ calls[g].pc = "sending" /\ calls'[g].pc = "sent",
         \A j \in queue' \cup taken' :
           \/ j \in queue \cup taken
           \/ \E g \in Handler : calls[g] # Idle /\ calls[g].pc = "sending" /\ calls[g].job = j
  PROVE  Modes'
<1>1. \A j \in DOMAIN jobs :
        /\ jobs'[j].position = jobs[j].position
        /\ jobs'[j].error = "gateway" => jobs'[j].status = "failed"
  BY DEF Modes
<1> QED
  BY <1>1, ModesKept

LEMMA RowModes ==
  ASSUME TypeOK, Modes, NEW j \in DOMAIN jobs, NEW row \in Row, SetRow(j, row),
         row.position = jobs[j].position,
         row.error = "gateway" => row.status = "failed",
         \A g \in Handler : calls'[g] = calls[g] \/ calls'[g] = Idle,
         queue' \cup taken' \subseteq queue \cup taken
  PROVE  Modes'
<1>1. /\ DOMAIN jobs' = DOMAIN jobs /\ jobs'[j] = row
      /\ \A i \in DOMAIN jobs : i # j => jobs'[i] = jobs[i]
  BY SetRowKeepsTable
<1>2. \A i \in DOMAIN jobs :
        /\ jobs'[i].position = jobs[i].position
        /\ jobs'[i].error = "gateway" => jobs'[i].status = "failed"
  BY <1>1 DEF Modes
<1> QED
  BY <1>1, <1>2, ModesKept

LEMMA StartModes ==
  ASSUME TypeOK, Modes, NEW h \in Handler, NEW row \in Row, NEW pc, row.error = "none",
         \/ row.position > 0 /\ pc = "sending"
         \/ row.position = 0 /\ pc = "synthesizing",
         Len(jobs) < MaxJobs, jobs' = Append(jobs, row),
         Await(h, pc, Len(jobs) + 1), UNCHANGED <<queue, taken>>
  PROVE  Modes'
<1>0. PICK n : n = Len(jobs) + 1
  OBVIOUS
<1>1. /\ DOMAIN jobs' = DOMAIN jobs \cup {n} /\ n \notin DOMAIN jobs
      /\ jobs'[n] = row /\ \A i \in DOMAIN jobs : jobs'[i] = jobs[i]
  BY <1>0, AppendKeepsTable
<1>2. /\ calls'[h].pc = pc /\ calls'[h].job = n
      /\ \A g \in Handler : g # h => calls'[g] = calls[g]
  BY <1>0 DEF Await, TypeOK
<1>3. \A g \in Handler : calls[g] # Idle => calls[g].job \in DOMAIN jobs
  BY DEF TypeOK
<1>4. ASSUME NEW g \in Handler, calls'[g] # Idle
      PROVE  /\ calls'[g].pc \in SyncStages => jobs'[calls'[g].job].position = 0
             /\ calls'[g].pc \in {"sending", "sent"} => jobs'[calls'[g].job].position > 0
  <2>1. CASE g = h
    BY <1>1, <1>2, <2>1 DEF SyncStages
  <2>2. CASE g # h
    <3>1. calls'[g] = calls[g] /\ calls[g].job \in DOMAIN jobs
      BY <1>2, <1>3, <1>4, <2>2
    <3> QED
      BY <1>1, <1>4, <3>1 DEF Modes, SyncStages
  <2> QED
    BY <2>1, <2>2
<1>5. \A j \in queue' \cup taken' : jobs'[j].position > 0
  BY <1>1 DEF Modes, TypeOK
<1>6. \A j \in DOMAIN jobs' : jobs'[j].error = "gateway" => jobs'[j].status = "failed"
  BY <1>1 DEF Modes
<1> QED
  BY <1>4, <1>5, <1>6 DEF Modes, SyncStages

LEMMA UsageStep == TypeOK /\ WriterInv /\ UsageInv /\ NoAckLost /\ [Next]_vars => UsageInv'
<1> SUFFICES ASSUME TypeOK, WriterInv, UsageInv, NoAckLost, [Next]_vars PROVE UsageInv'
  OBVIOUS
<1> USE DEF rowVars
<1>a. UsageMatchesRows /\ Modes
  BY DEF UsageInv
<1>0. CASE UNCHANGED vars
  BY <1>0, <1>a, SameJobsUsage, QuietModes DEF vars, UsageInv
<1>1. ASSUME NEW h \in Handler, NEW u \in User,
             Refuse(h, u) \/ \E x \in Clip : ServeFromCache(h, u, x)
      PROVE  UsageInv'
  <2>1. calls' = calls
    BY <1>1 DEF Refuse, ServeFromCache, Answer, TypeOK
  <2> QED
    BY <1>1, <1>a, <2>1, SameJobsUsage, QuietModes DEF Refuse, ServeFromCache, UsageInv
<1>2. ASSUME NEW h \in Handler, NEW u \in User, NEW x \in Clip,
             Enqueue(h, u, x) \/ StartSync(h, u, x)
      PROVE  UsageInv'
  <2>1. QueuePosition \in Nat /\ QueuePosition > 0
    BY QueueFinite DEF QueuePosition
  <2>2. PICK status \in {"queued", "processing"}, position \in Nat,
             pc \in {"sending", "synthesizing"} :
          /\ \/ position > 0 /\ pc = "sending"
             \/ position = 0 /\ pc = "synthesizing"
          /\ jobs' = Append(jobs, NewRow(u, x, status, position))
          /\ Await(h, pc, Len(jobs) + 1)
    BY <1>2, <2>1 DEF Enqueue, StartSync
  <2>3. Len(jobs) < MaxJobs /\ UNCHANGED <<usage, queue, taken>>
    BY <1>2 DEF Enqueue, StartSync
  <2> DEFINE row == NewRow(u, x, status, position)
  <2>4. /\ row \in Row /\ row.status = status /\ row.error = "none"
        /\ row.position = position
    BY BoundsAssumption DEF NewRow, Row, Status
  <2>5. jobs' = Append(jobs, row)
    BY <2>2
  <2> HIDE DEF row
  <2>6. UsageMatchesRows'
    BY <1>a, <2>3, <2>4, <2>5, NewRowUsage
  <2>7. Modes'
    BY <1>a, <2>2, <2>3, <2>4, <2>5, StartModes
  <2> QED
    BY <2>6, <2>7 DEF UsageInv
<1>3. ASSUME NEW h \in Handler,
             SqsAccepts(h) \/ SynthesizeReturns(h) \/ StoreAccepts(h)
      PROVE  UsageInv'
  <2>1. /\ calls[h] # Idle /\ calls'[h].job = calls[h].job
        /\ \/ calls[h].pc \in SyncStages /\ calls'[h].pc \in SyncStages
           \/ calls[h].pc = "sending" /\ calls'[h].pc = "sent"
        /\ \A g \in Handler : g # h => calls'[g] = calls[g]
    BY <1>3, ContinueTyped DEF SqsAccepts, SynthesizeReturns, StoreAccepts, At, SyncStages
  <2>2. \A j \in queue' \cup taken' :
          \/ j \in queue \cup taken
          \/ \E g \in Handler : calls[g] # Idle /\ calls[g].pc = "sending" /\ calls[g].job = j
    BY <1>3 DEF SqsAccepts, SynthesizeReturns, StoreAccepts, At
  <2>3. UNCHANGED <<jobs, usage>>
    BY <1>3 DEF SqsAccepts, SynthesizeReturns, StoreAccepts
  <2> QED
    BY <1>a, <2>1, <2>2, <2>3, SameJobsUsage, QuietModes DEF UsageInv
<1>4. ASSUME NEW h \in Handler, EnqueueReturns(h) \/ Abandon(h) PROVE UsageInv'
  <2>1. calls'[h] = Idle /\ \A g \in Handler : g # h => calls'[g] = calls[g]
    BY <1>4 DEF EnqueueReturns, Abandon, Answer, TypeOK
  <2> QED
    BY <1>4, <1>a, <2>1, SameJobsUsage, QuietModes DEF EnqueueReturns, Abandon, UsageInv
<1>5. ASSUME NEW h \in Handler, EnqueueFails(h) \/ SyncFails(h) PROVE UsageInv'
  <2>0. PICK j : j = calls[h].job
    OBVIOUS
  <2>1. Fail(h) /\ j \in DOMAIN jobs /\ jobs[j].status \in {"queued", "processing"}
    BY <1>5, <2>0, FailingWrites
  <2> DEFINE row == FailedRow(j, "gateway")
  <2>2. /\ row \in Row /\ row.status = "failed" /\ row.error = "gateway"
        /\ row.position = jobs[j].position /\ row.user = jobs[j].user
    BY <2>1, RowsTyped, RowsAreJobs DEF FailedRow, Row
  <2>3. SetRow(j, row) /\ Count(row.user, "failed") /\ UNCHANGED <<queue, taken>>
        /\ Answer(h, [status |-> "error"])
    BY <2>0, <2>1, <2>2 DEF Fail
  <2>4. \A g \in Handler : calls'[g] = calls[g] \/ calls'[g] = Idle
    BY <2>3 DEF Answer, TypeOK
  <2> HIDE DEF row
  <2>5. UsageMatchesRows'
    BY <1>a, <2>1, <2>2, <2>3, CountedUsage DEF Modes, SyncCompleted, GatewayFailed
  <2>6. Modes'
    BY <1>a, <2>1, <2>2, <2>3, <2>4, RowModes
  <2> QED
    BY <2>5, <2>6 DEF UsageInv
<1>6. ASSUME NEW h \in Handler, Complete(h) PROVE UsageInv'
  <2>0. PICK j : j = calls[h].job
    OBVIOUS
  <2>1. /\ j \in DOMAIN jobs /\ jobs[j].status = "processing"
        /\ jobs[j].position = 0 /\ jobs[j].error # "gateway"
    BY <1>6, <1>a, <2>0, HandlerHasJob DEF Complete, At, WriterInv, Staged, Modes
  <2> DEFINE row == CompletedRow(j)
  <2>2. /\ row \in Row /\ row.status = "completed" /\ row.error = jobs[j].error
        /\ row.position = jobs[j].position /\ row.user = jobs[j].user
    BY <2>1, RowsTyped, RowsAreJobs DEF CompletedRow, Row
  <2>3. SetRow(j, row) /\ Count(row.user, "processing") /\ UNCHANGED <<queue, taken>>
    BY <1>6, <2>0, <2>2 DEF Complete
  <2>4. \A g \in Handler : calls'[g] = calls[g] \/ calls'[g] = Idle
    BY <1>6 DEF Complete, Answer, TypeOK
  <2> HIDE DEF row
  <2>5. UsageMatchesRows'
    BY <1>a, <2>1, <2>2, <2>3, CountedUsage DEF SyncCompleted, GatewayFailed
  <2>6. Modes'
    BY <1>a, <2>1, <2>2, <2>3, <2>4, RowModes
  <2> QED
    BY <2>5, <2>6 DEF UsageInv
<1>7. CASE Crash
  <2>1. \A g \in Handler : calls'[g] = Idle
    BY <1>7 DEF Crash
  <2> QED
    BY <1>7, <1>a, <2>1, SameJobsUsage, QuietModes DEF Crash, UsageInv
<1>8. ASSUME NEW j \in JobId, Worker(j) PROVE UsageInv'
  <2>1. /\ j \in DOMAIN jobs /\ j \in queue \cup taken
        /\ UNCHANGED <<usage, calls>> /\ queue' \cup taken' \subseteq queue \cup taken
    BY <1>8 DEF TypeOK, Worker, WorkerTakes, WorkerCompletes, WorkerFails
  <2>2. /\ jobs[j].position > 0 /\ jobs[j].error # "gateway"
        /\ jobs[j].status \in {"queued", "processing"}
    BY <1>a, <2>1 DEF Modes, WriterInv, Staged
  <2>3. PICK row \in Row :
          /\ SetRow(j, row) /\ row.user = jobs[j].user
          /\ row.position = jobs[j].position /\ row.error # "gateway"
    <3>1. /\ CompletedRow(j) \in Row /\ CompletedRow(j).user = jobs[j].user
          /\ CompletedRow(j).position = jobs[j].position
          /\ CompletedRow(j).error = jobs[j].error
      BY <2>1, RowsTyped, RowsAreJobs DEF CompletedRow, Row
    <3>2. /\ FailedRow(j, "worker") \in Row /\ FailedRow(j, "worker").user = jobs[j].user
          /\ FailedRow(j, "worker").position = jobs[j].position
          /\ FailedRow(j, "worker").error = "worker"
      BY <2>1, RowsTyped, RowsAreJobs DEF FailedRow, Row
    <3> DEFINE row == [jobs[j] EXCEPT !.status = "processing"]
    <3>3. /\ row \in Row /\ row.user = jobs[j].user
          /\ row.position = jobs[j].position /\ row.error = jobs[j].error
      BY <2>1, RowsTyped, RowsAreJobs DEF Row
    <3>4. WorkerTakes(j) => SetRow(j, row)
      BY DEF WorkerTakes
    <3> HIDE DEF row
    <3> QED
      BY <1>8, <2>2, <3>1, <3>2, <3>3, <3>4
         DEF Worker, WorkerCompletes, WorkerFails
  <2>4. ~ SyncCompleted(row) /\ ~ SyncCompleted(jobs[j])
    BY <2>2, <2>3, RowsAreJobs DEF SyncCompleted, Row
  <2>5. UsageMatchesRows'
    BY <1>a, <2>1, <2>2, <2>3, <2>4, SameRowUsage DEF GatewayFailed
  <2>6. Modes'
    BY <1>a, <2>1, <2>3, RowModes
  <2> QED
    BY <2>5, <2>6 DEF UsageInv
<1> QED
  BY <1>0, <1>1, <1>2, <1>3, <1>4, <1>5, <1>6, <1>7, <1>8 DEF Next, Request, Step

(* As long as one party writes a row, the counters agree with the rows the *)
(* gateway completed or failed itself (usage.py, tts.py:157, 215, 238),    *)
(* however handlers interleave, crash or fail to commit.                   *)
THEOREM UsageIsExact ==
  ASSUME NoAckLost
  PROVE  Spec => []UsageMatchesRows
<1>1. TypeOK /\ WriterInv /\ [Next]_vars => WriterInv'
  BY NoAckLost, WriterStep
<1>2. TypeOK /\ WriterInv /\ UsageInv /\ [Next]_vars => UsageInv'
  BY NoAckLost, UsageStep
<1>3. UsageInv => UsageMatchesRows
  BY DEF UsageInv
<1> QED
  BY <1>1, <1>2, <1>3, InitTyped, TypeStep, InitWriter, InitUsage, PTL DEF Spec

-----------------------------------------------------------------------------
(* The table implements JobLifecycle *)

(* With the audio invariant a job has its result once its row has a url. *)
HasUrl == [j \in JobId |-> j \in DOMAIN jobs /\ jobs[j].url = j]

LEMMA ResultIsUrl == TypeOK /\ AudioInv => JobResult = HasUrl
<1> SUFFICES ASSUME TypeOK, AudioInv PROVE JobResult = HasUrl
  OBVIOUS
<1>1. \A j \in DOMAIN jobs : HasAudio(j) <=> jobs[j].url = j
  BY RowsAreJobs DEF AudioInv, RowAudio, HasAudio
<1> QED
  BY <1>1 DEF JobResult, HasUrl

(* Replacing one row moves one job. *)
LEMMA MovedJob ==
  ASSUME TypeOK, NEW j \in DOMAIN jobs, NEW row \in Row, SetRow(j, row)
  PROVE  /\ j \in JL!Job
         /\ JobStatus[j] = jobs[j].status
         /\ JobStatus' = [JobStatus EXCEPT ![j] = row.status]
         /\ row.url = j => HasUrl' = [HasUrl EXCEPT ![j] = TRUE]
         /\ row.url = jobs[j].url => HasUrl' = HasUrl
<1>1. /\ DOMAIN jobs' = DOMAIN jobs /\ jobs'[j] = row
      /\ \A i \in DOMAIN jobs : i # j => jobs'[i] = jobs[i]
  BY SetRowKeepsTable
<1>2. j \in JobId
  BY RowsAreJobs
<1>3. JobStatus' = [JobStatus EXCEPT ![j] = row.status]
  BY <1>1, <1>2 DEF JobStatus
<1>4. row.url = j => HasUrl' = [HasUrl EXCEPT ![j] = TRUE]
  BY <1>1, <1>2 DEF HasUrl
<1>5. row.url = jobs[j].url => HasUrl' = HasUrl
  BY <1>1, <1>2 DEF HasUrl
<1> QED
  BY <1>2, <1>3, <1>4, <1>5 DEF JobStatus, JL!Job, JobId

(* A new row is the next job, without a result. *)
LEMMA SubmittedJob ==
  ASSUME TypeOK, Len(jobs) < MaxJobs, NEW u \in User, NEW x \in Clip,
         NEW st \in {"queued", "processing"}, NEW position \in Nat,
         jobs' = Append(jobs, NewRow(u, x, st, position)),
         JobResult' = JobResult
  PROVE  JL!Next
<1> DEFINE row == NewRow(u, x, st, position)
<1>0. PICK n : n = Len(jobs) + 1
  OBVIOUS
<1>1. row \in Row /\ row.status = st
  BY BoundsAssumption DEF NewRow, Row, Status
<1>2. /\ DOMAIN jobs' = DOMAIN jobs \cup {n} /\ n \notin DOMAIN jobs /\ n \in JobId
      /\ jobs'[n] = row /\ \A i \in DOMAIN jobs : jobs'[i] = jobs[i]
  BY <1>0, <1>1, AppendKeepsTable
<1>3. JobStatus[n] = "absent" /\ JobStatus' = [JobStatus EXCEPT ![n] = st]
  BY <1>1, <1>2 DEF JobStatus
<1>4. \A i \in JobId : i < n => JobStatus[i] # "absent"
  <2> SUFFICES ASSUME NEW i \in JobId, i < n PROVE JobStatus[i] # "absent"
    OBVIOUS
  <2>1. i \in DOMAIN jobs
    BY <1>0, RowsAreJobs DEF JobId
  <2> QED
    BY <2>1, RowsAreJobs DEF JobStatus, Row, Status
<1>5. JL!Submit(n)
  BY <1>2, <1>3, <1>4 DEF JL!Submit, JL!Move, JL!Job, JobId
<1> QED
  BY <1>2, <1>5 DEF JL!Next, JL!Job, JobId

LEMMA FailedJob ==
  ASSUME TypeOK, NEW j \in DOMAIN jobs, jobs[j].status \in {"queued", "processing"},
         NEW who \in {"gateway", "worker"}, SetRow(j, FailedRow(j, who)),
         JobResult = HasUrl, JobResult' = HasUrl'
  PROVE  JL!Next
<1>1. FailedRow(j, who) \in Row /\ FailedRow(j, who).status = "failed"
      /\ FailedRow(j, who).url = jobs[j].url
  BY RowsTyped, RowsAreJobs DEF FailedRow, Row
<1> QED
  BY <1>1, MovedJob DEF JL!Next, JL!Fail, JL!Move

LEMMA CompletedJob ==
  ASSUME TypeOK, NEW j \in DOMAIN jobs, jobs[j].status = "processing",
         SetRow(j, CompletedRow(j)), JobResult = HasUrl, JobResult' = HasUrl'
  PROVE  JL!Next
<1>1. CompletedRow(j) \in Row /\ CompletedRow(j).status = "completed"
      /\ CompletedRow(j).url = j
  BY RowsTyped, RowsAreJobs DEF CompletedRow, Row
<1> QED
  BY <1>1, MovedJob DEF JL!Next, JL!Complete, JL!Move

LEMMA JobStep ==
  ASSUME TypeOK, WriterInv, NoAckLost, [Next]_vars,
         JobResult = HasUrl, JobResult' = HasUrl'
  PROVE  [JL!Next]_<<JobStatus, JobResult>>
<1> USE DEF rowVars
<1>1. CASE jobs' = jobs
  BY <1>1 DEF JobStatus, HasUrl
<1>2. ASSUME NEW h \in Handler, NEW u \in User, NEW x \in Clip,
             Enqueue(h, u, x) \/ StartSync(h, u, x)
      PROVE  JL!Next
  <2>1. QueuePosition \in Nat
    BY QueueFinite DEF QueuePosition
  <2>2. PICK st \in {"queued", "processing"}, position \in Nat :
          Len(jobs) < MaxJobs /\ jobs' = Append(jobs, NewRow(u, x, st, position))
    BY <1>2, <2>1 DEF Enqueue, StartSync
  <2>3. NewRow(u, x, st, position) \in Row /\ NewRow(u, x, st, position).url = 0
    BY BoundsAssumption DEF NewRow, Row, Status
  <2>4. HasUrl' = HasUrl
    BY <2>2, <2>3, AppendKeepsTable, RowsAreJobs DEF HasUrl, JobId
  <2> QED
    BY <2>2, <2>4, SubmittedJob
<1>3. ASSUME NEW h \in Handler, EnqueueFails(h) \/ SyncFails(h) PROVE JL!Next
  BY <1>3, FailingWrites, FailedJob DEF Fail
<1>4. ASSUME NEW h \in Handler, Complete(h) PROVE JL!Next
  <2>1. calls[h].job \in DOMAIN jobs /\ jobs[calls[h].job].status = "processing"
    BY <1>4, HandlerHasJob DEF Complete, At, WriterInv, Staged
  <2> QED
    BY <1>4, <2>1, CompletedJob DEF Complete
<1>5. ASSUME NEW j \in JobId, Worker(j) PROVE JL!Next
  <2>1. j \in DOMAIN jobs
    BY <1>5 DEF TypeOK, Worker, WorkerTakes, WorkerCompletes, WorkerFails
  <2>2. CASE WorkerTakes(j)
    <3> DEFINE row == [jobs[j] EXCEPT !.status = "processing"]
    <3>1. row \in Row /\ row.status = "processing" /\ row.url = jobs[j].url
      BY <2>1, RowsTyped, RowsAreJobs DEF Row
    <3>2. SetRow(j, row) /\ jobs[j].status = "queued"
      BY <2>2 DEF WorkerTakes, WriterInv, Staged
    <3> HIDE DEF row
    <3> QED
      BY <2>1, <3>1, <3>2, MovedJob DEF JL!Next, JL!Start, JL!Move
  <2>3. CASE WorkerCompletes(j)
    BY <2>1, <2>3, CompletedJob DEF WorkerCompletes, WriterInv, Staged
  <2>4. CASE WorkerFails(j)
    BY <2>1, <2>4, FailedJob DEF WorkerFails, WriterInv, Staged
  <2> QED
    BY <1>5, <2>2, <2>3, <2>4 DEF Worker
<1>6. CASE \/ UNCHANGED vars
           \/ Crash
           \/ \E h \in Handler :
                \/ \E u \in User : Refuse(h, u) \/ \E x \in Clip : ServeFromCache(h, u, x)
                \/ SqsAccepts(h) \/ EnqueueReturns(h) \/ SynthesizeReturns(h)
                \/ StoreAccepts(h) \/ Abandon(h)
  BY <1>1, <1>6 DEF vars, Crash, Refuse, ServeFromCache, SqsAccepts, EnqueueReturns,
     SynthesizeReturns, StoreAccepts, Abandon
<1> QED
  BY <1>2, <1>3, <1>4, <1>5, <1>6 DEF Next, Request, Step

(* Under the same condition the table is the job table it promises to be:  *)
(* status moves only forward, completed and failed are final, and a job    *)
(* gets its audio in the step that completes it (models/tts.py).           *)
THEOREM TableImplementsJobLifecycle ==
  ASSUME NoAckLost
  PROVE  Spec => ImplementsJobLifecycle
<1>1. Init => JL!Init
  <2> SUFFICES ASSUME Init PROVE JL!Init
    OBVIOUS
  <2>1. DOMAIN jobs = {}
    BY DEF Init
  <2>2. JobStatus = [j \in JL!Job |-> "absent"] /\ JobResult = [j \in JL!Job |-> FALSE]
    BY <2>1 DEF JL!Job, JobId, JobStatus, JobResult
  <2> QED
    BY <2>2 DEF JL!Init
<1>2. TypeOK /\ WriterInv /\ [Next]_vars => WriterInv'
  BY NoAckLost, WriterStep
<1>3. /\ TypeOK /\ AudioInv => JobResult = HasUrl
      /\ (TypeOK /\ AudioInv => JobResult = HasUrl)'
  BY ResultIsUrl, PTL
<1>4. TypeOK /\ AudioInv /\ WriterInv /\ TypeOK' /\ AudioInv' /\ [Next]_vars =>
        [JL!Next]_<<JobStatus, JobResult>>
  BY <1>3, NoAckLost, JobStep
<1> QED
  BY <1>1, <1>2, <1>4, InitTyped, TypeStep, InitAudio, AudioStep, InitWriter, PTL
     DEF Spec, ImplementsJobLifecycle, JL!Spec

-----------------------------------------------------------------------------
(* Nobody's job is forgotten *)

Tended(j) ==
  \/ Settled(j)
  \/ j \in lost \cup queue \cup taken
  \/ \E h \in Handler : Writing(h, j)

(* Whatever fails, an acknowledgement of SQS included, a job that is not   *)
(* settled is one that somebody is going to write or whose handler was cut *)
(* off (tts.py:150-163, 231-241: every path out of the handler writes the  *)
(* row).  This is the part of EveryJobSettles that needs no fairness.      *)
NobodyForgotten == \A j \in DOMAIN jobs : Tended(j)

(* The worker has started what it took. *)
TakenStarted == \A j \in taken : jobs[j].status # "queued"

(* What one handler does leaves the other jobs as they are. *)
LEMMA OneHandlerTends ==
  ASSUME NobodyForgotten, NEW h \in Handler, NEW n,
         \A g \in Handler : g # h => calls'[g] = calls[g],
         queue \subseteq queue', taken' = taken, lost \subseteq lost',
         \A j \in DOMAIN jobs' : j # n =>
           j \in DOMAIN jobs /\ jobs'[j] = jobs[j] /\ ~ Writing(h, j),
         n \in DOMAIN jobs' => Tended(n)'
  PROVE  NobodyForgotten'
<1> SUFFICES ASSUME NEW j \in DOMAIN jobs', j # n PROVE Tended(j)'
  BY DEF NobodyForgotten
<1>1. Tended(j) /\ jobs'[j] = jobs[j] /\ ~ Writing(h, j)
  BY DEF NobodyForgotten
<1>2. \A g \in Handler : Writing(g, j) => Writing(g, j)'
  BY <1>1 DEF Writing
<1> QED
  BY <1>1, <1>2 DEF Tended, Settled

LEMMA OneHandlerStarts ==
  ASSUME TypeOK, TakenStarted, taken' = taken,
         \A j \in DOMAIN jobs : jobs'[j] = jobs[j] \/ jobs'[j].status # "queued"
  PROVE  TakenStarted'
BY DEF TypeOK, TakenStarted

LEMMA NewStatus ==
  ASSUME TypeOK, NEW j \in DOMAIN jobs
  PROVE  /\ CompletedRow(j).status = "completed"
         /\ \A who : FailedRow(j, who).status = "failed"
         /\ [jobs[j] EXCEPT !.status = "processing"].status = "processing"
<1>1. jobs[j] \in Row
  BY RowsAreJobs
<1> QED
  BY <1>1 DEF Row, CompletedRow, FailedRow

LEMMA ForgottenStep ==
  ASSUME TypeOK, NobodyForgotten, TakenStarted, [Next]_vars
  PROVE  NobodyForgotten' /\ TakenStarted'
<1>1. CASE UNCHANGED vars
  BY <1>1 DEF vars, rowVars, NobodyForgotten, TakenStarted, Tended, Settled, Writing
<1>2. ASSUME NEW h \in Handler, NEW r, Answer(h, r), calls[h] = Idle \/ calls[h].pc = "sent",
             UNCHANGED <<jobs, queue, taken, lost>>
      PROVE  NobodyForgotten' /\ TakenStarted'
  <2>1. \A g \in Handler : g # h => calls'[g] = calls[g]
    BY <1>2 DEF Answer, TypeOK
  <2>2. \A j : ~ Writing(h, j)
    BY <1>2 DEF Writing
  <2>3. NobodyForgotten'
    <3>1. 0 \notin DOMAIN jobs'
      BY <1>2, RowsAreJobs
    <3> QED
      BY <1>2, <2>1, <2>2, <3>1, OneHandlerTends
  <2> QED
    BY <1>2, <2>3, OneHandlerStarts
<1>3. ASSUME NEW h \in Handler, NEW pc, NEW row \in Row, calls[h] = Idle, Len(jobs) < MaxJobs,
             pc # "sent", jobs' = Append(jobs, row), Await(h, pc, Len(jobs) + 1),
             UNCHANGED <<queue, taken, lost>>
      PROVE  NobodyForgotten' /\ TakenStarted'
  <2>1. PICK n : n = Len(jobs) + 1
    OBVIOUS
  <2>2. /\ DOMAIN jobs' = DOMAIN jobs \cup {n} /\ n \notin DOMAIN jobs
        /\ \A j \in DOMAIN jobs : jobs'[j] = jobs[j]
    BY <1>3, <2>1, AppendKeepsTable
  <2>3. PICK c : c = [pc |-> pc, job |-> n]
    OBVIOUS
  <2>4. /\ calls'[h] = c /\ c.pc # "sent" /\ c.job = n /\ c # Idle
        /\ \A g \in Handler : g # h => calls'[g] = calls[g]
    <3>1. calls' = [calls EXCEPT ![h] = c] /\ DOMAIN calls = Handler
      BY <1>3, <2>1, <2>3 DEF Await, TypeOK
    <3>2. c.pc = pc /\ c.job = n /\ c # Idle
      BY <2>3 DEF Idle
    <3> QED
      BY <1>3, <3>1, <3>2
  <2>5. Tended(n)'
    BY <2>4 DEF Tended, Writing
  <2>6. \A j : ~ Writing(h, j)
    BY <1>3 DEF Writing
  <2>7. NobodyForgotten'
    BY <1>3, <2>2, <2>4, <2>5, <2>6, OneHandlerTends
  <2> QED
    BY <1>3, <2>2, <2>7, OneHandlerStarts
<1>4. ASSUME NEW h \in Handler, NEW pcs, At(h, pcs),
             NEW pc \in {"sent", "saving", "saved"}, Continue(h, pc),
             pc = "sent" => calls[h].job \in queue',
             queue \subseteq queue', UNCHANGED <<jobs, taken, lost>>
      PROVE  NobodyForgotten' /\ TakenStarted'
  <2>1. PICK n : n = calls[h].job
    OBVIOUS
  <2>2. /\ calls'[h] # Idle /\ calls'[h].pc = pc /\ calls'[h].job = n
        /\ \A g \in Handler : g # h => calls'[g] = calls[g]
    BY <1>4, <2>1, ContinueTyped
  <2>3. Tended(n)'
    BY <1>4, <2>1, <2>2 DEF Tended, Writing
  <2>4. \A j : j # n => ~ Writing(h, j)
    BY <2>1 DEF Writing
  <2>5. NobodyForgotten'
    BY <1>4, <2>2, <2>3, <2>4, OneHandlerTends
  <2> QED
    BY <1>4, <2>5, OneHandlerStarts
<1>5. ASSUME NEW h \in Handler, NEW pcs, At(h, pcs), NEW r, Answer(h, r),
             NEW row \in Row, SetRow(calls[h].job, row),
             row.status \in {"completed", "failed"}, UNCHANGED <<queue, taken, lost>>
      PROVE  NobodyForgotten' /\ TakenStarted'
  <2>1. PICK n : n = calls[h].job
    OBVIOUS
  <2>2. /\ DOMAIN jobs' = DOMAIN jobs /\ jobs'[n] = row
        /\ \A j \in DOMAIN jobs : j # n => jobs'[j] = jobs[j]
    BY <1>5, <2>1, HandlerHasJob, SetRowKeepsTable
  <2>3. \A g \in Handler : g # h => calls'[g] = calls[g]
    BY <1>5 DEF Answer, TypeOK
  <2>4. Tended(n)'
    BY <1>5, <2>2 DEF Tended, Settled
  <2>5. \A j : j # n => ~ Writing(h, j)
    BY <2>1 DEF Writing
  <2>6. NobodyForgotten'
    BY <1>5, <2>2, <2>3, <2>4, <2>5, OneHandlerTends
  <2>7. \A j \in DOMAIN jobs : jobs'[j] = jobs[j] \/ jobs'[j].status # "queued"
    BY <1>5, <2>2
  <2> QED
    BY <1>5, <2>6, <2>7, OneHandlerStarts
<1>6. ASSUME NEW h \in Handler, Abandon(h) PROVE NobodyForgotten' /\ TakenStarted'
  <2>1. PICK n : n = calls[h].job
    OBVIOUS
  <2>2. n \in lost' /\ UNCHANGED <<jobs, queue, taken>> /\ lost \subseteq lost'
    BY <1>6, <2>1 DEF Abandon, rowVars
  <2>3. \A g \in Handler : g # h => calls'[g] = calls[g]
    BY <1>6 DEF Abandon, Answer, TypeOK
  <2>4. NobodyForgotten'
    <3>1. Tended(n)'
      BY <2>2 DEF Tended
    <3>2. \A j : j # n => ~ Writing(h, j)
      BY <2>1 DEF Writing
    <3> QED
      BY <2>2, <2>3, <3>1, <3>2, OneHandlerTends
  <2> QED
    BY <2>2, <2>4, OneHandlerStarts
<1>7. ASSUME Crash PROVE NobodyForgotten' /\ TakenStarted'
  <2>1. UNCHANGED <<jobs, queue, taken>> /\ lost \subseteq lost'
    BY <1>7 DEF Crash, rowVars
  <2>2. ASSUME NEW h \in Handler, NEW j, Writing(h, j) PROVE j \in lost'
    BY <1>7, <2>2 DEF Crash, Writing
  <2>3. NobodyForgotten'
    BY <2>1, <2>2 DEF NobodyForgotten, Tended, Settled
  <2> QED
    BY <2>1, <2>3, OneHandlerStarts
<1>8. ASSUME NEW n \in JobId, Worker(n) PROVE NobodyForgotten' /\ TakenStarted'
  <2>1. n \in DOMAIN jobs
    BY <1>8 DEF TypeOK, Worker, WorkerTakes, WorkerCompletes, WorkerFails
  <2>2. PICK row \in Row :
          /\ SetRow(n, row)
          /\ \/ row.status = "processing" /\ taken' = taken \cup {n} /\ queue' = queue \ {n}
             \/ /\ row.status \in {"completed", "failed"} /\ taken' = taken \ {n}
                /\ queue' = queue
    <3>1. /\ [jobs[n] EXCEPT !.status = "processing"] \in Row
          /\ [jobs[n] EXCEPT !.status = "processing"].status = "processing"
          /\ CompletedRow(n) \in Row /\ CompletedRow(n).status = "completed"
          /\ FailedRow(n, "worker") \in Row /\ FailedRow(n, "worker").status = "failed"
      BY <2>1, RowsTyped, NewStatus
    <3> QED
      BY <1>8, <3>1 DEF Worker, WorkerTakes, WorkerCompletes, WorkerFails
  <2>3. /\ DOMAIN jobs' = DOMAIN jobs /\ jobs'[n] = row
        /\ \A j \in DOMAIN jobs : j # n => jobs'[j] = jobs[j]
    BY <2>1, <2>2, SetRowKeepsTable
  <2>4. calls' = calls /\ lost' = lost
    BY <1>8 DEF Worker, WorkerTakes, WorkerCompletes, WorkerFails
  <2>5. \A h \in Handler : \A j : Writing(h, j) => Writing(h, j)'
    BY <2>4 DEF Writing
  <2>6. ASSUME NEW j \in DOMAIN jobs', j # n PROVE Tended(j)'
    <3>1. Tended(j) /\ jobs'[j] = jobs[j]
      BY <2>3, <2>6 DEF NobodyForgotten
    <3> QED
      BY <2>2, <2>4, <2>5, <2>6, <3>1 DEF Tended, Settled
  <2>7. Tended(n)'
    BY <2>2, <2>3 DEF Tended, Settled
  <2>8. TakenStarted'
    BY <2>2, <2>3 DEF TakenStarted, TypeOK
  <2> QED
    BY <2>6, <2>7, <2>8 DEF NobodyForgotten
<1>9. ASSUME NEW h \in Handler, Request(h) PROVE NobodyForgotten' /\ TakenStarted'
  <2>1. ASSUME NEW u \in User, Refuse(h, u) PROVE NobodyForgotten' /\ TakenStarted'
    BY <1>2, <2>1 DEF Refuse, rowVars
  <2>2. ASSUME NEW u \in User, NEW x \in Clip, ServeFromCache(h, u, x)
        PROVE  NobodyForgotten' /\ TakenStarted'
    BY <1>2, <2>2 DEF ServeFromCache, rowVars
  <2>3. ASSUME NEW u \in User, NEW x \in Clip, Enqueue(h, u, x)
        PROVE  NobodyForgotten' /\ TakenStarted'
    <3>1. NewRow(u, x, "queued", QueuePosition) \in Row
      BY QueueFinite, BoundsAssumption DEF NewRow, Row, Status, QueuePosition
    <3> QED
      BY <1>3, <2>3, <3>1 DEF Enqueue
  <2>4. ASSUME NEW u \in User, NEW x \in Clip, StartSync(h, u, x)
        PROVE  NobodyForgotten' /\ TakenStarted'
    <3>1. NewRow(u, x, "processing", 0) \in Row
      BY BoundsAssumption DEF NewRow, Row, Status
    <3> QED
      BY <1>3, <2>4, <3>1 DEF StartSync
  <2> QED
    BY <1>9, <2>1, <2>2, <2>3, <2>4 DEF Request
<1>10. ASSUME NEW h \in Handler, Step(h) PROVE NobodyForgotten' /\ TakenStarted'
  <2>1. ASSUME NEW pcs, At(h, pcs), Fail(h) PROVE NobodyForgotten' /\ TakenStarted'
    <3>1. calls[h].job \in DOMAIN jobs
      BY <2>1, HandlerHasJob
    <3>2. /\ FailedRow(calls[h].job, "gateway") \in Row
          /\ FailedRow(calls[h].job, "gateway").status = "failed"
      BY <3>1, RowsTyped, NewStatus
    <3> QED
      BY <1>5, <2>1, <3>2 DEF Fail
  <2>2. CASE SqsAccepts(h)
    BY <1>4, <2>2 DEF SqsAccepts, rowVars
  <2>3. CASE EnqueueReturns(h)
    <3>1. calls[h].pc = "sent"
      BY <2>3 DEF EnqueueReturns, At
    <3> QED
      BY <1>2, <2>3, <3>1 DEF EnqueueReturns, rowVars
  <2>4. CASE EnqueueFails(h)
    BY <2>1, <2>4 DEF EnqueueFails, SendRaises
  <2>5. CASE SynthesizeReturns(h)
    BY <1>4, <2>5 DEF SynthesizeReturns, rowVars
  <2>6. CASE StoreAccepts(h)
    BY <1>4, <2>6 DEF StoreAccepts
  <2>7. CASE Complete(h)
    <3>1. calls[h].job \in DOMAIN jobs
      BY <2>7, HandlerHasJob DEF Complete
    <3>2. /\ CompletedRow(calls[h].job) \in Row
          /\ CompletedRow(calls[h].job).status = "completed"
      BY <3>1, RowsTyped, NewStatus
    <3> QED
      BY <1>5, <2>7, <3>2 DEF Complete
  <2>8. CASE SyncFails(h)
    BY <2>1, <2>8 DEF SyncFails
  <2> QED
    BY <1>6, <1>10, <2>2, <2>3, <2>4, <2>5, <2>6, <2>7, <2>8 DEF Step
<1> QED
  BY <1>1, <1>7, <1>8, <1>9, <1>10 DEF Next

(* A job that is not settled is in the queue, in the hands of a handler or *)
(* of the worker, or its handler was cut off by a crash or a lost          *)
(* database: nothing else loses one.                                       *)
THEOREM JobsAreTended == Spec => []NobodyForgotten
<1>1. Init => NobodyForgotten /\ TakenStarted
  BY DEF Init, NobodyForgotten, TakenStarted
<1>2. TypeOK /\ NobodyForgotten /\ TakenStarted /\ [Next]_vars =>
        NobodyForgotten' /\ TakenStarted'
  BY ForgottenStep
<1> QED
  BY <1>1, <1>2, InitTyped, TypeStep, PTL DEF Spec

(* "Never leave a phantom "queued" row the worker will never pick up"      *)
(* (tts.py:152): it takes a crash between the commit and the send, or a    *)
(* database that is gone by the except branch, to leave one, as the run    *)
(* tts_phantom_after_crash does.  Whatever else fails, there is none.      *)
THEOREM PhantomsNeedACrash ==
  ASSUME Faults \subseteq {"AckLost"}
  PROVE  Spec => []NoPhantomQueued
<1>1. Init => NobodyForgotten /\ TakenStarted /\ lost = {}
  BY DEF Init, NobodyForgotten, TakenStarted
<1>2. TypeOK /\ NobodyForgotten /\ TakenStarted /\ [Next]_vars =>
        NobodyForgotten' /\ TakenStarted'
  BY ForgottenStep
<1>3. lost = {} /\ [Next]_vars => (lost = {})'
  BY DEF Next, vars, Request, Refuse, ServeFromCache, Enqueue, StartSync, Step, SqsAccepts,
     EnqueueReturns, EnqueueFails, SynthesizeReturns, StoreAccepts, Complete, SyncFails,
     Fail, Abandon, Crash, Worker, WorkerTakes, WorkerCompletes, WorkerFails
<1>4. NobodyForgotten /\ TakenStarted /\ lost = {} => NoPhantomQueued
  BY DEF NobodyForgotten, TakenStarted, Tended, Settled, NoPhantomQueued, Queued
<1> QED
  BY <1>1, <1>2, <1>3, <1>4, InitTyped, TypeStep, PTL DEF Spec

=============================================================================
