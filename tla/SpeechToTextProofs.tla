------------------------- MODULE SpeechToTextProofs -------------------------
(***************************************************************************)
(* What holds of SpeechToText for every set of users and handlers, every   *)
(* quota and every number of rows and uploads.                             *)
(***************************************************************************)
EXTENDS SpeechToText, FiniteSetTheorems, TLAPS

LEMMA KeysAreApart ==
  /\ 0 \notin UuidKey /\ UuidKey \subseteq Key
  /\ \A j \in JobId : RowKey(j) \in Key /\ RowKey(j) \notin UuidKey /\ RowKey(j) # 0
  /\ \A i, j \in JobId : RowKey(i) = RowKey(j) => i = j
BY BoundsAssumption DEF UuidKey, Key, RowKey, JobId

(* The rows are numbered as the jobs are. *)
LEMMA RowsAreJobs ==
  ASSUME TypeOK
  PROVE  /\ Len(jobs) \in Nat /\ DOMAIN jobs = 1 .. Len(jobs)
         /\ \A j \in DOMAIN jobs : j \in JobId /\ jobs[j] \in Row
<1>1. jobs \in Seq(Row) /\ Len(jobs) <= MaxJobs
  BY DEF TypeOK
<1>2. Len(jobs) \in Nat /\ DOMAIN jobs = 1 .. Len(jobs)
  BY <1>1
<1>3. \A j \in 1 .. Len(jobs) : j \in JobId
  BY <1>1, <1>2, BoundsAssumption DEF JobId
<1>4. \A j \in DOMAIN jobs : jobs[j] \in Row
  BY <1>1
<1> QED
  BY <1>2, <1>3, <1>4

Holds(h) == At(h, {"uploading", "uploaded"})
HasRow(h) == At(h, {"sending", "sent", "saving", "transcribing"})

(* A handler holds a key until its row exists... *)
LEMMA HolderHasKey ==
  ASSUME TypeOK, NEW h \in Handler, Holds(h)
  PROVE  calls[h] \in Uploading /\ calls[h].user \in User /\ calls[h].key \in UuidKey
<1>1. calls[h] \in Uploading \cup WithRow \cup {Idle} /\ calls[h] # Idle
  BY DEF TypeOK, Holds, At
<1>2. calls[h].pc \in {"uploading", "uploaded"}
  BY DEF Holds, At
<1> QED
  BY <1>1, <1>2 DEF Uploading, WithRow

(* ...and a job from then on. *)
LEMMA HandlerHasJob ==
  ASSUME TypeOK, NEW h \in Handler, HasRow(h)
  PROVE  /\ calls[h] \in WithRow
         /\ calls[h].job \in DOMAIN jobs /\ calls[h].job \in JobId
         /\ jobs[calls[h].job] \in Row
<1>1. calls[h] \in Uploading \cup WithRow \cup {Idle} /\ calls[h] # Idle
  BY DEF TypeOK, HasRow, At
<1>2. calls[h].pc \in {"sending", "sent", "saving", "transcribing"}
  BY DEF HasRow, At
<1>3. calls[h] \in WithRow
  BY <1>1, <1>2 DEF Uploading, WithRow
<1>4. calls[h].job \in DOMAIN jobs
  BY DEF TypeOK, HasRow
<1> QED
  BY <1>3, <1>4, RowsAreJobs

(* Replacing a row keeps the table a table of the same jobs. *)
LEMMA SetRowKeepsTable ==
  ASSUME TypeOK, NEW j \in DOMAIN jobs, NEW row \in Row, SetRow(j, row)
  PROVE  /\ jobs' \in Seq(Row) /\ Len(jobs') = Len(jobs) /\ DOMAIN jobs' = DOMAIN jobs
         /\ jobs'[j] = row
         /\ \A i \in DOMAIN jobs : i # j => jobs'[i] = jobs[i]
BY DEF TypeOK, SetRow

(* A new row is appended after the others. *)
LEMMA AppendKeepsTable ==
  ASSUME TypeOK, Len(jobs) < MaxJobs, NEW row \in Row, jobs' = Append(jobs, row)
  PROVE  /\ jobs' \in Seq(Row) /\ Len(jobs') = Len(jobs) + 1 /\ Len(jobs') <= MaxJobs
         /\ DOMAIN jobs' = DOMAIN jobs \cup {Len(jobs) + 1}
         /\ Len(jobs) + 1 \notin DOMAIN jobs
         /\ Len(jobs) + 1 \in JobId
         /\ jobs'[Len(jobs) + 1] = row
         /\ \A i \in DOMAIN jobs : jobs'[i] = jobs[i]
<1>1. Len(jobs) \in Nat /\ jobs \in Seq(Row)
  BY RowsAreJobs DEF TypeOK
<1>2. /\ jobs' \in Seq(Row) /\ Len(jobs') = Len(jobs) + 1
      /\ jobs'[Len(jobs) + 1] = row
      /\ \A i \in 1 .. Len(jobs) : jobs'[i] = jobs[i]
  BY <1>1
<1>3. DOMAIN jobs' = 1 .. Len(jobs) + 1 /\ DOMAIN jobs = 1 .. Len(jobs)
  BY <1>1, <1>2
<1>4. Len(jobs) + 1 \in JobId /\ Len(jobs') <= MaxJobs
  BY <1>1, <1>2, BoundsAssumption DEF JobId
<1> QED
  BY <1>1, <1>2, <1>3, <1>4

(* The queued rows can be counted. *)
LEMMA PositionTyped ==
  ASSUME TypeOK
  PROVE  QueuePosition \in Nat /\ QueuePosition > 0
<1>1. Len(jobs) \in Nat /\ Queued \in SUBSET (1 .. Len(jobs))
  BY RowsAreJobs DEF Queued
<1>2. IsFiniteSet(1 .. Len(jobs))
  BY <1>1, FS_Interval
<1>3. IsFiniteSet(Queued)
  BY <1>1, <1>2, FS_Subset
<1>4. Cardinality(Queued) \in Nat
  BY <1>3, FS_CardinalityType
<1> QED
  BY <1>4 DEF QueuePosition

-----------------------------------------------------------------------------
(* What the operations write *)

LEMMA NewRowTyped ==
  ASSUME NEW u \in User, NEW status \in {"queued", "processing"},
         NEW url \in Key \cup {0}, NEW position \in Nat
  PROVE  LET row == NewRow(u, status, url, position)
         IN /\ row \in Row /\ row.status = status /\ row.url = url
            /\ row.position = position /\ row.transcript = "NULL"
BY DEF NewRow, Row

(* The row of an accepted upload. *)
LEMMA QueuedRowTyped ==
  ASSUME TypeOK, NEW h \in Handler, Holds(h)
  PROVE  LET row == NewRow(calls[h].user, "queued", calls[h].key, QueuePosition)
         IN /\ row \in Row /\ row.status = "queued" /\ row.url = calls[h].key
            /\ row.position > 0 /\ row.transcript = "NULL"
<1>1. calls[h].user \in User /\ calls[h].key \in Key
  BY HolderHasKey, KeysAreApart
<1>2. QueuePosition \in Nat /\ QueuePosition > 0
  BY PositionTyped
<1> QED
  BY <1>1, <1>2 DEF NewRow, Row

(* The rows a job's row is replaced by. *)
LEMMA RowsTyped ==
  ASSUME TypeOK, NEW j \in DOMAIN jobs
  PROVE  /\ \A answer \in Answers :
              LET row == Transcribed(j, answer)
              IN /\ row \in Row /\ row.status = "completed" /\ row.url = RowKey(j)
                 /\ row.position = jobs[j].position
                 /\ row.transcript = TranscriptOf(answer)
         /\ \A who \in {"gateway", "worker"} :
              LET row == FailedRow(j, who)
              IN /\ row \in Row /\ row.status = "failed" /\ row.url = jobs[j].url
                 /\ row.position = jobs[j].position
                 /\ row.transcript = jobs[j].transcript
         /\ LET row == [jobs[j] EXCEPT !.status = "processing"]
            IN /\ row \in Row /\ row.status = "processing" /\ row.url = jobs[j].url
               /\ row.position = jobs[j].position
               /\ row.transcript = jobs[j].transcript
         /\ LET row == [jobs[j] EXCEPT !.status = "completed", !.transcript = "text"]
            IN /\ row \in Row /\ row.status = "completed" /\ row.url = jobs[j].url
               /\ row.position = jobs[j].position /\ row.transcript = "text"
<1>1. jobs[j] \in Row /\ RowKey(j) \in Key
  BY RowsAreJobs, KeysAreApart
<1>2. \A answer : TranscriptOf(answer) \in {"NULL", "text"}
  BY DEF TranscriptOf
<1> QED
  BY <1>1, <1>2 DEF Row, Transcribed, FailedRow

(* Where a step takes one handler, leaving the others where they are. *)
LEMMA GotoMoves ==
  ASSUME TypeOK, NEW h \in Handler, NEW call \in Uploading \cup WithRow \cup {Idle},
         Goto(h, call)
  PROVE  /\ calls' \in [Handler -> Uploading \cup WithRow \cup {Idle}]
         /\ calls'[h] = call
         /\ \A g \in Handler : g # h => calls'[g] = calls[g]
BY DEF TypeOK, Goto

LEMMA UploadedMoves ==
  ASSUME TypeOK, NEW h \in Handler, Holds(h)
  PROVE  LET call == [calls[h] EXCEPT !.pc = "uploaded"]
         IN call \in Uploading /\ call.pc = "uploaded" /\ call.key = calls[h].key
BY HolderHasKey DEF Uploading

LEMMA RowMoves ==
  ASSUME TypeOK, NEW h \in Handler, HasRow(h), NEW pc \in {"sent", "transcribing"}
  PROVE  LET call == [calls[h] EXCEPT !.pc = pc]
         IN call \in WithRow /\ call.pc = pc /\ call.job = calls[h].job
BY HandlerHasJob DEF WithRow

LEMMA CountTyped ==
  ASSUME TypeOK, NEW u \in User, NEW counter \in {"processing", "failed"}, Count(u, counter)
  PROVE  usage' \in [User -> [processing : Nat, failed : Nat]]
<1>1. [usage[u] EXCEPT ![counter] = @ + 1] \in [processing : Nat, failed : Nat]
  <2>1. usage[u] \in [processing : Nat, failed : Nat]
    BY DEF TypeOK
  <2>2. CASE counter = "processing"
    BY <2>1, <2>2
  <2>3. CASE counter = "failed"
    BY <2>1, <2>3
  <2> QED
    BY <2>2, <2>3
<1> QED
  BY <1>1 DEF TypeOK, Count

(* What an outside step of the voice worker does to the row it takes. *)
LEMMA WorkerWrites ==
  ASSUME TypeOK, NEW j \in JobId, Worker(j)
  PROVE  /\ j \in DOMAIN jobs /\ j \in queue \cup taken
         /\ queue' \subseteq queue /\ taken' \subseteq taken \cup {j}
         /\ UNCHANGED <<async, store, usage, used, calls, lost>>
         /\ \E row \in Row :
              /\ SetRow(j, row) /\ row.url = jobs[j].url
              /\ row.position = jobs[j].position
<1>1. j \in DOMAIN jobs /\ j \in queue \cup taken
  BY DEF TypeOK, Worker, WorkerTakes, WorkerCompletes, WorkerFails
<1>2. \E row \in Row : /\ SetRow(j, row) /\ row.url = jobs[j].url
                       /\ row.position = jobs[j].position
  <2>1. CASE WorkerTakes(j)
    BY <1>1, <2>1, RowsTyped DEF WorkerTakes
  <2>2. CASE WorkerCompletes(j)
    BY <1>1, <2>2, RowsTyped DEF WorkerCompletes
  <2>3. CASE WorkerFails(j)
    BY <1>1, <2>3, RowsTyped DEF WorkerFails
  <2> QED
    BY <2>1, <2>2, <2>3 DEF Worker
<1> QED
  BY <1>1, <1>2 DEF Worker, WorkerTakes, WorkerCompletes, WorkerFails

-----------------------------------------------------------------------------
(* Type correctness *)

LEMMA InitTyped == Init => TypeOK
<1> SUFFICES ASSUME Init PROVE TypeOK
  OBVIOUS
<1>1. jobs \in Seq(Row) /\ Len(jobs) = 0 /\ DOMAIN jobs = {}
  BY DEF Init
<1>2. calls \in [Handler -> Uploading \cup WithRow \cup {Idle}]
  BY DEF Init
<1>3. \A h \in Handler : ~ HasRow(h)
  BY DEF Init, HasRow, At
<1> QED
  BY <1>1, <1>2, <1>3, BoundsAssumption DEF Init, TypeOK, HasRow

(* The handlers keep their type when one of them goes on. *)
LEMMA CallsTyped ==
  ASSUME TypeOK, NEW h \in Handler, NEW call \in Uploading \cup WithRow \cup {Idle},
         Goto(h, call), DOMAIN jobs \subseteq DOMAIN jobs',
         call \in WithRow => call.job \in DOMAIN jobs'
  PROVE  /\ calls' \in [Handler -> Uploading \cup WithRow \cup {Idle}]
         /\ \A g \in Handler :
              At(g, {"sending", "sent", "saving", "transcribing"})' =>
                calls'[g].job \in DOMAIN jobs'
<1>1. /\ calls' \in [Handler -> Uploading \cup WithRow \cup {Idle}]
      /\ calls'[h] = call
      /\ \A g \in Handler : g # h => calls'[g] = calls[g]
  BY GotoMoves
<1>2. ASSUME NEW g \in Handler, At(g, {"sending", "sent", "saving", "transcribing"})'
      PROVE  calls'[g].job \in DOMAIN jobs'
  <2>1. CASE g = h
    <3>1. call # Idle /\ call.pc \in {"sending", "sent", "saving", "transcribing"}
      BY <1>1, <1>2, <2>1 DEF At
    <3>2. call \in WithRow
      BY <3>1 DEF Uploading
    <3> QED
      BY <1>1, <2>1, <3>2
  <2>2. CASE g # h
    <3>1. At(g, {"sending", "sent", "saving", "transcribing"})
      BY <1>1, <1>2, <2>2 DEF At
    <3> QED
      BY <1>1, <2>2, <3>1 DEF TypeOK
  <2> QED
    BY <2>1, <2>2
<1> QED
  BY <1>1, <1>2

LEMMA StartTyped ==
  ASSUME TypeOK, NEW h \in Handler, NEW u \in User,
         NEW status \in {"queued", "processing"}, NEW url \in Key \cup {0},
         NEW position \in Nat, NEW pc \in {"sending", "saving"},
         Len(jobs) < MaxJobs, jobs' = Append(jobs, NewRow(u, status, url, position)),
         Goto(h, [pc |-> pc, job |-> Len(jobs) + 1]),
         used' \in [User -> 0 .. Limit],
         UNCHANGED <<async, store, usage, queue, taken, lost>>
  PROVE  TypeOK'
<1> DEFINE row == NewRow(u, status, url, position)
           call == [pc |-> pc, job |-> Len(jobs) + 1]
<1>1. row \in Row
  BY NewRowTyped
<1> HIDE DEF row
<1>2. /\ jobs' \in Seq(Row) /\ Len(jobs') <= MaxJobs
      /\ DOMAIN jobs' = DOMAIN jobs \cup {Len(jobs) + 1}
      /\ Len(jobs) + 1 \in JobId
  BY <1>1, AppendKeepsTable DEF row
<1>3. call \in WithRow /\ call.job = Len(jobs) + 1 /\ Goto(h, call)
  BY <1>2 DEF WithRow
<1> HIDE DEF call
<1>4. /\ calls' \in [Handler -> Uploading \cup WithRow \cup {Idle}]
      /\ \A g \in Handler :
           At(g, {"sending", "sent", "saving", "transcribing"})' =>
             calls'[g].job \in DOMAIN jobs'
  BY <1>2, <1>3, CallsTyped
<1> QED
  BY <1>2, <1>4 DEF TypeOK

(* Charging a user stays within the limit. *)
LEMMA ChargeTyped ==
  ASSUME TypeOK, NEW u \in User, Charge(u)
  PROVE  used' \in [User -> 0 .. Limit]
BY BoundsAssumption DEF TypeOK, Charge

(* The step of a handler that writes no row. *)
LEMMA QuietTyped ==
  ASSUME TypeOK, NEW h \in Handler, NEW call \in Uploading \cup WithRow \cup {Idle},
         Goto(h, call), call \in WithRow => call.job \in DOMAIN jobs,
         store' \subseteq Key, used' \in [User -> 0 .. Limit],
         queue' \subseteq DOMAIN jobs, lost' \subseteq DOMAIN jobs,
         UNCHANGED <<async, jobs, usage, taken>>
  PROVE  TypeOK'
<1>1. /\ calls' \in [Handler -> Uploading \cup WithRow \cup {Idle}]
      /\ \A g \in Handler :
           At(g, {"sending", "sent", "saving", "transcribing"})' =>
             calls'[g].job \in DOMAIN jobs'
  BY CallsTyped
<1> QED
  BY <1>1 DEF TypeOK

(* The step of a handler that settles its row and ends. *)
LEMMA SettleTyped ==
  ASSUME TypeOK, NEW h \in Handler, NEW j \in DOMAIN jobs, NEW row \in Row,
         SetRow(j, row), NEW counter \in {"processing", "failed"},
         Count(jobs[j].user, counter), Goto(h, Idle),
         UNCHANGED <<async, store, used, queue, taken, lost>>
  PROVE  TypeOK'
<1>1. jobs' \in Seq(Row) /\ Len(jobs') = Len(jobs) /\ DOMAIN jobs' = DOMAIN jobs
  BY SetRowKeepsTable
<1>2. jobs[j].user \in User
  BY RowsAreJobs DEF Row
<1>3. usage' \in [User -> [processing : Nat, failed : Nat]]
  BY <1>2, CountTyped
<1>4. Idle \notin WithRow
  BY DEF Idle, WithRow
<1>5. /\ calls' \in [Handler -> Uploading \cup WithRow \cup {Idle}]
      /\ \A g \in Handler :
           At(g, {"sending", "sent", "saving", "transcribing"})' =>
             calls'[g].job \in DOMAIN jobs'
  BY <1>1, <1>4, CallsTyped
<1> QED
  BY <1>1, <1>3, <1>5 DEF TypeOK

(* A handler whose operation fails has a row. *)
LEMMA RaisesHasRow ==
  ASSUME NEW h, Raises(h)
  PROVE  HasRow(h)
BY DEF Raises, SendRaises, HasRow, At

LEMMA TypeStep == TypeOK /\ [Next]_vars => TypeOK'
<1> SUFFICES ASSUME TypeOK, [Next]_vars PROVE TypeOK'
  OBVIOUS
<1>a. Idle \notin WithRow /\ Idle \in Uploading \cup WithRow \cup {Idle}
  BY DEF Idle, WithRow
<1>b. store \subseteq Key /\ used \in [User -> 0 .. Limit]
      /\ queue \subseteq DOMAIN jobs /\ taken \subseteq DOMAIN jobs
      /\ lost \subseteq DOMAIN jobs
  BY DEF TypeOK
<1>0. CASE UNCHANGED vars
  BY <1>0 DEF TypeOK, vars, At
<1>1. ASSUME NEW h \in Handler, NEW u \in User, StartUpload(h, u) PROVE TypeOK'
  <2> DEFINE call == [pc |-> "uploading", user |-> u, key |-> CHOOSE k \in FreshKeys : TRUE]
  <2>1. (CHOOSE k \in FreshKeys : TRUE) \in UuidKey
    BY <1>1 DEF StartUpload, FreshKeys
  <2>2. call \in Uploading /\ call \notin WithRow
    BY <2>1 DEF Uploading, WithRow
  <2>3. Goto(h, call)
    BY <1>1 DEF StartUpload
  <2> HIDE DEF call
  <2> QED
    BY <1>1, <1>b, <2>2, <2>3, QuietTyped, ChargeTyped DEF StartUpload
<1>2. ASSUME NEW h \in Handler, NEW u \in User, StartSync(h, u) PROVE TypeOK'
  BY <1>2, StartTyped, ChargeTyped DEF StartSync
<1>3. ASSUME NEW h \in Handler, StoreAccepts(h) PROVE TypeOK'
  <2> DEFINE call == [calls[h] EXCEPT !.pc = "uploaded"]
  <2>1. Holds(h) /\ calls[h].key \in Key
    BY <1>3, HolderHasKey, KeysAreApart DEF StoreAccepts, Holds, At
  <2>2. call \in Uploading /\ call.pc = "uploaded"
    BY <2>1, UploadedMoves
  <2>3. call \notin WithRow
    BY <2>2 DEF WithRow
  <2>4. Goto(h, call)
    BY <1>3 DEF StoreAccepts
  <2> HIDE DEF call
  <2>5. store' \subseteq Key
    BY <1>3, <1>b, <2>1 DEF StoreAccepts
  <2> QED
    BY <1>3, <1>b, <2>2, <2>3, <2>4, <2>5, QuietTyped DEF StoreAccepts
<1>4. ASSUME NEW h \in Handler, UploadFails(h) \/ EnqueueReturns(h) PROVE TypeOK'
  BY <1>4, <1>a, <1>b, QuietTyped DEF UploadFails, EnqueueReturns
<1>5. ASSUME NEW h \in Handler, Enqueue(h) PROVE TypeOK'
  <2>1. calls[h].user \in User /\ calls[h].key \in Key
    BY <1>5, HolderHasKey, KeysAreApart DEF Enqueue, Holds, At
  <2>2. QueuePosition \in Nat
    BY PositionTyped
  <2>3. used' \in [User -> 0 .. Limit]
    BY <1>5, <1>b DEF Enqueue
  <2> QED
    BY <1>5, <2>1, <2>2, <2>3, StartTyped DEF Enqueue
<1>6. ASSUME NEW h \in Handler, SqsAccepts(h) PROVE TypeOK'
  <2> DEFINE call == [calls[h] EXCEPT !.pc = "sent"]
  <2>1. HasRow(h)
    BY <1>6 DEF SqsAccepts, HasRow, At
  <2>2. call \in WithRow /\ call.job = calls[h].job /\ calls[h].job \in DOMAIN jobs
    BY <2>1, RowMoves, HandlerHasJob
  <2>3. Goto(h, call)
    BY <1>6 DEF SqsAccepts
  <2> HIDE DEF call
  <2> QED
    BY <1>6, <1>b, <2>2, <2>3, QuietTyped DEF SqsAccepts
<1>7. ASSUME NEW h \in Handler, StoreAcceptsSync(h) PROVE TypeOK'
  <2> DEFINE call == [calls[h] EXCEPT !.pc = "transcribing"]
  <2>1. HasRow(h)
    BY <1>7 DEF StoreAcceptsSync, HasRow, At
  <2>2. call \in WithRow /\ call.job = calls[h].job /\ calls[h].job \in DOMAIN jobs
        /\ RowKey(calls[h].job) \in Key
    BY <2>1, RowMoves, HandlerHasJob, KeysAreApart
  <2>3. Goto(h, call)
    BY <1>7 DEF StoreAcceptsSync
  <2> HIDE DEF call
  <2>4. store' \subseteq Key
    BY <1>7, <1>b, <2>2 DEF StoreAcceptsSync
  <2> QED
    BY <1>7, <1>b, <2>2, <2>3, <2>4, QuietTyped DEF StoreAcceptsSync
<1>8. ASSUME NEW h \in Handler, Complete(h) PROVE TypeOK'
  <2>1. PICK j : j = calls[h].job
    OBVIOUS
  <2>2. j \in DOMAIN jobs
    BY <1>8, <2>1, HandlerHasJob DEF Complete, HasRow, At
  <2>3. PICK row \in Row : SetRow(j, row)
    BY <1>8, <2>1, <2>2, RowsTyped DEF Complete
  <2> QED
    BY <1>8, <2>1, <2>2, <2>3, SettleTyped DEF Complete
<1>9. ASSUME NEW h \in Handler, Fail(h) PROVE TypeOK'
  <2>1. PICK j : j = calls[h].job
    OBVIOUS
  <2>2. j \in DOMAIN jobs
    BY <1>9, <2>1, RaisesHasRow, HandlerHasJob DEF Fail
  <2>3. PICK row \in Row : SetRow(j, row)
    BY <1>9, <2>1, <2>2, RowsTyped DEF Fail
  <2> QED
    BY <1>9, <2>1, <2>2, <2>3, SettleTyped DEF Fail
<1>10. ASSUME NEW h \in Handler, Abandon(h) PROVE TypeOK'
  <2>1. lost' \subseteq DOMAIN jobs
    BY <1>10, <1>b, RaisesHasRow, HandlerHasJob DEF Abandon
  <2> QED
    BY <1>10, <1>a, <1>b, <2>1, QuietTyped DEF Abandon
<1>11. CASE Crash
  <2>1. lost' \subseteq DOMAIN jobs
    <3>1. \A h \in Handler : At(h, {"sending", "saving", "transcribing"}) =>
            calls[h].job \in DOMAIN jobs
      BY HandlerHasJob DEF HasRow, At
    <3> QED
      BY <1>11, <1>b, <3>1 DEF Crash
  <2>2. /\ calls' \in [Handler -> Uploading \cup WithRow \cup {Idle}]
        /\ \A h \in Handler : ~ At(h, {"sending", "sent", "saving", "transcribing"})'
    BY <1>11 DEF Crash, At
  <2> QED
    BY <1>11, <2>1, <2>2 DEF TypeOK, Crash
<1>12. ASSUME NEW j \in JobId, Worker(j) PROVE TypeOK'
  <2>1. /\ j \in DOMAIN jobs /\ queue' \subseteq queue /\ taken' \subseteq taken \cup {j}
        /\ UNCHANGED <<async, store, usage, used, calls, lost>>
    BY <1>12, WorkerWrites
  <2>2. PICK row \in Row : SetRow(j, row)
    BY <1>12, WorkerWrites
  <2>3. jobs' \in Seq(Row) /\ Len(jobs') = Len(jobs) /\ DOMAIN jobs' = DOMAIN jobs
    BY <2>1, <2>2, SetRowKeepsTable
  <2> QED
    BY <2>1, <2>3 DEF TypeOK, At
<1> QED
  BY <1>0, <1>1, <1>2, <1>3, <1>4, <1>5, <1>6, <1>7, <1>8, <1>9, <1>10, <1>11, <1>12
     DEF Next, Step

(* Every variable keeps its type, every key and job a handler, message or  *)
(* row refers to exists, and nobody is charged past the limit.             *)
THEOREM TypeCorrect == Spec => []TypeOK
BY InitTyped, TypeStep, PTL DEF Spec

-----------------------------------------------------------------------------
(* Recordings.  RecordingsStored is not inductive: it says nothing of the  *)
(* keys handlers hold, from which the next urls come.                      *)

(* Every row's url is a key of its mode, and what RecordingsStored says of *)
(* it.                                                                     *)
RowKeys ==
  /\ \A j \in DOMAIN jobs :
       /\ jobs[j].url \in UuidKey \cup {0, RowKey(j)}
       /\ jobs[j].url # 0 => jobs[j].url \in store
       /\ jobs[j].position > 0 \/ jobs[j].status = "completed" => jobs[j].url # 0
  /\ \A i, j \in DOMAIN jobs : jobs[i].url = jobs[j].url /\ jobs[i].url # 0 => i = j

(* A key a handler holds is its own: no other handler holds it and no row  *)
(* shows it.  Once uploaded it is in the store.                            *)
HeldKeys ==
  \A h \in Handler : Holds(h) =>
    /\ \A g \in Handler : Holds(g) /\ calls[g].key = calls[h].key => g = h
    /\ \A j \in DOMAIN jobs : jobs[j].url # calls[h].key
    /\ At(h, {"uploaded"}) => calls[h].key \in store

(* Whoever may still complete a row is past the upload of its recording. *)
Uploads ==
  /\ \A h \in Handler :
       /\ At(h, {"transcribing"}) => RowKey(calls[h].job) \in store
       /\ At(h, {"sending", "sent"}) => jobs[calls[h].job].position > 0
  /\ \A j \in queue \cup taken : jobs[j].position > 0

RecordingInv == RowKeys /\ HeldKeys /\ Uploads

LEMMA InitRecording == Init => RecordingInv
<1> SUFFICES ASSUME Init PROVE RecordingInv
  OBVIOUS
<1>1. DOMAIN jobs = {} /\ queue = {} /\ taken = {}
  BY DEF Init
<1>2. \A h \in Handler : \A pcs : ~ At(h, pcs)
  BY DEF Init, At
<1> QED
  BY <1>1, <1>2 DEF RecordingInv, RowKeys, HeldKeys, Uploads, Holds

(* Where a handler may go while no row is added and no upload begun. *)
Follows(g) ==
  \/ calls'[g] = calls[g]
  \/ calls'[g] = Idle
  \/ /\ Holds(g)
     /\ calls'[g].pc = "uploaded" /\ calls'[g].key = calls[g].key
     /\ calls[g].key \in store'
  \/ /\ At(g, {"sending"})
     /\ calls'[g].pc = "sent" /\ calls'[g].job = calls[g].job
  \/ /\ At(g, {"saving"})
     /\ calls'[g].pc = "transcribing" /\ calls'[g].job = calls[g].job
     /\ RowKey(calls[g].job) \in store'

LEMMA RecordingKept ==
  ASSUME TypeOK, RecordingInv, store \subseteq store', DOMAIN jobs' = DOMAIN jobs,
         \A j \in DOMAIN jobs :
           /\ jobs'[j].position = jobs[j].position
           /\ \/ jobs'[j].url = jobs[j].url
              \/ jobs'[j].url = RowKey(j) /\ RowKey(j) \in store'
           /\ jobs'[j].status = "completed" => jobs'[j].url # 0,
         \A g \in Handler : Follows(g),
         \A j \in queue' \cup taken' :
           \/ j \in queue \cup taken
           \/ \E g \in Handler : At(g, {"sending"}) /\ calls[g].job = j
  PROVE  RecordingInv'
<1>1. \A j \in DOMAIN jobs : j \in JobId
  BY RowsAreJobs
<1>2. RowKeys'
  <2>1. \A j \in DOMAIN jobs :
          /\ jobs'[j].url \in UuidKey \cup {0, RowKey(j)}
          /\ jobs'[j].url # 0 => jobs'[j].url \in store'
          /\ jobs'[j].position > 0 \/ jobs'[j].status = "completed" => jobs'[j].url # 0
    BY <1>1, KeysAreApart DEF RecordingInv, RowKeys
  <2>2. ASSUME NEW i \in DOMAIN jobs, NEW j \in DOMAIN jobs,
               jobs'[i].url = jobs'[j].url, jobs'[i].url # 0
        PROVE  i = j
    BY <1>1, <2>2, KeysAreApart DEF RecordingInv, RowKeys
  <2> QED
    BY <2>1, <2>2 DEF RowKeys, RowKey, UuidKey
<1>3. ASSUME NEW g \in Handler, Holds(g)'
      PROVE  /\ Holds(g) /\ calls'[g].key = calls[g].key
             /\ At(g, {"uploaded"})' => calls[g].key \in store'
  BY <1>3 DEF Follows, Holds, At, RecordingInv, HeldKeys
<1>4. HeldKeys'
  <2>1. ASSUME NEW h \in Handler, Holds(h)', NEW j \in DOMAIN jobs
        PROVE  jobs'[j].url # calls'[h].key
    BY <1>1, <1>3, <2>1, HolderHasKey, KeysAreApart DEF RecordingInv, HeldKeys
  <2>2. ASSUME NEW h \in Handler, Holds(h)', NEW g \in Handler, Holds(g)',
               calls'[g].key = calls'[h].key
        PROVE  g = h
    BY <1>3, <2>2 DEF RecordingInv, HeldKeys
  <2>3. \A h \in Handler : Holds(h)' /\ At(h, {"uploaded"})' => calls'[h].key \in store'
    BY <1>3
  <2> QED
    BY <2>1, <2>2, <2>3 DEF HeldKeys
<1>5. Uploads'
  <2>1. ASSUME NEW h \in Handler, At(h, {"transcribing"})'
        PROVE  RowKey(calls'[h].job) \in store'
    BY <2>1 DEF Follows, At, RecordingInv, Uploads
  <2>2. ASSUME NEW h \in Handler, At(h, {"sending", "sent"})'
        PROVE  jobs'[calls'[h].job].position > 0
    <3>1. At(h, {"sending", "sent"}) /\ calls'[h].job = calls[h].job
      BY <2>2 DEF Follows, At
    <3>2. calls[h].job \in DOMAIN jobs
      BY <3>1, HandlerHasJob DEF HasRow, At
    <3> QED
      BY <3>1, <3>2 DEF RecordingInv, Uploads
  <2>3. ASSUME NEW j \in queue' \cup taken' PROVE jobs'[j].position > 0
    <3>1. CASE j \in queue \cup taken
      BY <3>1 DEF RecordingInv, Uploads, TypeOK
    <3>2. ASSUME NEW g \in Handler, At(g, {"sending"}), calls[g].job = j
          PROVE  jobs'[j].position > 0
      <4>1. j \in DOMAIN jobs /\ At(g, {"sending", "sent"})
        BY <3>2, HandlerHasJob DEF HasRow, At
      <4> QED
        BY <3>2, <4>1 DEF RecordingInv, Uploads
    <3> QED
      BY <3>1, <3>2
  <2> QED
    BY <2>1, <2>2, <2>3 DEF Uploads, RowKey
<1> QED
  BY <1>2, <1>4, <1>5 DEF RecordingInv

(* A step of one handler that leaves the rows alone. *)
LEMMA QuietRecording ==
  ASSUME TypeOK, RecordingInv, store \subseteq store', UNCHANGED jobs,
         \A g \in Handler : Follows(g),
         \A j \in queue' \cup taken' :
           \/ j \in queue \cup taken
           \/ \E g \in Handler : At(g, {"sending"}) /\ calls[g].job = j
  PROVE  RecordingInv'
<1>1. \A j \in DOMAIN jobs :
        /\ jobs'[j].position = jobs[j].position
        /\ jobs'[j].url = jobs[j].url
        /\ jobs'[j].status = "completed" => jobs'[j].url # 0
  BY DEF RecordingInv, RowKeys
<1> QED
  BY <1>1, RecordingKept

(* A step that replaces one row and perhaps ends a handler. *)
LEMMA RowRecording ==
  ASSUME TypeOK, RecordingInv, NEW j \in DOMAIN jobs, NEW row \in Row, SetRow(j, row),
         row.position = jobs[j].position,
         \/ row.url = jobs[j].url /\ (row.status = "completed" => jobs[j].position > 0)
         \/ row.url = RowKey(j) /\ RowKey(j) \in store,
         UNCHANGED store, \A g \in Handler : Follows(g),
         queue' \cup taken' \subseteq queue \cup taken
  PROVE  RecordingInv'
<1>1. /\ DOMAIN jobs' = DOMAIN jobs /\ jobs'[j] = row
      /\ \A i \in DOMAIN jobs : i # j => jobs'[i] = jobs[i]
  BY SetRowKeepsTable
<1>2. RowKey(j) # 0
  BY RowsAreJobs, KeysAreApart
<1>3. \A i \in DOMAIN jobs :
        /\ jobs'[i].position = jobs[i].position
        /\ \/ jobs'[i].url = jobs[i].url
           \/ jobs'[i].url = RowKey(i) /\ RowKey(i) \in store'
        /\ jobs'[i].status = "completed" => jobs'[i].url # 0
  BY <1>1, <1>2 DEF RecordingInv, RowKeys
<1> QED
  BY <1>1, <1>3, RecordingKept

(* A new row: with the key its handler held, or without one. *)
LEMMA StartRecording ==
  ASSUME TypeOK, RecordingInv, NEW h \in Handler, NEW row \in Row, NEW pc, NEW n,
         n = Len(jobs) + 1,
         \/ /\ At(h, {"uploaded"}) /\ row.url = calls[h].key /\ row.position > 0
            /\ pc = "sending"
         \/ calls[h] = Idle /\ row.url = 0 /\ row.position = 0 /\ pc = "saving",
         row.status # "completed", Len(jobs) < MaxJobs, jobs' = Append(jobs, row),
         calls'[h] = [pc |-> pc, job |-> n],
         \A g \in Handler : g # h => calls'[g] = calls[g],
         UNCHANGED <<store, queue, taken>>
  PROVE  RecordingInv'
<1>1. /\ DOMAIN jobs' = DOMAIN jobs \cup {n} /\ n \notin DOMAIN jobs /\ n \in JobId
      /\ jobs'[n] = row /\ \A i \in DOMAIN jobs : jobs'[i] = jobs[i]
  BY AppendKeepsTable
<1>2. row.url # 0 => /\ Holds(h) /\ row.url = calls[h].key
                     /\ row.url \in UuidKey /\ row.url \in store
                     /\ \A j \in DOMAIN jobs : jobs[j].url # row.url
  <2> SUFFICES ASSUME row.url # 0
               PROVE  /\ Holds(h) /\ row.url = calls[h].key
                      /\ row.url \in UuidKey /\ row.url \in store
                      /\ \A j \in DOMAIN jobs : jobs[j].url # row.url
    OBVIOUS
  <2>1. At(h, {"uploaded"}) /\ Holds(h) /\ row.url = calls[h].key
    BY DEF Holds, At
  <2> QED
    BY <2>1, HolderHasKey DEF RecordingInv, HeldKeys
<1>3. RowKeys'
  <2>1. /\ row.url \in UuidKey \cup {0, RowKey(n)}
        /\ row.url # 0 => row.url \in store'
        /\ row.position > 0 \/ row.status = "completed" => row.url # 0
    <3>1. row.position > 0 => row.url # 0
      BY HolderHasKey, KeysAreApart DEF Holds, At
    <3> QED
      BY <1>2, <3>1
  <2>2. \A i \in DOMAIN jobs : jobs[i].url = row.url => row.url = 0
    BY <1>2
  <2> QED
    BY <1>1, <2>1, <2>2 DEF RecordingInv, RowKeys, RowKey, UuidKey
<1>4. ~ Holds(h)' /\ \A g \in Handler : g # h =>
        (Holds(g)' <=> Holds(g)) /\ (At(g, {"uploaded"})' <=> At(g, {"uploaded"}))
  BY DEF Holds, At
<1>5. HeldKeys'
  <2>1. ASSUME NEW g \in Handler, Holds(g)'
        PROVE  /\ g # h /\ Holds(g) /\ calls'[g] = calls[g]
               /\ \A j \in DOMAIN jobs' : jobs'[j].url # calls[g].key
    <3>1. g # h /\ Holds(g) /\ calls'[g] = calls[g]
      BY <1>4, <2>1
    <3>2. row.url # calls[g].key
      <4>1. CASE row.url = 0
        BY <3>1, <4>1, HolderHasKey, KeysAreApart
      <4>2. CASE row.url # 0
        BY <1>2, <3>1, <4>2 DEF RecordingInv, HeldKeys
      <4> QED
        BY <4>1, <4>2
    <3> QED
      BY <1>1, <3>1, <3>2 DEF RecordingInv, HeldKeys
  <2> QED
    BY <1>4, <2>1 DEF RecordingInv, HeldKeys
<1>6. Uploads'
  <2>1. \A g \in Handler : At(g, {"sending", "sent", "transcribing"})' =>
          g = h \/ (calls'[g] = calls[g] /\ calls[g].job \in DOMAIN jobs)
    BY HandlerHasJob DEF HasRow, At
  <2>2. ASSUME NEW g \in Handler, At(g, {"sending", "sent"})'
        PROVE  jobs'[calls'[g].job].position > 0
    <3>1. CASE g = h
      BY <1>1, <2>2, <3>1 DEF At
    <3>2. CASE g # h
      <4>1. calls'[g] = calls[g] /\ calls[g].job \in DOMAIN jobs
        BY <2>1, <2>2, <3>2 DEF At
      <4> QED
        BY <1>1, <2>2, <4>1 DEF RecordingInv, Uploads, At
    <3> QED
      BY <3>1, <3>2
  <2>3. ASSUME NEW g \in Handler, At(g, {"transcribing"})'
        PROVE  RowKey(calls'[g].job) \in store'
    BY <2>1, <2>3 DEF RecordingInv, Uploads, At
  <2>4. \A j \in queue' \cup taken' : jobs'[j].position > 0
    BY <1>1 DEF RecordingInv, Uploads, TypeOK
  <2> QED
    BY <2>2, <2>3, <2>4 DEF Uploads, RowKey
<1> QED
  BY <1>3, <1>5, <1>6 DEF RecordingInv

(* A fresh key is held by nobody else and shown by no row. *)
LEMMA UploadRecording ==
  ASSUME TypeOK, RecordingInv, NEW h \in Handler, NEW u \in User, StartUpload(h, u)
  PROVE  RecordingInv'
<1> DEFINE k == CHOOSE x \in FreshKeys : TRUE
           call == [pc |-> "uploading", user |-> u, key |-> k]
<1>1. k \in FreshKeys
  BY DEF StartUpload
<1>2. k \in UuidKey /\ k \notin store /\ k \notin KeysHeld
  BY <1>1 DEF FreshKeys
<1>3. call \in Uploading /\ call.pc = "uploading" /\ call.key = k
  BY <1>2 DEF Uploading
<1>4. Goto(h, call)
  BY DEF StartUpload
<1> HIDE DEF call, k
<1>5. calls'[h] = call /\ \A g \in Handler : g # h => calls'[g] = calls[g]
  BY <1>3, <1>4, GotoMoves
<1>6. UNCHANGED <<jobs, store, queue, taken>>
  BY DEF StartUpload
<1>7. RowKeys'
  BY <1>6 DEF RecordingInv, RowKeys, RowKey, UuidKey
<1>8. \A g \in Handler : Holds(g) => calls[g].key # k
  BY <1>2 DEF KeysHeld, Holds
<1>9. \A j \in DOMAIN jobs : jobs[j].url # k
  BY <1>2, KeysAreApart DEF RecordingInv, RowKeys
<1>10. HeldKeys'
  <2>1. \A g \in Handler : g # h =>
          (Holds(g)' <=> Holds(g)) /\ (At(g, {"uploaded"})' <=> At(g, {"uploaded"}))
    BY <1>5 DEF Holds, At
  <2>2. ~ At(h, {"uploaded"})'
    BY <1>3, <1>5 DEF At
  <2> QED
    BY <1>3, <1>5, <1>6, <1>8, <1>9, <2>1, <2>2 DEF RecordingInv, HeldKeys
<1>11. Uploads'
  <2>1. ~ At(h, {"transcribing"})' /\ ~ At(h, {"sending", "sent"})'
    BY <1>3, <1>5 DEF At
  <2> QED
    BY <1>5, <1>6, <2>1 DEF RecordingInv, Uploads, At, RowKey
<1> QED
  BY <1>7, <1>10, <1>11 DEF RecordingInv

(* What a handler's step to another point of its request comes to. *)
LEMMA GotoFollows ==
  ASSUME TypeOK, NEW h \in Handler,
         \/ StoreAccepts(h)
         \/ UploadFails(h)
         \/ SqsAccepts(h)
         \/ EnqueueReturns(h)
         \/ StoreAcceptsSync(h)
         \/ Goto(h, Idle)
  PROVE  \A g \in Handler : Follows(g)
<1>1. ASSUME NEW call, Goto(h, call)
      PROVE  calls'[h] = call /\ \A g \in Handler : g # h => calls'[g] = calls[g]
  BY <1>1 DEF TypeOK, Goto
<1>2. CASE StoreAccepts(h)
  <2> DEFINE call == [calls[h] EXCEPT !.pc = "uploaded"]
  <2>1. Holds(h) /\ Goto(h, call) /\ calls[h].key \in store'
    BY <1>2 DEF StoreAccepts, Holds, At
  <2>2. call.pc = "uploaded" /\ call.key = calls[h].key
    BY <2>1, UploadedMoves
  <2> HIDE DEF call
  <2> QED
    BY <1>1, <2>1, <2>2 DEF Follows
<1>3. CASE SqsAccepts(h)
  <2> DEFINE call == [calls[h] EXCEPT !.pc = "sent"]
  <2>1. At(h, {"sending"}) /\ HasRow(h) /\ Goto(h, call)
    BY <1>3 DEF SqsAccepts, HasRow, At
  <2>2. call.pc = "sent" /\ call.job = calls[h].job
    BY <2>1, RowMoves
  <2> HIDE DEF call
  <2> QED
    BY <1>1, <2>1, <2>2 DEF Follows
<1>4. CASE StoreAcceptsSync(h)
  <2> DEFINE call == [calls[h] EXCEPT !.pc = "transcribing"]
  <2>1. /\ At(h, {"saving"}) /\ HasRow(h) /\ Goto(h, call)
        /\ RowKey(calls[h].job) \in store'
    BY <1>4 DEF StoreAcceptsSync, HasRow, At
  <2>2. call.pc = "transcribing" /\ call.job = calls[h].job
    BY <2>1, RowMoves
  <2> HIDE DEF call
  <2> QED
    BY <1>1, <2>1, <2>2 DEF Follows
<1>5. CASE Goto(h, Idle)
  BY <1>1, <1>5 DEF Follows
<1> QED
  BY <1>2, <1>3, <1>4, <1>5 DEF UploadFails, EnqueueReturns

LEMMA RecordingStep == TypeOK /\ RecordingInv /\ [Next]_vars => RecordingInv'
<1> SUFFICES ASSUME TypeOK, RecordingInv, [Next]_vars PROVE RecordingInv'
  OBVIOUS
<1>0. CASE UNCHANGED vars
  BY <1>0, QuietRecording DEF vars, Follows
<1>1. ASSUME NEW h \in Handler, NEW u \in User, StartUpload(h, u) PROVE RecordingInv'
  BY <1>1, UploadRecording
<1>2. ASSUME NEW h \in Handler, NEW u \in User, StartSync(h, u) PROVE RecordingInv'
  <2> DEFINE row == NewRow(u, "processing", 0, 0)
  <2>1. PICK n : n = Len(jobs) + 1
    OBVIOUS
  <2>2. row \in Row /\ row.status = "processing" /\ row.url = 0 /\ row.position = 0
    BY NewRowTyped
  <2>3. Len(jobs) < MaxJobs /\ jobs' = Append(jobs, row)
    BY <1>2 DEF StartSync
  <2>4. calls'[h] = [pc |-> "saving", job |-> n]
        /\ \A g \in Handler : g # h => calls'[g] = calls[g]
    BY <1>2, <2>1 DEF StartSync, Goto, TypeOK
  <2> HIDE DEF row
  <2> QED
    BY <1>2, <2>1, <2>2, <2>3, <2>4, StartRecording DEF StartSync
<1>3. ASSUME NEW h \in Handler, StoreAccepts(h) PROVE RecordingInv'
  BY <1>3, GotoFollows, QuietRecording DEF StoreAccepts
<1>4. ASSUME NEW h \in Handler, UploadFails(h) \/ EnqueueReturns(h) \/ Abandon(h)
      PROVE  RecordingInv'
  BY <1>4, GotoFollows, QuietRecording DEF UploadFails, EnqueueReturns, Abandon
<1>5. ASSUME NEW h \in Handler, Enqueue(h) PROVE RecordingInv'
  <2> DEFINE row == NewRow(calls[h].user, "queued", calls[h].key, QueuePosition)
  <2>1. PICK n : n = Len(jobs) + 1
    OBVIOUS
  <2>2. At(h, {"uploaded"}) /\ Holds(h)
    BY <1>5 DEF Enqueue, Holds, At
  <2>3. /\ row \in Row /\ row.status = "queued" /\ row.url = calls[h].key
        /\ row.position > 0
    BY <2>2, QueuedRowTyped
  <2>4. Len(jobs) < MaxJobs /\ jobs' = Append(jobs, row)
    BY <1>5 DEF Enqueue
  <2>5. calls'[h] = [pc |-> "sending", job |-> n]
        /\ \A g \in Handler : g # h => calls'[g] = calls[g]
    BY <1>5, <2>1 DEF Enqueue, Goto, TypeOK
  <2> HIDE DEF row
  <2> QED
    BY <1>5, <2>1, <2>2, <2>3, <2>4, <2>5, StartRecording DEF Enqueue
<1>6. ASSUME NEW h \in Handler, SqsAccepts(h) PROVE RecordingInv'
  <2>1. At(h, {"sending"}) /\ queue' = queue \cup {calls[h].job}
        /\ UNCHANGED <<jobs, store, taken>>
    BY <1>6 DEF SqsAccepts
  <2>2. \A g \in Handler : Follows(g)
    BY <1>6, GotoFollows
  <2> QED
    BY <2>1, <2>2, QuietRecording
<1>7. ASSUME NEW h \in Handler, StoreAcceptsSync(h) PROVE RecordingInv'
  BY <1>7, GotoFollows, QuietRecording DEF StoreAcceptsSync
<1>8. ASSUME NEW h \in Handler, Complete(h) PROVE RecordingInv'
  <2>1. PICK j : j = calls[h].job
    OBVIOUS
  <2>2. j \in DOMAIN jobs /\ RowKey(j) \in store
    BY <1>8, <2>1, HandlerHasJob DEF Complete, HasRow, At, RecordingInv, Uploads
  <2> DEFINE row(answer) == Transcribed(j, answer)
  <2>3. PICK answer \in Answers : SetRow(j, row(answer))
    BY <1>8, <2>1 DEF Complete
  <2>4. /\ row(answer) \in Row /\ row(answer).url = RowKey(j)
        /\ row(answer).position = jobs[j].position
    BY <2>2, RowsTyped
  <2>5. \A g \in Handler : Follows(g)
    BY <1>8, GotoFollows DEF Complete
  <2> HIDE DEF row
  <2> QED
    BY <1>8, <2>2, <2>3, <2>5, <2>4, RowRecording DEF Complete
<1>9. ASSUME NEW h \in Handler, Fail(h) PROVE RecordingInv'
  <2>1. PICK j : j = calls[h].job
    OBVIOUS
  <2>2. j \in DOMAIN jobs
    BY <1>9, <2>1, RaisesHasRow, HandlerHasJob DEF Fail
  <2>3. PICK row \in Row : SetRow(j, row) /\ row.url = jobs[j].url
                           /\ row.position = jobs[j].position /\ row.status = "failed"
    BY <1>9, <2>1, <2>2, RowsTyped DEF Fail
  <2>4. \A g \in Handler : Follows(g)
    BY <1>9, GotoFollows DEF Fail
  <2> QED
    BY <1>9, <2>2, <2>3, <2>4, RowRecording DEF Fail
<1>10. CASE Crash
  <2>1. \A g \in Handler : Follows(g)
    BY <1>10 DEF Crash, Follows
  <2> QED
    BY <1>10, <2>1, QuietRecording DEF Crash
<1>11. ASSUME NEW j \in JobId, Worker(j) PROVE RecordingInv'
  <2>1. j \in DOMAIN jobs /\ jobs[j].position > 0 /\ UNCHANGED <<store, calls>>
        /\ queue' \cup taken' \subseteq queue \cup taken
    BY <1>11, WorkerWrites DEF RecordingInv, Uploads
  <2>2. PICK row \in Row : SetRow(j, row) /\ row.url = jobs[j].url
                           /\ row.position = jobs[j].position
    BY <1>11, WorkerWrites
  <2>3. \A g \in Handler : Follows(g)
    BY <2>1 DEF Follows
  <2> QED
    BY <2>1, <2>2, <2>3, RowRecording
<1> QED
  BY <1>0, <1>1, <1>2, <1>3, <1>4, <1>5, <1>6, <1>7, <1>8, <1>9, <1>10, <1>11
     DEF Next, Step

(* Whatever fails, is cut off or is lost, every url a row shows is a       *)
(* stored recording, of that row only, and the worker is never handed a    *)
(* job without one (stt.py:50-52, 92-93, 137-138).                         *)
THEOREM RecordingsAreStored == Spec => []RecordingsStored
<1>1. RecordingInv => RecordingsStored
  BY DEF RecordingInv, RowKeys, RecordingsStored
<1> QED
  BY <1>1, InitTyped, TypeStep, InitRecording, RecordingStep, PTL DEF Spec

-----------------------------------------------------------------------------
(* The table implements JobLifecycle.  The step that can break it is a     *)
(* send_message that raises for a message SQS has (AckLost): the except    *)
(* branch then fails a row the worker is also going to write.  It also     *)
(* needs the engine to answer with the one key the handler reads.          *)

NoAckLost == "AckLost" \notin Faults
AnswersText == Answers = {"text"}

Writing(h, j) == At(h, {"sending", "saving", "transcribing"}) /\ calls[h].job = j

(* A job is in the hands of one party at most... *)
Apart ==
  \A j \in DOMAIN jobs :
    /\ \A g, h \in Handler : Writing(g, j) /\ Writing(h, j) => g = h
    /\ (\E h \in Handler : Writing(h, j)) => j \notin queue \cup taken
    /\ ~ (j \in queue /\ j \in taken)

(* ...and its row has the status that party goes on from. *)
Staged ==
  /\ \A h \in Handler :
       /\ At(h, {"sending"}) => jobs[calls[h].job].status = "queued"
       /\ At(h, {"saving", "transcribing"}) => jobs[calls[h].job].status = "processing"
  /\ \A j \in queue : jobs[j].status = "queued"
  /\ \A j \in taken : jobs[j].status = "processing"

WriterInv == Apart /\ Staged

LEMMA InitWriter == Init => WriterInv
<1> SUFFICES ASSUME Init PROVE WriterInv
  OBVIOUS
<1>1. DOMAIN jobs = {} /\ queue = {} /\ taken = {}
  BY DEF Init
<1>2. \A h \in Handler : \A pcs : ~ At(h, pcs)
  BY DEF Init, At
<1> QED
  BY <1>1, <1>2 DEF WriterInv, Apart, Staged

(* A handler that writes writes a row of the table. *)
LEMMA WriterHasRow ==
  ASSUME TypeOK, NEW h \in Handler, At(h, {"sending", "saving", "transcribing"})
  PROVE  HasRow(h) /\ calls[h].job \in DOMAIN jobs
BY HandlerHasJob DEF HasRow, At

(* A step that writes no row and hands none over. *)
LEMMA QuietWriter ==
  ASSUME TypeOK, WriterInv, UNCHANGED <<jobs, queue, taken>>,
         \A g \in Handler :
           \/ calls'[g] = calls[g]
           \/ calls'[g] = Idle
           \/ calls'[g].pc \in {"uploading", "uploaded"}
           \/ /\ At(g, {"saving"})
              /\ calls'[g].pc = "transcribing" /\ calls'[g].job = calls[g].job
  PROVE  WriterInv'
<1>1. \A g \in Handler : \A j : Writing(g, j)' => Writing(g, j)
  BY DEF Writing, At
<1>2. Apart'
  BY <1>1 DEF WriterInv, Apart
<1>3. Staged'
  BY DEF WriterInv, Staged, At
<1> QED
  BY <1>2, <1>3 DEF WriterInv

(* A new row has its handler as only writer. *)
LEMMA StartWriter ==
  ASSUME TypeOK, WriterInv, NEW h \in Handler, ~ HasRow(h), NEW row \in Row, NEW pc, NEW n,
         n = Len(jobs) + 1,
         \/ row.status = "queued" /\ pc = "sending"
         \/ row.status = "processing" /\ pc = "saving",
         Len(jobs) < MaxJobs, jobs' = Append(jobs, row),
         calls'[h] = [pc |-> pc, job |-> n],
         \A g \in Handler : g # h => calls'[g] = calls[g],
         UNCHANGED <<queue, taken>>
  PROVE  WriterInv'
<1>1. /\ DOMAIN jobs' = DOMAIN jobs \cup {n} /\ n \notin DOMAIN jobs
      /\ jobs'[n] = row /\ \A i \in DOMAIN jobs : jobs'[i] = jobs[i]
  BY AppendKeepsTable
<1>2. queue \subseteq DOMAIN jobs /\ taken \subseteq DOMAIN jobs
  BY DEF TypeOK
<1>3. /\ \A g \in Handler, j \in DOMAIN jobs : Writing(g, j)' <=> Writing(g, j)
      /\ \A g \in Handler : Writing(g, n)' => g = h
  <2>1. \A g \in Handler : Writing(g, n) => n \in DOMAIN jobs
    BY WriterHasRow DEF Writing
  <2>2. \A j \in DOMAIN jobs : ~ Writing(h, j)' /\ ~ Writing(h, j)
    BY <1>1 DEF Writing, At, HasRow
  <2>3. \A g \in Handler : \A j : g # h => (Writing(g, j)' <=> Writing(g, j))
    BY DEF Writing, At
  <2> QED
    BY <1>1, <2>1, <2>2, <2>3
<1>4. Apart'
  BY <1>1, <1>2, <1>3 DEF WriterInv, Apart
<1>5. ASSUME NEW g \in Handler
      PROVE  /\ At(g, {"sending"})' => jobs'[calls'[g].job].status = "queued"
             /\ At(g, {"saving", "transcribing"})' =>
                  jobs'[calls'[g].job].status = "processing"
  <2>1. CASE g = h
    BY <1>1, <2>1 DEF At
  <2>2. CASE g # h
    <3>1. At(g, {"sending", "saving", "transcribing"}) => calls[g].job \in DOMAIN jobs
      BY WriterHasRow
    <3> QED
      BY <1>1, <2>2, <3>1 DEF WriterInv, Staged, At
  <2> QED
    BY <2>1, <2>2
<1>6. /\ \A j \in queue' : jobs'[j].status = "queued"
      /\ \A j \in taken' : jobs'[j].status = "processing"
  BY <1>1, <1>2 DEF WriterInv, Staged
<1>7. Staged'
  BY <1>5, <1>6 DEF Staged
<1> QED
  BY <1>4, <1>7 DEF WriterInv

(* The handler that is a job's only writer settles it and lets go. *)
LEMMA SettleWriter ==
  ASSUME TypeOK, WriterInv, NEW h \in Handler, NEW j \in DOMAIN jobs, Writing(h, j),
         NEW row \in Row, SetRow(j, row), Goto(h, Idle), UNCHANGED <<queue, taken>>
  PROVE  WriterInv'
<1>1. /\ DOMAIN jobs' = DOMAIN jobs /\ jobs'[j] = row
      /\ \A i \in DOMAIN jobs : i # j => jobs'[i] = jobs[i]
  BY SetRowKeepsTable
<1>2. calls'[h] = Idle /\ \A g \in Handler : g # h => calls'[g] = calls[g]
  BY DEF Goto, TypeOK
<1>3. j \notin queue \cup taken /\ \A g \in Handler : Writing(g, j) => g = h
  BY DEF WriterInv, Apart
<1>4. \A g \in Handler : \A i : Writing(g, i)' => g # h /\ Writing(g, i)
  BY <1>2 DEF Writing, At
<1>5. Apart'
  BY <1>1, <1>4 DEF WriterInv, Apart
<1>6. ASSUME NEW g \in Handler
      PROVE  /\ At(g, {"sending"})' => jobs'[calls'[g].job].status = "queued"
             /\ At(g, {"saving", "transcribing"})' =>
                  jobs'[calls'[g].job].status = "processing"
  <2>1. At(g, {"sending", "saving", "transcribing"})' =>
          g # h /\ calls'[g] = calls[g] /\ Writing(g, calls[g].job)
    BY <1>2 DEF Writing, At
  <2>2. At(g, {"sending", "saving", "transcribing"})' =>
          calls[g].job # j /\ calls[g].job \in DOMAIN jobs
    BY <1>3, <2>1, WriterHasRow DEF Writing
  <2> QED
    BY <1>1, <2>1, <2>2 DEF WriterInv, Staged, At
<1>7. Staged'
  BY <1>1, <1>3, <1>6 DEF WriterInv, Staged, TypeOK
<1> QED
  BY <1>5, <1>7 DEF WriterInv

(* A failing handler was its job's writer. *)
LEMMA FailingWrites ==
  ASSUME TypeOK, WriterInv, NoAckLost, NEW h \in Handler, Raises(h)
  PROVE  /\ Writing(h, calls[h].job) /\ calls[h].job \in DOMAIN jobs
         /\ jobs[calls[h].job].status \in {"queued", "processing"}
<1>1. At(h, {"sending", "saving", "transcribing"})
  BY DEF Raises, SendRaises, At, NoAckLost
<1>2. At(h, {"sending"}) \/ At(h, {"saving", "transcribing"})
  BY <1>1 DEF At
<1> QED
  BY <1>1, <1>2, WriterHasRow DEF Writing, WriterInv, Staged

LEMMA WriterStep == TypeOK /\ WriterInv /\ NoAckLost /\ [Next]_vars => WriterInv'
<1> SUFFICES ASSUME TypeOK, WriterInv, NoAckLost, [Next]_vars PROVE WriterInv'
  OBVIOUS
<1>0. CASE UNCHANGED vars
  BY <1>0, QuietWriter DEF vars
<1>1. ASSUME NEW h \in Handler, NEW u \in User, StartUpload(h, u) PROVE WriterInv'
  <2>1. calls'[h].pc = "uploading" /\ \A g \in Handler : g # h => calls'[g] = calls[g]
    BY <1>1 DEF StartUpload, Goto, TypeOK
  <2> QED
    BY <1>1, <2>1, QuietWriter DEF StartUpload
<1>2. ASSUME NEW h \in Handler, NEW u \in User, StartSync(h, u) PROVE WriterInv'
  <2> DEFINE row == NewRow(u, "processing", 0, 0)
  <2>1. PICK n : n = Len(jobs) + 1
    OBVIOUS
  <2>2. row \in Row /\ row.status = "processing"
    BY NewRowTyped
  <2>3. Len(jobs) < MaxJobs /\ jobs' = Append(jobs, row) /\ ~ HasRow(h)
    BY <1>2 DEF StartSync, HasRow, At
  <2>4. calls'[h] = [pc |-> "saving", job |-> n]
        /\ \A g \in Handler : g # h => calls'[g] = calls[g]
    BY <1>2, <2>1 DEF StartSync, Goto, TypeOK
  <2> HIDE DEF row
  <2> QED
    BY <1>2, <2>1, <2>2, <2>3, <2>4, StartWriter DEF StartSync
<1>3. ASSUME NEW h \in Handler, StoreAccepts(h) \/ StoreAcceptsSync(h) PROVE WriterInv'
  <2>1. \A g \in Handler : Follows(g)
    BY <1>3, GotoFollows
  <2>2. \A g \in Handler : At(g, {"sending"}) => calls'[g] = calls[g]
    BY <1>3 DEF StoreAccepts, StoreAcceptsSync, At, Goto, TypeOK
  <2>3. \A g \in Handler :
          \/ calls'[g] = calls[g]
          \/ calls'[g] = Idle
          \/ calls'[g].pc \in {"uploading", "uploaded"}
          \/ /\ At(g, {"saving"})
             /\ calls'[g].pc = "transcribing" /\ calls'[g].job = calls[g].job
    BY <2>1, <2>2 DEF Follows
  <2> QED
    BY <1>3, <2>3, QuietWriter DEF StoreAccepts, StoreAcceptsSync
<1>4. ASSUME NEW h \in Handler, UploadFails(h) \/ EnqueueReturns(h) \/ Abandon(h)
      PROVE  WriterInv'
  <2>1. calls'[h] = Idle /\ \A g \in Handler : g # h => calls'[g] = calls[g]
    BY <1>4 DEF UploadFails, EnqueueReturns, Abandon, Goto, TypeOK
  <2> QED
    BY <1>4, <2>1, QuietWriter DEF UploadFails, EnqueueReturns, Abandon
<1>5. ASSUME NEW h \in Handler, Enqueue(h) PROVE WriterInv'
  <2> DEFINE row == NewRow(calls[h].user, "queued", calls[h].key, QueuePosition)
  <2>1. PICK n : n = Len(jobs) + 1
    OBVIOUS
  <2>2. Holds(h) /\ ~ HasRow(h)
    BY <1>5 DEF Enqueue, Holds, HasRow, At
  <2>3. row \in Row /\ row.status = "queued"
    BY <2>2, QueuedRowTyped
  <2>4. Len(jobs) < MaxJobs /\ jobs' = Append(jobs, row)
    BY <1>5 DEF Enqueue
  <2>5. calls'[h] = [pc |-> "sending", job |-> n]
        /\ \A g \in Handler : g # h => calls'[g] = calls[g]
    BY <1>5, <2>1 DEF Enqueue, Goto, TypeOK
  <2> HIDE DEF row
  <2> QED
    BY <1>5, <2>1, <2>2, <2>3, <2>4, <2>5, StartWriter DEF Enqueue
<1>6. ASSUME NEW h \in Handler, SqsAccepts(h) PROVE WriterInv'
  <2>1. PICK j : j = calls[h].job
    OBVIOUS
  <2>2. At(h, {"sending"}) /\ queue' = queue \cup {j} /\ UNCHANGED <<jobs, taken>>
    BY <1>6, <2>1 DEF SqsAccepts
  <2>3. j \in DOMAIN jobs /\ Writing(h, j) /\ jobs[j].status = "queued"
    BY <2>1, <2>2, WriterHasRow DEF Writing, At, WriterInv, Staged
  <2>4. calls'[h].pc = "sent" /\ \A g \in Handler : g # h => calls'[g] = calls[g]
    <3>1. HasRow(h)
      BY <2>2 DEF HasRow, At
    <3> QED
      BY <1>6, <3>1, RowMoves DEF SqsAccepts, Goto, TypeOK
  <2>5. \A g \in Handler : \A i : Writing(g, i)' => g # h /\ Writing(g, i)
    BY <2>4 DEF Writing, At
  <2>6. j \notin queue \cup taken /\ \A g \in Handler : Writing(g, j) => g = h
    BY <2>3 DEF WriterInv, Apart
  <2>7. Apart'
    BY <2>2, <2>5, <2>6 DEF WriterInv, Apart
  <2>8. Staged'
    BY <2>2, <2>3, <2>4 DEF WriterInv, Staged, At
  <2> QED
    BY <2>7, <2>8 DEF WriterInv
<1>7. ASSUME NEW h \in Handler, Complete(h) PROVE WriterInv'
  <2> DEFINE row(answer) == Transcribed(calls[h].job, answer)
  <2>1. calls[h].job \in DOMAIN jobs /\ Writing(h, calls[h].job)
    BY <1>7, WriterHasRow DEF Complete, At, Writing
  <2>2. PICK answer \in Answers : SetRow(calls[h].job, row(answer))
    BY <1>7 DEF Complete
  <2>3. row(answer) \in Row
    BY <2>1, RowsTyped
  <2> HIDE DEF row
  <2> QED
    BY <1>7, <2>1, <2>2, <2>3, SettleWriter DEF Complete
<1>8. ASSUME NEW h \in Handler, Fail(h) PROVE WriterInv'
  <2>1. calls[h].job \in DOMAIN jobs /\ Writing(h, calls[h].job)
    BY <1>8, FailingWrites DEF Fail
  <2>2. PICK row \in Row : SetRow(calls[h].job, row)
    BY <1>8, <2>1, RowsTyped DEF Fail
  <2> QED
    BY <1>8, <2>1, <2>2, SettleWriter DEF Fail
<1>9. CASE Crash
  <2>1. \A g \in Handler : calls'[g] = Idle
    BY <1>9 DEF Crash
  <2> QED
    BY <1>9, <2>1, QuietWriter DEF Crash
<1>10. ASSUME NEW j \in JobId, Worker(j) PROVE WriterInv'
  <2>1. j \in DOMAIN jobs /\ calls' = calls /\ j \in queue \cup taken
    BY <1>10, WorkerWrites
  <2>2. \A h \in Handler : ~ Writing(h, j)
    BY <2>1 DEF WriterInv, Apart
  <2>3. PICK row \in Row :
          /\ SetRow(j, row)
          /\ queue' = queue \ {j}
          /\ \/ row.status = "processing" /\ taken' = taken \cup {j}
             \/ taken' = taken \ {j}
    <3>1. ASSUME j \in taken, queue' = queue PROVE queue' = queue \ {j}
      BY <2>1, <3>1 DEF WriterInv, Apart
    <3>2. CASE WorkerTakes(j)
      BY <2>1, <3>2, RowsTyped DEF WorkerTakes
    <3>3. CASE WorkerCompletes(j)
      BY <2>1, <3>1, <3>3, RowsTyped DEF WorkerCompletes
    <3>4. CASE WorkerFails(j)
      BY <2>1, <3>1, <3>4, RowsTyped DEF WorkerFails
    <3> QED
      BY <1>10, <3>2, <3>3, <3>4 DEF Worker
  <2>4. /\ DOMAIN jobs' = DOMAIN jobs /\ jobs'[j] = row
        /\ \A i \in DOMAIN jobs : i # j => jobs'[i] = jobs[i]
    BY <2>1, <2>3, SetRowKeepsTable
  <2>5. \A g \in Handler : \A i : Writing(g, i)' <=> Writing(g, i)
    BY <2>1 DEF Writing, At
  <2>6. Apart'
    BY <2>2, <2>3, <2>4, <2>5 DEF WriterInv, Apart
  <2>7. ASSUME NEW g \in Handler
        PROVE  /\ At(g, {"sending"})' => jobs'[calls'[g].job].status = "queued"
               /\ At(g, {"saving", "transcribing"})' =>
                    jobs'[calls'[g].job].status = "processing"
    <3>1. At(g, {"sending", "saving", "transcribing"}) =>
            calls[g].job # j /\ calls[g].job \in DOMAIN jobs
      BY <2>2, WriterHasRow DEF Writing
    <3> QED
      BY <2>1, <2>4, <3>1 DEF WriterInv, Staged, At
  <2>8. Staged'
    BY <2>3, <2>4, <2>7 DEF WriterInv, Staged, TypeOK
  <2> QED
    BY <2>6, <2>8 DEF WriterInv
<1> QED
  BY <1>0, <1>1, <1>2, <1>3, <1>4, <1>5, <1>6, <1>7, <1>8, <1>9, <1>10 DEF Next, Step

(* Replacing one row moves one job. *)
LEMMA MovedJob ==
  ASSUME TypeOK, NEW j \in DOMAIN jobs, NEW row \in Row, SetRow(j, row)
  PROVE  /\ j \in JL!Job
         /\ JobStatus[j] = jobs[j].status
         /\ JobStatus' = [JobStatus EXCEPT ![j] = row.status]
         /\ row.transcript = "text" => JobResult' = [JobResult EXCEPT ![j] = TRUE]
         /\ row.transcript = jobs[j].transcript => JobResult' = JobResult
<1>1. /\ DOMAIN jobs' = DOMAIN jobs /\ jobs'[j] = row
      /\ \A i \in DOMAIN jobs : i # j => jobs'[i] = jobs[i]
  BY SetRowKeepsTable
<1>2. j \in JobId
  BY RowsAreJobs
<1>3. JobStatus' = [JobStatus EXCEPT ![j] = row.status]
  BY <1>1, <1>2 DEF JobStatus
<1>4. row.transcript = "text" => JobResult' = [JobResult EXCEPT ![j] = TRUE]
  BY <1>1, <1>2 DEF JobResult
<1>5. row.transcript = jobs[j].transcript => JobResult' = JobResult
  BY <1>1, <1>2 DEF JobResult
<1> QED
  BY <1>2, <1>3, <1>4, <1>5 DEF JobStatus, JL!Job, JobId

(* A new row is the next job, without a result. *)
LEMMA SubmittedJob ==
  ASSUME TypeOK, Len(jobs) < MaxJobs, NEW row \in Row, jobs' = Append(jobs, row),
         row.status \in {"queued", "processing"}, row.transcript = "NULL"
  PROVE  JL!Next
<1>0. PICK n : n = Len(jobs) + 1
  OBVIOUS
<1>1. /\ DOMAIN jobs' = DOMAIN jobs \cup {n} /\ n \notin DOMAIN jobs /\ n \in JobId
      /\ jobs'[n] = row /\ \A i \in DOMAIN jobs : jobs'[i] = jobs[i]
  BY <1>0, AppendKeepsTable
<1>2. JobStatus[n] = "absent" /\ JobStatus' = [JobStatus EXCEPT ![n] = row.status]
  BY <1>1 DEF JobStatus
<1>3. JobResult' = JobResult
  BY <1>1 DEF JobResult
<1>4. \A i \in JobId : i < n => JobStatus[i] # "absent"
  <2> SUFFICES ASSUME NEW i \in JobId, i < n PROVE JobStatus[i] # "absent"
    OBVIOUS
  <2>1. i \in DOMAIN jobs
    BY <1>0, RowsAreJobs DEF JobId
  <2> QED
    BY <2>1, RowsAreJobs DEF JobStatus, Row
<1>5. JL!Submit(n)
  BY <1>1, <1>2, <1>3, <1>4 DEF JL!Submit, JL!Move, JL!Job, JobId
<1> QED
  BY <1>1, <1>5 DEF JL!Next, JL!Job, JobId

(* The three ways on for a job that is under way. *)
LEMMA StartedJob ==
  ASSUME TypeOK, NEW j \in DOMAIN jobs, jobs[j].status = "queued",
         NEW row \in Row, SetRow(j, row), row.status = "processing",
         row.transcript = jobs[j].transcript
  PROVE  JL!Next
BY MovedJob DEF JL!Next, JL!Start, JL!Move

LEMMA FailedJob ==
  ASSUME TypeOK, NEW j \in DOMAIN jobs, jobs[j].status \in {"queued", "processing"},
         NEW who \in {"gateway", "worker"}, SetRow(j, FailedRow(j, who))
  PROVE  JL!Next
<1>1. FailedRow(j, who) \in Row /\ FailedRow(j, who).status = "failed"
      /\ FailedRow(j, who).transcript = jobs[j].transcript
  BY RowsTyped
<1> QED
  BY <1>1, MovedJob DEF JL!Next, JL!Fail, JL!Move

LEMMA CompletedJob ==
  ASSUME TypeOK, NEW j \in DOMAIN jobs, jobs[j].status = "processing",
         NEW row \in Row, SetRow(j, row), row.status = "completed",
         row.transcript = "text"
  PROVE  JL!Next
BY MovedJob DEF JL!Next, JL!Complete, JL!Move

LEMMA JobStep ==
  ASSUME TypeOK, WriterInv, NoAckLost, AnswersText, [Next]_vars
  PROVE  [JL!Next]_<<JobStatus, JobResult>>
<1>1. CASE jobs' = jobs
  BY <1>1 DEF JobStatus, JobResult
<1>2. ASSUME NEW h \in Handler, NEW u \in User, StartSync(h, u) PROVE JL!Next
  <2> DEFINE row == NewRow(u, "processing", 0, 0)
  <2>1. row \in Row /\ row.status = "processing" /\ row.transcript = "NULL"
    BY NewRowTyped
  <2>2. Len(jobs) < MaxJobs /\ jobs' = Append(jobs, row)
    BY <1>2 DEF StartSync
  <2> HIDE DEF row
  <2> QED
    BY <2>1, <2>2, SubmittedJob
<1>3. ASSUME NEW h \in Handler, Enqueue(h) PROVE JL!Next
  <2> DEFINE row == NewRow(calls[h].user, "queued", calls[h].key, QueuePosition)
  <2>1. Holds(h)
    BY <1>3 DEF Enqueue, Holds, At
  <2>2. row \in Row /\ row.status = "queued" /\ row.transcript = "NULL"
    BY <2>1, QueuedRowTyped
  <2>3. Len(jobs) < MaxJobs /\ jobs' = Append(jobs, row)
    BY <1>3 DEF Enqueue
  <2> HIDE DEF row
  <2> QED
    BY <2>2, <2>3, SubmittedJob
<1>4. ASSUME NEW h \in Handler, Fail(h) PROVE JL!Next
  BY <1>4, FailingWrites, FailedJob DEF Fail
<1>5. ASSUME NEW h \in Handler, Complete(h) PROVE JL!Next
  <2>1. PICK j : j = calls[h].job
    OBVIOUS
  <2>2. j \in DOMAIN jobs /\ jobs[j].status = "processing"
    BY <1>5, <2>1, WriterHasRow DEF Complete, At, WriterInv, Staged
  <2> DEFINE row == Transcribed(j, "text")
  <2>3. SetRow(j, row)
    BY <1>5, <2>1 DEF Complete, AnswersText
  <2>4. row \in Row /\ row.status = "completed" /\ row.transcript = "text"
    BY <2>2, RowsTyped DEF AnswersText, TranscriptOf
  <2> HIDE DEF row
  <2> QED
    BY <2>2, <2>3, <2>4, CompletedJob
<1>6. ASSUME NEW j \in JobId, Worker(j) PROVE JL!Next
  <2>1. j \in DOMAIN jobs
    BY <1>6, WorkerWrites
  <2>2. CASE WorkerTakes(j)
    BY <2>1, <2>2, RowsTyped, StartedJob DEF WorkerTakes, WriterInv, Staged
  <2>3. CASE WorkerCompletes(j)
    BY <2>1, <2>3, RowsTyped, CompletedJob DEF WorkerCompletes, WriterInv, Staged
  <2>4. CASE WorkerFails(j)
    BY <2>1, <2>4, FailedJob DEF WorkerFails, WriterInv, Staged
  <2> QED
    BY <1>6, <2>2, <2>3, <2>4 DEF Worker
<1>7. CASE \/ UNCHANGED vars
           \/ Crash
           \/ \E h \in Handler :
                \/ \E u \in User : StartUpload(h, u)
                \/ StoreAccepts(h) \/ UploadFails(h) \/ SqsAccepts(h)
                \/ EnqueueReturns(h) \/ StoreAcceptsSync(h) \/ Abandon(h)
  BY <1>1, <1>7 DEF vars, Crash, StartUpload, StoreAccepts, UploadFails, SqsAccepts,
     EnqueueReturns, StoreAcceptsSync, Abandon
<1> QED
  BY <1>2, <1>3, <1>4, <1>5, <1>6, <1>7 DEF Next, Step

(* Under these conditions the table is the job table it promises to be:    *)
(* status moves only forward, completed and failed are final, and a job    *)
(* gets its transcript in the step that completes it (models/stt.py).      *)
THEOREM TableImplementsJobLifecycle ==
  ASSUME NoAckLost, AnswersText
  PROVE  Spec => ImplementsJobLifecycle
<1>1. Init => JL!Init
  <2> SUFFICES ASSUME Init PROVE JL!Init
    OBVIOUS
  <2>1. DOMAIN jobs = {}
    BY DEF Init
  <2>2. JobStatus = [j \in JL!Job |-> "absent"] /\ JobResult = [j \in JL!Job |-> FALSE]
    BY <2>1 DEF JL!Job, JobId, JobStatus, JobResult
  <2> QED
    BY <2>2 DEF JL!Init
<1>2. TypeOK /\ WriterInv /\ [Next]_vars => WriterInv'
  BY NoAckLost, WriterStep
<1>3. TypeOK /\ WriterInv /\ [Next]_vars => [JL!Next]_<<JobStatus, JobResult>>
  BY NoAckLost, AnswersText, JobStep
<1> QED
  BY <1>1, <1>2, <1>3, InitTyped, TypeStep, InitWriter, PTL
     DEF Spec, ImplementsJobLifecycle, JL!Spec

-----------------------------------------------------------------------------
(* The usage counters.  They count the rows of the gateway's own making,   *)
(* so the proof has to keep its rows and the worker's apart.               *)

Completions(u) ==
  {j \in DOMAIN jobs :
     jobs[j].user = u /\ jobs[j].status = "completed" /\ jobs[j].position = 0}
Failures(u) == {j \in DOMAIN jobs : jobs[j].user = u /\ jobs[j].error = "gateway"}

(* The counters agree with the rows: total_processing is the number of     *)
(* rows the gateway itself completed and total_failed of those it failed   *)
(* (usage.py, stt.py:108, 147, 171).                                       *)
UsageMatchesRows ==
  \A u \in User :
    /\ usage[u].processing = Cardinality(Completions(u))
    /\ usage[u].failed = Cardinality(Failures(u))

(* A row of the sync mode has no position and never leaves the gateway; a  *)
(* row the gateway failed stays failed.                                    *)
Modes ==
  /\ \A h \in Handler :
       /\ At(h, {"saving", "transcribing"}) => jobs[calls[h].job].position = 0
       /\ At(h, {"sending", "sent"}) => jobs[calls[h].job].position > 0
  /\ \A j \in queue \cup taken : jobs[j].position > 0
  /\ \A j \in DOMAIN jobs : jobs[j].error = "gateway" => jobs[j].status = "failed"

UsageInv == UsageMatchesRows /\ Modes

LEMMA RowsCounted ==
  ASSUME TypeOK, NEW u
  PROVE  /\ IsFiniteSet(Completions(u)) /\ IsFiniteSet(Failures(u))
         /\ Cardinality(Completions(u)) \in Nat /\ Cardinality(Failures(u)) \in Nat
<1>1. Len(jobs) \in Nat
      /\ Completions(u) \in SUBSET (1 .. Len(jobs))
      /\ Failures(u) \in SUBSET (1 .. Len(jobs))
  BY RowsAreJobs DEF Completions, Failures
<1>2. IsFiniteSet(1 .. Len(jobs))
  BY <1>1, FS_Interval
<1>3. IsFiniteSet(Completions(u)) /\ IsFiniteSet(Failures(u))
  BY <1>1, <1>2, FS_Subset
<1> QED
  BY <1>3, FS_CardinalityType

LEMMA InitUsage == Init => UsageInv
<1> SUFFICES ASSUME Init PROVE UsageInv
  OBVIOUS
<1>1. DOMAIN jobs = {}
  BY DEF Init
<1>2. \A u \in User : Completions(u) = {} /\ Failures(u) = {}
  BY <1>1 DEF Completions, Failures
<1>3. UsageMatchesRows
  BY <1>2, FS_EmptySet DEF Init, UsageMatchesRows
<1>4. \A h \in Handler : \A pcs : ~ At(h, pcs)
  BY DEF Init, At
<1> QED
  BY <1>1, <1>3, <1>4 DEF Init, UsageInv, Modes

(* The counters match as long as the rows they count are the same. *)
LEMMA SameUsage ==
  ASSUME UsageMatchesRows, usage' = usage,
         \A u \in User : Completions(u)' = Completions(u) /\ Failures(u)' = Failures(u)
  PROVE  UsageMatchesRows'
BY DEF UsageMatchesRows

LEMMA NewRowUsage ==
  ASSUME TypeOK, UsageMatchesRows, usage' = usage, Len(jobs) < MaxJobs,
         NEW row \in Row, jobs' = Append(jobs, row),
         row.status # "completed", row.error = "none"
  PROVE  UsageMatchesRows'
<1>1. PICK n : /\ DOMAIN jobs' = DOMAIN jobs \cup {n} /\ n \notin DOMAIN jobs
               /\ jobs'[n] = row /\ \A i \in DOMAIN jobs : jobs'[i] = jobs[i]
  BY AppendKeepsTable
<1>2. \A u \in User : Completions(u)' = Completions(u) /\ Failures(u)' = Failures(u)
  BY <1>1 DEF Completions, Failures
<1> QED
  BY <1>2, SameUsage

SyncCompleted(row) == row.status = "completed" /\ row.position = 0

LEMMA SameRowUsage ==
  ASSUME TypeOK, UsageMatchesRows, usage' = usage,
         NEW j \in DOMAIN jobs, NEW row \in Row, SetRow(j, row),
         row.user = jobs[j].user,
         SyncCompleted(row) <=> SyncCompleted(jobs[j]),
         row.error = "gateway" <=> jobs[j].error = "gateway"
  PROVE  UsageMatchesRows'
<1>1. /\ DOMAIN jobs' = DOMAIN jobs /\ jobs'[j] = row
      /\ \A i \in DOMAIN jobs : i # j => jobs'[i] = jobs[i]
  BY SetRowKeepsTable
<1>2. \A u \in User : Completions(u)' = Completions(u) /\ Failures(u)' = Failures(u)
  BY <1>1 DEF Completions, Failures, SyncCompleted
<1> QED
  BY <1>2, SameUsage

(* A row that comes to be counted, with its counter in the same commit. *)
LEMMA CountedUsage ==
  ASSUME TypeOK, UsageMatchesRows,
         NEW j \in DOMAIN jobs, NEW row \in Row, SetRow(j, row),
         row.user = jobs[j].user,
         ~ SyncCompleted(jobs[j]), jobs[j].error # "gateway",
         \/ SyncCompleted(row) /\ row.error # "gateway" /\ Count(row.user, "processing")
         \/ ~ SyncCompleted(row) /\ row.error = "gateway" /\ Count(row.user, "failed")
  PROVE  UsageMatchesRows'
<1> USE DEF SyncCompleted
<1>1. /\ DOMAIN jobs' = DOMAIN jobs /\ jobs'[j] = row
      /\ \A i \in DOMAIN jobs : i # j => jobs'[i] = jobs[i]
  BY SetRowKeepsTable
<1>2. row.user \in User /\ usage \in [User -> [processing : Nat, failed : Nat]]
  BY DEF TypeOK, Row
<1>3. \A u \in User : j \notin Completions(u) /\ j \notin Failures(u)
  BY DEF Completions, Failures
<1>4. \A u \in User : u # row.user =>
        /\ Completions(u)' = Completions(u) /\ Failures(u)' = Failures(u)
  BY <1>1 DEF Completions, Failures
<1>5. CASE SyncCompleted(row) /\ row.error # "gateway" /\ Count(row.user, "processing")
  <2>1. /\ Completions(row.user)' = Completions(row.user) \cup {j}
        /\ Failures(row.user)' = Failures(row.user)
    BY <1>1, <1>5 DEF Completions, Failures
  <2>2. Cardinality(Completions(row.user) \cup {j}) = Cardinality(Completions(row.user)) + 1
    BY <1>2, <1>3, RowsCounted, FS_AddElement
  <2>3. /\ \A u \in User : u # row.user => usage'[u] = usage[u]
        /\ usage'[row.user].processing = usage[row.user].processing + 1
        /\ usage'[row.user].failed = usage[row.user].failed
    BY <1>2, <1>5 DEF Count
  <2>4. ASSUME NEW u \in User
        PROVE  /\ usage'[u].processing = Cardinality(Completions(u)')
               /\ usage'[u].failed = Cardinality(Failures(u)')
    <3>1. /\ usage[u].processing = Cardinality(Completions(u))
          /\ usage[u].failed = Cardinality(Failures(u))
      BY DEF UsageMatchesRows
    <3> QED
      BY <1>4, <2>1, <2>2, <2>3, <3>1
  <2> QED
    BY <2>4 DEF UsageMatchesRows
<1>6. CASE ~ SyncCompleted(row) /\ row.error = "gateway" /\ Count(row.user, "failed")
  <2>1. /\ Completions(row.user)' = Completions(row.user)
        /\ Failures(row.user)' = Failures(row.user) \cup {j}
    BY <1>1, <1>6 DEF Completions, Failures
  <2>2. Cardinality(Failures(row.user) \cup {j}) = Cardinality(Failures(row.user)) + 1
    BY <1>2, <1>3, RowsCounted, FS_AddElement
  <2>3. /\ \A u \in User : u # row.user => usage'[u] = usage[u]
        /\ usage'[row.user].failed = usage[row.user].failed + 1
        /\ usage'[row.user].processing = usage[row.user].processing
    BY <1>2, <1>6 DEF Count
  <2>4. ASSUME NEW u \in User
        PROVE  /\ usage'[u].processing = Cardinality(Completions(u)')
               /\ usage'[u].failed = Cardinality(Failures(u)')
    <3>1. /\ usage[u].processing = Cardinality(Completions(u))
          /\ usage[u].failed = Cardinality(Failures(u))
      BY DEF UsageMatchesRows
    <3> QED
      BY <1>4, <2>1, <2>2, <2>3, <3>1
  <2> QED
    BY <2>4 DEF UsageMatchesRows
<1> QED
  BY <1>5, <1>6

SyncStages == {"saving", "transcribing"}

(* A step that adds no row and changes no position. *)
LEMMA ModesKept ==
  ASSUME TypeOK, Modes, DOMAIN jobs' = DOMAIN jobs,
         \A j \in DOMAIN jobs :
           /\ jobs'[j].position = jobs[j].position
           /\ jobs'[j].error = "gateway" => jobs'[j].status = "failed",
         \A g \in Handler :
           \/ calls'[g] = calls[g]
           \/ calls'[g] = Idle
           \/ calls'[g].pc \in {"uploading", "uploaded"}
           \/ /\ HasRow(g) /\ calls'[g].job = calls[g].job
              /\ \/ At(g, {"saving"}) /\ calls'[g].pc = "transcribing"
                 \/ At(g, {"sending"}) /\ calls'[g].pc = "sent",
         \A j \in queue' \cup taken' :
           \/ j \in queue \cup taken
           \/ \E g \in Handler : At(g, {"sending"}) /\ calls[g].job = j
  PROVE  Modes'
<1>1. ASSUME NEW g \in Handler
      PROVE  /\ At(g, SyncStages)' => jobs'[calls'[g].job].position = 0
             /\ At(g, {"sending", "sent"})' => jobs'[calls'[g].job].position > 0
  <2>1. CASE calls'[g] = calls[g]
    <3>1. At(g, SyncStages)' => At(g, {"saving", "transcribing"}) /\ HasRow(g)
      BY <2>1 DEF At, HasRow, SyncStages
    <3>2. At(g, {"sending", "sent"})' => At(g, {"sending", "sent"}) /\ HasRow(g)
      BY <2>1 DEF At, HasRow
    <3> QED
      BY <2>1, <3>1, <3>2, HandlerHasJob DEF Modes
  <2>2. CASE calls'[g] = Idle \/ calls'[g].pc \in {"uploading", "uploaded"}
    BY <2>2 DEF At, SyncStages
  <2>3. CASE /\ HasRow(g) /\ calls'[g].job = calls[g].job
             /\ \/ At(g, {"saving"}) /\ calls'[g].pc = "transcribing"
                \/ At(g, {"sending"}) /\ calls'[g].pc = "sent"
    <3>1. jobs'[calls[g].job].position = jobs[calls[g].job].position
      BY <2>3, HandlerHasJob
    <3>2. CASE At(g, {"saving"}) /\ calls'[g].pc = "transcribing"
      <4>1. At(g, {"saving", "transcribing"}) /\ ~ At(g, {"sending", "sent"})'
        BY <3>2 DEF At
      <4> QED
        BY <2>3, <3>1, <4>1 DEF Modes
    <3>3. CASE At(g, {"sending"}) /\ calls'[g].pc = "sent"
      <4>1. At(g, {"sending", "sent"}) /\ ~ At(g, SyncStages)'
        BY <3>3 DEF At, SyncStages
      <4> QED
        BY <2>3, <3>1, <4>1 DEF Modes
    <3> QED
      BY <2>3, <3>2, <3>3
  <2> QED
    BY <2>1, <2>2, <2>3
<1>2. ASSUME NEW j \in queue' \cup taken' PROVE jobs'[j].position > 0
  <2>1. CASE j \in queue \cup taken
    BY <2>1 DEF TypeOK, Modes
  <2>2. ASSUME NEW g \in Handler, At(g, {"sending"}), calls[g].job = j
        PROVE  jobs'[j].position > 0
    <3>1. HasRow(g) /\ At(g, {"sending", "sent"})
      BY <2>2 DEF At, HasRow
    <3> QED
      BY <2>2, <3>1, HandlerHasJob DEF Modes
  <2> QED
    BY <2>1, <2>2
<1> QED
  BY <1>1, <1>2 DEF Modes, SyncStages

(* A step that writes no row. *)
LEMMA QuietUsage ==
  ASSUME TypeOK, UsageInv, UNCHANGED <<jobs, usage>>,
         \A g \in Handler :
           \/ calls'[g] = calls[g]
           \/ calls'[g] = Idle
           \/ calls'[g].pc \in {"uploading", "uploaded"}
           \/ /\ HasRow(g) /\ calls'[g].job = calls[g].job
              /\ \/ At(g, {"saving"}) /\ calls'[g].pc = "transcribing"
                 \/ At(g, {"sending"}) /\ calls'[g].pc = "sent",
         \A j \in queue' \cup taken' :
           \/ j \in queue \cup taken
           \/ \E g \in Handler : At(g, {"sending"}) /\ calls[g].job = j
  PROVE  UsageInv'
<1>1. \A j \in DOMAIN jobs :
        /\ jobs'[j].position = jobs[j].position
        /\ jobs'[j].error = "gateway" => jobs'[j].status = "failed"
  BY DEF UsageInv, Modes
<1>2. Modes'
  BY <1>1, ModesKept DEF UsageInv
<1>3. \A u \in User : Completions(u)' = Completions(u) /\ Failures(u)' = Failures(u)
  BY DEF Completions, Failures
<1> QED
  BY <1>2, <1>3, SameUsage DEF UsageInv

LEMMA RowModes ==
  ASSUME TypeOK, Modes, NEW j \in DOMAIN jobs, NEW row \in Row, SetRow(j, row),
         row.position = jobs[j].position,
         row.error = "gateway" => row.status = "failed",
         \A g \in Handler : calls'[g] = calls[g] \/ calls'[g] = Idle,
         queue' \cup taken' \subseteq queue \cup taken
  PROVE  Modes'
<1>1. /\ DOMAIN jobs' = DOMAIN jobs /\ jobs'[j] = row
      /\ \A i \in DOMAIN jobs : i # j => jobs'[i] = jobs[i]
  BY SetRowKeepsTable
<1>2. \A i \in DOMAIN jobs :
        /\ jobs'[i].position = jobs[i].position
        /\ jobs'[i].error = "gateway" => jobs'[i].status = "failed"
  BY <1>1 DEF Modes
<1> QED
  BY <1>1, <1>2, ModesKept

LEMMA StartModes ==
  ASSUME TypeOK, Modes, NEW h \in Handler, NEW row \in Row, NEW pc, row.error = "none",
         \/ row.position > 0 /\ pc = "sending"
         \/ row.position = 0 /\ pc = "saving",
         Len(jobs) < MaxJobs, jobs' = Append(jobs, row),
         Goto(h, [pc |-> pc, job |-> Len(jobs) + 1]), UNCHANGED <<queue, taken>>
  PROVE  Modes'
<1>0. PICK n : n = Len(jobs) + 1
  OBVIOUS
<1>1. /\ DOMAIN jobs' = DOMAIN jobs \cup {n} /\ n \notin DOMAIN jobs
      /\ jobs'[n] = row /\ \A i \in DOMAIN jobs : jobs'[i] = jobs[i]
  BY <1>0, AppendKeepsTable
<1>2. PICK c : c = [pc |-> pc, job |-> n]
  OBVIOUS
<1>3. c.pc = pc /\ c.job = n
  BY <1>2
<1>4. calls'[h] = c /\ \A g \in Handler : g # h => calls'[g] = calls[g]
  BY <1>0, <1>2 DEF Goto, TypeOK
<1>5. ASSUME NEW g \in Handler
      PROVE  /\ At(g, SyncStages)' => jobs'[calls'[g].job].position = 0
             /\ At(g, {"sending", "sent"})' => jobs'[calls'[g].job].position > 0
  <2>1. CASE g = h
    BY <1>1, <1>3, <1>4, <2>1 DEF At, SyncStages
  <2>2. CASE g # h
    <3>1. At(g, SyncStages)' => At(g, {"saving", "transcribing"}) /\ HasRow(g)
      BY <1>4, <2>2 DEF At, HasRow, SyncStages
    <3>2. At(g, {"sending", "sent"})' => At(g, {"sending", "sent"}) /\ HasRow(g)
      BY <1>4, <2>2 DEF At, HasRow
    <3> QED
      BY <1>1, <1>4, <2>2, <3>1, <3>2, HandlerHasJob DEF Modes
  <2> QED
    BY <2>1, <2>2
<1>6. \A j \in queue' \cup taken' : jobs'[j].position > 0
  BY <1>1 DEF Modes, TypeOK
<1>7. \A j \in DOMAIN jobs' : jobs'[j].error = "gateway" => jobs'[j].status = "failed"
  BY <1>1 DEF Modes
<1> QED
  BY <1>5, <1>6, <1>7 DEF Modes, SyncStages

(* What the rows that end a job's row keep of it. *)
LEMMA RowsKeep ==
  ASSUME TypeOK, NEW j \in DOMAIN jobs
  PROVE  /\ \A answer \in Answers :
              LET row == Transcribed(j, answer)
              IN row.user = jobs[j].user /\ row.error = jobs[j].error
         /\ \A who \in {"gateway", "worker"} :
              LET row == FailedRow(j, who)
              IN row.user = jobs[j].user /\ row.error = who
         /\ LET row == [jobs[j] EXCEPT !.status = "processing"]
            IN row.user = jobs[j].user /\ row.error = jobs[j].error
         /\ LET row == [jobs[j] EXCEPT !.status = "completed", !.transcript = "text"]
            IN row.user = jobs[j].user /\ row.error = jobs[j].error
<1>1. jobs[j] \in Row
  BY RowsAreJobs
<1> QED
  BY <1>1 DEF Row, Transcribed, FailedRow

LEMMA UsageStep == TypeOK /\ WriterInv /\ UsageInv /\ NoAckLost /\ [Next]_vars => UsageInv'
<1> SUFFICES ASSUME TypeOK, WriterInv, UsageInv, NoAckLost, [Next]_vars PROVE UsageInv'
  OBVIOUS
<1>a. UsageMatchesRows /\ Modes
  BY DEF UsageInv
<1>b. ASSUME NEW h \in Handler, NEW call, Goto(h, call)
      PROVE  calls'[h] = call /\ \A g \in Handler : g # h => calls'[g] = calls[g]
  BY <1>b DEF Goto, TypeOK
<1>0. CASE UNCHANGED vars
  BY <1>0, QuietUsage DEF vars
<1>1. ASSUME NEW h \in Handler, NEW u \in User, StartUpload(h, u) PROVE UsageInv'
  <2>1. calls'[h].pc = "uploading" /\ \A g \in Handler : g # h => calls'[g] = calls[g]
    BY <1>1 DEF StartUpload, Goto, TypeOK
  <2> QED
    BY <1>1, <2>1, QuietUsage DEF StartUpload
<1>2. ASSUME NEW h \in Handler, StoreAccepts(h) PROVE UsageInv'
  <2>1. Holds(h)
    BY <1>2 DEF StoreAccepts, Holds, At
  <2>2. calls'[h].pc = "uploaded" /\ \A g \in Handler : g # h => calls'[g] = calls[g]
    BY <1>2, <2>1, UploadedMoves, <1>b DEF StoreAccepts
  <2> QED
    BY <1>2, <2>2, QuietUsage DEF StoreAccepts
<1>3. ASSUME NEW h \in Handler, UploadFails(h) \/ EnqueueReturns(h) \/ Abandon(h)
      PROVE  UsageInv'
  <2>1. calls'[h] = Idle /\ \A g \in Handler : g # h => calls'[g] = calls[g]
    BY <1>3, <1>b DEF UploadFails, EnqueueReturns, Abandon
  <2> QED
    BY <1>3, <2>1, QuietUsage DEF UploadFails, EnqueueReturns, Abandon
<1>4. ASSUME NEW h \in Handler, SqsAccepts(h) PROVE UsageInv'
  <2>1. HasRow(h) /\ At(h, {"sending"})
    BY <1>4 DEF SqsAccepts, HasRow, At
  <2>2. /\ calls'[h].pc = "sent" /\ calls'[h].job = calls[h].job
        /\ \A g \in Handler : g # h => calls'[g] = calls[g]
    BY <1>4, <2>1, RowMoves, <1>b DEF SqsAccepts
  <2>3. UNCHANGED <<jobs, usage, taken>> /\ queue' = queue \cup {calls[h].job}
    BY <1>4 DEF SqsAccepts
  <2> QED
    BY <2>1, <2>2, <2>3, QuietUsage
<1>5. ASSUME NEW h \in Handler, StoreAcceptsSync(h) PROVE UsageInv'
  <2>1. HasRow(h) /\ At(h, {"saving"})
    BY <1>5 DEF StoreAcceptsSync, HasRow, At
  <2>2. /\ calls'[h].pc = "transcribing" /\ calls'[h].job = calls[h].job
        /\ \A g \in Handler : g # h => calls'[g] = calls[g]
    BY <1>5, <2>1, RowMoves, <1>b DEF StoreAcceptsSync
  <2>3. UNCHANGED <<jobs, usage, taken, queue>>
    BY <1>5 DEF StoreAcceptsSync
  <2> QED
    BY <2>1, <2>2, <2>3, QuietUsage
<1>6. CASE Crash
  <2>1. \A g \in Handler : calls'[g] = Idle
    BY <1>6 DEF Crash
  <2> QED
    BY <1>6, <2>1, QuietUsage DEF Crash
<1>7. ASSUME NEW h \in Handler, NEW row \in Row, NEW pc,
             row.status # "completed", row.error = "none",
             \/ row.position > 0 /\ pc = "sending"
             \/ row.position = 0 /\ pc = "saving",
             Len(jobs) < MaxJobs, jobs' = Append(jobs, row),
             Goto(h, [pc |-> pc, job |-> Len(jobs) + 1]),
             UNCHANGED <<usage, queue, taken>>
      PROVE  UsageInv'
  BY <1>7, <1>a, NewRowUsage, StartModes DEF UsageInv
<1>8. ASSUME NEW h \in Handler, NEW u \in User, StartSync(h, u) PROVE UsageInv'
  <2> DEFINE row == NewRow(u, "processing", 0, 0)
  <2>1. row \in Row /\ row.status = "processing" /\ row.position = 0
    BY NewRowTyped
  <2>2. row.error = "none"
    BY DEF NewRow
  <2>3. jobs' = Append(jobs, row)
    BY <1>8 DEF StartSync
  <2> HIDE DEF row
  <2> QED
    BY <1>7, <1>8, <2>1, <2>2, <2>3 DEF StartSync
<1>9. ASSUME NEW h \in Handler, Enqueue(h) PROVE UsageInv'
  <2> DEFINE row == NewRow(calls[h].user, "queued", calls[h].key, QueuePosition)
  <2>1. Holds(h)
    BY <1>9 DEF Enqueue, Holds, At
  <2>2. row \in Row /\ row.status = "queued" /\ row.position > 0
    BY <2>1, QueuedRowTyped
  <2>3. row.error = "none"
    BY DEF NewRow
  <2>4. jobs' = Append(jobs, row)
    BY <1>9 DEF Enqueue
  <2> HIDE DEF row
  <2> QED
    BY <1>7, <1>9, <2>2, <2>3, <2>4 DEF Enqueue
<1>10. ASSUME NEW h \in Handler, Fail(h) PROVE UsageInv'
  <2>1. PICK j : j = calls[h].job
    OBVIOUS
  <2>2. j \in DOMAIN jobs /\ jobs[j].status \in {"queued", "processing"}
    BY <1>10, <2>1, FailingWrites DEF Fail
  <2> DEFINE row == FailedRow(j, "gateway")
  <2>3. /\ row \in Row /\ row.status = "failed" /\ row.error = "gateway"
        /\ row.position = jobs[j].position /\ row.user = jobs[j].user
    BY <2>2, RowsTyped, RowsKeep
  <2>4. SetRow(j, row) /\ Count(row.user, "failed") /\ UNCHANGED <<queue, taken>>
    BY <1>10, <2>1, <2>3 DEF Fail
  <2>5. \A g \in Handler : calls'[g] = calls[g] \/ calls'[g] = Idle
    BY <1>10, <1>b DEF Fail
  <2> HIDE DEF row
  <2>6. UsageMatchesRows'
    BY <1>a, <2>2, <2>3, <2>4, CountedUsage DEF Modes, SyncCompleted
  <2>7. Modes'
    BY <1>a, <2>2, <2>3, <2>4, <2>5, RowModes
  <2> QED
    BY <2>6, <2>7 DEF UsageInv
<1>11. ASSUME NEW h \in Handler, Complete(h) PROVE UsageInv'
  <2>1. PICK j : j = calls[h].job
    OBVIOUS
  <2>2. /\ j \in DOMAIN jobs /\ jobs[j].status = "processing"
        /\ jobs[j].position = 0 /\ jobs[j].error # "gateway"
    <3>1. At(h, {"saving", "transcribing"}) /\ HasRow(h)
      BY <1>11 DEF Complete, At, HasRow
    <3> QED
      BY <1>a, <2>1, <3>1, HandlerHasJob DEF WriterInv, Staged, Modes
  <2>3. PICK row \in Row :
          /\ SetRow(j, row) /\ row.status = "completed" /\ row.error = jobs[j].error
          /\ row.position = jobs[j].position /\ row.user = jobs[j].user
    <3> DEFINE new(answer) == Transcribed(j, answer)
    <3>1. PICK answer \in Answers : SetRow(j, new(answer))
      BY <1>11, <2>1 DEF Complete
    <3>2. /\ new(answer) \in Row /\ new(answer).status = "completed"
          /\ new(answer).error = jobs[j].error
          /\ new(answer).position = jobs[j].position /\ new(answer).user = jobs[j].user
      BY <2>2, RowsTyped, RowsKeep
    <3> HIDE DEF new
    <3> QED
      BY <3>1, <3>2
  <2>4. Count(row.user, "processing") /\ UNCHANGED <<queue, taken>>
    BY <1>11, <2>1, <2>3 DEF Complete
  <2>5. \A g \in Handler : calls'[g] = calls[g] \/ calls'[g] = Idle
    BY <1>11, <1>b DEF Complete
  <2>6. UsageMatchesRows'
    BY <1>a, <2>2, <2>3, <2>4, CountedUsage DEF SyncCompleted
  <2>7. Modes'
    BY <1>a, <2>2, <2>3, <2>4, <2>5, RowModes
  <2> QED
    BY <2>6, <2>7 DEF UsageInv
<1>12. ASSUME NEW j \in JobId, Worker(j) PROVE UsageInv'
  <2>1. /\ j \in DOMAIN jobs /\ j \in queue \cup taken
        /\ UNCHANGED <<usage, calls>> /\ queue' \cup taken' \subseteq queue \cup taken
    BY <1>12, WorkerWrites
  <2>2. /\ jobs[j].position > 0 /\ jobs[j].error # "gateway"
    BY <1>a, <2>1 DEF Modes, WriterInv, Staged
  <2>3. PICK row \in Row :
          /\ SetRow(j, row) /\ row.user = jobs[j].user
          /\ row.position = jobs[j].position /\ row.error # "gateway"
    <3>1. CASE WorkerTakes(j)
      BY <2>1, <2>2, <3>1, RowsTyped, RowsKeep DEF WorkerTakes
    <3>2. CASE WorkerCompletes(j)
      BY <2>1, <2>2, <3>2, RowsTyped, RowsKeep DEF WorkerCompletes
    <3>3. CASE WorkerFails(j)
      BY <2>1, <2>2, <3>3, RowsTyped, RowsKeep DEF WorkerFails
    <3> QED
      BY <1>12, <3>1, <3>2, <3>3 DEF Worker
  <2>4. ~ SyncCompleted(row) /\ ~ SyncCompleted(jobs[j])
    BY <2>2, <2>3, RowsAreJobs DEF SyncCompleted, Row
  <2>5. UsageMatchesRows'
    BY <1>a, <2>1, <2>2, <2>3, <2>4, SameRowUsage
  <2>6. Modes'
    BY <1>a, <2>1, <2>3, RowModes
  <2> QED
    BY <2>5, <2>6 DEF UsageInv
<1> QED
  BY <1>0, <1>1, <1>2, <1>3, <1>4, <1>5, <1>6, <1>8, <1>9, <1>10, <1>11, <1>12
     DEF Next, Step

(* As long as send_message raises only for messages SQS does not have, the *)
(* counters agree with the rows the gateway completed or failed itself,    *)
(* however handlers interleave, crash or fail to commit.                   *)
THEOREM UsageIsExact ==
  ASSUME NoAckLost
  PROVE  Spec => []UsageMatchesRows
<1>1. TypeOK /\ WriterInv /\ [Next]_vars => WriterInv'
  BY NoAckLost, WriterStep
<1>2. TypeOK /\ WriterInv /\ UsageInv /\ [Next]_vars => UsageInv'
  BY NoAckLost, UsageStep
<1>3. UsageInv => UsageMatchesRows
  BY DEF UsageInv
<1> QED
  BY <1>1, <1>2, <1>3, InitTyped, TypeStep, InitWriter, InitUsage, PTL DEF Spec

(* A settled row is final because nobody is left to write it, and a job    *)
(* under way is never in two hands (stt.py:98-119, 127-174).               *)
OneWriter ==
  /\ Apart
  /\ \A j \in DOMAIN jobs : Settled(j) =>
       j \notin queue \cup taken /\ \A h \in Handler : ~ Writing(h, j)

(* However handlers interleave, crash or fail to commit. *)
THEOREM OneWriterPerJob ==
  ASSUME NoAckLost
  PROVE  Spec => []OneWriter
<1>1. TypeOK /\ WriterInv /\ [Next]_vars => WriterInv'
  BY NoAckLost, WriterStep
<1>2. TypeOK /\ WriterInv => OneWriter
  <2> SUFFICES ASSUME TypeOK, WriterInv, NEW j \in DOMAIN jobs, Settled(j)
               PROVE  j \notin queue \cup taken /\ \A h \in Handler : ~ Writing(h, j)
    BY DEF OneWriter, WriterInv
  <2>1. j \notin queue \cup taken
    BY DEF WriterInv, Staged, Settled
  <2>2. ASSUME NEW h \in Handler, Writing(h, j) PROVE FALSE
    <3>1. At(h, {"sending"}) \/ At(h, {"saving", "transcribing"})
      BY <2>2 DEF Writing, At
    <3> QED
      BY <2>2, <3>1 DEF Writing, WriterInv, Staged, Settled
  <2> QED
    BY <2>1, <2>2
<1> QED
  BY <1>1, <1>2, InitTyped, TypeStep, InitWriter, PTL DEF Spec

-----------------------------------------------------------------------------
(* Nobody's job is forgotten *)

Tended(j) ==
  \/ Settled(j)
  \/ j \in lost \cup queue \cup taken
  \/ \E h \in Handler : Writing(h, j)

(* Whatever fails, an acknowledgement of SQS included, a job that is not   *)
(* settled is one that somebody is going to write or whose handler was cut *)
(* off (stt.py:98-119, 127-174: every path out of the handler writes the   *)
(* row).  This is the part of EveryJobSettles that needs no fairness.      *)
NobodyForgotten == \A j \in DOMAIN jobs : Tended(j)

(* The worker has started what it took. *)
TakenStarted == \A j \in taken : jobs[j].status # "queued"

(* What one handler does leaves the other jobs as they are. *)
LEMMA OneHandlerTends ==
  ASSUME NobodyForgotten, NEW h \in Handler, NEW n,
         \A g \in Handler : g # h => calls'[g] = calls[g],
         queue \subseteq queue', taken' = taken, lost \subseteq lost',
         \A j \in DOMAIN jobs' : j # n =>
           j \in DOMAIN jobs /\ jobs'[j] = jobs[j] /\ ~ Writing(h, j),
         n \in DOMAIN jobs' => Tended(n)'
  PROVE  NobodyForgotten'
<1> SUFFICES ASSUME NEW j \in DOMAIN jobs', j # n PROVE Tended(j)'
  BY DEF NobodyForgotten
<1>1. Tended(j) /\ jobs'[j] = jobs[j] /\ ~ Writing(h, j)
  BY DEF NobodyForgotten
<1>2. \A g \in Handler : Writing(g, j) => Writing(g, j)'
  BY <1>1 DEF Writing, At
<1> QED
  BY <1>1, <1>2 DEF Tended, Settled

LEMMA OneHandlerStarts ==
  ASSUME TypeOK, TakenStarted, taken' = taken,
         \A j \in DOMAIN jobs : jobs'[j] = jobs[j] \/ jobs'[j].status # "queued"
  PROVE  TakenStarted'
BY DEF TypeOK, TakenStarted

(* A handler that has no row to write goes on. *)
LEMMA IdlerTends ==
  ASSUME TypeOK, NobodyForgotten, TakenStarted, NEW h \in Handler, NEW call,
         Goto(h, call), ~ At(h, {"sending", "saving", "transcribing"}),
         UNCHANGED <<jobs, queue, taken, lost>>
  PROVE  NobodyForgotten' /\ TakenStarted'
<1>1. \A g \in Handler : g # h => calls'[g] = calls[g]
  BY DEF Goto, TypeOK
<1>2. \A j : ~ Writing(h, j)
  BY DEF Writing
<1>3. 0 \notin DOMAIN jobs'
  BY RowsAreJobs
<1>4. NobodyForgotten'
  BY <1>1, <1>2, <1>3, OneHandlerTends
<1> QED
  BY <1>4, OneHandlerStarts

LEMMA StarterTends ==
  ASSUME TypeOK, NobodyForgotten, TakenStarted, NEW h \in Handler,
         ~ At(h, {"sending", "saving", "transcribing"}),
         NEW pc \in {"sending", "saving"}, NEW row \in Row, Len(jobs) < MaxJobs,
         jobs' = Append(jobs, row), Goto(h, [pc |-> pc, job |-> Len(jobs) + 1]),
         UNCHANGED <<queue, taken, lost>>
  PROVE  NobodyForgotten' /\ TakenStarted'
<1>1. PICK n : n = Len(jobs) + 1
  OBVIOUS
<1>2. /\ DOMAIN jobs' = DOMAIN jobs \cup {n} /\ n \notin DOMAIN jobs
      /\ \A j \in DOMAIN jobs : jobs'[j] = jobs[j]
  BY <1>1, AppendKeepsTable
<1>3. PICK c : c = [pc |-> pc, job |-> n]
  OBVIOUS
<1>4. c.pc = pc /\ c.job = n /\ c # Idle
  BY <1>3 DEF Idle
<1>5. calls'[h] = c /\ \A g \in Handler : g # h => calls'[g] = calls[g]
  BY <1>1, <1>3 DEF Goto, TypeOK
<1>6. Tended(n)'
  BY <1>4, <1>5 DEF Tended, Writing, At
<1>7. \A j : ~ Writing(h, j)
  BY DEF Writing
<1>8. NobodyForgotten'
  BY <1>2, <1>5, <1>6, <1>7, OneHandlerTends
<1> QED
  BY <1>2, <1>8, OneHandlerStarts

(* A handler hands its job on, or keeps it. *)
LEMMA MoverTends ==
  ASSUME TypeOK, NobodyForgotten, TakenStarted, NEW h \in Handler, HasRow(h),
         NEW pc \in {"sent", "transcribing"}, Goto(h, [calls[h] EXCEPT !.pc = pc]),
         pc = "sent" => calls[h].job \in queue', queue \subseteq queue',
         UNCHANGED <<jobs, taken, lost>>
  PROVE  NobodyForgotten' /\ TakenStarted'
<1>1. PICK n : n = calls[h].job
  OBVIOUS
<1>2. PICK c : c = [calls[h] EXCEPT !.pc = pc]
  OBVIOUS
<1>3. c.pc = pc /\ c.job = n /\ c \in WithRow
  BY <1>1, <1>2, RowMoves
<1>4. calls'[h] = c /\ \A g \in Handler : g # h => calls'[g] = calls[g]
  BY <1>2 DEF Goto, TypeOK
<1>5. c # Idle
  BY <1>3 DEF WithRow, Idle
<1>6. Tended(n)'
  BY <1>1, <1>3, <1>4, <1>5 DEF Tended, Writing, At
<1>7. \A j : j # n => ~ Writing(h, j)
  BY <1>1 DEF Writing
<1>8. NobodyForgotten'
  BY <1>4, <1>6, <1>7, OneHandlerTends
<1> QED
  BY <1>8, OneHandlerStarts

LEMMA SettlerTends ==
  ASSUME TypeOK, NobodyForgotten, TakenStarted, NEW h \in Handler, HasRow(h),
         NEW row \in Row, SetRow(calls[h].job, row),
         row.status \in {"completed", "failed"}, Goto(h, Idle),
         UNCHANGED <<queue, taken, lost>>
  PROVE  NobodyForgotten' /\ TakenStarted'
<1>1. PICK n : n = calls[h].job
  OBVIOUS
<1>2. /\ DOMAIN jobs' = DOMAIN jobs /\ jobs'[n] = row
      /\ \A j \in DOMAIN jobs : j # n => jobs'[j] = jobs[j]
  BY <1>1, HandlerHasJob, SetRowKeepsTable
<1>3. \A g \in Handler : g # h => calls'[g] = calls[g]
  BY DEF Goto, TypeOK
<1>4. Tended(n)'
  BY <1>2 DEF Tended, Settled
<1>5. \A j : j # n => ~ Writing(h, j)
  BY <1>1 DEF Writing
<1>6. NobodyForgotten'
  BY <1>2, <1>3, <1>4, <1>5, OneHandlerTends
<1>7. \A j \in DOMAIN jobs : jobs'[j] = jobs[j] \/ jobs'[j].status # "queued"
  BY <1>2
<1> QED
  BY <1>6, <1>7, OneHandlerStarts

LEMMA WorkerTends ==
  ASSUME TypeOK, NobodyForgotten, TakenStarted, NEW n \in JobId, Worker(n)
  PROVE  NobodyForgotten' /\ TakenStarted'
<1>1. n \in DOMAIN jobs /\ UNCHANGED <<calls, lost>>
  BY WorkerWrites
<1>2. PICK row \in Row :
        /\ SetRow(n, row)
        /\ \/ row.status = "processing" /\ taken' = taken \cup {n} /\ queue' = queue \ {n}
           \/ /\ row.status \in {"completed", "failed"} /\ taken' = taken \ {n}
              /\ queue' = queue
  <2>1. CASE WorkerTakes(n)
    BY <1>1, <2>1, RowsTyped DEF WorkerTakes
  <2>2. CASE WorkerCompletes(n)
    BY <1>1, <2>2, RowsTyped DEF WorkerCompletes
  <2>3. CASE WorkerFails(n)
    BY <1>1, <2>3, RowsTyped DEF WorkerFails
  <2> QED
    BY <2>1, <2>2, <2>3 DEF Worker
<1>3. /\ DOMAIN jobs' = DOMAIN jobs /\ jobs'[n] = row
      /\ \A j \in DOMAIN jobs : j # n => jobs'[j] = jobs[j]
  BY <1>1, <1>2, SetRowKeepsTable
<1>4. \A h \in Handler : \A j : Writing(h, j) => Writing(h, j)'
  BY <1>1 DEF Writing, At
<1>5. ASSUME NEW j \in DOMAIN jobs', j # n PROVE Tended(j)'
  <2>1. Tended(j) /\ jobs'[j] = jobs[j]
    BY <1>3, <1>5 DEF NobodyForgotten
  <2> QED
    BY <1>1, <1>2, <1>4, <1>5, <2>1 DEF Tended, Settled
<1>6. Tended(n)'
  BY <1>2, <1>3 DEF Tended, Settled
<1>7. TakenStarted'
  BY <1>2, <1>3 DEF TakenStarted, TypeOK
<1> QED
  BY <1>5, <1>6, <1>7 DEF NobodyForgotten

LEMMA ForgottenStep ==
  ASSUME TypeOK, NobodyForgotten, TakenStarted, [Next]_vars
  PROVE  NobodyForgotten' /\ TakenStarted'
<1>1. CASE UNCHANGED vars
  BY <1>1 DEF vars, NobodyForgotten, TakenStarted, Tended, Settled, Writing, At
<1>2. ASSUME NEW h \in Handler, NEW u \in User, StartUpload(h, u) \/ StartSync(h, u)
      PROVE  NobodyForgotten' /\ TakenStarted'
  <2>1. ~ At(h, {"sending", "saving", "transcribing"})
    BY <1>2 DEF StartUpload, StartSync, At
  <2>2. CASE StartUpload(h, u)
    BY <2>1, <2>2, IdlerTends DEF StartUpload
  <2>3. CASE StartSync(h, u)
    <3>1. NewRow(u, "processing", 0, 0) \in Row
      BY NewRowTyped
    <3> QED
      BY <2>1, <2>3, <3>1, StarterTends DEF StartSync
  <2> QED
    BY <1>2, <2>2, <2>3
<1>3. ASSUME NEW h \in Handler, StoreAccepts(h) \/ UploadFails(h) \/ EnqueueReturns(h)
      PROVE  NobodyForgotten' /\ TakenStarted'
  <2>1. ~ At(h, {"sending", "saving", "transcribing"})
    BY <1>3 DEF StoreAccepts, UploadFails, EnqueueReturns, At
  <2> QED
    BY <1>3, <2>1, IdlerTends DEF StoreAccepts, UploadFails, EnqueueReturns
<1>4. ASSUME NEW h \in Handler, Enqueue(h) PROVE NobodyForgotten' /\ TakenStarted'
  <2>1. Holds(h) /\ ~ At(h, {"sending", "saving", "transcribing"})
    BY <1>4 DEF Enqueue, Holds, At
  <2>2. NewRow(calls[h].user, "queued", calls[h].key, QueuePosition) \in Row
    BY <2>1, QueuedRowTyped
  <2> QED
    BY <1>4, <2>1, <2>2, StarterTends DEF Enqueue
<1>5. ASSUME NEW h \in Handler, SqsAccepts(h) \/ StoreAcceptsSync(h)
      PROVE  NobodyForgotten' /\ TakenStarted'
  <2>1. HasRow(h)
    BY <1>5 DEF SqsAccepts, StoreAcceptsSync, HasRow, At
  <2> QED
    BY <1>5, <2>1, MoverTends DEF SqsAccepts, StoreAcceptsSync
<1>6. ASSUME NEW h \in Handler, Complete(h) \/ Fail(h)
      PROVE  NobodyForgotten' /\ TakenStarted'
  <2>1. HasRow(h)
    BY <1>6, RaisesHasRow DEF Complete, Fail, HasRow, At
  <2>2. PICK row \in Row : SetRow(calls[h].job, row) /\ row.status \in {"completed", "failed"}
    BY <1>6, <2>1, HandlerHasJob, RowsTyped DEF Complete, Fail
  <2> QED
    BY <1>6, <2>1, <2>2, SettlerTends DEF Complete, Fail
<1>7. ASSUME NEW h \in Handler, Abandon(h) PROVE NobodyForgotten' /\ TakenStarted'
  <2>1. PICK n : n = calls[h].job
    OBVIOUS
  <2>2. n \in lost' /\ UNCHANGED <<jobs, queue, taken>> /\ lost \subseteq lost'
    BY <1>7, <2>1 DEF Abandon
  <2>3. \A g \in Handler : g # h => calls'[g] = calls[g]
    BY <1>7 DEF Abandon, Goto, TypeOK
  <2>4. Tended(n)'
    BY <2>2 DEF Tended
  <2>5. \A j : j # n => ~ Writing(h, j)
    BY <2>1 DEF Writing
  <2>6. NobodyForgotten'
    BY <2>2, <2>3, <2>4, <2>5, OneHandlerTends
  <2> QED
    BY <2>2, <2>6, OneHandlerStarts
<1>8. ASSUME Crash PROVE NobodyForgotten' /\ TakenStarted'
  <2>1. UNCHANGED <<jobs, queue, taken>> /\ lost \subseteq lost'
    BY <1>8 DEF Crash
  <2>2. ASSUME NEW h \in Handler, NEW j, Writing(h, j) PROVE j \in lost'
    BY <1>8, <2>2 DEF Crash, Writing
  <2>3. NobodyForgotten'
    BY <2>1, <2>2 DEF NobodyForgotten, Tended, Settled
  <2> QED
    BY <2>1, <2>3, OneHandlerStarts
<1> QED
  BY <1>1, <1>2, <1>3, <1>4, <1>5, <1>6, <1>7, <1>8, WorkerTends DEF Next, Step

(* A job that is not settled is in the queue, in the hands of a handler or *)
(* of the worker, or its handler was cut off by a crash or a lost          *)
(* database: nothing else loses one.                                       *)
THEOREM JobsAreTended == Spec => []NobodyForgotten
<1>1. Init => NobodyForgotten /\ TakenStarted
  BY DEF Init, NobodyForgotten, TakenStarted
<1>2. TypeOK /\ NobodyForgotten /\ TakenStarted /\ [Next]_vars =>
        NobodyForgotten' /\ TakenStarted'
  BY ForgottenStep
<1> QED
  BY <1>1, <1>2, InitTyped, TypeStep, PTL DEF Spec

(* "Never leave a phantom "queued" row" (stt.py:102): without a crash, or  *)
(* a database that is gone by the except branch, a queued row is one whose *)
(* message is in SQS or about to be sent.                                  *)
NoPhantomQueued ==
  \A j \in DOMAIN jobs : jobs[j].status = "queued" =>
    j \in queue \/ \E h \in Handler : Writing(h, j)

(* With acknowledgements lost and nothing else going wrong, no upload      *)
(* leaves a queued row that no message stands for.                         *)
THEOREM PhantomsNeedACrash ==
  ASSUME Faults \subseteq {"AckLost"}
  PROVE  Spec => []NoPhantomQueued
<1>1. Init => NobodyForgotten /\ TakenStarted /\ lost = {}
  BY DEF Init, NobodyForgotten, TakenStarted
<1>2. TypeOK /\ NobodyForgotten /\ TakenStarted /\ [Next]_vars =>
        NobodyForgotten' /\ TakenStarted'
  BY ForgottenStep
<1>3. lost = {} /\ [Next]_vars => (lost = {})'
  BY DEF Next, vars, StartUpload, StartSync, Step, StoreAccepts, UploadFails, Enqueue,
     SqsAccepts, EnqueueReturns, StoreAcceptsSync, Complete, Fail, Abandon, Crash,
     Worker, WorkerTakes, WorkerCompletes, WorkerFails
<1>4. NobodyForgotten /\ TakenStarted /\ lost = {} => NoPhantomQueued
  BY DEF NobodyForgotten, TakenStarted, Tended, Settled, NoPhantomQueued
<1> QED
  BY <1>1, <1>2, <1>3, <1>4, InitTyped, TypeStep, PTL DEF Spec

=============================================================================
