----------------------------- MODULE JobPolling -----------------------------
(***************************************************************************)
(* GET /jobs/{job_id} (app/routers/jobs.py) over the two job tables.  The  *)
(* tables move as JobLifecycle says, which TextToSpeech and SpeechToText   *)
(* are shown to implement (where no answer of SQS is lost: see there).     *)
(* Several gateway processes share the tables.  A handler that submits a   *)
(* job takes its id when it flushes the INSERT and shows the row when it   *)
(* commits: nothing is awaited in between, so a process has one such row   *)
(* at a time, but the rows of two processes may show in the other order.   *)
(* The endpoint is a plain def: it runs in a thread, and in PostgreSQL's   *)
(* READ COMMITTED each query sees what was committed before it, so each    *)
(* query is a step of its own and the tables move in between.  A user      *)
(* polls for one job at a time, again and again.                           *)
(***************************************************************************)
EXTENDS Naturals, FiniteSets

CONSTANTS
  User,
  Poller,    \* the users who poll
  Process,   \* the processes of the gateway
  MaxTts,    \* bound: ids given out in text_to_speech
  MaxStt,    \* bound: ids given out in speech_to_text
  Types      \* the ?type parameters polled with: "given", "omitted"

NoUser == "no user"

ASSUME PollingAssumption ==
  /\ MaxTts \in Nat /\ MaxStt \in Nat
  /\ Poller \subseteq User
  /\ IsFiniteSet(Process)
  /\ NoUser \notin User
  /\ Types \subseteq {"given", "omitted"}

VARIABLES
  ttsStatus, ttsResult,   \* text_to_speech
  sttStatus, sttResult,   \* speech_to_text
  owner,     \* the user_id columns of both
  lastId,    \* the sequence of each table's ids: the last one given out
  flushed,   \* the row each process has inserted and not yet committed
  follows,   \* the job each user polls for, and whether with a ?type
  poll,      \* where the user's request is
  seen       \* the answer to the user's last poll of that job

ttsTable == <<ttsStatus, ttsResult>>
sttTable == <<sttStatus, sttResult>>
tables == <<ttsTable, sttTable, owner, lastId, flushed>>
vars == <<tables, follows, poll, seen>>

Tts == INSTANCE JobLifecycle WITH MaxJobs <- MaxTts, status <- ttsStatus, result <- ttsResult
Stt == INSTANCE JobLifecycle WITH MaxJobs <- MaxStt, status <- sttStatus, result <- sttResult

Kind == {"tts", "stt"}
JobOf(k) == 1 .. IF k = "tts" THEN MaxTts ELSE MaxStt
Job == JobOf("tts") \cup JobOf("stt")
Status == {"absent", "queued", "processing", "completed", "failed"}

Nothing == [kind |-> "none"]
NotFound == [kind |-> "not found"]
Idle == [pc |-> "idle"]

Insert == [kind : Kind, job : Job, user : User]

(* position is 0 where the response has none. *)
Answer == [kind : Kind, status : Status \ {"absent"}, result : BOOLEAN,
           position : Nat]

StatusOf(k) == IF k = "tts" THEN ttsStatus ELSE sttStatus
ResultOf(k) == IF k = "tts" THEN ttsResult ELSE sttResult
SettledStatus == {"completed", "failed"}

Init ==
  /\ Tts!Init
  /\ Stt!Init
  /\ owner = [k \in Kind |-> [j \in JobOf(k) |-> NoUser]]
  /\ lastId = [k \in Kind |-> 0]
  /\ flushed = [p \in Process |-> Nothing]
  /\ follows = [u \in Poller |-> Nothing]
  /\ poll = [u \in Poller |-> Idle]
  /\ seen = [u \in Poller |-> Nothing]

-----------------------------------------------------------------------------
(* The tables *)

(* db.flush() in a handler of process p: the INSERT takes the next id. *)
Flush(p, u, k) ==
  /\ flushed[p] = Nothing
  /\ lastId[k] + 1 \in JobOf(k)
  /\ lastId' = [lastId EXCEPT ![k] = @ + 1]
  /\ flushed' = [flushed EXCEPT ![p] = [kind |-> k, job |-> lastId[k] + 1, user |-> u]]
  /\ UNCHANGED <<ttsTable, sttTable, owner, follows, poll, seen>>

(* db.commit(): the row can be seen. *)
Commit(p) ==
  LET row == flushed[p]
  IN /\ \/ row.kind = "tts" /\ Tts!Submit(row.job) /\ UNCHANGED sttTable
        \/ row.kind = "stt" /\ Stt!Submit(row.job) /\ UNCHANGED ttsTable
     /\ owner' = [owner EXCEPT ![row.kind][row.job] = row.user]
     /\ flushed' = [flushed EXCEPT ![p] = Nothing]
     /\ UNCHANGED <<lastId, follows, poll, seen>>

(* The commit raises or the process dies: the id is lost. *)
Abort(p) ==
  /\ flushed[p] # Nothing
  /\ flushed' = [flushed EXCEPT ![p] = Nothing]
  /\ UNCHANGED <<ttsTable, sttTable, owner, lastId, follows, poll, seen>>

(* The other handlers and the workers. *)
AdvanceTts(j) ==
  /\ Tts!Start(j) \/ Tts!Complete(j) \/ Tts!Fail(j)
  /\ UNCHANGED <<sttTable, owner, lastId, flushed, follows, poll, seen>>

AdvanceStt(j) ==
  /\ Stt!Start(j) \/ Stt!Complete(j) \/ Stt!Fail(j)
  /\ UNCHANGED <<ttsTable, owner, lastId, flushed, follows, poll, seen>>

-----------------------------------------------------------------------------
(* The client: it polls a job, its own or not, until it has the outcome or *)
(* gives up on a 404.                                                      *)

Answered(u) == seen[u] \notin {Nothing, NotFound}
Outcome(u) == Answered(u) /\ seen[u].status \in SettledStatus

Follow(u, k, j) ==
  /\ poll[u] = Idle
  /\ follows[u] = Nothing \/ Outcome(u) \/ seen[u] = NotFound
  /\ owner[k][j] # NoUser
  /\ \E type \in Types : follows' = [follows EXCEPT ![u] = [kind |-> k, job |-> j, type |-> type]]
  /\ seen' = [seen EXCEPT ![u] = Nothing]
  /\ UNCHANGED <<tables, poll>>

(* mutant: ?type read and never used to choose the table *)
AlwaysTtsFirst(f) == "tts"

(* With ?type=stt the lookup in text_to_speech is skipped. *)
FirstLookup(f) == IF f.type = "given" THEN f.kind ELSE "tts"

SendPoll(u) ==
  /\ poll[u] = Idle
  /\ follows[u] # Nothing
  /\ ~ Outcome(u)
  /\ poll' = [poll EXCEPT ![u] = [pc |-> FirstLookup(follows[u])]]
  /\ UNCHANGED <<tables, follows, seen>>

-----------------------------------------------------------------------------
(* get_job_status *)

Reply(u, k, status, result, position) ==
  /\ poll' = [poll EXCEPT ![u] = Idle]
  /\ seen' = [seen EXCEPT ![u] = [kind |-> k, status |-> status, result |-> result,
                                  position |-> position]]

Found(u, k) == follows[u].job \in JobOf(k) /\ owner[k][follows[u].job] = u

(* The row is read; a job still queued needs a second query. *)
Lookup(u, k) ==
  LET j == follows[u].job
      status == StatusOf(k)[j]
  IN /\ poll[u].pc = k
     /\ Found(u, k)
     /\ IF status = "queued"
          THEN /\ poll' = [poll EXCEPT ![u] = [pc |-> "counting", kind |-> k]]
               /\ UNCHANGED seen
          ELSE Reply(u, k, status, ResultOf(k)[j], 0)
     /\ UNCHANGED <<tables, follows>>

(* Without ?type the lookup goes on to speech_to_text. *)
LookupNext(u) ==
  /\ poll[u].pc = "tts"
  /\ ~ Found(u, "tts")
  /\ follows[u].type = "omitted"
  /\ poll' = [poll EXCEPT ![u] = [pc |-> "stt"]]
  /\ UNCHANGED <<tables, follows, seen>>

(* HTTP 404 *)
LookupFails(u) ==
  /\ poll[u].pc \in Kind
  /\ ~ Found(u, poll[u].pc)
  /\ poll[u].pc = "tts" => follows[u].type = "given"
  /\ poll' = [poll EXCEPT ![u] = Idle]
  /\ seen' = [seen EXCEPT ![u] = NotFound]
  /\ UNCHANGED <<tables, follows>>

(* mutant: the position counted over the whole queue *)
QueueLength(k, j) == Cardinality({i \in JobOf(k) : StatusOf(k)[i] = "queued"})

(* mutant: the next free position, as computed at submission *)
NextPosition(k, j) == Cardinality({i \in JobOf(k) : StatusOf(k)[i] = "queued"}) + 1

(* _live_queue_position *)
LivePosition(k, j) == Cardinality({i \in JobOf(k) : StatusOf(k)[i] = "queued" /\ i <= j})

CountAhead(u) ==
  /\ poll[u].pc = "counting"
  /\ Reply(u, poll[u].kind, "queued", FALSE, LivePosition(poll[u].kind, follows[u].job))
  /\ UNCHANGED <<tables, follows>>

-----------------------------------------------------------------------------
Serve(u) ==
  \/ \E k \in Kind : Lookup(u, k)
  \/ LookupNext(u)
  \/ LookupFails(u)
  \/ CountAhead(u)

Next ==
  \/ \E p \in Process : \/ \E u \in User, k \in Kind : Flush(p, u, k)
                        \/ Commit(p)
                        \/ Abort(p)
  \/ \E j \in JobOf("tts") : AdvanceTts(j)
  \/ \E j \in JobOf("stt") : AdvanceStt(j)
  \/ \E u \in Poller : \/ \E k \in Kind : \E j \in JobOf(k) : Follow(u, k, j)
                       \/ SendPoll(u)
                       \/ Serve(u)

(* The client polls in a loop and every request is answered. *)
Fairness == \A u \in Poller : WF_vars(SendPoll(u)) /\ WF_vars(Serve(u))

Spec == Init /\ [][Next]_vars
FairSpec == Spec /\ Fairness

-----------------------------------------------------------------------------
(* Every variable has its type; a position never exceeds the job's id. *)
TypeOK ==
  /\ \A k \in Kind : /\ StatusOf(k) \in [JobOf(k) -> Status]
                     /\ ResultOf(k) \in [JobOf(k) -> BOOLEAN]
                     /\ owner[k] \in [JobOf(k) -> User \cup {NoUser}]
  /\ lastId \in [Kind -> Nat]
  /\ flushed \in [Process -> Insert \cup {Nothing}]
  /\ follows \in [Poller -> [kind : Kind, job : Job, type : Types] \cup {Nothing}]
  /\ poll \in [Poller -> [pc : Kind] \cup [pc : {"counting"}, kind : Kind] \cup {Idle}]
  /\ seen \in [Poller -> Answer \cup {Nothing, NotFound}]
  /\ \A u \in Poller : Answered(u) => seen[u].position <= follows[u].job

Rank(status) == CASE status = "queued" -> 1
                  [] status = "processing" -> 2
                  [] OTHER -> 3

(* What a client sees of a job moves forward: the status never goes back,  *)
(* the outcome never changes (tts.py and stt.py write the rows, jobs.py:   *)
(* 46-100 reads them), and the position rises only by rows that another    *)
(* process had flushed, under a lower id, and not yet committed: at most   *)
(* one for each of the other processes, and never with a single process    *)
(* (tts.py:131-133, stt.py:82-84, jobs.py:27).                             *)
AnswersNeverGoBack ==
  [][\A u \in Poller :
       Answered(u) /\ Answered(u)' /\ seen'[u].kind = seen[u].kind
                   /\ follows'[u] = follows[u] =>
         /\ Rank(seen[u].status) <= Rank(seen'[u].status)
         /\ Outcome(u) => seen'[u] = seen[u]
         /\ seen'[u].status = "queued" =>
              seen'[u].position <= seen[u].position + Cardinality(Process) - 1]_vars

FollowsSettled(u) ==
  LET f == follows[u]
  IN /\ f # Nothing
     /\ f.type = "given"
     /\ owner[f.kind][f.job] = u
     /\ StatusOf(f.kind)[f.job] \in SettledStatus

(* A client that polls its job with ?type is answered with the outcome     *)
(* once there is one.                                                      *)
OutcomeArrives == \A u \in Poller : FollowsSettled(u) ~> Outcome(u)

(* tts.py:178, stt.py:117: "Poll GET /jobs/{job_id} for status.": whoever  *)
(* polls for a job they submitted is answered about that job.              *)
PollAnswersForTheSubmission ==
  \A u \in Poller :
    Answered(u) /\ owner[follows[u].kind][follows[u].job] = u => seen[u].kind = follows[u].kind
=============================================================================
