--------------------------- MODULE ConnectionPool ---------------------------
(* The connections of one gateway process (database.py) and who waits for  *)
(* them: dependencies and endpoints in FastAPI's thread pool, and handlers *)
(* that make their database calls on the event loop and block it.  A       *)
(* session takes a connection with its first statement and gives it back   *)
(* with a commit, a rollback or its close, so that a request may hold one  *)
(* while it waits for a thread or for the loop.                            *)
EXTENDS Naturals, FiniteSets

CONSTANTS
  PoolSize,         \* db_pool_size and db_max_overflow together
  MaxThreads,       \* threads of the limiter (40)
  MaxRequests,      \* bound: how many requests come in
  MaxTransactions   \* bound: how many transactions an endpoint makes

ASSUME PoolAssumption ==
  /\ PoolSize \in Nat \ {0} /\ MaxThreads \in Nat \ {0}
  /\ MaxRequests \in Nat /\ MaxTransactions \in Nat \ {0}

VARIABLES
  call,      \* where each request is
  held,      \* the connections that are out: a request and its session
  threads,   \* the requests that have a thread
  loop,      \* the request whose code blocks the event loop, or None
  lock       \* the request whose transaction has written a row all write, or None

vars == <<call, held, threads, loop, lock>>

Request == 1 .. MaxRequests
None == 0

(* account: /signup, /verify-otp, /login, /ready.  key: /conversations,    *)
(* /profile and /jobs.  submit: /text-to-speech and /speech-to-text.       *)
(* chat: the routes under /api and /v1.  socket: /ws/translate and         *)
(* /ws/voice-translate.                                                    *)
Kind == {"none", "account", "key", "submit", "chat", "socket"}

(* A request is in a dependency, in its endpoint, in the validation of the *)
(* answer, in what is done after the answer, or in an exception handler.   *)
Section == {"none", "auth", "endpoint", "reply", "after", "log"}
Stage == {"idle", "queued", "checkout", "query", "commit", "ready", "closing",
          "closed", "done"}

Call == [kind : Kind, section : Section, stage : Stage,
         todo : 0 .. MaxTransactions, failed : BOOLEAN]

At(r, stage) == call[r].stage = stage

(* get_db's session, or one that the code opens and closes itself. *)
Session(r) ==
  IF call[r].section \in {"after", "log"} \/ call[r].kind = "socket"
  THEN "own" ELSE "request"

Holds(r) == <<r, Session(r)>> \in held
Released(r) == held \ {<<r, Session(r)>>}
Unlocked(r) == IF lock = r THEN None ELSE lock
Unblocked(r) == IF loop = r THEN None ELSE loop
Exhausted == Cardinality(held) >= PoolSize

Idle == [kind |-> "none", section |-> "none", stage |-> "idle", todo |-> 0,
         failed |-> FALSE]

Init ==
  /\ call = [r \in Request |-> Idle]
  /\ held = {} /\ threads = {}
  /\ loop = None /\ lock = None

Goto(r, stage) == call' = [call EXCEPT ![r].stage = stage]
End(r) == call' = [call EXCEPT ![r] = [Idle EXCEPT !.stage = "done"]]

(* The endpoint is over; a failure is all the same whatever it was. *)
Leave(r, failed) ==
  call' = [call EXCEPT ![r].kind = IF failed THEN "none" ELSE @,
             ![r].section = "endpoint", ![r].stage = "closing", ![r].todo = 0,
             ![r].failed = failed]

(* A session with a connection goes on with it. *)
Connect(r) == IF Holds(r) THEN "query" ELSE "checkout"

-----------------------------------------------------------------------------
(* A request comes in.  The keys of web sockets are checked on the loop;   *)
(* one that is cached, and routes that need no key, need no connection.    *)
Arrive(r) ==
  /\ At(r, "idle") /\ \A q \in 1 .. r - 1 : ~ At(q, "idle")
  /\ loop = None
  /\ \/ /\ call' = [call EXCEPT ![r].kind = "account", ![r].section = "endpoint",
                                ![r].stage = "queued", ![r].todo = MaxTransactions]
        /\ UNCHANGED loop
     \/ /\ \E k \in {"key", "submit", "chat"} :
             call' = [call EXCEPT ![r].kind = k, ![r].section = "auth",
                                  ![r].stage = "queued", ![r].todo = 1]
        /\ UNCHANGED loop
     \/ /\ call' = [call EXCEPT ![r].kind = "socket", ![r].section = "auth",
                                ![r].stage = "checkout", ![r].todo = 1]
        /\ loop' = r
  /\ UNCHANGED <<held, threads, lock>>

(* A sync function gets a thread.  A dependency needs no connection if the *)
(* key is cached, or if there is no key or token to look up; nor does an   *)
(* answer that has all it needs.                                           *)
Start(r) ==
  /\ At(r, "queued")
  /\ loop = None /\ Cardinality(threads) < MaxThreads
  /\ threads' = threads \cup {r}
  /\ \/ Goto(r, Connect(r))
     \/ /\ call[r].section = "auth"
        /\ \E f \in BOOLEAN :
             call' = [call EXCEPT ![r].stage = "ready", ![r].todo = 0, ![r].failed = f]
     \/ /\ call[r].section = "reply"
        /\ call' = [call EXCEPT ![r].stage = "ready", ![r].todo = 0]
  /\ UNCHANGED <<held, loop, lock>>

-----------------------------------------------------------------------------
(* The database calls: in a thread, or on the loop, which is blocked.      *)

CheckOut(r) ==
  /\ At(r, "checkout") /\ ~ Exhausted
  /\ held' = held \cup {<<r, Session(r)>>}
  /\ Goto(r, "query")
  /\ UNCHANGED <<threads, loop, lock>>

(* The code of an own session that runs on the loop is over: it is closed  *)
(* at once, and what has gone wrong is swallowed.                          *)
OverOnLoop(r) == loop = r /\ Session(r) = "own"

(* An error leaves the function; the connection stays with the session.    *)
Raise(r) ==
  /\ call' = [call EXCEPT ![r].stage = "ready", ![r].todo = 0, ![r].failed = TRUE]
  /\ loop' = Unblocked(r)
  /\ UNCHANGED held

(* "except Exception" in /text-to-speech and /speech-to-text: a rollback,  *)
(* and one more transaction to mark the job as failed.                     *)
Recover(r) ==
  /\ call[r].kind = "submit" /\ call[r].section = "endpoint" /\ ~ call[r].failed
  /\ call' = [call EXCEPT ![r].stage = "checkout", ![r].todo = 1, ![r].failed = TRUE]
  /\ held' = Released(r)
  /\ UNCHANGED loop

(* mutant: whoever gets no connection in time tries again. *)
RetryCheckOut(r) ==
  /\ At(r, "checkout") /\ Exhausted
  /\ UNCHANGED vars

(* No connection comes back within the 30 seconds of the pool. *)
TimeOut(r) ==
  /\ At(r, "checkout") /\ Exhausted
  /\ IF OverOnLoop(r)
     THEN End(r) /\ loop' = None /\ UNCHANGED held
     ELSE Raise(r) \/ Recover(r)
  /\ UNCHANGED <<threads, lock>>

(* What answers a request or follows the answer may write; a dependency and *)
(* the validation of an answer only read.                                   *)
Writes(r) == call[r].section \in {"endpoint", "after", "log"}

(* The statement that writes waits for the row.  A flush comes with the    *)
(* commit, or in the same stretch of code.                                 *)
Write(r) ==
  /\ At(r, "query") /\ Writes(r) /\ lock = None
  /\ lock' = r
  /\ Goto(r, "commit")
  /\ UNCHANGED <<held, threads, loop>>

(* A commit, or the close of an own session.  The code may go on with its  *)
(* next transaction at once, a refresh of what it has committed, say.      *)
Commit(r) ==
  /\ At(r, "query") \/ At(r, "commit")
  /\ Writes(r) \/ Session(r) = "own"
  /\ held' = Released(r)
  /\ lock' = Unlocked(r)
  /\ \/ OverOnLoop(r) /\ End(r) /\ loop' = None
     \/ /\ ~ OverOnLoop(r)
        /\ call' = [call EXCEPT ![r].stage = "ready",
                                ![r].todo = IF r \in threads THEN 0 ELSE @ - 1]
        /\ loop' = Unblocked(r)
     \/ /\ call[r].todo > 1
        /\ call' = [call EXCEPT ![r].stage = "checkout", ![r].todo = @ - 1]
        /\ UNCHANGED loop
  /\ UNCHANGED threads

(* mutant: what is written is left to be committed when the session ends. *)
FinishUncommitted(r) ==
  /\ At(r, "query") \/ At(r, "commit")
  /\ Session(r) = "request"
  /\ call' = [call EXCEPT ![r].stage = "ready", ![r].todo = 0]
  /\ loop' = Unblocked(r)
  /\ UNCHANGED <<held, threads, lock>>

(* The code has only read, and ends or awaits: the connection stays with   *)
(* the session.                                                            *)
Finish(r) ==
  /\ At(r, "query") /\ Session(r) = "request"
  /\ call' = [call EXCEPT ![r].stage = "ready", ![r].todo = 0]
  /\ loop' = Unblocked(r)
  /\ UNCHANGED <<held, threads, lock>>

(* A statement fails, or the code raises, for a 404 say.  PostgreSQL gives *)
(* up the locks of a transaction as soon as it fails.                      *)
Fail(r) ==
  /\ At(r, "query") \/ At(r, "commit")
  /\ Session(r) = "request"
  /\ Raise(r) \/ Recover(r)
  /\ lock' = Unlocked(r)
  /\ UNCHANGED threads

-----------------------------------------------------------------------------
(* The event loop takes over again, when it is free: a thread has returned *)
(* or what was awaited is there.                                           *)

Takes(r) ==
  /\ At(r, "ready") /\ loop = None
  /\ threads' = threads \ {r}
  /\ UNCHANGED <<held, lock>>

(* mutant: get_db without a finally. *)
CloseUnlessFailed(r) ==
  /\ At(r, "closing")
  /\ held' = IF call[r].failed THEN held ELSE Released(r)
  /\ lock' = Unlocked(r)
  /\ Goto(r, "closed")
  /\ UNCHANGED <<threads, loop>>

(* The exit of get_db, on a thread that is not one of the limiter's; what  *)
(* is not committed is rolled back.                                        *)
Close(r) ==
  /\ At(r, "closing")
  /\ held' = Released(r)
  /\ lock' = Unlocked(r)
  /\ Goto(r, "closed")
  /\ UNCHANGED <<threads, loop>>

LeaveDependency(r) ==
  /\ Takes(r) /\ call[r].section = "auth"
  /\ IF call[r].failed
     THEN Leave(r, TRUE)
     ELSE call' = [call EXCEPT ![r].section = "endpoint",
            ![r].stage = IF call[r].kind = "key" THEN "queued" ELSE "ready",
            ![r].todo = IF call[r].kind = "chat" THEN 0 ELSE MaxTransactions]
  /\ UNCHANGED loop

(* mutant: an endpoint goes on although all is done. *)
ContinueUncounted(r) ==
  /\ Takes(r) /\ call[r].section = "endpoint" /\ call[r].kind \in {"submit", "chat"}
  /\ \/ Goto(r, Connect(r)) /\ loop' = r
     \/ \E f \in {call[r].failed, TRUE} : Leave(r, f) /\ UNCHANGED loop

(* An async endpoint goes on after an await: with its next transaction, or *)
(* to its end.  A chat only awaits the LLM service, and keeps what its     *)
(* dependency has left.                                                    *)
Continue(r) ==
  /\ Takes(r) /\ call[r].section = "endpoint" /\ call[r].kind \in {"submit", "chat"}
  /\ \/ call[r].todo > 0 /\ Goto(r, Connect(r)) /\ loop' = r
     \/ /\ \E f \in {call[r].failed, TRUE} : Leave(r, f)
        /\ UNCHANGED loop

(* A sync endpoint has returned: response_model is validated in a thread. *)
LeaveEndpoint(r) ==
  /\ Takes(r) /\ call[r].section = "endpoint"
  /\ call[r].kind \in {"account", "key"}
  /\ \/ Leave(r, call[r].failed)
     \/ /\ ~ call[r].failed
        /\ call' = [call EXCEPT ![r].section = "reply", ![r].stage = "queued",
                                ![r].todo = 1]
  /\ UNCHANGED loop

LeaveReply(r) ==
  /\ Takes(r) /\ call[r].section = "reply"
  /\ Leave(r, call[r].failed)
  /\ UNCHANGED loop

(* The session is closed.  A failure is logged on the loop before it is    *)
(* answered; an answer may leave work behind: the time of a login in a     *)
(* thread, or a chat that is saved when its stream has ended.              *)
Answer(r) ==
  /\ At(r, "closed") /\ loop = None
  /\ IF call[r].failed
     THEN /\ call' = [call EXCEPT ![r].section = "log", ![r].stage = "checkout",
                                  ![r].todo = 1]
          /\ loop' = r
     ELSE /\ \/ End(r)
             \/ /\ call[r].kind \in {"account", "chat"}
                /\ call' = [call EXCEPT ![r].section = "after",
                     ![r].stage = IF call[r].kind = "account" THEN "queued" ELSE "ready",
                     ![r].todo = 1]
          /\ UNCHANGED loop
  /\ UNCHANGED <<held, threads, lock>>

(* The stream of a chat has ended: _save_chat_messages, on the loop. *)
Save(r) ==
  /\ Takes(r) /\ call[r].section = "after" /\ call[r].kind = "chat"
  /\ Goto(r, "checkout")
  /\ loop' = r

(* _record_login_time has returned. *)
LeaveBackground(r) ==
  /\ Takes(r) /\ call[r].section = "after" /\ call[r].kind = "account"
  /\ End(r)
  /\ UNCHANGED loop

Proceed(r) ==
  \/ Start(r) \/ CheckOut(r) \/ TimeOut(r) \/ Write(r) \/ Commit(r) \/ Finish(r)
  \/ Fail(r) \/ Close(r) \/ LeaveDependency(r) \/ Continue(r) \/ LeaveEndpoint(r)
  \/ LeaveReply(r) \/ Answer(r) \/ Save(r) \/ LeaveBackground(r)

(* The only state in which nothing more happens. *)
Finished ==
  /\ \A r \in Request : At(r, "done")
  /\ UNCHANGED vars

Next == (\E r \in Request : Arrive(r) \/ Proceed(r)) \/ Finished

(* Threads, loop, database and LLM service go on, and the pool's wait ends. *)
Fairness == WF_vars(\E r \in Request : Proceed(r))

Spec == Init /\ [][Next]_vars /\ Fairness

-----------------------------------------------------------------------------
TypeOK ==
  /\ call \in [Request -> Call]
  /\ held \subseteq Request \X {"request", "own"}
  /\ threads \subseteq Request
  /\ loop \in Request \cup {None} /\ lock \in Request \cup {None}

(* "the request-scoped `db` is closed by FastAPI before this generator     *)
(* finishes" (chatbot.py:361-363): a request that waits for a connection   *)
(* has none, so that it never waits for itself, neither in a handler of    *)
(* its exception nor in what it does after its answer; and one that is     *)
(* over has neither a connection nor a thread, the loop or a lock.         *)
NobodyHoldsAndWaits ==
  \A r \in Request :
    /\ At(r, "checkout") \/ At(r, "done")
       => \A s \in {"request", "own"} : <<r, s>> \notin held
    /\ At(r, "done") => r \notin threads /\ loop # r /\ lock # r

Waiting(r) ==
  \/ At(r, "checkout") /\ Exhausted
  \/ At(r, "query") /\ Writes(r) /\ lock # None
  \/ At(r, "queued") /\ (loop # None \/ Cardinality(threads) >= MaxThreads)
  \/ (At(r, "ready") \/ At(r, "closed")) /\ loop # None

Pending == {r \in Request : ~ At(r, "idle") /\ ~ At(r, "done")}

(* "keeping it off the login critical path" (auth.py:113) and "never       *)
(* raises" (chatbot.py:156) only help if the gateway goes on: the requests *)
(* of a process all wait for each other only if the pool is exhausted, by  *)
(* requests that wait for a thread or for the loop, and one of them waits  *)
(* in the pool, which its timeout ends.  No request waits for a row that   *)
(* another has locked and cannot commit without a thread or the loop.      *)
StallsOnlyWhenExhausted ==
  Pending # {} /\ (\A r \in Pending : Waiting(r)) =>
    /\ Exhausted
    /\ \E r \in Pending : At(r, "checkout")
    /\ \A h \in held : At(h[1], "queued") \/ At(h[1], "ready")

(* Every request that comes in ends (requests come in a bounded number, so *)
(* it is enough that again and again none is pending), even when the pool  *)
(* is exhausted: its timeout (SQLAlchemy's default of 30 s, which          *)
(* database.py keeps) ends every stall, on the loop as well as in threads. *)
EveryRequestEnds ==
  []<>(Pending = {})
=============================================================================
