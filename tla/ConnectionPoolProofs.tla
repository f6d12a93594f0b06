------------------------ MODULE ConnectionPoolProofs ------------------------
(***************************************************************************)
(* What holds of ConnectionPool for any number of requests, threads and    *)
(* connections.  The pool's size matters to none of it: only that somebody *)
(* who waits for a connection waits because the pool is exhausted.         *)
(***************************************************************************)
EXTENDS ConnectionPool, FiniteSetTheorems, TLAPS

(* What is known of a request from where it is: who may have a thread, the *)
(* loop, the lock or a connection.                                         *)
Placed(r) ==
  /\ loop = r => call[r].stage \in {"checkout", "query", "commit"} /\ r \notin threads
  /\ r \in threads => call[r].stage \in {"checkout", "query", "commit", "ready"}
  /\ lock = r => call[r].stage = "commit"
  /\ <<r, "own">> \in held
     => Session(r) = "own" /\ call[r].stage \in {"query", "commit"}
  /\ <<r, "request">> \in held
     => /\ Session(r) = "request"
        /\ call[r].stage \in {"queued", "query", "commit", "ready", "closing"}

(* What is known of a call on its own, and of the ones made on the loop. *)
Sound(r) ==
  /\ call[r].kind = "socket" => loop = r /\ call[r].section = "auth"
  /\ call[r].kind = "chat" /\ call[r].section = "after"
     => call[r].todo > 0 /\ (call[r].stage = "ready" \/ loop = r)
  /\ call[r].stage \in {"queued", "checkout", "query", "commit"} => call[r].todo > 0

PoolInv == TypeOK /\ \A r \in Request : Placed(r) /\ Sound(r)

-----------------------------------------------------------------------------
(* A step of one request leaves what is known of the others alone. *)
LEMMA OthersStay ==
  ASSUME PoolInv, NEW r \in Request, NEW q \in Call,
         call' = [call EXCEPT ![r] = q],
         held' \in {held, Released(r), held \cup {<<r, Session(r)>>}},
         threads' \in {threads, threads \cup {r}, threads \ {r}},
         loop' = loop \/ {loop, loop'} \subseteq {r, None},
         lock' = lock \/ {lock, lock'} \subseteq {r, None},
         call' \in [Request -> Call] /\ call'[r] = q => Placed(r)' /\ Sound(r)'
  PROVE  PoolInv'
<1> USE PoolAssumption DEF PoolInv
<1>1. call' \in [Request -> Call] /\ call'[r] = q
  BY DEF TypeOK
<1>2. Session(r) \in {"request", "own"}
  BY DEF Session
<1>3. TypeOK'
  <2>1. held' \subseteq Request \X {"request", "own"}
    BY <1>2 DEF TypeOK, Released
  <2> QED
    BY <1>1, <2>1 DEF TypeOK
<1>4. ASSUME NEW s \in Request, s # r
      PROVE  Placed(s)' /\ Sound(s)'
  <2>1. call'[s] = call[s]
    BY <1>4 DEF TypeOK
  <2>2. s \in threads' <=> s \in threads
    BY <1>4
  <2>3. (loop' = s <=> loop = s) /\ (lock' = s <=> lock = s)
    BY <1>4 DEF None, Request
  <2>4. \A x \in {"request", "own"} : <<s, x>> \in held' <=> <<s, x>> \in held
    BY <1>4 DEF Released
  <2>5. Session(s)' = Session(s)
    BY <2>1 DEF Session
  <2> QED
    BY <2>1, <2>2, <2>3, <2>4, <2>5 DEF Placed, Sound
<1> QED
  BY <1>1, <1>3, <1>4

(* A call and its fields. *)
Reads(q, k, s, g, t) ==
  /\ q \in Call
  /\ q.kind = k /\ q.section = s /\ q.stage = g /\ q.todo = t

LEMMA FieldUpdates ==
  ASSUME NEW q, NEW k, NEW s, NEW g, NEW t, Reads(q, k, s, g, t)
  PROVE  /\ \A x \in Kind : Reads([q EXCEPT !.kind = x], x, s, g, t)
         /\ \A x \in Section : Reads([q EXCEPT !.section = x], k, x, g, t)
         /\ \A x \in Stage : Reads([q EXCEPT !.stage = x], k, s, x, t)
         /\ \A x \in 0 .. MaxTransactions :
              Reads([q EXCEPT !.todo = x], k, s, g, x)
         /\ \A x \in BOOLEAN : Reads([q EXCEPT !.failed = x], k, s, g, t)
<1> q \in Call
  BY DEF Reads
<1> QED
  BY DEF Reads, Call

LEMMA CallReads ==
  ASSUME TypeOK, NEW r \in Request
  PROVE  Reads(call[r], call[r].kind, call[r].section, call[r].stage,
               call[r].todo)
BY DEF Reads, TypeOK

LEMMA IdleReads == Reads(Idle, "none", "none", "idle", 0)
BY PoolAssumption DEF Reads, Idle, Call, Kind, Section, Stage

LEMMA Counts ==
  0 \in 0 .. MaxTransactions /\ 1 \in 0 .. MaxTransactions
  /\ MaxTransactions \in 0 .. MaxTransactions
BY PoolAssumption

(* Goto, End and Leave give the request one new call. *)
LEMMA GotoIsUpdate ==
  ASSUME TypeOK, NEW r \in Request, NEW s \in Stage, Goto(r, s)
  PROVE  \E q :
           /\ call' = [call EXCEPT ![r] = q]
           /\ Reads(q, call[r].kind, call[r].section, s, call[r].todo)
<1> DEFINE q == [call[r] EXCEPT !.stage = s]
<1>1. call' = [call EXCEPT ![r] = q]
  BY DEF Goto, TypeOK
<1>2. Reads(q, call[r].kind, call[r].section, s, call[r].todo)
  BY CallReads, FieldUpdates
<1> HIDE DEF q
<1> QED
  BY <1>1, <1>2

LEMMA EndIsUpdate ==
  ASSUME TypeOK, NEW r \in Request, End(r)
  PROVE  \E q : /\ call' = [call EXCEPT ![r] = q]
                /\ Reads(q, "none", "none", "done", 0)
<1> DEFINE q == [Idle EXCEPT !.stage = "done"]
<1>1. call' = [call EXCEPT ![r] = q]
  BY DEF End
<1>2. Reads(q, "none", "none", "done", 0)
  BY IdleReads, FieldUpdates DEF Stage
<1> HIDE DEF q
<1> QED
  BY <1>1, <1>2

LEMMA LeaveIsUpdate ==
  ASSUME TypeOK, NEW r \in Request, NEW failed \in BOOLEAN, Leave(r, failed)
  PROVE  \E q : /\ call' = [call EXCEPT ![r] = q]
                /\ \/ Reads(q, "none", "endpoint", "closing", 0)
                   \/ Reads(q, call[r].kind, "endpoint", "closing", 0)
<1> DEFINE k == IF failed THEN "none" ELSE call[r].kind
           q == [call[r] EXCEPT !.kind = k, !.section = "endpoint",
                                !.stage = "closing", !.todo = 0, !.failed = failed]
<1>1. call' = [call EXCEPT ![r] = q]
  BY DEF Leave, TypeOK
<1>2. k \in Kind /\ k \in {"none", call[r].kind}
  BY DEF TypeOK, Call, Kind
<1> HIDE DEF k
<1>3. Reads([call[r] EXCEPT !.kind = k], k, call[r].section, call[r].stage, call[r].todo)
  BY <1>2, CallReads, FieldUpdates
<1>4. Reads([call[r] EXCEPT !.kind = k, !.section = "endpoint"], k, "endpoint",
            call[r].stage, call[r].todo)
  BY <1>3, FieldUpdates DEF Section
<1>5. Reads([call[r] EXCEPT !.kind = k, !.section = "endpoint", !.stage = "closing"],
            k, "endpoint", "closing", call[r].todo)
  BY <1>4, FieldUpdates DEF Stage
<1>6. Reads([call[r] EXCEPT !.kind = k, !.section = "endpoint", !.stage = "closing",
                            !.todo = 0],
            k, "endpoint", "closing", 0)
  BY <1>5, FieldUpdates, Counts
<1>7. Reads(q, k, "endpoint", "closing", 0)
  BY <1>6, FieldUpdates
<1> HIDE DEF q
<1> QED
  BY <1>1, <1>2, <1>7

LEMMA OutcomeIsUpdate ==
  ASSUME TypeOK, NEW r \in Request, NEW g \in Stage, NEW t \in 0 .. MaxTransactions,
         NEW f \in BOOLEAN,
         call' = [call EXCEPT ![r].stage = g, ![r].todo = t, ![r].failed = f]
  PROVE  \E q : /\ call' = [call EXCEPT ![r] = q]
                /\ Reads(q, call[r].kind, call[r].section, g, t)
<1> DEFINE q == [call[r] EXCEPT !.stage = g, !.todo = t, !.failed = f]
<1>1. call' = [call EXCEPT ![r] = q]
  BY DEF TypeOK
<1>2. Reads([call[r] EXCEPT !.stage = g], call[r].kind, call[r].section, g,
            call[r].todo)
  BY CallReads, FieldUpdates
<1>3. Reads([call[r] EXCEPT !.stage = g, !.todo = t], call[r].kind,
            call[r].section, g, t)
  BY <1>2, FieldUpdates
<1>4. Reads(q, call[r].kind, call[r].section, g, t)
  BY <1>3, FieldUpdates
<1> HIDE DEF q
<1> QED
  BY <1>1, <1>4

(* Most actions give a request a new stage and a number of transactions. *)
LEMMA StageIsUpdate ==
  ASSUME TypeOK, NEW r \in Request, NEW g \in Stage, NEW t \in 0 .. MaxTransactions,
         call' = [call EXCEPT ![r].stage = g, ![r].todo = t]
  PROVE  \E q : /\ call' = [call EXCEPT ![r] = q]
                /\ Reads(q, call[r].kind, call[r].section, g, t)
<1> DEFINE q == [call[r] EXCEPT !.stage = g, !.todo = t]
<1>1. call' = [call EXCEPT ![r] = q]
  BY DEF TypeOK
<1>2. Reads([call[r] EXCEPT !.stage = g], call[r].kind, call[r].section, g,
            call[r].todo)
  BY CallReads, FieldUpdates
<1>3. Reads(q, call[r].kind, call[r].section, g, t)
  BY <1>2, FieldUpdates
<1> HIDE DEF q
<1> QED
  BY <1>1, <1>3

(* Others move a request to another section. *)
LEMMA SectionIsUpdate ==
  ASSUME TypeOK, NEW r \in Request, NEW s \in Section, NEW g \in Stage,
         NEW t \in 0 .. MaxTransactions,
         call' = [call EXCEPT ![r].section = s, ![r].stage = g, ![r].todo = t]
  PROVE  \E q : /\ call' = [call EXCEPT ![r] = q]
                /\ Reads(q, call[r].kind, s, g, t)
<1> DEFINE q == [call[r] EXCEPT !.section = s, !.stage = g, !.todo = t]
<1>1. call' = [call EXCEPT ![r] = q]
  BY DEF TypeOK
<1>2. Reads([call[r] EXCEPT !.section = s], call[r].kind, s, call[r].stage,
            call[r].todo)
  BY CallReads, FieldUpdates
<1>3. Reads([call[r] EXCEPT !.section = s, !.stage = g], call[r].kind, s, g,
            call[r].todo)
  BY <1>2, FieldUpdates
<1>4. Reads(q, call[r].kind, s, g, t)
  BY <1>3, FieldUpdates
<1> HIDE DEF q
<1> QED
  BY <1>1, <1>4

(* A request that comes in has a kind of its own. *)
LEMMA KindIsUpdate ==
  ASSUME TypeOK, NEW r \in Request, NEW k \in Kind, NEW s \in Section,
         NEW g \in Stage, NEW t \in 0 .. MaxTransactions,
         call' = [call EXCEPT ![r].kind = k, ![r].section = s, ![r].stage = g,
                              ![r].todo = t]
  PROVE  \E q : call' = [call EXCEPT ![r] = q] /\ Reads(q, k, s, g, t)
<1> DEFINE q == [call[r] EXCEPT !.kind = k, !.section = s, !.stage = g, !.todo = t]
<1>1. call' = [call EXCEPT ![r] = q]
  BY DEF TypeOK
<1>2. Reads([call[r] EXCEPT !.kind = k], k, call[r].section, call[r].stage,
            call[r].todo)
  BY CallReads, FieldUpdates
<1>3. Reads([call[r] EXCEPT !.kind = k, !.section = s], k, s, call[r].stage,
            call[r].todo)
  BY <1>2, FieldUpdates
<1>4. Reads([call[r] EXCEPT !.kind = k, !.section = s, !.stage = g], k, s, g,
            call[r].todo)
  BY <1>3, FieldUpdates
<1>5. Reads(q, k, s, g, t)
  BY <1>4, FieldUpdates
<1> HIDE DEF q
<1> QED
  BY <1>1, <1>5

-----------------------------------------------------------------------------
(* A request's new call is sound and keeps its place: one step per action. *)

LEMMA ArriveKeeps ==
  ASSUME PoolInv, NEW r \in Request, Arrive(r)
  PROVE  PoolInv'
<1> USE DEF PoolInv
<1>1. /\ loop = None /\ None # r
      /\ held' = held /\ threads' = threads /\ lock' = lock
      /\ lock # r /\ r \notin threads
      /\ \A x \in {"request", "own"} : <<r, x>> \notin held
  BY DEF Arrive, At, Placed, None, Request
<1> DEFINE New(q) ==
      /\ q \in Call /\ q.todo > 0
      /\ \/ /\ q.kind \in {"account", "key", "submit", "chat"}
            /\ q.section \in {"auth", "endpoint"} /\ q.stage = "queued"
            /\ loop' = loop
         \/ /\ q.kind = "socket" /\ q.section = "auth" /\ q.stage = "checkout"
            /\ loop' = r
<1>2. \E q : call' = [call EXCEPT ![r] = q] /\ New(q)
  <2>1. /\ {"account", "key", "submit", "chat", "socket"} \subseteq Kind
        /\ {"auth", "endpoint"} \subseteq Section
        /\ {"queued", "checkout"} \subseteq Stage
    BY DEF Kind, Section, Stage
  <2>2. CASE /\ call' = [call EXCEPT ![r].kind = "account", ![r].section = "endpoint",
                                     ![r].stage = "queued", ![r].todo = MaxTransactions]
             /\ UNCHANGED loop
    <3>1. PICK q : /\ call' = [call EXCEPT ![r] = q]
                   /\ Reads(q, "account", "endpoint", "queued", MaxTransactions)
      BY <2>1, <2>2, KindIsUpdate, Counts
    <3>2. New(q)
      BY <2>2, <3>1, PoolAssumption DEF Reads
    <3> QED
      BY <3>1, <3>2
  <2>3. ASSUME NEW k \in {"key", "submit", "chat"}, UNCHANGED loop,
               call' = [call EXCEPT ![r].kind = k, ![r].section = "auth",
                                    ![r].stage = "queued", ![r].todo = 1]
        PROVE  \E q : /\ call' = [call EXCEPT ![r] = q]
                      /\ Reads(q, k, "auth", "queued", 1)
    <3>1. k \in Kind
      BY <2>1
    <3> QED
      BY <2>1, <2>3, <3>1, KindIsUpdate, Counts
  <2>4. CASE /\ call' = [call EXCEPT ![r].kind = "socket", ![r].section = "auth",
                                     ![r].stage = "checkout", ![r].todo = 1]
             /\ loop' = r
    <3>1. PICK q : /\ call' = [call EXCEPT ![r] = q]
                   /\ Reads(q, "socket", "auth", "checkout", 1)
      BY <2>1, <2>4, KindIsUpdate, Counts
    <3>2. New(q)
      BY <2>4, <3>1 DEF Reads
    <3> QED
      BY <3>1, <3>2
  <2>5. CASE /\ \E k \in {"key", "submit", "chat"} :
                  call' = [call EXCEPT ![r].kind = k, ![r].section = "auth",
                                       ![r].stage = "queued", ![r].todo = 1]
             /\ UNCHANGED loop
    <3>1. PICK k \in {"key", "submit", "chat"} :
            call' = [call EXCEPT ![r].kind = k, ![r].section = "auth",
                                 ![r].stage = "queued", ![r].todo = 1]
      BY <2>5
    <3>2. PICK q : /\ call' = [call EXCEPT ![r] = q]
                   /\ Reads(q, k, "auth", "queued", 1)
      BY <2>3, <2>5, <3>1
    <3>3. New(q)
      BY <2>5, <3>2 DEF Reads
    <3> QED
      BY <3>2, <3>3
  <2> QED
    BY <2>2, <2>4, <2>5 DEF Arrive
<1>3. PICK q : call' = [call EXCEPT ![r] = q] /\ New(q)
  BY <1>2
<1>4. ASSUME call' \in [Request -> Call], call'[r] = q
      PROVE  Placed(r)' /\ Sound(r)'
  BY <1>1, <1>3, <1>4 DEF Placed, Sound, Session
<1> QED
  BY <1>1, <1>3, <1>4, OthersStay

LEMMA CheckOutKeeps ==
  ASSUME PoolInv, NEW r \in Request, CheckOut(r)
  PROVE  PoolInv'
<1> USE DEF PoolInv
<1>1. PICK q : /\ call' = [call EXCEPT ![r] = q]
               /\ Reads(q, call[r].kind, call[r].section, "query", call[r].todo)
  BY GotoIsUpdate DEF CheckOut, Stage
<1>2. Placed(r) /\ Sound(r) /\ call[r].stage = "checkout"
      /\ held' = held \cup {<<r, Session(r)>>}
      /\ threads' = threads /\ loop' = loop /\ lock' = lock
  BY DEF CheckOut, At
<1>3. ASSUME call' \in [Request -> Call], call'[r] = q
      PROVE  Placed(r)' /\ Sound(r)'
  <2>1. Session(r)' = Session(r)
    BY <1>1, <1>3 DEF Session, Reads
  <2> QED
    BY <1>1, <1>2, <1>3, <2>1 DEF Placed, Sound, Reads
<1> QED
  BY <1>1, <1>2, <1>3, OthersStay DEF Reads

LEMMA WriteKeeps ==
  ASSUME PoolInv, NEW r \in Request, Write(r)
  PROVE  PoolInv'
<1> USE DEF PoolInv
<1>1. PICK q : /\ call' = [call EXCEPT ![r] = q]
               /\ Reads(q, call[r].kind, call[r].section, "commit", call[r].todo)
  BY GotoIsUpdate DEF Write, Stage
<1>2. Placed(r) /\ Sound(r) /\ call[r].stage = "query" /\ lock = None
      /\ held' = held /\ threads' = threads /\ loop' = loop /\ lock' = r
  BY DEF Write, At
<1>3. ASSUME call' \in [Request -> Call], call'[r] = q
      PROVE  Placed(r)' /\ Sound(r)'
  <2>1. Session(r)' = Session(r)
    BY <1>1, <1>3 DEF Session, Reads
  <2> QED
    BY <1>1, <1>2, <1>3, <2>1 DEF Placed, Sound, Reads
<1> QED
  BY <1>1, <1>2, <1>3, OthersStay DEF Reads
LEMMA StageNames ==
  /\ {"queued", "checkout", "query", "commit", "ready", "closing", "closed", "done"}
     \subseteq Stage
  /\ {"auth", "endpoint", "reply", "after", "log"} \subseteq Section
BY DEF Stage, Section

LEMMA StartKeeps ==
  ASSUME PoolInv, NEW r \in Request, Start(r)
  PROVE  PoolInv'
<1> USE DEF PoolInv
<1> DEFINE New(q) ==
      /\ q \in Call /\ q.kind = call[r].kind /\ q.section = call[r].section
      /\ \/ q.stage = Connect(r) /\ q.todo = call[r].todo
         \/ q.stage = "ready" /\ call[r].section \in {"auth", "reply"}
<1>1. Placed(r) /\ Sound(r) /\ call[r].stage = "queued" /\ loop = None /\ None # r
      /\ held' = held /\ threads' = threads \cup {r} /\ loop' = loop /\ lock' = lock
  BY DEF Start, At, None, Request
<1>2. \E q : call' = [call EXCEPT ![r] = q] /\ New(q)
  <2>1. CASE Goto(r, Connect(r))
    <3>1. Connect(r) \in Stage
      BY DEF Connect, Stage
    <3>2. PICK q : /\ call' = [call EXCEPT ![r] = q]
                   /\ Reads(q, call[r].kind, call[r].section, Connect(r), call[r].todo)
      BY <2>1, <3>1, GotoIsUpdate
    <3> QED
      BY <3>2 DEF Reads
  <2>2. CASE /\ call[r].section = "auth"
             /\ \E f \in BOOLEAN :
                  call' = [call EXCEPT ![r].stage = "ready", ![r].todo = 0,
                                       ![r].failed = f]
    <3>1. PICK f \in BOOLEAN :
            call' = [call EXCEPT ![r].stage = "ready", ![r].todo = 0, ![r].failed = f]
      BY <2>2
    <3>2. PICK q : /\ call' = [call EXCEPT ![r] = q]
                   /\ Reads(q, call[r].kind, call[r].section, "ready", 0)
      BY <3>1, OutcomeIsUpdate, Counts, StageNames
    <3> QED
      BY <2>2, <3>2 DEF Reads
  <2>3. CASE /\ call[r].section = "reply"
             /\ call' = [call EXCEPT ![r].stage = "ready", ![r].todo = 0]
    <3>1. PICK q : /\ call' = [call EXCEPT ![r] = q]
                   /\ Reads(q, call[r].kind, call[r].section, "ready", 0)
      BY <2>3, StageIsUpdate, Counts, StageNames
    <3> QED
      BY <2>3, <3>1 DEF Reads
  <2> QED
    BY <2>1, <2>2, <2>3 DEF Start
<1>3. PICK q : call' = [call EXCEPT ![r] = q] /\ New(q)
  BY <1>2
<1>4. ASSUME call' \in [Request -> Call], call'[r] = q
      PROVE  Placed(r)' /\ Sound(r)'
  <2>1. Session(r)' = Session(r)
    BY <1>3, <1>4 DEF Session
  <2> QED
    BY <1>1, <1>3, <1>4, <2>1 DEF Placed, Sound, Connect, Holds
<1> QED
  BY <1>1, <1>3, <1>4, OthersStay

(* An error: the request goes on to be answered, or to mark its job. *)
LEMMA RaiseKeeps ==
  ASSUME PoolInv, NEW r \in Request, Raise(r) \/ Recover(r),
         call[r].stage \in {"checkout", "query", "commit"}, ~ OverOnLoop(r),
         <<r, "own">> \notin held, threads' = threads, lock' = Unlocked(r)
  PROVE  PoolInv'
<1> USE DEF PoolInv
<1> DEFINE New(q) ==
      /\ q \in Call /\ q.kind = call[r].kind /\ q.section = call[r].section
      /\ \/ q.stage = "ready" /\ loop' = Unblocked(r) /\ held' = held
         \/ q.stage = "checkout" /\ q.todo = 1 /\ loop' = loop /\ held' = Released(r)
            /\ call[r].kind = "submit" /\ call[r].section = "endpoint"
<1>1. Placed(r) /\ Sound(r) /\ None # r
      /\ (lock' = None \/ lock' = lock) /\ lock' # r
  BY DEF None, Request, Unlocked
<1>2. \E q : call' = [call EXCEPT ![r] = q] /\ New(q)
  <2>1. CASE Raise(r)
    <3>1. PICK q : /\ call' = [call EXCEPT ![r] = q]
                   /\ Reads(q, call[r].kind, call[r].section, "ready", 0)
      BY <2>1, OutcomeIsUpdate, Counts, StageNames DEF Raise
    <3> QED
      BY <2>1, <3>1 DEF Reads, Raise
  <2>2. CASE Recover(r)
    <3>1. PICK q : /\ call' = [call EXCEPT ![r] = q]
                   /\ Reads(q, call[r].kind, call[r].section, "checkout", 1)
      BY <2>2, OutcomeIsUpdate, Counts, StageNames DEF Recover
    <3> QED
      BY <2>2, <3>1 DEF Reads, Recover
  <2> QED
    BY <2>1, <2>2
<1>3. PICK q : call' = [call EXCEPT ![r] = q] /\ New(q)
  BY <1>2
<1>4. ASSUME call' \in [Request -> Call], call'[r] = q
      PROVE  Placed(r)' /\ Sound(r)'
  <2>1. Session(r)' = Session(r)
    BY <1>3, <1>4 DEF Session
  <2>2. ~ (loop = r /\ Session(r) = "own")
    BY DEF OverOnLoop
  <2> QED
    BY <1>1, <1>3, <1>4, <2>1, <2>2 DEF Placed, Sound, Released, Unblocked, Session
<1> QED
  BY <1>1, <1>3, <1>4, OthersStay DEF Unblocked, Unlocked

LEMMA TimeOutKeeps ==
  ASSUME PoolInv, NEW r \in Request, TimeOut(r)
  PROVE  PoolInv'
<1> USE DEF PoolInv
<1>1. Placed(r) /\ Sound(r) /\ call[r].stage = "checkout" /\ None # r /\ lock # r
      /\ threads' = threads /\ lock' = lock
      /\ \A x \in {"request", "own"} : <<r, x>> \notin held
  BY DEF TimeOut, At, Placed, None, Request
<1>2. CASE OverOnLoop(r)
  <2>1. End(r) /\ loop' = None /\ held' = held /\ loop = r
    BY <1>2 DEF TimeOut, OverOnLoop
  <2>2. PICK q : /\ call' = [call EXCEPT ![r] = q]
                 /\ Reads(q, "none", "none", "done", 0)
    BY <2>1, EndIsUpdate
  <2>3. ASSUME call' \in [Request -> Call], call'[r] = q
        PROVE  Placed(r)' /\ Sound(r)'
    BY <1>1, <2>1, <2>2, <2>3 DEF Placed, Sound, Reads
  <2> QED
    BY <1>1, <2>1, <2>2, <2>3, OthersStay DEF Reads
<1>3. CASE ~ OverOnLoop(r)
  BY <1>1, <1>3, RaiseKeeps DEF TimeOut, Unlocked
<1> QED
  BY <1>2, <1>3

LEMMA FailKeeps ==
  ASSUME PoolInv, NEW r \in Request, Fail(r)
  PROVE  PoolInv'
<1> USE DEF PoolInv
<1>1. Placed(r) /\ call[r].stage \in {"query", "commit"} /\ Session(r) = "request"
      /\ threads' = threads /\ lock' = Unlocked(r) /\ (Raise(r) \/ Recover(r))
  BY DEF Fail, At
<1>2. <<r, "own">> \notin held /\ ~ OverOnLoop(r)
  BY <1>1 DEF Placed, OverOnLoop
<1> QED
  BY <1>1, <1>2, RaiseKeeps

LEMMA CommitKeeps ==
  ASSUME PoolInv, NEW r \in Request, Commit(r)
  PROVE  PoolInv'
<1> USE PoolAssumption DEF PoolInv
<1> DEFINE New(q) ==
      /\ q \in Call
      /\ \/ OverOnLoop(r) /\ loop' = None /\ q.stage = "done" /\ q.kind = "none"
         \/ /\ ~ OverOnLoop(r) /\ loop' = Unblocked(r) /\ q.stage = "ready"
            /\ q.kind = call[r].kind /\ q.section = call[r].section
         \/ /\ loop' = loop /\ q.stage = "checkout" /\ q.todo > 0
            /\ q.kind = call[r].kind /\ q.section = call[r].section
<1>1. Placed(r) /\ Sound(r) /\ call[r].stage \in {"query", "commit"} /\ None # r
      /\ held' = Released(r) /\ threads' = threads /\ lock' = Unlocked(r)
  BY DEF Commit, At, None, Request
<1>2. call[r].todo \in 1 .. MaxTransactions /\ call[r].todo - 1 \in 0 .. MaxTransactions
  BY <1>1 DEF Sound, TypeOK, Call
<1>3. \E q : call' = [call EXCEPT ![r] = q] /\ New(q)
  <2>1. CASE OverOnLoop(r) /\ End(r) /\ loop' = None
    <3>1. PICK q : /\ call' = [call EXCEPT ![r] = q]
                   /\ Reads(q, "none", "none", "done", 0)
      BY <2>1, EndIsUpdate
    <3> QED
      BY <2>1, <3>1 DEF Reads
  <2>2. CASE /\ ~ OverOnLoop(r)
             /\ call' = [call EXCEPT ![r].stage = "ready",
                                     ![r].todo = IF r \in threads THEN 0 ELSE @ - 1]
             /\ loop' = Unblocked(r)
    <3> DEFINE t == IF r \in threads THEN 0 ELSE call[r].todo - 1
    <3>1. t \in 0 .. MaxTransactions
      BY <1>2, Counts
    <3>2. call' = [call EXCEPT ![r].stage = "ready", ![r].todo = t]
      BY <2>2 DEF TypeOK
    <3> HIDE DEF t
    <3>3. PICK q : /\ call' = [call EXCEPT ![r] = q]
                   /\ Reads(q, call[r].kind, call[r].section, "ready", t)
      BY <3>1, <3>2, StageIsUpdate, StageNames
    <3> QED
      BY <2>2, <3>3 DEF Reads
  <2>3. CASE /\ call[r].todo > 1
             /\ call' = [call EXCEPT ![r].stage = "checkout", ![r].todo = @ - 1]
             /\ UNCHANGED loop
    <3> DEFINE t == call[r].todo - 1
    <3>1. t \in 0 .. MaxTransactions /\ t > 0
      BY <1>2, <2>3
    <3>2. call' = [call EXCEPT ![r].stage = "checkout", ![r].todo = t]
      BY <2>3 DEF TypeOK
    <3> HIDE DEF t
    <3>3. PICK q : /\ call' = [call EXCEPT ![r] = q]
                   /\ Reads(q, call[r].kind, call[r].section, "checkout", t)
      BY <3>1, <3>2, StageIsUpdate, StageNames
    <3> QED
      BY <2>3, <3>1, <3>3 DEF Reads
  <2> QED
    BY <2>1, <2>2, <2>3 DEF Commit
<1>4. PICK q : call' = [call EXCEPT ![r] = q] /\ New(q)
  BY <1>3
<1>5. /\ \A x \in {"request", "own"} : <<r, x>> \notin held'
      /\ lock' # r /\ (lock' = lock \/ {lock, lock'} \subseteq {r, None})
      /\ (loop' = loop \/ {loop, loop'} \subseteq {r, None})
  BY <1>1, <1>4 DEF Placed, Released, Unlocked, Unblocked, OverOnLoop
<1>6. ASSUME call' \in [Request -> Call], call'[r] = q
      PROVE  Placed(r)' /\ Sound(r)'
  BY <1>1, <1>4, <1>5, <1>6
     DEF Placed, Sound, Unblocked, OverOnLoop, Session
<1> QED
  BY <1>1, <1>4, <1>5, <1>6, OthersStay

LEMMA FinishKeeps ==
  ASSUME PoolInv, NEW r \in Request, Finish(r)
  PROVE  PoolInv'
<1> USE DEF PoolInv
<1>1. Placed(r) /\ Sound(r) /\ call[r].stage = "query" /\ Session(r) = "request"
      /\ held' = held /\ threads' = threads /\ lock' = lock
      /\ loop' = Unblocked(r) /\ None # r
  BY DEF Finish, At, None, Request
<1>2. PICK q : /\ call' = [call EXCEPT ![r] = q]
               /\ Reads(q, call[r].kind, call[r].section, "ready", 0)
  BY StageIsUpdate, Counts, StageNames DEF Finish
<1>3. ASSUME call' \in [Request -> Call], call'[r] = q
      PROVE  Placed(r)' /\ Sound(r)'
  <2>1. Session(r)' = Session(r)
    BY <1>2, <1>3 DEF Session, Reads
  <2> QED
    BY <1>1, <1>2, <1>3, <2>1 DEF Placed, Sound, Reads, Unblocked, Session
<1> QED
  BY <1>1, <1>2, <1>3, OthersStay DEF Reads, Unblocked

LEMMA CloseKeeps ==
  ASSUME PoolInv, NEW r \in Request, Close(r)
  PROVE  PoolInv'
<1> USE DEF PoolInv
<1>1. Placed(r) /\ Sound(r) /\ call[r].stage = "closing" /\ None # r
      /\ held' = Released(r) /\ threads' = threads /\ lock' = Unlocked(r)
      /\ loop' = loop
  BY DEF Close, At, None, Request
<1>2. PICK q : /\ call' = [call EXCEPT ![r] = q]
               /\ Reads(q, call[r].kind, call[r].section, "closed", call[r].todo)
  BY GotoIsUpdate, StageNames DEF Close
<1>3. ASSUME call' \in [Request -> Call], call'[r] = q
      PROVE  Placed(r)' /\ Sound(r)'
  BY <1>1, <1>2, <1>3 DEF Placed, Sound, Reads, Released, Unlocked
<1> QED
  BY <1>1, <1>2, <1>3, OthersStay DEF Reads, Unlocked

-----------------------------------------------------------------------------
(* The steps of the event loop: it is free, and the request has neither a  *)
(* thread nor a lock when they are over.                                   *)

LEMMA TakesPlaced ==
  ASSUME PoolInv, NEW r \in Request, Takes(r)
  PROVE  /\ Placed(r) /\ Sound(r) /\ call[r].stage = "ready"
         /\ loop = None /\ None # r /\ lock # r
         /\ held' = held /\ threads' = threads \ {r} /\ lock' = lock
         /\ <<r, "own">> \notin held /\ call[r].kind # "socket"
BY DEF PoolInv, Takes, At, Placed, Sound, None, Request

(* Whoever leaves its endpoint keeps its connection, to be closed. *)
LEMMA LeaveKeeps ==
  ASSUME PoolInv, NEW r \in Request, NEW failed \in BOOLEAN, Takes(r),
         Leave(r, failed), loop' = loop
  PROVE  PoolInv'
<1> USE DEF PoolInv
<1>1. PICK q : /\ call' = [call EXCEPT ![r] = q]
               /\ \/ Reads(q, "none", "endpoint", "closing", 0)
                  \/ Reads(q, call[r].kind, "endpoint", "closing", 0)
  BY LeaveIsUpdate
<1>2. ASSUME call' \in [Request -> Call], call'[r] = q
      PROVE  Placed(r)' /\ Sound(r)'
  <2>1. Session(r)' = "request"
    BY <1>1, <1>2, TakesPlaced DEF Session, Reads
  <2> QED
    BY <1>1, <1>2, <2>1, TakesPlaced DEF Placed, Sound, Reads
<1> QED
  BY <1>1, <1>2, TakesPlaced, OthersStay DEF Reads

LEMMA LeaveDependencyKeeps ==
  ASSUME PoolInv, NEW r \in Request, LeaveDependency(r)
  PROVE  PoolInv'
<1> USE PoolAssumption DEF PoolInv
<1>1. Takes(r) /\ call[r].section = "auth" /\ loop' = loop
  BY DEF LeaveDependency
<1>2. CASE call[r].failed
  BY <1>1, <1>2, LeaveKeeps DEF LeaveDependency
<1>3. CASE ~ call[r].failed
  <2> DEFINE g == IF call[r].kind = "key" THEN "queued" ELSE "ready"
             t == IF call[r].kind = "chat" THEN 0 ELSE MaxTransactions
  <2>1. g \in Stage /\ t \in 0 .. MaxTransactions /\ (g = "queued" => t > 0)
        /\ g \in {"queued", "ready"}
    BY StageNames, Counts
  <2>2. call' = [call EXCEPT ![r].section = "endpoint", ![r].stage = g, ![r].todo = t]
    BY <1>3 DEF LeaveDependency
  <2> HIDE DEF g, t
  <2>3. PICK q : /\ call' = [call EXCEPT ![r] = q]
                 /\ Reads(q, call[r].kind, "endpoint", g, t)
    BY <2>1, <2>2, SectionIsUpdate, StageNames
  <2>4. ASSUME call' \in [Request -> Call], call'[r] = q
        PROVE  Placed(r)' /\ Sound(r)'
    <3>1. Session(r)' = "request"
      BY <1>1, <2>3, <2>4, TakesPlaced DEF Session, Reads
    <3> QED
      BY <1>1, <2>1, <2>3, <2>4, <3>1, TakesPlaced DEF Placed, Sound, Reads
  <2> QED
    BY <1>1, <2>3, <2>4, TakesPlaced, OthersStay DEF Reads
<1> QED
  BY <1>2, <1>3

LEMMA ContinueKeeps ==
  ASSUME PoolInv, NEW r \in Request, Continue(r)
  PROVE  PoolInv'
<1> USE DEF PoolInv
<1>1. Takes(r) /\ call[r].section = "endpoint"
  BY DEF Continue
<1>2. CASE call[r].todo > 0 /\ Goto(r, Connect(r)) /\ loop' = r
  <2>1. Connect(r) \in Stage /\ Connect(r) = (IF Holds(r) THEN "query" ELSE "checkout")
    BY DEF Connect, Stage
  <2>2. PICK q : /\ call' = [call EXCEPT ![r] = q]
                 /\ Reads(q, call[r].kind, call[r].section, Connect(r), call[r].todo)
    BY <1>2, <2>1, GotoIsUpdate
  <2>3. Session(r) = "request"
    BY <1>1, TakesPlaced DEF Session
  <2>4. ASSUME call' \in [Request -> Call], call'[r] = q
        PROVE  Placed(r)' /\ Sound(r)'
    <3>1. Session(r)' = "request"
      BY <2>2, <2>3, <2>4 DEF Session, Reads
    <3> QED
      BY <1>1, <1>2, <2>1, <2>2, <2>3, <2>4, <3>1, TakesPlaced
         DEF Placed, Sound, Reads, Holds
  <2> QED
    BY <1>1, <1>2, <2>2, <2>4, TakesPlaced, OthersStay DEF Reads
<1>3. CASE (\E f \in {call[r].failed, TRUE} : Leave(r, f)) /\ loop' = loop
  <2>1. PICK f \in BOOLEAN : Leave(r, f)
    BY <1>3 DEF TypeOK, Call
  <2> QED
    BY <1>1, <1>3, <2>1, LeaveKeeps
<1> QED
  BY <1>2, <1>3 DEF Continue

LEMMA LeaveEndpointKeeps ==
  ASSUME PoolInv, NEW r \in Request, LeaveEndpoint(r)
  PROVE  PoolInv'
<1> USE DEF PoolInv
<1>1. Takes(r) /\ call[r].section = "endpoint" /\ loop' = loop
      /\ call[r].kind \in {"account", "key"}
  BY DEF LeaveEndpoint
<1>2. CASE Leave(r, call[r].failed)
  <2>1. call[r].failed \in BOOLEAN
    BY DEF TypeOK, Call
  <2> QED
    BY <1>1, <1>2, <2>1, LeaveKeeps
<1>3. CASE call' = [call EXCEPT ![r].section = "reply", ![r].stage = "queued",
                                ![r].todo = 1]
  <2>1. PICK q : /\ call' = [call EXCEPT ![r] = q]
                 /\ Reads(q, call[r].kind, "reply", "queued", 1)
    BY <1>3, SectionIsUpdate, StageNames, Counts
  <2>2. ASSUME call' \in [Request -> Call], call'[r] = q
        PROVE  Placed(r)' /\ Sound(r)'
    <3>1. Session(r)' = "request"
      BY <1>1, <2>1, <2>2 DEF Session, Reads
    <3> QED
      BY <1>1, <2>1, <2>2, <3>1, TakesPlaced DEF Placed, Sound, Reads
  <2> QED
    BY <1>1, <2>1, <2>2, TakesPlaced, OthersStay DEF Reads
<1> QED
  BY <1>2, <1>3 DEF LeaveEndpoint

LEMMA LeaveReplyKeeps ==
  ASSUME PoolInv, NEW r \in Request, LeaveReply(r)
  PROVE  PoolInv'
<1>1. call[r].failed \in BOOLEAN
  BY DEF PoolInv, TypeOK, Call
<1> QED
  BY <1>1, LeaveKeeps DEF LeaveReply

LEMMA AnswerKeeps ==
  ASSUME PoolInv, NEW r \in Request, Answer(r)
  PROVE  PoolInv'
<1> USE DEF PoolInv
<1>1. Placed(r) /\ Sound(r) /\ call[r].stage = "closed" /\ loop = None /\ None # r
      /\ held' = held /\ threads' = threads /\ lock' = lock
      /\ lock # r /\ r \notin threads /\ call[r].kind # "socket"
      /\ \A x \in {"request", "own"} : <<r, x>> \notin held
  BY DEF Answer, At, Placed, Sound, None, Request
<1> DEFINE New(q) ==
      /\ q \in Call /\ q.kind # "socket"
      /\ \/ q.section = "log" /\ q.stage = "checkout" /\ q.todo > 0 /\ loop' = r
         \/ q.stage = "done" /\ q.kind = "none" /\ loop' = loop
         \/ /\ q.section = "after" /\ q.todo > 0 /\ loop' = loop
            /\ \/ q.stage = "queued" /\ q.kind = "account"
               \/ q.stage = "ready"
<1>2. \E q : call' = [call EXCEPT ![r] = q] /\ New(q)
  <2>1. call[r].kind # "socket"
    BY <1>1
  <2>2. CASE /\ call' = [call EXCEPT ![r].section = "log", ![r].stage = "checkout",
                                     ![r].todo = 1]
             /\ loop' = r
    <3>1. PICK q : /\ call' = [call EXCEPT ![r] = q]
                   /\ Reads(q, call[r].kind, "log", "checkout", 1)
      BY <2>2, SectionIsUpdate, StageNames, Counts
    <3>2. q \in Call /\ q.kind # "socket" /\ q.section = "log"
          /\ q.stage = "checkout" /\ q.todo > 0
      BY <2>1, <3>1 DEF Reads
    <3> QED
      BY <2>2, <3>1, <3>2
  <2>3. CASE End(r) /\ loop' = loop
    <3>1. PICK q : /\ call' = [call EXCEPT ![r] = q]
                   /\ Reads(q, "none", "none", "done", 0)
      BY <2>3, EndIsUpdate
    <3> QED
      BY <2>3, <3>1 DEF Reads
  <2>4. CASE /\ call[r].kind \in {"account", "chat"}
             /\ call' = [call EXCEPT ![r].section = "after",
                  ![r].stage = IF call[r].kind = "account" THEN "queued" ELSE "ready",
                  ![r].todo = 1]
             /\ loop' = loop
    <3> DEFINE g == IF call[r].kind = "account" THEN "queued" ELSE "ready"
    <3>1. /\ g \in Stage
          /\ \/ g = "queued" /\ call[r].kind = "account"
             \/ g = "ready"
      BY StageNames
    <3>2. call' = [call EXCEPT ![r].section = "after", ![r].stage = g, ![r].todo = 1]
      BY <2>4
    <3> HIDE DEF g
    <3>3. PICK q : /\ call' = [call EXCEPT ![r] = q]
                   /\ Reads(q, call[r].kind, "after", g, 1)
      BY <3>1, <3>2, SectionIsUpdate, StageNames, Counts
    <3>4. /\ q \in Call /\ q.kind # "socket" /\ q.section = "after" /\ q.todo > 0
          /\ \/ q.stage = "queued" /\ q.kind = "account"
             \/ q.stage = "ready"
      BY <2>1, <3>1, <3>3 DEF Reads
    <3> QED
      BY <2>4, <3>3, <3>4
  <2> QED
    BY <2>2, <2>3, <2>4 DEF Answer
<1>3. PICK q : call' = [call EXCEPT ![r] = q] /\ New(q)
  BY <1>2
<1>4. ASSUME call' \in [Request -> Call], call'[r] = q
      PROVE  Placed(r)' /\ Sound(r)'
  BY <1>1, <1>3, <1>4 DEF Placed, Sound
<1> QED
  BY <1>1, <1>3, <1>4, OthersStay

LEMMA SaveKeeps ==
  ASSUME PoolInv, NEW r \in Request, Save(r)
  PROVE  PoolInv'
<1> USE DEF PoolInv
<1>1. Takes(r) /\ loop' = r /\ call[r].section = "after" /\ call[r].kind = "chat"
  BY DEF Save
<1>2. PICK q : /\ call' = [call EXCEPT ![r] = q]
               /\ Reads(q, call[r].kind, call[r].section, "checkout", call[r].todo)
  BY GotoIsUpdate, StageNames DEF Save
<1>3. Session(r) = "own" /\ <<r, "request">> \notin held
  BY <1>1, TakesPlaced DEF Session, Placed
<1>4. ASSUME call' \in [Request -> Call], call'[r] = q
      PROVE  Placed(r)' /\ Sound(r)'
  BY <1>1, <1>2, <1>3, <1>4, TakesPlaced DEF Placed, Sound, Reads
<1> QED
  BY <1>1, <1>2, <1>4, TakesPlaced, OthersStay DEF Reads

LEMMA LeaveBackgroundKeeps ==
  ASSUME PoolInv, NEW r \in Request, LeaveBackground(r)
  PROVE  PoolInv'
<1> USE DEF PoolInv
<1>1. Takes(r) /\ loop' = loop /\ call[r].section = "after"
  BY DEF LeaveBackground
<1>2. PICK q : /\ call' = [call EXCEPT ![r] = q]
               /\ Reads(q, "none", "none", "done", 0)
  BY EndIsUpdate DEF LeaveBackground
<1>3. <<r, "request">> \notin held
  BY <1>1, TakesPlaced DEF Session, Placed
<1>4. ASSUME call' \in [Request -> Call], call'[r] = q
      PROVE  Placed(r)' /\ Sound(r)'
  BY <1>1, <1>2, <1>3, <1>4, TakesPlaced DEF Placed, Sound, Reads
<1> QED
  BY <1>1, <1>2, <1>4, TakesPlaced, OthersStay DEF Reads

-----------------------------------------------------------------------------
LEMMA InitPool == Init => PoolInv
<1> SUFFICES ASSUME Init PROVE PoolInv
  OBVIOUS
<1>1. \A r \in Request : Reads(call[r], "none", "none", "idle", 0)
  BY IdleReads DEF Init
<1>2. TypeOK
  BY <1>1 DEF Init, TypeOK, Reads
<1>3. ASSUME NEW r \in Request PROVE Placed(r) /\ Sound(r)
  BY <1>1, <1>3 DEF Init, Placed, Sound, Reads, None, Request
<1> QED
  BY <1>2, <1>3 DEF PoolInv

LEMMA NextPool == PoolInv /\ [Next]_vars => PoolInv'
<1> SUFFICES ASSUME PoolInv, [Next]_vars PROVE PoolInv'
  OBVIOUS
<1>1. CASE UNCHANGED vars
  BY <1>1 DEF vars, PoolInv, TypeOK, Placed, Sound, Session
<1>2. ASSUME NEW r \in Request, Arrive(r) \/ Proceed(r) PROVE PoolInv'
  BY <1>2, ArriveKeeps, StartKeeps, CheckOutKeeps, TimeOutKeeps, WriteKeeps,
     CommitKeeps, FinishKeeps, FailKeeps, CloseKeeps, LeaveDependencyKeeps,
     ContinueKeeps, LeaveEndpointKeeps, LeaveReplyKeeps, AnswerKeeps, SaveKeeps,
     LeaveBackgroundKeeps
     DEF Proceed
<1> QED
  BY <1>1, <1>2 DEF Next, Finished

(* What is known of the places of requests holds in every state.           *)
THEOREM PoolInvHolds == Spec => []PoolInv
  BY InitPool, NextPool, PTL DEF Spec

(* Every variable keeps its type: no request makes more transactions than  *)
(* its function has.                                                       *)
THEOREM TypeCorrect == Spec => []TypeOK
<1>1. PoolInv => TypeOK
  BY DEF PoolInv
<1> QED
  BY <1>1, PoolInvHolds, PTL

(* A request that waits for a connection has none, whatever it failed at.  *)
THEOREM NobodyWaitsForItself == Spec => []NobodyHoldsAndWaits
<1>1. PoolInv => NobodyHoldsAndWaits
  BY DEF PoolInv, NobodyHoldsAndWaits, Placed, At
<1> QED
  BY <1>1, PoolInvHolds, PTL

(* A request that holds the lock is about to commit and waits for nothing, *)
(* so that a wait for it is never part of a stall; and with nobody in the  *)
(* pool's queue neither the loop nor a thread is taken for long.           *)
THEOREM StallsNeedThePool == Spec => []StallsOnlyWhenExhausted
<1>1. ASSUME PoolInv, NEW p \in Pending, \A r \in Pending : Waiting(r)
      PROVE  /\ Exhausted
             /\ \E r \in Pending : At(r, "checkout")
             /\ \A h \in held : At(h[1], "queued") \/ At(h[1], "ready")
  <2> USE PoolAssumption DEF PoolInv
  <2>1. \A r \in Request : At(r, "commit") => r \in Pending
    BY DEF Pending, At
  <2>2. lock = None
    BY <1>1, <2>1 DEF TypeOK, Placed, Waiting, At
  <2>3. \A r \in Pending : r \in Request
          /\ call[r].stage \in {"checkout", "queued", "ready", "closed"}
    BY <1>1, <2>2 DEF Pending, Waiting, At, TypeOK, Call
  <2>4. \E r \in Pending : At(r, "checkout")
    <3> SUFFICES ASSUME \A r \in Pending : ~ At(r, "checkout") PROVE FALSE
      OBVIOUS
    <3>1. loop = None
      <4> SUFFICES ASSUME loop \in Request PROVE FALSE
        BY <1>1 DEF TypeOK
      <4>1. call[loop].stage \in {"checkout", "query", "commit"}
        BY <1>1 DEF Placed
      <4>2. loop \in Pending
        BY <4>1 DEF Pending, At
      <4> QED
        BY <2>3, <4>1, <4>2 DEF At
    <3>2. \A r \in Pending : call[r].stage = "queued"
      BY <1>1, <2>3, <3>1 DEF Waiting, At
    <3>3. threads = {}
      <4> SUFFICES ASSUME NEW t \in threads PROVE FALSE
        OBVIOUS
      <4>1. t \in Request
        BY <1>1 DEF TypeOK
      <4>2. call[t].stage \in {"checkout", "query", "commit", "ready"}
        BY <1>1, <4>1 DEF Placed
      <4>3. t \in Pending
        BY <4>1, <4>2 DEF Pending, At
      <4> QED
        BY <3>2, <4>2, <4>3
    <3>4. Cardinality(threads) = 0
      BY <3>3, FS_EmptySet
    <3> QED
      BY <1>1, <3>1, <3>2, <3>4 DEF Waiting, At
  <2>5. Exhausted
    BY <1>1, <2>4 DEF Waiting, At
  <2>6. ASSUME NEW h \in held PROVE At(h[1], "queued") \/ At(h[1], "ready")
    <3>1. held \subseteq Request \X {"request", "own"}
      BY <1>1 DEF TypeOK
    <3>2. PICK r \in Request, x \in {"request", "own"} : h = <<r, x>>
      BY <3>1
    <3>3. call[r].stage \in {"queued", "query", "commit", "ready", "closing"}
      <4>1. Placed(r)
        BY <1>1
      <4> QED
        BY <3>2, <4>1 DEF Placed
    <3>4. r \in Pending
      BY <3>3 DEF Pending, At
    <3> QED
      BY <2>3, <3>2, <3>3, <3>4 DEF At
  <2> QED
    BY <2>4, <2>5, <2>6
<1>2. PoolInv => StallsOnlyWhenExhausted
  BY <1>1 DEF StallsOnlyWhenExhausted
<1> QED
  BY <1>2, PoolInvHolds, PTL

-----------------------------------------------------------------------------
(* Every request comes to an end *)

(* The sections of a request's life that are still to come, *)
SectionsLeft(c) ==
  CASE c.section = "auth" -> 6
    [] c.section = "endpoint" -> 5
    [] c.section = "reply" -> 4
    [] OTHER -> 1

Phase(c) ==
  CASE c.stage = "idle" -> 7
    [] c.stage = "closing" -> 3
    [] c.stage = "closed" -> 2
    [] c.stage = "done" -> 0
    [] OTHER -> SectionsLeft(c)

(* whether its endpoint may still fail and recover, *)
Chances(c) == IF c.section = "endpoint" /\ ~ c.failed THEN 1 ELSE 0

(* and how far it is from the end of its transaction. *)
Distance(c) ==
  CASE c.stage = "queued" -> 4
    [] c.stage = "ready" -> 3
    [] c.stage = "checkout" -> 2
    [] c.stage = "query" -> 1
    [] OTHER -> 0

(* What of a request is left, as four numbers of which the first that      *)
(* differs decides: d has less before it than c.                           *)
Less(d, c) ==
  \/ Phase(d) < Phase(c)
  \/ /\ Phase(d) = Phase(c)
     /\ \/ Chances(d) < Chances(c)
        \/ /\ Chances(d) = Chances(c)
           /\ \/ d.todo < c.todo
              \/ d.todo = c.todo /\ Distance(d) < Distance(c)

(* Every step takes one request nearer to its end, a failure, a timeout or *)
(* a recovery included, and leaves the others where they are.              *)
Nearer ==
  \E r \in Request :
    Less(call'[r], call[r]) /\ \A s \in Request \ {r} : call'[s] = call[s]

RequestsGetNearer == [][Nearer]_vars

(* A request that is still in the same section has less of it before it,   *)
(* or has used up its chance to recover.                                   *)
Working == {"queued", "ready", "checkout", "query", "commit"}

LEMMA LessInSection ==
  ASSUME NEW c, NEW d, c.stage \in Working, d.stage \in Working, d.section = c.section,
         c.failed \in BOOLEAN, d.failed \in BOOLEAN,
         \/ /\ c.failed => d.failed
            /\ \/ d.todo < c.todo
               \/ d.todo = c.todo /\ Distance(d) < Distance(c)
         \/ c.section = "endpoint" /\ ~ c.failed /\ d.failed
         \/ /\ c.section # "endpoint"
            /\ \/ d.todo < c.todo
               \/ d.todo = c.todo /\ Distance(d) < Distance(c)
  PROVE  Less(d, c)
<1>1. Phase(d) = Phase(c)
  BY DEF Phase, SectionsLeft, Working
<1>2. Chances(d) <= Chances(c)
      \/ c.section # "endpoint"
  BY DEF Chances
<1>3. c.section # "endpoint" => Chances(d) = Chances(c)
  BY DEF Chances
<1>4. c.section = "endpoint" /\ ~ c.failed /\ d.failed => Chances(d) < Chances(c)
  BY DEF Chances
<1>5. (c.failed => d.failed) => Chances(d) = Chances(c) \/ Chances(d) < Chances(c)
  BY DEF Chances
<1> QED
  BY <1>1, <1>3, <1>4, <1>5 DEF Less

(* One request has a new call. *)
LEMMA OneGetsNearer ==
  ASSUME TypeOK, NEW r \in Request, NEW q, call' = [call EXCEPT ![r] = q],
         Less(q, call[r])
  PROVE  Nearer
BY DEF TypeOK, Nearer

LEMMA CallFields ==
  ASSUME TypeOK, NEW r \in Request
  PROVE  /\ call[r].stage \in Stage /\ call[r].section \in Section
         /\ call[r].todo \in 0 .. MaxTransactions /\ call[r].failed \in BOOLEAN
BY DEF TypeOK, Call

(* The next stage of the same section... *)
LEMMA GotoNearer ==
  ASSUME TypeOK, NEW r \in Request, NEW g \in Working, Goto(r, g),
         call[r].stage \in Working,
         Distance([call[r] EXCEPT !.stage = g]) < Distance(call[r])
  PROVE  Nearer
<1> DEFINE q == [call[r] EXCEPT !.stage = g]
<1>1. call' = [call EXCEPT ![r] = q]
  BY DEF Goto, TypeOK
<1>2. /\ q.stage = g /\ q.section = call[r].section /\ q.todo = call[r].todo
      /\ q.failed = call[r].failed
  BY DEF TypeOK, Call
<1>3. Distance(q) < Distance(call[r])
  OBVIOUS
<1> HIDE DEF q
<1> QED
  BY <1>1, <1>2, <1>3, CallFields, LessInSection, OneGetsNearer

(* ...or fewer transactions left in it... *)
LEMMA TodoNearer ==
  ASSUME TypeOK, NEW r \in Request, NEW g \in Working, NEW t, NEW f \in BOOLEAN,
         call' = [call EXCEPT ![r].stage = g, ![r].todo = t, ![r].failed = f],
         call[r].stage \in Working, t < call[r].todo,
         (call[r].failed => f) \/ call[r].section # "endpoint"
  PROVE  Nearer
<1> DEFINE q == [call[r] EXCEPT !.stage = g, !.todo = t, !.failed = f]
<1>1. call' = [call EXCEPT ![r] = q]
  BY DEF TypeOK
<1>2. q.stage = g /\ q.section = call[r].section /\ q.todo = t /\ q.failed = f
  BY DEF TypeOK, Call
<1> HIDE DEF q
<1> QED
  BY <1>1, <1>2, CallFields, LessInSection, OneGetsNearer

LEMMA TodoOnlyNearer ==
  ASSUME TypeOK, NEW r \in Request, NEW g \in Working, NEW t,
         call' = [call EXCEPT ![r].stage = g, ![r].todo = t],
         call[r].stage \in Working, t < call[r].todo
  PROVE  Nearer
<1> DEFINE q == [call[r] EXCEPT !.stage = g, !.todo = t]
<1>1. call' = [call EXCEPT ![r] = q]
  BY DEF TypeOK
<1>2. /\ q.stage = g /\ q.section = call[r].section /\ q.todo = t
      /\ q.failed = call[r].failed
  BY DEF TypeOK, Call
<1> HIDE DEF q
<1> QED
  BY <1>1, <1>2, CallFields, LessInSection, OneGetsNearer

(* ...or the end, or a later section. *)
LEMMA EndNearer ==
  ASSUME TypeOK, NEW r \in Request, call[r].stage \in Working \cup {"closed"}, End(r)
  PROVE  Nearer
<1> DEFINE q == [Idle EXCEPT !.stage = "done"]
<1>1. call' = [call EXCEPT ![r] = q]
  BY DEF End
<1>2. Phase(q) = 0
  BY DEF Phase, SectionsLeft, Idle
<1>3. Phase(call[r]) > 0
  BY DEF Phase, SectionsLeft, Working
<1> HIDE DEF q
<1> QED
  BY <1>1, <1>2, <1>3, OneGetsNearer DEF Less

LEMMA LeaveNearer ==
  ASSUME TypeOK, NEW r \in Request, NEW f, call[r].stage \in Working,
         call[r].section \in {"auth", "endpoint", "reply"}, Leave(r, f)
  PROVE  Nearer
<1> DEFINE k == IF f THEN "none" ELSE call[r].kind
           q == [call[r] EXCEPT !.kind = k, !.section = "endpoint",
                                !.stage = "closing", !.todo = 0, !.failed = f]
<1>1. call' = [call EXCEPT ![r] = q]
  BY DEF Leave, TypeOK
<1> HIDE DEF k
<1>2. q.stage = "closing"
  BY DEF TypeOK, Call
<1> HIDE DEF q
<1>3. Phase(q) = 3
  BY <1>2 DEF Phase, SectionsLeft
<1>4. Phase(call[r]) > 3
  BY DEF Phase, SectionsLeft, Working
<1> QED
  BY <1>1, <1>3, <1>4, OneGetsNearer DEF Less

LEMMA SectionNearer ==
  ASSUME TypeOK, NEW r \in Request, NEW s \in Section, NEW g \in Working, NEW t,
         call' = [call EXCEPT ![r].section = s, ![r].stage = g, ![r].todo = t],
         \/ call[r].stage \in Working /\ call[r].section = "auth" /\ s = "endpoint"
         \/ call[r].stage \in Working /\ call[r].section = "endpoint" /\ s = "reply"
         \/ call[r].stage = "closed" /\ s \in {"after", "log"}
  PROVE  Nearer
<1> DEFINE q == [call[r] EXCEPT !.section = s, !.stage = g, !.todo = t]
<1>1. call' = [call EXCEPT ![r] = q]
  BY DEF TypeOK
<1>2. q.stage = g /\ q.section = s
  BY DEF TypeOK, Call
<1> HIDE DEF q
<1>3. Phase(q) < Phase(call[r])
  BY <1>2 DEF Phase, SectionsLeft, Working
<1> QED
  BY <1>1, <1>3, OneGetsNearer DEF Less

LEMMA ArriveNearer ==
  ASSUME TypeOK, NEW r \in Request, Arrive(r)
  PROVE  Nearer
<1>1. PICK k, s, g, t :
        /\ call' = [call EXCEPT ![r].kind = k, ![r].section = s, ![r].stage = g,
                                ![r].todo = t]
        /\ g \in {"queued", "checkout"} /\ s \in {"auth", "endpoint"}
  BY DEF Arrive
<1> DEFINE q == [call[r] EXCEPT !.kind = k, !.section = s, !.stage = g, !.todo = t]
<1>2. call' = [call EXCEPT ![r] = q]
  BY <1>1 DEF TypeOK
<1>3. q.stage = g /\ q.section = s
  BY DEF TypeOK, Call
<1> HIDE DEF q
<1>4. Phase(q) \in {5, 6} /\ Phase(call[r]) = 7
  BY <1>1, <1>3 DEF Phase, SectionsLeft, Arrive, At
<1>5. Less(q, call[r])
  BY <1>4 DEF Less
<1> QED
  BY <1>2, <1>5, OneGetsNearer

LEMMA RaiseNearer ==
  ASSUME PoolInv, NEW r \in Request, call[r].stage \in {"checkout", "query", "commit"},
         Raise(r) \/ Recover(r)
  PROVE  Nearer
<1>1. TypeOK /\ call[r].todo > 0 /\ call[r].todo \in Nat
  BY CallFields, PoolAssumption DEF PoolInv, Sound
<1>2. CASE Raise(r)
  <2>1. call' = [call EXCEPT ![r].stage = "ready", ![r].todo = 0, ![r].failed = TRUE]
    BY <1>2 DEF Raise
  <2> QED
    BY <1>1, <2>1, TodoNearer DEF Working
<1>3. CASE Recover(r)
  <2> DEFINE q == [call[r] EXCEPT !.stage = "checkout", !.todo = 1, !.failed = TRUE]
  <2>1. call' = [call EXCEPT ![r] = q]
    BY <1>1, <1>3 DEF Recover, TypeOK
  <2>2. /\ q.stage = "checkout" /\ q.section = call[r].section
        /\ q.failed /\ q.failed \in BOOLEAN
    BY <1>1 DEF TypeOK, Call
  <2> HIDE DEF q
  <2>3. call[r].section = "endpoint" /\ ~ call[r].failed
    BY <1>3 DEF Recover
  <2>4. Less(q, call[r])
    <3>1. call[r].failed \in BOOLEAN
      BY <1>1, CallFields
    <3>2. call[r].stage \in Working /\ q.stage \in Working
      BY <2>2 DEF Working
    <3> QED
      BY <2>2, <2>3, <3>1, <3>2, LessInSection
  <2> QED
    BY <1>1, <2>1, <2>4, OneGetsNearer
<1> QED
  BY <1>2, <1>3

LEMMA StartNearer ==
  ASSUME PoolInv, NEW r \in Request, Start(r)
  PROVE  Nearer
<1>1. TypeOK /\ call[r].stage = "queued" /\ call[r].todo > 0 /\ call[r].todo \in Nat
  BY CallFields, PoolAssumption DEF PoolInv, Sound, Start, At
<1>2. CASE Goto(r, Connect(r))
  <2>1. PICK g : g \in {"query", "checkout"} /\ Goto(r, g)
    BY <1>2 DEF Connect
  <2> DEFINE q == [call[r] EXCEPT !.stage = g]
  <2>2. q.stage = g
    BY <1>1 DEF TypeOK, Call
  <2> HIDE DEF q
  <2>3. Distance(q) < Distance(call[r])
    BY <1>1, <2>1, <2>2 DEF Distance
  <2> QED
    BY <1>1, <2>1, <2>3, GotoNearer DEF Working, q
<1>3. CASE /\ call[r].section = "auth"
           /\ \E f \in BOOLEAN :
                call' = [call EXCEPT ![r].stage = "ready", ![r].todo = 0, ![r].failed = f]
  BY <1>1, <1>3, TodoNearer DEF Working
<1>4. CASE call' = [call EXCEPT ![r].stage = "ready", ![r].todo = 0]
  BY <1>1, <1>4, TodoOnlyNearer DEF Working
<1> QED
  BY <1>2, <1>3, <1>4 DEF Start

(* A step along the way of a statement. *)
LEMMA StatementNearer ==
  ASSUME TypeOK, NEW r \in Request, CheckOut(r) \/ Write(r)
  PROVE  Nearer
<1>1. PICK g : /\ Goto(r, g)
               /\ \/ call[r].stage = "checkout" /\ g = "query"
                  \/ call[r].stage = "query" /\ g = "commit"
  BY DEF CheckOut, Write, At
<1> DEFINE q == [call[r] EXCEPT !.stage = g]
<1>2. q.stage = g
  BY DEF TypeOK, Call
<1> HIDE DEF q
<1>3. Distance(q) < Distance(call[r])
  BY <1>1, <1>2 DEF Distance
<1> QED
  BY <1>1, <1>3, GotoNearer DEF Working, q

LEMMA CommitNearer ==
  ASSUME PoolInv, NEW r \in Request, Commit(r)
  PROVE  Nearer
<1>1. TypeOK /\ call[r].stage \in {"query", "commit"} /\ call[r].todo > 0
      /\ call[r].todo \in Nat
  BY CallFields, PoolAssumption DEF PoolInv, Sound, Commit, At
<1>2. CASE End(r)
  BY <1>1, <1>2, EndNearer DEF Working
<1>3. CASE call' = [call EXCEPT ![r].stage = "ready",
                                ![r].todo = IF r \in threads THEN 0 ELSE @ - 1]
  <2> DEFINE t == IF r \in threads THEN 0 ELSE call[r].todo - 1
  <2>1. t < call[r].todo
    BY <1>1
  <2>2. call' = [call EXCEPT ![r].stage = "ready", ![r].todo = t]
    BY <1>1, <1>3 DEF TypeOK
  <2> HIDE DEF t
  <2> QED
    BY <1>1, <2>1, <2>2, TodoOnlyNearer DEF Working
<1>4. CASE call' = [call EXCEPT ![r].stage = "checkout", ![r].todo = @ - 1]
  <2>1. PICK t : t = call[r].todo - 1
    OBVIOUS
  <2>2. t < call[r].todo
    BY <1>1, <2>1
  <2>3. call' = [call EXCEPT ![r].stage = "checkout", ![r].todo = t]
    BY <1>1, <1>4, <2>1 DEF TypeOK
  <2> QED
    BY <1>1, <2>2, <2>3, TodoOnlyNearer DEF Working
<1> QED
  BY <1>2, <1>3, <1>4 DEF Commit

LEMMA FinishNearer ==
  ASSUME PoolInv, NEW r \in Request, Finish(r)
  PROVE  Nearer
<1>1. TypeOK /\ call[r].stage = "query" /\ call[r].todo > 0 /\ call[r].todo \in Nat
  BY CallFields, PoolAssumption DEF PoolInv, Sound, Finish, At
<1>2. call' = [call EXCEPT ![r].stage = "ready", ![r].todo = 0]
  BY DEF Finish
<1> QED
  BY <1>1, <1>2, TodoOnlyNearer DEF Working

LEMMA CloseNearer ==
  ASSUME TypeOK, NEW r \in Request, Close(r)
  PROVE  Nearer
<1> DEFINE q == [call[r] EXCEPT !.stage = "closed"]
<1>1. call' = [call EXCEPT ![r] = q] /\ call[r].stage = "closing"
  BY DEF Close, Goto, At, TypeOK
<1>2. q.stage = "closed"
  BY DEF TypeOK, Call
<1> HIDE DEF q
<1>3. Phase(q) = 2 /\ Phase(call[r]) = 3
  BY <1>1, <1>2 DEF Phase, SectionsLeft
<1>4. Less(q, call[r])
  BY <1>3 DEF Less
<1> QED
  BY <1>1, <1>4, OneGetsNearer

LEMMA ContinueNearer ==
  ASSUME TypeOK, NEW r \in Request, Continue(r)
  PROVE  Nearer
<1>1. call[r].stage = "ready" /\ call[r].section = "endpoint"
  BY DEF Continue, Takes, At
<1>2. CASE Goto(r, Connect(r))
  <2>1. PICK g : g \in {"query", "checkout"} /\ Goto(r, g)
    BY <1>2 DEF Connect
  <2> DEFINE q == [call[r] EXCEPT !.stage = g]
  <2>2. q.stage = g
    BY DEF TypeOK, Call
  <2> HIDE DEF q
  <2>3. Distance(q) < Distance(call[r])
    BY <1>1, <2>1, <2>2 DEF Distance
  <2> QED
    BY <1>1, <2>1, <2>3, GotoNearer DEF Working, q
<1>3. CASE \E f \in {call[r].failed, TRUE} : Leave(r, f)
  BY <1>1, <1>3, LeaveNearer DEF Working
<1> QED
  BY <1>2, <1>3 DEF Continue

(* The event loop takes a request over from its dependency, its endpoint   *)
(* or the validation of its answer. *)
LEMMA TakenNearer ==
  ASSUME TypeOK, NEW r \in Request,
         LeaveDependency(r) \/ LeaveEndpoint(r) \/ LeaveReply(r)
  PROVE  Nearer
<1>1. call[r].stage = "ready" /\ call[r].section \in {"auth", "endpoint", "reply"}
  BY DEF LeaveDependency, LeaveEndpoint, LeaveReply, Takes, At
<1>2. ASSUME NEW f, Leave(r, f) PROVE Nearer
  BY <1>1, <1>2, LeaveNearer DEF Working
<1>3. CASE LeaveDependency(r)
  <2> DEFINE g == IF call[r].kind = "key" THEN "queued" ELSE "ready"
             t == IF call[r].kind = "chat" THEN 0 ELSE MaxTransactions
  <2>1. call[r].section = "auth" /\ g \in Working
    BY <1>3 DEF LeaveDependency, Working
  <2>2. CASE call' = [call EXCEPT ![r].section = "endpoint", ![r].stage = g, ![r].todo = t]
    <3> HIDE DEF g, t
    <3> QED
      BY <1>1, <2>1, <2>2, SectionNearer DEF Working, Section
  <2> QED
    BY <1>2, <1>3, <2>2 DEF LeaveDependency
<1>4. CASE LeaveEndpoint(r)
  <2>1. CASE call' = [call EXCEPT ![r].section = "reply", ![r].stage = "queued",
                                  ![r].todo = 1]
    BY <1>1, <1>4, <2>1, SectionNearer DEF Working, Section, LeaveEndpoint
  <2> QED
    BY <1>2, <1>4, <2>1 DEF LeaveEndpoint
<1> QED
  BY <1>2, <1>3, <1>4 DEF LeaveReply

LEMMA AnswerNearer ==
  ASSUME TypeOK, NEW r \in Request, Answer(r)
  PROVE  Nearer
<1>1. call[r].stage = "closed"
  BY DEF Answer, At
<1>2. CASE End(r)
  BY <1>1, <1>2, EndNearer
<1>3. CASE \E s \in {"after", "log"} : \E g \in {"checkout", "queued", "ready"} :
             call' = [call EXCEPT ![r].section = s, ![r].stage = g, ![r].todo = 1]
  <2>1. PICK s \in {"after", "log"}, g \in {"checkout", "queued", "ready"} :
          call' = [call EXCEPT ![r].section = s, ![r].stage = g, ![r].todo = 1]
    BY <1>3
  <2>2. s \in Section /\ g \in Working
    BY DEF Working, Section
  <2> QED
    BY <1>1, <2>1, <2>2, SectionNearer
<1> QED
  BY <1>2, <1>3 DEF Answer

LEMMA SaveNearer ==
  ASSUME TypeOK, NEW r \in Request, Save(r) \/ LeaveBackground(r)
  PROVE  Nearer
<1>1. call[r].stage = "ready"
  BY DEF Save, LeaveBackground, Takes, At
<1>2. CASE Goto(r, "checkout")
  <2> DEFINE q == [call[r] EXCEPT !.stage = "checkout"]
  <2>1. q.stage = "checkout"
    BY DEF TypeOK, Call
  <2> HIDE DEF q
  <2>2. Distance(q) < Distance(call[r])
    BY <1>1, <2>1 DEF Distance
  <2> QED
    BY <1>1, <1>2, <2>2, GotoNearer DEF Working, q
<1>3. CASE End(r)
  BY <1>1, <1>3, EndNearer DEF Working
<1> QED
  BY <1>2, <1>3 DEF Save, LeaveBackground

LEMMA NextNearer ==
  ASSUME PoolInv, [Next]_vars
  PROVE  [Nearer]_vars
<1>1. ASSUME NEW r \in Request, Arrive(r) \/ Proceed(r) PROVE Nearer
  <2>1. TypeOK
    BY DEF PoolInv
  <2>2. CASE Arrive(r)
    BY <2>1, <2>2, ArriveNearer
  <2>3. CASE TimeOut(r)
    <3>1. call[r].stage = "checkout"
      BY <2>3 DEF TimeOut, At
    <3>2. End(r) \/ Raise(r) \/ Recover(r)
      BY <2>3 DEF TimeOut
    <3> QED
      BY <2>1, <3>1, <3>2, EndNearer, RaiseNearer DEF Working
  <2>4. CASE Fail(r)
    BY <2>4, RaiseNearer DEF Fail, At
  <2> QED
    BY <1>1, <2>1, <2>2, <2>3, <2>4, StartNearer, StatementNearer, CommitNearer,
       FinishNearer, CloseNearer, ContinueNearer, TakenNearer, AnswerNearer, SaveNearer
       DEF Proceed
<1> QED
  BY <1>1 DEF Next, Finished

(* No request goes round in circles: with StallsNeedThePool, whose stalls  *)
(* the pool's timeout ends, this is what EveryRequestEnds rests on.        *)
THEOREM RequestsComeToAnEnd == Spec => RequestsGetNearer
<1>1. PoolInv /\ [Next]_vars => [Nearer]_vars
  BY NextNearer
<1> QED
  BY <1>1, PoolInvHolds, PTL DEF Spec, RequestsGetNearer

=============================================================================
