--------------------------- MODULE AccountsProofs ---------------------------
(***************************************************************************)
(* What holds of Accounts for any number of requests and addresses, any    *)
(* lifetimes, and caches of any number of processes.                       *)
(***************************************************************************)
EXTENDS Accounts, TLAPS

(* A field of a call takes any value of its type. *)
LEMMA FieldUpdates ==
  ASSUME NEW q \in Call
  PROVE  /\ \A x \in Op : [q EXCEPT !.op = x] \in Call
         /\ \A x \in Email \cup {NoEmail} : [q EXCEPT !.email = x] \in Call
         /\ \A x \in 0 .. MaxRequests : [q EXCEPT !.given = x] \in Call
         /\ \A x \in Cache \cup {None} : [q EXCEPT !.cache = x] \in Call
         /\ \A x \in Stage : [q EXCEPT !.stage = x] \in Call
         /\ \A x \in SUBSET Request : [q EXCEPT !.rows = x] \in Call
         /\ \A x \in Nat : [q EXCEPT !.at = x] \in Call
         /\ \A x \in Answer : [q EXCEPT !.answer = x] \in Call
         /\ \A x \in SUBSET Request : [q EXCEPT !.earlier = x] \in Call
BY DEF Call

LEMMA IdleIsCall == Idle \in Call
BY AccountsAssumption DEF Idle, Call, Op, Stage, Answer, None

(* The calls the actions make of others. *)
LEMMA CallUpdates ==
  ASSUME NEW q \in Call
  PROVE  /\ \A e \in Email, s \in Stage, S \in SUBSET Request :
              [q EXCEPT !.op = "signup", !.email = e, !.earlier = S, !.stage = s]
              \in Call
         /\ \A e \in Email, k \in Request, S \in SUBSET Request :
              [q EXCEPT !.op = "verify", !.email = e, !.given = k,
                        !.earlier = S, !.stage = "match"] \in Call
         /\ \A e \in Email :
              [q EXCEPT !.op = "login", !.email = e, !.stage = "stamp",
                        !.answer = "ok"] \in Call
         /\ \A c \in Cache, k \in Request :
              [q EXCEPT !.op = "key", !.given = k, !.cache = c,
                        !.stage = "look up"] \in Call
         /\ \A s \in Stage, S \in SUBSET Request :
              [q EXCEPT !.stage = s, !.rows = S] \in Call
         /\ \A s \in Stage, t \in Nat : [q EXCEPT !.stage = s, !.at = t] \in Call
         /\ \A s \in Stage, a \in Answer :
              [q EXCEPT !.stage = s, !.answer = a] \in Call
         /\ \A op \in Op, a \in Answer : Over(op, a) \in Call
<1> USE AccountsAssumption
<1>1. /\ {"signup", "verify", "login", "key"} \subseteq Op
      /\ {"match", "stamp", "look up", "done"} \subseteq Stage
      /\ "ok" \in Answer
      /\ Request \subseteq 0 .. MaxRequests
  BY DEF Op, Stage, Answer, Request
<1>2. ASSUME NEW e \in Email, NEW s \in Stage, NEW S \in SUBSET Request
      PROVE  [q EXCEPT !.op = "signup", !.email = e, !.earlier = S, !.stage = s]
             \in Call
  <2>1. [q EXCEPT !.op = "signup", !.email = e] \in Call
    BY <1>1, FieldUpdates
  <2>2. [q EXCEPT !.op = "signup", !.email = e, !.earlier = S] \in Call
    BY <2>1, FieldUpdates
  <2> QED
    BY <2>2, FieldUpdates
<1>3. ASSUME NEW e \in Email, NEW k \in Request, NEW S \in SUBSET Request
      PROVE  [q EXCEPT !.op = "verify", !.email = e, !.given = k,
                       !.earlier = S, !.stage = "match"] \in Call
  <2>1. [q EXCEPT !.op = "verify", !.email = e] \in Call
    BY <1>1, FieldUpdates
  <2>2. [q EXCEPT !.op = "verify", !.email = e, !.given = k] \in Call
    BY <1>1, <2>1, FieldUpdates
  <2>3. [q EXCEPT !.op = "verify", !.email = e, !.given = k, !.earlier = S] \in Call
    BY <2>2, FieldUpdates
  <2> QED
    BY <1>1, <2>3, FieldUpdates
<1>4. ASSUME NEW e \in Email
      PROVE  [q EXCEPT !.op = "login", !.email = e, !.stage = "stamp",
                       !.answer = "ok"] \in Call
  <2>1. [q EXCEPT !.op = "login", !.email = e] \in Call
    BY <1>1, FieldUpdates
  <2>2. [q EXCEPT !.op = "login", !.email = e, !.stage = "stamp"] \in Call
    BY <1>1, <2>1, FieldUpdates
  <2> QED
    BY <1>1, <2>2, FieldUpdates
<1>5. ASSUME NEW c \in Cache, NEW k \in Request
      PROVE  [q EXCEPT !.op = "key", !.given = k, !.cache = c,
                       !.stage = "look up"] \in Call
  <2>1. [q EXCEPT !.op = "key", !.given = k] \in Call
    BY <1>1, FieldUpdates
  <2>2. [q EXCEPT !.op = "key", !.given = k, !.cache = c] \in Call
    BY <2>1, FieldUpdates
  <2> QED
    BY <1>1, <2>2, FieldUpdates
<1>6. \A s \in Stage, S \in SUBSET Request :
        [q EXCEPT !.stage = s, !.rows = S] \in Call
  BY FieldUpdates
<1>7. \A s \in Stage, t \in Nat : [q EXCEPT !.stage = s, !.at = t] \in Call
  BY FieldUpdates
<1>8. \A s \in Stage, a \in Answer : [q EXCEPT !.stage = s, !.answer = a] \in Call
  BY FieldUpdates
<1>9. ASSUME NEW op \in Op, NEW a \in Answer PROVE Over(op, a) \in Call
  <2>1. [Idle EXCEPT !.op = op] \in Call
    BY IdleIsCall, FieldUpdates
  <2>2. [Idle EXCEPT !.op = op, !.stage = "done"] \in Call
    BY <1>1, <2>1, FieldUpdates
  <2> QED
    BY <2>2, FieldUpdates DEF Over
<1> QED
  BY <1>2, <1>3, <1>4, <1>5, <1>6, <1>7, <1>8, <1>9

(* What is known of a request at each of its stages. *)
Sound(q) ==
  /\ q.stage \in {"select", "supersede", "update", "insert", "issue", "answer"}
     => q.op = "signup" /\ q.email \in Email /\ q.answer = "none"
  /\ q.stage \in {"match", "accept"}
     => q.op = "verify" /\ q.email \in Email /\ q.given \in Request /\ q.answer = "none"
  /\ q.stage = "stamp" => q.op = "login" /\ q.email \in Email /\ q.answer = "ok"
  /\ q.stage \in {"look up", "store"}
     => q.op = "key" /\ q.cache \in Cache /\ q.given \in Request /\ q.answer = "none"
  /\ q.stage = "idle" => q = Idle
  /\ q.answer = "created" => q.stage = "done" /\ q.op = "signup" /\ q.email \in Email

Callers == \A r \in Request : Sound(request[r])

(* Whoever is let in belongs to a verified address. *)
Welcomed ==
  \A r \in Request :
    At(r, "stamp") => accounts[request[r].email].is_verified

TypeInv == TypeOK /\ Callers /\ Welcomed

(* A step that gives one request a new call, and keeps verified addresses. *)
LEMMA CallStep ==
  ASSUME TypeInv, NEW r \in Request, NEW q \in Call, Sound(q),
         request' = [request EXCEPT ![r] = q],
         q.stage = "stamp" => accounts[q.email].is_verified,
         \A e \in Email : accounts[e].is_verified => accounts'[e].is_verified
  PROVE  request' \in [Request -> Call] /\ Callers' /\ Welcomed'
<1>1. request' \in [Request -> Call]
  BY DEF TypeInv, TypeOK
<1>2. \A p \in Request : request'[p] = IF p = r THEN q ELSE request[p]
  BY DEF TypeInv, TypeOK
<1>3. Callers'
  BY <1>2 DEF TypeInv, Callers
<1>4. ASSUME NEW p \in Request, At(p, "stamp")'
      PROVE  (accounts[request[p].email].is_verified)'
  <2>1. CASE p = r
    <3>1. request'[p] = q /\ q.stage = "stamp" /\ q.email \in Email
      BY <1>2, <1>4, <2>1 DEF At, Sound
    <3> QED
      BY <3>1
  <2>2. CASE p # r
    <3>1. request'[p] = request[p] /\ Sound(request[p])
      BY <1>2, <2>2 DEF TypeInv, Callers
    <3>2. At(p, "stamp") /\ request[p].email \in Email
      BY <1>4, <3>1 DEF At, Sound
    <3> QED
      BY <3>1, <3>2 DEF TypeInv, Welcomed
  <2> QED
    BY <2>1, <2>2
<1> QED
  BY <1>1, <1>3, <1>4 DEF Welcomed

(* The type of the other variables, by what an action does to them. *)
OthersOK ==
  /\ accounts \in [Email -> Account]
  /\ otps \in [Request -> Otp]
  /\ cache \in [Cache -> [Key -> Nat]]
  /\ now \in Nat
  /\ replaced_at \in [Key -> Nat]
  /\ \A e \in Email : accounts[e].logged_in => accounts[e].is_verified

(* How a call changes when its request moves on to another stage. *)
LEMMA Moves ==
  ASSUME TypeInv, NEW r \in Request, NEW s \in Stage, Step(r, s)
  PROVE  /\ [request[r] EXCEPT !.stage = s] \in Call
         /\ request' = [request EXCEPT ![r] = [request[r] EXCEPT !.stage = s]]
BY FieldUpdates DEF TypeInv, TypeOK, Step

LEMMA Leaves ==
  ASSUME TypeInv, NEW r \in Request, NEW a \in Answer, a # "created", Leave(r, a),
         \A e \in Email : accounts[e].is_verified => accounts'[e].is_verified
  PROVE  request' \in [Request -> Call] /\ Callers' /\ Welcomed'
<1>1. request[r] \in Call /\ request[r].op \in Op
  BY DEF TypeInv, TypeOK, Call
<1>2. Over(request[r].op, a) \in Call
  BY <1>1, CallUpdates
<1>3. Sound(Over(request[r].op, a)) /\ Over(request[r].op, a).stage = "done"
  BY DEF Sound, Over, Idle
<1> QED
  BY <1>2, <1>3, CallStep DEF Leave

(* An entry of a cache is set, and no other. *)
LEMMA CacheUpdate ==
  ASSUME cache \in [Cache -> [Key -> Nat]],
         NEW c \in Cache, NEW k \in Key, NEW t \in Nat,
         cache' = [cache EXCEPT ![c][k] = t]
  PROVE  /\ cache' \in [Cache -> [Key -> Nat]]
         /\ \A d \in Cache, j \in Key :
              cache'[d][j] = IF d = c /\ j = k THEN t ELSE cache[d][j]
<1>1. [cache[c] EXCEPT ![k] = t] \in [Key -> Nat]
  OBVIOUS
<1>2. cache' = [cache EXCEPT ![c] = [cache[c] EXCEPT ![k] = t]]
  OBVIOUS
<1>3. cache' \in [Cache -> [Key -> Nat]]
  BY <1>1, <1>2
<1>4. ASSUME NEW d \in Cache, NEW j \in Key
      PROVE  cache'[d][j] = IF d = c /\ j = k THEN t ELSE cache[d][j]
  <2>1. CASE d = c
    <3>1. cache'[d] = [cache[c] EXCEPT ![k] = t]
      BY <1>2, <2>1
    <3> QED
      BY <2>1, <3>1
  <2>2. CASE d # c
    BY <1>2, <2>2
  <2> QED
    BY <2>1, <2>2
<1> QED
  BY <1>3, <1>4

(* The type invariant is inductive: one step for each action. *)
LEMMA TypeInvInductive == TypeInv /\ [Next]_vars => TypeInv'
<1> SUFFICES ASSUME TypeInv, [Next]_vars PROVE TypeInv'
  OBVIOUS
<1> USE AccountsAssumption
<1>0. /\ \A r \in Request : request[r] \in Call /\ Sound(request[r])
      /\ TypeOK /\ Callers /\ Welcomed /\ OthersOK
      /\ Request \subseteq Nat \ {0} /\ Request \subseteq 0 .. MaxRequests
  BY DEF TypeInv, TypeOK, Callers, OthersOK, Request
<1>a. ASSUME OthersOK', request' \in [Request -> Call], Callers', Welcomed'
      PROVE  TypeInv'
  BY <1>a DEF TypeInv, TypeOK, OthersOK
<1>b. /\ {"signup", "verify", "login", "key"} \subseteq Op
      /\ {"select", "supersede", "update", "insert", "issue", "answer",
          "match", "accept", "stamp", "look up", "store", "done"} \subseteq Stage
      /\ {"none", "created", "ok", "refused", "error"} \subseteq Answer
  BY DEF Op, Stage, Answer
<1>c. Answered \subseteq Request /\ SignUps \subseteq Request /\ Issued \subseteq Request
      /\ \A e \in Email : Unused(e) \subseteq Request
  BY DEF Answered, SignUps, Issued, Unused
<1>d. ASSUME UNCHANGED <<tables, cache, now, replaced_at>>
      PROVE  /\ OthersOK'
             /\ \A e \in Email : accounts[e].is_verified => accounts'[e].is_verified
  BY <1>0, <1>d DEF OthersOK, tables
<1>e. ASSUME NEW r \in Request, NEW op \in Op, NEW a \in Answer, a # "created",
             request' = [request EXCEPT ![r] = Over(op, a)],
             accounts' = accounts
      PROVE  request' \in [Request -> Call] /\ Callers' /\ Welcomed'
  <2>1. Over(op, a) \in Call
    BY <1>0, CallUpdates
  <2>2. Sound(Over(op, a)) /\ Over(op, a).stage = "done"
    BY <1>e DEF Sound, Over, Idle
  <2> QED
    BY <1>e, <2>1, <2>2, CallStep
<1>1. ASSUME NEW r \in Request, SignUp(r) PROVE TypeInv'
  <2>1. OthersOK'
    BY <1>1, <1>d DEF SignUp
  <2>2. PICK e \in Email :
          IF accounts[e].is_verified
          THEN request' = [request EXCEPT ![r] = Over("signup", "refused")]
          ELSE request' = [request EXCEPT
                 ![r].op = "signup", ![r].email = e, ![r].earlier = Answered,
                 ![r].stage = IF Exists(e) THEN "select" ELSE "insert"]
    BY <1>1 DEF SignUp
  <2>3. CASE accounts[e].is_verified
    BY <1>1, <1>a, <1>b, <1>e, <2>1, <2>2, <2>3 DEF SignUp, tables
  <2>4. CASE ~ accounts[e].is_verified
    <3> DEFINE s == IF Exists(e) THEN "select" ELSE "insert"
               q == [request[r] EXCEPT !.op = "signup", !.email = e,
                       !.earlier = Answered, !.stage = s]
    <3>1. q \in Call
      BY <1>0, <1>b, <1>c, CallUpdates
    <3>2. request' = [request EXCEPT ![r] = q]
      BY <2>2, <2>4 DEF TypeInv, TypeOK
    <3>3. request[r] = Idle
      BY <1>0, <1>1 DEF SignUp, Arrives, At, Sound
    <3>4. q.stage = s /\ q.op = "signup" /\ q.email = e /\ q.answer = "none"
      BY <3>3 DEF Idle
    <3>5. Sound(q) /\ q.stage # "stamp"
      BY <3>4 DEF Sound
    <3> QED
      BY <1>1, <1>a, <1>d, <2>1, <3>1, <3>2, <3>5, CallStep DEF SignUp
  <2> QED
    BY <2>3, <2>4
<1>f. ASSUME NEW r \in Request, NEW s \in Stage, NEW S \in SUBSET Request,
             request' = [request EXCEPT ![r].stage = s, ![r].rows = S],
             request[r].op = "signup", request[r].email \in Email,
             request[r].answer = "none",
             s \in {"supersede", "update", "issue"},
             \A e \in Email : accounts[e].is_verified => accounts'[e].is_verified
      PROVE  request' \in [Request -> Call] /\ Callers' /\ Welcomed'
  <2> DEFINE q == [request[r] EXCEPT !.stage = s, !.rows = S]
  <2>1. q \in Call
    BY <1>0, CallUpdates
  <2>2. request' = [request EXCEPT ![r] = q]
    BY <1>f DEF TypeInv, TypeOK
  <2>3. /\ q.stage = s /\ q.op = "signup" /\ q.email = request[r].email
        /\ q.answer = "none"
    BY <1>0, <1>f DEF Call
  <2>4. Sound(q) /\ q.stage # "stamp"
    BY <1>f, <2>3 DEF Sound
  <2> QED
    BY <1>f, <2>1, <2>2, <2>4, CallStep
<1>g. ASSUME NEW r \in Request, NEW stage, At(r, stage),
             stage \in {"select", "supersede", "update", "insert", "issue", "answer"}
      PROVE  /\ request[r].op = "signup" /\ request[r].email \in Email
             /\ request[r].answer = "none"
  BY <1>0, <1>g DEF At, Sound
<1>h. ASSUME NEW r \in Request, NEW s \in Stage, Step(r, s),
             request[r].op = "signup", request[r].email \in Email,
             request[r].answer = "none", s \in {"issue", "answer"},
             \A e \in Email : accounts[e].is_verified => accounts'[e].is_verified
      PROVE  request' \in [Request -> Call] /\ Callers' /\ Welcomed'
  <2> DEFINE q == [request[r] EXCEPT !.stage = s]
  <2>1. q \in Call /\ request' = [request EXCEPT ![r] = q]
    BY <1>h, Moves
  <2>2. /\ q.stage = s /\ q.op = "signup" /\ q.email = request[r].email
        /\ q.answer = "none"
    BY <1>0, <1>h DEF Call
  <2>3. Sound(q) /\ q.stage # "stamp"
    BY <1>h, <2>2 DEF Sound
  <2> QED
    BY <1>h, <2>1, <2>3, CallStep
<1>2. ASSUME NEW r \in Request, SelectCodes(r) PROVE TypeInv'
  <2>1. OthersOK' /\ \A e \in Email : accounts[e].is_verified => accounts'[e].is_verified
    BY <1>2, <1>d DEF SelectCodes
  <2>2. request[r].op = "signup" /\ request[r].email \in Email /\ request[r].answer = "none"
    BY <1>2, <1>g DEF SelectCodes
  <2>3. Unused(request[r].email) \in SUBSET Request
    BY <1>c, <2>2
  <2> QED
    BY <1>2, <1>a, <1>b, <1>f, <2>1, <2>2, <2>3 DEF SelectCodes
<1>3. ASSUME NEW r \in Request, Supersede(r) PROVE TypeInv'
  <2>1. OthersOK' /\ \A e \in Email : accounts[e].is_verified => accounts'[e].is_verified
    BY <1>3, <1>d DEF Supersede
  <2>2. request[r].op = "signup" /\ request[r].email \in Email /\ request[r].answer = "none"
    BY <1>3, <1>g DEF Supersede
  <2>3. request[r].rows \cap Unused(request[r].email) \in SUBSET Request
    BY <1>c, <2>2
  <2>4. request' = [request EXCEPT ![r].stage = "update",
                      ![r].rows = request[r].rows \cap Unused(request[r].email)]
    BY <1>0, <1>3 DEF Supersede, TypeOK, Call
  <2> QED
    BY <1>a, <1>b, <1>f, <2>1, <2>2, <2>3, <2>4
<1>4. ASSUME NEW r \in Request, Update(r) PROVE TypeInv'
  <2>1. request[r].op = "signup" /\ request[r].email \in Email /\ request[r].answer = "none"
    BY <1>4, <1>g DEF Update
  <2> DEFINE e == request[r].email
  <2>2. accounts' = [accounts EXCEPT ![e].by = r]
    BY <1>4 DEF Update
  <2>3. accounts' \in [Email -> Account]
    BY <1>0, <2>1, <2>2 DEF OthersOK, Account
  <2>4. \A f \in Email : /\ accounts'[f].is_verified = accounts[f].is_verified
                         /\ accounts'[f].logged_in = accounts[f].logged_in
    BY <1>0, <2>1, <2>2 DEF OthersOK, Account
  <2>5. otps' \in [Request -> Otp]
    <3>1. \A k \in Request : [otps[k] EXCEPT !.state = "used"] \in Otp
      BY <1>0 DEF OthersOK, Otp
    <3> QED
      BY <1>0, <1>4, <3>1 DEF Update, OthersOK
  <2>6. replaced_at' \in [Key -> Nat]
    BY <1>0, <1>4 DEF Update, OthersOK
  <2>7. OthersOK'
    BY <1>0, <1>4, <2>3, <2>4, <2>5, <2>6 DEF Update, OthersOK
  <2>8. request' \in [Request -> Call] /\ Callers' /\ Welcomed'
    <3>1. request' = [request EXCEPT ![r].stage = "issue", ![r].rows = {}]
      BY <1>4 DEF Update
    <3>2. "issue" \in Stage /\ {} \in SUBSET Request
      BY <1>b
    <3>3. \A f \in Email : accounts[f].is_verified => accounts'[f].is_verified
      BY <2>4
    <3> HIDE DEF e
    <3> QED
      BY <1>f, <2>1, <3>1, <3>2, <3>3
  <2> QED
    BY <1>a, <2>7, <2>8
<1>5. ASSUME NEW r \in Request, Insert(r) PROVE TypeInv'
  <2>1. request[r].op = "signup" /\ request[r].email \in Email /\ request[r].answer = "none"
    BY <1>5, <1>g DEF Insert
  <2> DEFINE e == request[r].email
  <2>2. CASE Exists(e)
    <3>1. OthersOK' /\ \A f \in Email : accounts[f].is_verified => accounts'[f].is_verified
      BY <1>5, <1>d, <2>2 DEF Insert, tables
    <3>2. request' \in [Request -> Call] /\ Callers' /\ Welcomed'
      BY <1>5, <1>b, <2>2, <3>1, Leaves DEF Insert
    <3> QED
      BY <1>a, <3>1, <3>2
  <2>3. CASE ~ Exists(e)
    <3>1. accounts' = [accounts EXCEPT ![e].by = r] /\ Step(r, "issue")
      BY <1>5, <2>3 DEF Insert
    <3>2. accounts' \in [Email -> Account]
      BY <1>0, <2>1, <3>1 DEF OthersOK, Account
    <3>3. \A f \in Email : /\ accounts'[f].is_verified = accounts[f].is_verified
                           /\ accounts'[f].logged_in = accounts[f].logged_in
      BY <1>0, <2>1, <3>1 DEF OthersOK, Account
    <3>4. OthersOK'
      BY <1>0, <1>5, <3>2, <3>3 DEF Insert, OthersOK
    <3>5. request' \in [Request -> Call] /\ Callers' /\ Welcomed'
      BY <1>5, <1>b, <1>h, <2>1, <3>1, <3>3
    <3> QED
      BY <1>a, <3>4, <3>5
  <2> QED
    BY <2>2, <2>3
<1>6. ASSUME NEW r \in Request, Issue(r) PROVE TypeInv'
  <2>1. request[r].op = "signup" /\ request[r].email \in Email /\ request[r].answer = "none"
    BY <1>6, <1>g DEF Issue
  <2>2. [email |-> request[r].email, state |-> "unused", expires_at |-> now + OtpLife]
        \in Otp
    BY <1>0, <2>1 DEF OthersOK, Otp
  <2>3. OthersOK'
    BY <1>0, <1>6, <2>2 DEF Issue, OthersOK
  <2>4. request' \in [Request -> Call] /\ Callers' /\ Welcomed'
    BY <1>6, <1>b, <1>h, <2>1 DEF Issue
  <2> QED
    BY <1>a, <2>3, <2>4
<1>7. ASSUME NEW r \in Request, AnswerSignUp(r) PROVE TypeInv'
  <2>1. OthersOK' /\ \A e \in Email : accounts[e].is_verified => accounts'[e].is_verified
    BY <1>7, <1>d DEF AnswerSignUp
  <2>2. request[r].op = "signup" /\ request[r].email \in Email /\ request[r].answer = "none"
    BY <1>7, <1>g DEF AnswerSignUp
  <2> DEFINE q == [request[r] EXCEPT !.stage = "done", !.answer = "created"]
  <2>3. q \in Call
    BY <1>0, <1>b, CallUpdates
  <2>4. request' = [request EXCEPT ![r] = q]
    BY <1>7 DEF AnswerSignUp, TypeInv, TypeOK
  <2>5. /\ q.stage = "done" /\ q.op = "signup" /\ q.email = request[r].email
        /\ q.answer = "created"
    BY <1>0, <2>2 DEF Call
  <2>6. Sound(q) /\ q.stage # "stamp"
    BY <2>2, <2>5 DEF Sound
  <2> QED
    BY <1>a, <2>1, <2>3, <2>4, <2>6, CallStep
<1>8. ASSUME NEW r \in Request, Verify(r) PROVE TypeInv'
  <2>1. OthersOK' /\ accounts' = accounts
    BY <1>8, <1>d DEF Verify, tables
  <2>2. PICK e \in Email, k \in Issued :
          \/ request' = [request EXCEPT ![r] = Over("verify", "refused")]
          \/ request' = [request EXCEPT ![r] = Over("verify", "ok")]
          \/ request' = [request EXCEPT
               ![r].op = "verify", ![r].email = e, ![r].given = k,
               ![r].earlier = Answered, ![r].stage = "match"]
    BY <1>8 DEF Verify
  <2>3. CASE \/ request' = [request EXCEPT ![r] = Over("verify", "refused")]
             \/ request' = [request EXCEPT ![r] = Over("verify", "ok")]
    BY <1>a, <1>b, <1>e, <2>1, <2>3
  <2>4. CASE request' = [request EXCEPT
               ![r].op = "verify", ![r].email = e, ![r].given = k,
               ![r].earlier = Answered, ![r].stage = "match"]
    <3> DEFINE q == [request[r] EXCEPT !.op = "verify", !.email = e, !.given = k,
                       !.earlier = Answered, !.stage = "match"]
    <3>1. q \in Call
      BY <1>0, <1>c, CallUpdates
    <3>2. request' = [request EXCEPT ![r] = q]
      BY <2>4 DEF TypeInv, TypeOK
    <3>3. request[r] = Idle
      BY <1>0, <1>8 DEF Verify, Arrives, At, Sound
    <3>4. /\ q.stage = "match" /\ q.op = "verify" /\ q.email = e /\ q.given = k
          /\ q.answer = "none"
      BY <3>3 DEF Idle
    <3>5. Sound(q) /\ q.stage # "stamp"
      BY <1>c, <3>4 DEF Sound
    <3> QED
      BY <1>a, <2>1, <3>1, <3>2, <3>5, CallStep
  <2> QED
    BY <2>2, <2>3, <2>4
<1>9. ASSUME NEW r \in Request, Match(r) PROVE TypeInv'
  <2>1. OthersOK' /\ \A e \in Email : accounts[e].is_verified => accounts'[e].is_verified
    BY <1>9, <1>d DEF Match
  <2>2. CASE Leave(r, "refused")
    BY <1>a, <1>b, <2>1, <2>2, Leaves
  <2>3. CASE Step(r, "accept")
    <3> DEFINE q == [request[r] EXCEPT !.stage = "accept"]
    <3>1. q \in Call /\ request' = [request EXCEPT ![r] = q]
      BY <1>b, <2>3, Moves
    <3>2. /\ request[r].op = "verify" /\ request[r].email \in Email
          /\ request[r].given \in Request /\ request[r].answer = "none"
      BY <1>0, <1>9 DEF Match, At, Sound
    <3>3. /\ q.stage = "accept" /\ q.op = "verify" /\ q.email = request[r].email
          /\ q.given = request[r].given /\ q.answer = "none"
      BY <1>0, <3>2 DEF Call
    <3>4. Sound(q) /\ q.stage # "stamp"
      BY <3>2, <3>3 DEF Sound
    <3> QED
      BY <1>a, <2>1, <3>1, <3>4, CallStep
  <2> QED
    BY <1>9, <2>2, <2>3 DEF Match
<1>10. ASSUME NEW r \in Request, Accept(r) PROVE TypeInv'
  <2>1. request[r].email \in Email /\ request[r].given \in Request
    BY <1>0, <1>10 DEF Accept, At, Sound
  <2>2. /\ accounts' = [accounts EXCEPT ![request[r].email].is_verified = TRUE]
        /\ otps' = [otps EXCEPT ![request[r].given].state = "used"]
    BY <1>10 DEF Accept
  <2>3. accounts' \in [Email -> Account]
    BY <1>0, <2>1, <2>2 DEF OthersOK, Account
  <2>4. \A f \in Email : /\ accounts[f].is_verified => accounts'[f].is_verified
                         /\ accounts'[f].logged_in = accounts[f].logged_in
    BY <1>0, <2>1, <2>2 DEF OthersOK, Account
  <2>5. otps' \in [Request -> Otp]
    BY <1>0, <2>1, <2>2 DEF OthersOK, Otp
  <2>6. OthersOK'
    BY <1>0, <1>10, <2>3, <2>4, <2>5 DEF Accept, OthersOK
  <2>7. request' \in [Request -> Call] /\ Callers' /\ Welcomed'
    BY <1>10, <1>b, <2>4, Leaves DEF Accept
  <2> QED
    BY <1>a, <2>6, <2>7
<1>11. ASSUME NEW r \in Request, LogIn(r) PROVE TypeInv'
  <2>1. OthersOK' /\ accounts' = accounts
    BY <1>11, <1>d DEF LogIn, tables
  <2>2. PICK e \in Email :
          \/ request' = [request EXCEPT ![r] = Over("login", "refused")]
          \/ /\ accounts[e].is_verified
             /\ request' = [request EXCEPT ![r].op = "login", ![r].email = e,
                              ![r].stage = "stamp", ![r].answer = "ok"]
    BY <1>11 DEF LogIn
  <2>3. CASE request' = [request EXCEPT ![r] = Over("login", "refused")]
    BY <1>a, <1>b, <1>e, <2>1, <2>3
  <2>4. CASE /\ accounts[e].is_verified
             /\ request' = [request EXCEPT ![r].op = "login", ![r].email = e,
                              ![r].stage = "stamp", ![r].answer = "ok"]
    <3> DEFINE q == [request[r] EXCEPT !.op = "login", !.email = e,
                       !.stage = "stamp", !.answer = "ok"]
    <3>1. q \in Call
      BY <1>0, CallUpdates
    <3>2. request' = [request EXCEPT ![r] = q]
      BY <2>4 DEF TypeInv, TypeOK
    <3>3. /\ q.stage = "stamp" /\ q.op = "login" /\ q.email = e
          /\ q.answer = "ok"
      BY <1>0 DEF Call
    <3>4. Sound(q)
      BY <3>3 DEF Sound
    <3> QED
      BY <1>a, <2>1, <2>4, <3>1, <3>2, <3>3, <3>4, CallStep
  <2> QED
    BY <2>2, <2>3, <2>4
<1>12. ASSUME NEW r \in Request, RecordLogin(r) PROVE TypeInv'
  <2>1. /\ request[r].email \in Email
        /\ accounts[request[r].email].is_verified
    BY <1>0, <1>12 DEF RecordLogin, At, Sound, Welcomed
  <2>2. accounts' = [accounts EXCEPT ![request[r].email].logged_in = TRUE]
    BY <1>12 DEF RecordLogin
  <2>3. accounts' \in [Email -> Account]
    BY <1>0, <2>1, <2>2 DEF OthersOK, Account
  <2>4. \A f \in Email : /\ accounts'[f].is_verified = accounts[f].is_verified
                         /\ accounts'[f].logged_in => accounts'[f].is_verified
    BY <1>0, <2>1, <2>2 DEF OthersOK, Account
  <2>5. OthersOK'
    BY <1>0, <1>12, <2>3, <2>4 DEF RecordLogin, OthersOK
  <2>6. request' \in [Request -> Call] /\ Callers' /\ Welcomed'
    BY <1>12, <1>b, <2>4, Leaves DEF RecordLogin
  <2> QED
    BY <1>a, <2>5, <2>6
<1>13. ASSUME NEW r \in Request, UseKey(r) PROVE TypeInv'
  <2>1. PICK c \in Cache, k \in SignUps :
          \/ /\ request' = [request EXCEPT ![r] = Over("key", "ok")]
             /\ UNCHANGED cache
          \/ /\ request' = [request EXCEPT ![r].op = "key", ![r].given = k,
                              ![r].cache = c, ![r].stage = "look up"]
             /\ cache' = [cache EXCEPT ![c][k] = 0]
    BY <1>13 DEF UseKey
  <2>2. cache' \in [Cache -> [Key -> Nat]]
    BY <1>0, <1>c, <2>1, CacheUpdate DEF OthersOK, Key
  <2>3. OthersOK' /\ accounts' = accounts
    BY <1>0, <1>13, <2>2 DEF UseKey, OthersOK, tables
  <2>4. CASE request' = [request EXCEPT ![r] = Over("key", "ok")]
    BY <1>a, <1>b, <1>e, <2>3, <2>4
  <2>5. CASE request' = [request EXCEPT ![r].op = "key", ![r].given = k,
                           ![r].cache = c, ![r].stage = "look up"]
    <3> DEFINE q == [request[r] EXCEPT !.op = "key", !.given = k, !.cache = c,
                       !.stage = "look up"]
    <3>1. q \in Call
      BY <1>0, <1>c, CallUpdates
    <3>2. request' = [request EXCEPT ![r] = q]
      BY <2>5 DEF TypeInv, TypeOK
    <3>3. request[r] = Idle
      BY <1>0, <1>13 DEF UseKey, Arrives, At, Sound
    <3>4. /\ q.stage = "look up" /\ q.op = "key" /\ q.cache = c /\ q.given = k
          /\ q.answer = "none"
      BY <3>3 DEF Idle
    <3>5. Sound(q) /\ q.stage # "stamp"
      BY <1>c, <3>4 DEF Sound
    <3> QED
      BY <1>a, <2>3, <3>1, <3>2, <3>5, CallStep
  <2> QED
    BY <2>1, <2>4, <2>5
<1>14. ASSUME NEW r \in Request, LookUp(r) PROVE TypeInv'
  <2>1. OthersOK' /\ \A e \in Email : accounts[e].is_verified => accounts'[e].is_verified
    BY <1>14, <1>d DEF LookUp
  <2>2. CASE Leave(r, "refused")
    BY <1>a, <1>b, <2>1, <2>2, Leaves
  <2>3. CASE request' = [request EXCEPT ![r].stage = "store", ![r].at = now]
    <3> DEFINE q == [request[r] EXCEPT !.stage = "store", !.at = now]
    <3>1. q \in Call
      BY <1>0, <1>b, CallUpdates DEF OthersOK
    <3>2. request' = [request EXCEPT ![r] = q]
      BY <2>3 DEF TypeInv, TypeOK
    <3>3. /\ request[r].op = "key" /\ request[r].cache \in Cache
          /\ request[r].given \in Request /\ request[r].answer = "none"
      BY <1>0, <1>14 DEF LookUp, At, Sound
    <3>4. /\ q.stage = "store" /\ q.op = "key" /\ q.cache = request[r].cache
          /\ q.given = request[r].given /\ q.answer = "none"
      BY <1>0, <3>3 DEF Call
    <3>5. Sound(q) /\ q.stage # "stamp"
      BY <3>3, <3>4 DEF Sound
    <3> QED
      BY <1>a, <2>1, <3>1, <3>2, <3>5, CallStep
  <2> QED
    BY <1>14, <2>2, <2>3 DEF LookUp
<1>15. ASSUME NEW r \in Request, Store(r) PROVE TypeInv'
  <2>1. request[r].cache \in Cache /\ request[r].given \in Request
    BY <1>0, <1>15 DEF Store, At, Sound
  <2>2. cache' \in [Cache -> [Key -> Nat]]
    BY <1>0, <1>15, <2>1, CacheUpdate DEF Store, OthersOK, Key
  <2>3. OthersOK' /\ accounts' = accounts
    BY <1>0, <1>15, <2>2 DEF Store, OthersOK, tables
  <2>4. request' \in [Request -> Call] /\ Callers' /\ Welcomed'
    BY <1>15, <1>b, <2>3, Leaves DEF Store
  <2> QED
    BY <1>a, <2>3, <2>4
<1>16. ASSUME NEW r \in Request, Abort(r) PROVE TypeInv'
  <2>1. OthersOK' /\ \A e \in Email : accounts[e].is_verified => accounts'[e].is_verified
    BY <1>16, <1>d DEF Abort
  <2> DEFINE a == IF request[r].answer = "none" THEN "error" ELSE request[r].answer
  <2>2. a \in Answer /\ a # "created" /\ Leave(r, a)
    BY <1>0, <1>16, <1>b DEF Abort, Open, At, Sound, Call
  <2> QED
    BY <1>a, <2>1, <2>2, Leaves
<1>17. ASSUME Tick PROVE TypeInv'
  <2>1. OthersOK'
    BY <1>0, <1>17 DEF Tick, OthersOK, tables
  <2>2. request' = request /\ accounts' = accounts
    BY <1>17 DEF Tick, tables
  <2>3. request' \in [Request -> Call] /\ Callers' /\ Welcomed'
    BY <1>0, <2>2 DEF TypeOK, Callers, Welcomed, At
  <2> QED
    BY <1>a, <2>1, <2>3
<1>18. ASSUME UNCHANGED vars PROVE TypeInv'
  BY <1>0, <1>18 DEF vars, tables, TypeInv, TypeOK, Callers, Welcomed, At
<1> QED
  BY <1>1, <1>2, <1>3, <1>4, <1>5, <1>6, <1>7, <1>8, <1>9, <1>10, <1>11, <1>12,
     <1>13, <1>14, <1>15, <1>16, <1>17, <1>18
  DEF Next, Ask, Proceed, Finished

LEMMA TypeInvInit == Init => TypeInv
<1> SUFFICES ASSUME Init PROVE TypeInv
  OBVIOUS
<1> USE AccountsAssumption
<1>1. request \in [Request -> Call] /\ \A r \in Request : request[r] = Idle
  BY IdleIsCall DEF Init
<1>2. [by |-> None, is_verified |-> FALSE, logged_in |-> FALSE] \in Account
  BY DEF Account, None
<1>3. [email |-> NoEmail, state |-> "none", expires_at |-> 0] \in Otp
  BY DEF Otp
<1>4. TypeOK
  BY <1>1, <1>2, <1>3 DEF Init, TypeOK
<1>5. Sound(Idle) /\ Idle.stage = "idle"
  BY DEF Sound, Idle
<1> QED
  BY <1>1, <1>4, <1>5 DEF TypeInv, Callers, Welcomed, At

(* TypeInv is invariant: TypeOK with what is known of a request at a stage. *)
THEOREM TypeInvHolds == Spec => []TypeInv
BY TypeInvInit, TypeInvInductive, PTL DEF Spec

(* Every variable keeps its type, and only a verified address has logged   *)
(* in: the columns of a row are written by requests that each read it      *)
(* before.                                                                 *)
THEOREM TypeCorrect == Spec => []TypeOK
<1>1. TypeInv => TypeOK
  BY DEF TypeInv
<1> QED
  BY <1>1, TypeInvHolds, PTL

(* A signup writes the columns it has changed and no other; nothing        *)
(* deletes a row.                                                          *)
LEMMA StepKeepsVerification ==
  TypeInv /\ [Next]_vars =>
    [\A e \in Email : /\ accounts[e].is_verified => accounts'[e].is_verified
                      /\ Exists(e) => Exists(e)']_vars
<1> SUFFICES ASSUME TypeInv, Next
             PROVE  \A e \in Email :
                      /\ accounts[e].is_verified => accounts'[e].is_verified
                      /\ Exists(e) => Exists(e)'
  OBVIOUS
<1>0. /\ accounts \in [Email -> Account]
      /\ \A r \in Request : Sound(request[r]) /\ r # None
  BY AccountsAssumption DEF TypeInv, TypeOK, Callers, Request, None
<1>1. ASSUME accounts' = accounts
      PROVE  \A e \in Email : /\ accounts[e].is_verified => accounts'[e].is_verified
                              /\ Exists(e) => Exists(e)'
  BY <1>1 DEF Exists
<1>2. ASSUME NEW r \in Request, NEW f \in Email, accounts' = [accounts EXCEPT ![f].by = r]
      PROVE  \A e \in Email : /\ accounts[e].is_verified => accounts'[e].is_verified
                              /\ Exists(e) => Exists(e)'
  BY <1>0, <1>2 DEF Exists, Account
<1>3. ASSUME NEW r \in Request, Update(r) \/ Insert(r)
      PROVE  \A e \in Email : /\ accounts[e].is_verified => accounts'[e].is_verified
                              /\ Exists(e) => Exists(e)'
  <2>1. request[r].email \in Email
    BY <1>0, <1>3 DEF Update, Insert, At, Sound
  <2>2. \/ accounts' = accounts
        \/ accounts' = [accounts EXCEPT ![request[r].email].by = r]
    BY <1>3 DEF Update, Insert
  <2> QED
    BY <1>1, <1>2, <2>1, <2>2
<1>4. ASSUME NEW r \in Request, Accept(r) \/ RecordLogin(r)
      PROVE  \A e \in Email : /\ accounts[e].is_verified => accounts'[e].is_verified
                              /\ Exists(e) => Exists(e)'
  <2>1. request[r].email \in Email
    BY <1>0, <1>4 DEF Accept, RecordLogin, At, Sound
  <2>2. \/ accounts' = [accounts EXCEPT ![request[r].email].is_verified = TRUE]
        \/ accounts' = [accounts EXCEPT ![request[r].email].logged_in = TRUE]
    BY <1>4 DEF Accept, RecordLogin
  <2> QED
    BY <1>0, <2>1, <2>2 DEF Exists, Account
<1>5. ASSUME NEW r \in Request,
             \/ Ask(r) \/ SelectCodes(r) \/ Supersede(r) \/ Issue(r) \/ AnswerSignUp(r)
             \/ Match(r) \/ LookUp(r) \/ Store(r) \/ Abort(r)
      PROVE  accounts' = accounts
  BY <1>5 DEF Ask, SignUp, Verify, LogIn, UseKey, SelectCodes, Supersede, Issue,
     AnswerSignUp, Match, LookUp, Store, Abort, tables
<1>6. ASSUME Tick \/ Finished PROVE accounts' = accounts
  BY <1>6 DEF Tick, Finished, vars, tables
<1> QED
  BY <1>1, <1>3, <1>4, <1>5, <1>6 DEF Next, Proceed

(* "Try to signup again after verification should fail": no request takes  *)
(* back the verification of an address, in whatever order they commit.     *)
THEOREM VerificationStays == Spec => VerificationIsPermanent
BY TypeInvHolds, StepKeepsVerification, PTL DEF Spec, VerificationIsPermanent

-----------------------------------------------------------------------------
(* The caches *)

(* k is an account's key, or has been one at the time t or later. *)
KnownAt(k, t) == Current(k) \/ (replaced_at[k] # 0 /\ t <= replaced_at[k])

(* What has been looked up was true then, and that is MaxLookUp ago at most. *)
LookedUp ==
  \A r \in Request : At(r, "store") =>
    /\ request[r].at <= now /\ now <= request[r].at + MaxLookUp
    /\ KnownAt(request[r].given, request[r].at)

(* No entry outlives the time the key was known to be good by more. *)
CachedKnown ==
  \A c \in Cache, k \in Key : cache[c][k] # 0 =>
    /\ cache[c][k] <= now + Ttl
    /\ \/ Current(k)
       \/ replaced_at[k] # 0 /\ cache[c][k] <= replaced_at[k] + Ttl + MaxLookUp

StaleInv == now \in Nat \ {0} /\ LookedUp /\ CachedKnown

(* How the calls of other requests stay, and what becomes of the one that   *)
(* moves.                                                                   *)
LEMMA OthersStay ==
  ASSUME TypeInv, NEW r \in Request, Ask(r) \/ Proceed(r) \/ Abort(r)
  PROVE  \A p \in Request : p # r => request'[p] = request[p]
<1>1. PICK q : request' = [request EXCEPT ![r] = q]
  BY DEF Ask, Proceed, SignUp, Verify, LogIn, UseKey, SelectCodes, Supersede,
     Update, Insert, Issue, AnswerSignUp, Match, Accept, RecordLogin, LookUp,
     Store, Abort, Step, Leave
<1> QED
  BY <1>1 DEF TypeInv, TypeOK

(* What a step makes of the keys: one that stops being current does so now. *)
KeysStay ==
  \A k \in Key :
    /\ Current(k) => Current(k)' \/ replaced_at'[k] = now
    /\ replaced_at'[k] = replaced_at[k] \/ replaced_at'[k] = now

LEMMA StaleInvInductive ==
  TypeInv /\ TypeInv' /\ StaleInv /\ [Next]_vars => StaleInv'
<1> SUFFICES ASSUME TypeInv, TypeInv', StaleInv, [Next]_vars PROVE StaleInv'
  OBVIOUS
<1> USE AccountsAssumption
<1>0. /\ TypeOK /\ TypeOK' /\ now \in Nat \ {0} /\ LookedUp /\ CachedKnown
      /\ \A r \in Request : request[r] \in Call /\ Sound(request[r])
      /\ \A r \in Request : r # None
      /\ replaced_at \in [Key -> Nat] /\ cache \in [Cache -> [Key -> Nat]]
      /\ accounts \in [Email -> Account] /\ request \in [Request -> Call]
  BY DEF TypeInv, TypeOK, Callers, StaleInv, Request, None
<1>a. ASSUME NEW r \in Request, \A p \in Request : p # r => request'[p] = request[p],
             ~ At(r, "store")', now' = now, KeysStay
      PROVE  LookedUp'
  <2> SUFFICES ASSUME NEW p \in Request, At(p, "store")'
               PROVE  (/\ request[p].at <= now /\ now <= request[p].at + MaxLookUp
                       /\ KnownAt(request[p].given, request[p].at))'
    BY DEF LookedUp
  <2>1. request'[p] = request[p] /\ At(p, "store")
    BY <1>a DEF At
  <2>2. /\ request[p].at <= now /\ now <= request[p].at + MaxLookUp
        /\ KnownAt(request[p].given, request[p].at)
    BY <1>0, <2>1 DEF LookedUp
  <2>3. request[p].given \in Key /\ request[p].at \in Nat
    BY <1>0, <2>1 DEF At, Sound, Call, Key
  <2>4. \/ Current(request[p].given)'
        \/ /\ replaced_at'[request[p].given] # 0
           /\ request[p].at <= replaced_at'[request[p].given]
    BY <1>0, <1>a, <2>2, <2>3 DEF KeysStay, KnownAt
  <2>5. KnownAt(request[p].given, request[p].at)'
    BY <2>1, <2>4 DEF KnownAt, Current
  <2> QED
    BY <1>a, <2>1, <2>2, <2>5
<1>b. ASSUME now' = now, KeysStay,
             \A c \in Cache, k \in Key : cache'[c][k] = 0 \/ cache'[c][k] = cache[c][k]
      PROVE  CachedKnown'
  <2> SUFFICES ASSUME NEW c \in Cache, NEW k \in Key, cache'[c][k] # 0
               PROVE  /\ cache'[c][k] <= now' + Ttl
                      /\ \/ Current(k)'
                         \/ /\ replaced_at'[k] # 0
                            /\ cache'[c][k] <= replaced_at'[k] + Ttl + MaxLookUp
    BY DEF CachedKnown
  <2>1. cache'[c][k] = cache[c][k] /\ cache[c][k] \in Nat
    BY <1>0, <1>b
  <2>2. /\ cache[c][k] <= now + Ttl
        /\ \/ Current(k)
           \/ replaced_at[k] # 0 /\ cache[c][k] <= replaced_at[k] + Ttl + MaxLookUp
    BY <1>0, <2>1 DEF CachedKnown
  <2> QED
    BY <1>0, <1>b, <2>1, <2>2 DEF KeysStay
<1>c. ASSUME NEW r \in Request, Ask(r) \/ Proceed(r) \/ Abort(r), now' = now
      PROVE  /\ \A p \in Request : p # r => request'[p] = request[p]
             /\ now' \in Nat \ {0}
  BY <1>0, <1>c, OthersStay
<1>d. ASSUME \A e \in Email : accounts'[e].by = accounts[e].by,
             replaced_at' = replaced_at
      PROVE  KeysStay
  BY <1>d DEF KeysStay, Current
<1>e. ASSUME UNCHANGED cache
      PROVE  \A c \in Cache, k \in Key : cache'[c][k] = 0 \/ cache'[c][k] = cache[c][k]
  BY <1>e
<1>f. ASSUME NEW r \in Request, NEW op, NEW a, request' = [request EXCEPT ![r] = Over(op, a)]
      PROVE  ~ At(r, "store")'
  BY <1>0, <1>f DEF At, Over, Idle
<1>g. ASSUME NEW r \in Request, NEW s, s # "store", Step(r, s)
      PROVE  ~ At(r, "store")'
  BY <1>0, <1>g DEF At, Step, Call
<1>h. ASSUME NEW r \in Request, NEW a, Leave(r, a)
      PROVE  ~ At(r, "store")'
  BY <1>f, <1>h DEF Leave
<1>1. ASSUME NEW r \in Request, Update(r) PROVE StaleInv'
  <2>1. request[r].email \in Email
    BY <1>0, <1>1 DEF Update, At, Sound
  <2>2. /\ now' = now /\ cache' = cache
        /\ accounts' = [accounts EXCEPT ![request[r].email].by = r]
        /\ replaced_at' = [replaced_at EXCEPT ![accounts[request[r].email].by] = now]
    BY <1>1 DEF Update
  <2>3. \A e \in Email : e # request[r].email => accounts'[e].by = accounts[e].by
    BY <1>0, <2>2
  <2>4. KeysStay
    <3> SUFFICES ASSUME NEW k \in Key
                 PROVE  /\ Current(k) => Current(k)' \/ replaced_at'[k] = now
                        /\ replaced_at'[k] = replaced_at[k] \/ replaced_at'[k] = now
      BY DEF KeysStay
    <3>1. replaced_at'[k] = IF k = accounts[request[r].email].by THEN now ELSE replaced_at[k]
      BY <1>0, <2>2
    <3>2. ASSUME Current(k), k # accounts[request[r].email].by PROVE Current(k)'
      BY <2>3, <3>2 DEF Current
    <3> QED
      BY <3>1, <3>2
  <2>5. ~ At(r, "store")'
    BY <1>0, <1>1 DEF Update, At
  <2> QED
    BY <1>1, <1>a, <1>b, <1>c, <1>e, <2>2, <2>4, <2>5 DEF StaleInv, Proceed
<1>2. ASSUME NEW r \in Request, Insert(r) PROVE StaleInv'
  <2>1. request[r].email \in Email
    BY <1>0, <1>2 DEF Insert, At, Sound
  <2>2. now' = now /\ cache' = cache /\ replaced_at' = replaced_at
    BY <1>2 DEF Insert
  <2>3. \/ accounts' = accounts
        \/ /\ accounts' = [accounts EXCEPT ![request[r].email].by = r]
           /\ accounts[request[r].email].by = None
    BY <1>2 DEF Insert, Exists
  <2>4. KeysStay
    <3> SUFFICES ASSUME NEW k \in Key, Current(k) PROVE Current(k)'
      BY <2>2 DEF KeysStay
    <3>1. PICK e \in Email : accounts[e].by = k
      BY DEF Current
    <3>2. accounts'[e].by = k
      BY <1>0, <2>1, <2>3, <3>1 DEF Key
    <3> QED
      BY <3>2 DEF Current
  <2>5. ~ At(r, "store")'
    BY <1>2, <1>g, <1>h DEF Insert
  <2> QED
    BY <1>2, <1>a, <1>b, <1>c, <1>e, <2>2, <2>4, <2>5 DEF StaleInv, Proceed
<1>3. ASSUME NEW r \in Request, Accept(r) \/ RecordLogin(r) PROVE StaleInv'
  <2>1. request[r].email \in Email
    BY <1>0, <1>3 DEF Accept, RecordLogin, At, Sound
  <2>2. now' = now /\ cache' = cache /\ replaced_at' = replaced_at /\ Leave(r, "ok")
    BY <1>3 DEF Accept, RecordLogin
  <2>3. \/ accounts' = [accounts EXCEPT ![request[r].email].is_verified = TRUE]
        \/ accounts' = [accounts EXCEPT ![request[r].email].logged_in = TRUE]
    BY <1>3 DEF Accept, RecordLogin
  <2>4. \A e \in Email : accounts'[e].by = accounts[e].by
    BY <1>0, <2>1, <2>3 DEF Account
  <2>5. ~ At(r, "store")'
    BY <1>f, <2>2 DEF Leave
  <2> QED
    BY <1>3, <1>a, <1>b, <1>c, <1>d, <1>e, <2>2, <2>4, <2>5 DEF StaleInv, Proceed
<1>4. ASSUME NEW r \in Request,
             \/ SignUp(r) \/ Verify(r) \/ LogIn(r) \/ SelectCodes(r) \/ Supersede(r)
             \/ Issue(r) \/ AnswerSignUp(r) \/ Match(r) \/ Abort(r)
      PROVE  StaleInv'
  <2>1. UNCHANGED <<accounts, cache, now, replaced_at>>
    BY <1>4 DEF SignUp, Verify, LogIn, SelectCodes, Supersede, Issue, AnswerSignUp,
       Match, Abort, tables
  <2>2. ~ At(r, "store")'
    <3>1. CASE SignUp(r)
      BY <1>0, <1>f, <3>1 DEF SignUp, At, Call
    <3>2. CASE Verify(r)
      <4>1. PICK e \in Email, k \in Issued :
              \/ request' = [request EXCEPT ![r] = Over("verify", "refused")]
              \/ request' = [request EXCEPT ![r] = Over("verify", "ok")]
              \/ request' = [request EXCEPT
                   ![r].op = "verify", ![r].email = e, ![r].given = k,
                   ![r].earlier = Answered, ![r].stage = "match"]
        BY <3>2 DEF Verify
      <4>2. CASE request' = [request EXCEPT
                   ![r].op = "verify", ![r].email = e, ![r].given = k,
                   ![r].earlier = Answered, ![r].stage = "match"]
        BY <1>0, <4>2 DEF At, Call
      <4> QED
        BY <1>f, <4>1, <4>2
    <3>3. CASE LogIn(r)
      BY <1>0, <1>f, <3>3 DEF LogIn, At, Call
    <3>4. CASE SelectCodes(r) \/ Supersede(r) \/ AnswerSignUp(r)
      BY <1>0, <3>4 DEF SelectCodes, Supersede, AnswerSignUp, At, Call
    <3>5. CASE Issue(r) \/ Match(r) \/ Abort(r)
      BY <1>g, <1>h, <3>5 DEF Issue, Match, Abort
    <3> QED
      BY <1>4, <3>1, <3>2, <3>3, <3>4, <3>5
  <2> QED
    BY <1>4, <1>a, <1>b, <1>c, <1>d, <1>e, <2>1, <2>2 DEF StaleInv, Ask, Proceed
<1>5. ASSUME NEW r \in Request, UseKey(r) PROVE StaleInv'
  <2>1. UNCHANGED <<accounts, now, replaced_at>>
    BY <1>5 DEF UseKey, tables
  <2>2. PICK c \in Cache, k \in SignUps :
          \/ /\ request' = [request EXCEPT ![r] = Over("key", "ok")]
             /\ UNCHANGED cache
          \/ /\ request' = [request EXCEPT ![r].op = "key", ![r].given = k,
                              ![r].cache = c, ![r].stage = "look up"]
             /\ cache' = [cache EXCEPT ![c][k] = 0]
    BY <1>5 DEF UseKey
  <2>3. ~ At(r, "store")'
    <3>1. CASE request' = [request EXCEPT ![r].op = "key", ![r].given = k,
                             ![r].cache = c, ![r].stage = "look up"]
      <4> DEFINE q == [request[r] EXCEPT !.op = "key", !.given = k, !.cache = c,
                         !.stage = "look up"]
      <4>1. request' = [request EXCEPT ![r] = q]
        BY <1>0, <3>1
      <4>2. q.stage = "look up"
        BY <1>0 DEF Call
      <4> QED
        BY <1>0, <4>1, <4>2 DEF At
    <3> QED
      BY <1>f, <2>2, <3>1
  <2>4. \A d \in Cache, j \in Key : cache'[d][j] = 0 \/ cache'[d][j] = cache[d][j]
    <3>1. CASE cache' = [cache EXCEPT ![c][k] = 0]
      <4>1. k \in Key /\ 0 \in Nat
        BY DEF SignUps, Key
      <4> QED
        BY <1>0, <3>1, <4>1, CacheUpdate
    <3> QED
      BY <2>2, <3>1
  <2> QED
    BY <1>5, <1>a, <1>b, <1>c, <1>d, <2>1, <2>3, <2>4 DEF StaleInv, Ask
<1>6. ASSUME NEW r \in Request, LookUp(r) PROVE StaleInv'
  <2>1. UNCHANGED <<accounts, cache, now, replaced_at>>
    BY <1>6 DEF LookUp, tables
  <2>2. CachedKnown' /\ now' \in Nat \ {0}
    BY <1>0, <1>b, <1>d, <1>e, <2>1
  <2>3. CASE Leave(r, "refused")
    BY <1>6, <1>a, <1>c, <1>d, <1>f, <2>1, <2>2, <2>3 DEF StaleInv, Leave, Proceed
  <2>4. CASE /\ Current(request[r].given)
             /\ request' = [request EXCEPT ![r].stage = "store", ![r].at = now]
    <3> SUFFICES ASSUME NEW p \in Request, At(p, "store")'
                 PROVE  (/\ request[p].at <= now /\ now <= request[p].at + MaxLookUp
                         /\ KnownAt(request[p].given, request[p].at))'
      BY <2>2 DEF StaleInv, LookedUp
    <3>1. CASE p = r
      <4>1. request'[p].at = now /\ request'[p].given = request[r].given
        BY <1>0, <2>4, <3>1 DEF Call
      <4> QED
        BY <1>0, <2>1, <2>4, <4>1 DEF KnownAt, Current
    <3>2. CASE p # r
      <4>1. request'[p] = request[p] /\ At(p, "store")
        BY <1>0, <2>4, <3>2 DEF At
      <4> QED
        BY <1>0, <2>1, <4>1 DEF LookedUp, KnownAt, Current
    <3> QED
      BY <3>1, <3>2
  <2> QED
    BY <1>6, <2>3, <2>4 DEF LookUp
<1>7. ASSUME NEW r \in Request, Store(r) PROVE StaleInv'
  <2>1. UNCHANGED <<accounts, now, replaced_at>> /\ Leave(r, "ok")
    BY <1>7 DEF Store, tables
  <2>2. LookedUp' /\ now' \in Nat \ {0}
    BY <1>7, <1>a, <1>c, <1>d, <1>f, <2>1 DEF Leave, Proceed
  <2> DEFINE c == request[r].cache
             k == request[r].given
             t == request[r].at
  <2>3. c \in Cache /\ k \in Key /\ t \in Nat
    BY <1>0, <1>7 DEF Store, At, Sound, Call, Key
  <2>4. t <= now /\ now <= t + MaxLookUp /\ KnownAt(k, t)
    BY <1>0, <1>7 DEF Store, LookedUp
  <2>5. \A d \in Cache, j \in Key :
          cache'[d][j] = IF d = c /\ j = k THEN now + Ttl ELSE cache[d][j]
    BY <1>0, <1>7, <2>3, CacheUpdate DEF Store
  <2>6. CachedKnown'
    <3> SUFFICES ASSUME NEW d \in Cache, NEW j \in Key, cache'[d][j] # 0
                 PROVE  /\ cache'[d][j] <= now + Ttl
                        /\ \/ Current(j)
                           \/ /\ replaced_at[j] # 0
                              /\ cache'[d][j] <= replaced_at[j] + Ttl + MaxLookUp
      BY <2>1 DEF CachedKnown, Current
    <3>1. CASE d = c /\ j = k
      BY <1>0, <2>3, <2>4, <2>5, <3>1 DEF KnownAt
    <3>2. CASE ~ (d = c /\ j = k)
      BY <1>0, <2>5, <3>2 DEF CachedKnown
    <3> QED
      BY <3>1, <3>2
  <2> QED
    BY <2>2, <2>6 DEF StaleInv
<1>8. ASSUME Tick PROVE StaleInv'
  <2>1. /\ now' = now + 1 /\ UNCHANGED <<accounts, cache, request, replaced_at>>
        /\ \A r \in Request : At(r, "store") => now < request[r].at + MaxLookUp
    BY <1>8 DEF Tick, tables
  <2>2. LookedUp'
    <3> SUFFICES ASSUME NEW p \in Request, At(p, "store")
                 PROVE  /\ request[p].at <= now + 1 /\ now + 1 <= request[p].at + MaxLookUp
                        /\ KnownAt(request[p].given, request[p].at)
      BY <2>1 DEF LookedUp, At, KnownAt, Current
    <3>1. request[p].at \in Nat /\ request[p].at <= now /\ now < request[p].at + MaxLookUp
          /\ KnownAt(request[p].given, request[p].at)
      BY <1>0, <2>1 DEF LookedUp, Call
    <3> QED
      BY <1>0, <3>1
  <2>3. CachedKnown'
    BY <1>0, <2>1 DEF CachedKnown, Current
  <2> QED
    BY <1>0, <2>1, <2>2, <2>3 DEF StaleInv
<1>9. ASSUME UNCHANGED vars PROVE StaleInv'
  BY <1>9 DEF vars, tables, StaleInv, LookedUp, CachedKnown, KnownAt, Current, At
<1> QED
  BY <1>1, <1>2, <1>3, <1>4, <1>5, <1>6, <1>7, <1>8, <1>9
  DEF Next, Ask, Proceed, Finished

LEMMA StaleInvInit == Init => StaleInv
<1> SUFFICES ASSUME Init PROVE StaleInv
  OBVIOUS
<1>1. LookedUp
  BY DEF Init, LookedUp, At, Idle
<1>2. CachedKnown
  BY DEF Init, CachedKnown
<1> QED
  BY <1>1, <1>2 DEF Init, StaleInv

LEMMA StaleInvHolds == Spec => []StaleInv
<1>1. TypeInv /\ StaleInv /\ [Next]_vars => StaleInv'
  BY TypeInvInductive, StaleInvInductive
<1> QED
  BY <1>1, TypeInvHolds, StaleInvInit, PTL DEF Spec

(* "A just-revoked key stays usable for up to TTL seconds", and for the    *)
(* time of one look-up: for caches of any number of processes, any         *)
(* lifetime of an entry and any bound on a look-up.                        *)
THEOREM CachesForget == Spec => []StaleKeysLapse
<1>1. TypeInv /\ StaleInv => StaleKeysLapse
  <2> SUFFICES ASSUME TypeInv, StaleInv, NEW c \in Cache, NEW k \in Key, Usable(c, k)
               PROVE  \/ Current(k)
                      \/ replaced_at[k] # 0 /\ now < replaced_at[k] + Ttl + MaxLookUp
    BY DEF StaleKeysLapse
  <2>1. /\ cache[c][k] \in Nat /\ now \in Nat /\ replaced_at[k] \in Nat
        /\ Ttl \in Nat /\ MaxLookUp \in Nat
    BY AccountsAssumption DEF TypeInv, TypeOK
  <2>2. now < cache[c][k] /\ cache[c][k] # 0
    BY <2>1 DEF Usable
  <2> QED
    BY <2>1, <2>2 DEF StaleInv, CachedKnown
<1> QED
  BY <1>1, TypeInvHolds, StaleInvHolds, PTL

-----------------------------------------------------------------------------
(* The codes *)

(* A signup whose second transaction is at hand has a row to issue a code  *)
(* to, and one that has committed it has a code.                           *)
CodesIssued ==
  \A f \in Request :
    /\ At(f, "issue") \/ At(f, "answer") \/ f \in Answered
       => Exists(request[f].email)
    /\ At(f, "answer") \/ f \in Answered
       => otps[f].email = request[f].email /\ otps[f].state \in {"unused", "used"}

EarlierAnswered == \A r \in Request : request[r].earlier \subseteq Answered

(* s is a signup that came in after f had been answered. *)
Follows(s, f) ==
  /\ request[s].op = "signup"
  /\ f \in request[s].earlier
  /\ request[f].email = request[s].email

(* The code of an earlier signup is in the hands of the later one, or used. *)
InHand(s, f) ==
  /\ ~ At(s, "insert")
  /\ At(s, "supersede") \/ At(s, "update")
     => f \in request[s].rows \/ otps[f].state = "used"
  /\ At(s, "issue") \/ At(s, "answer") \/ s \in Answered
     => otps[f].state = "used"

Superseded == \A s, f \in Request : Follows(s, f) => InHand(s, f)

CodeInv == CodesIssued /\ EarlierAnswered /\ Superseded /\ OnlyTheLastCode

Moved(r) == Ask(r) \/ Proceed(r) \/ Abort(r)

(* The stages at which a request is neither new nor over. *)
LEMMA MoverNotDone ==
  ASSUME TypeInv, NEW r \in Request, Moved(r)
  PROVE  r \notin Answered
<1>1. ~ At(r, "done")
  BY DEF Moved, Ask, Proceed, SignUp, Verify, LogIn, UseKey, SelectCodes, Supersede,
     Update, Insert, Issue, AnswerSignUp, Match, Accept, RecordLogin, LookUp,
     Store, Abort, Arrives, Open, At
<1>2. Sound(request[r])
  BY DEF TypeInv, Callers
<1> QED
  BY <1>1, <1>2 DEF Answered, Sound, At

(* Only its own signup makes a code unused. *)
LEMMA CodesStay ==
  ASSUME TypeInv, NEW r \in Request, Moved(r), NEW f \in Request
  PROVE  \/ Issue(r) /\ f = r
         \/ /\ otps'[f].email = otps[f].email
            /\ otps'[f].state \in {otps[f].state, "used"}
<1>0. otps \in [Request -> Otp] /\ otps[f] \in Otp /\ Sound(request[r])
  BY DEF TypeInv, TypeOK, Callers
<1>1. CASE Update(r)
  BY <1>0, <1>1 DEF Update, Otp
<1>2. CASE Issue(r)
  BY <1>0, <1>2 DEF Issue
<1>3. CASE Accept(r)
  <2>1. request[r].given \in Request
    BY <1>0, <1>3 DEF Accept, At, Sound
  <2> QED
    BY <1>0, <1>3, <2>1 DEF Accept, Otp
<1>4. CASE otps' = otps
  BY <1>4
<1>5. Update(r) \/ Issue(r) \/ Accept(r) \/ otps' = otps
  BY DEF Moved, Ask, Proceed, SignUp, Verify, LogIn, UseKey, SelectCodes, Supersede,
     Insert, AnswerSignUp, Match, RecordLogin, LookUp, Store, Abort, tables
<1> QED
  BY <1>1, <1>2, <1>3, <1>4, <1>5

(* What a step leaves of the others, and of all that has been answered. *)
LEMMA CodeFrame ==
  ASSUME TypeInv, NEW r \in Request, Moved(r)
  PROVE  /\ \A p \in Request : p # r => request'[p] = request[p]
         /\ \A f \in Answered : f # r /\ f \in Answered' /\ request'[f] = request[f]
         /\ \A f \in Request : f # r =>
              /\ otps'[f].email = otps[f].email
              /\ otps'[f].state \in {otps[f].state, "used"}
         /\ \A e \in Email : Exists(e) => Exists(e)'
<1>1. \A p \in Request : p # r => request'[p] = request[p]
  BY OthersStay DEF Moved
<1>2. r \notin Answered
  BY MoverNotDone
<1>3. \A f \in Answered : f # r /\ f \in Answered' /\ request'[f] = request[f]
  BY <1>1, <1>2 DEF Answered
<1>4. \A e \in Email : Exists(e) => Exists(e)'
  <2>1. Next
    BY DEF Next, Moved
  <2>2. \/ vars' = vars
        \/ \A e \in Email : Exists(e) => Exists(e)'
    BY <2>1, StepKeepsVerification
  <2>3. vars' = vars => \A e \in Email : Exists(e) => Exists(e)'
    BY DEF vars, tables, Exists
  <2> QED
    BY <2>2, <2>3
<1>5. \A f \in Request : f # r =>
        /\ otps'[f].email = otps[f].email
        /\ otps'[f].state \in {otps[f].state, "used"}
  BY CodesStay
<1> QED
  BY <1>1, <1>3, <1>4, <1>5

(* What a step makes of the call of the request that moves. *)
Parted(r) ==
  request'[r].earlier = {} /\ request'[r].answer # "created"
  /\ request'[r].stage \in {"done", "stamp", "look up"}
SignedUp(r) ==
  /\ SignUp(r)
  /\ request'[r].op = "signup" /\ request'[r].email \in Email
  /\ request'[r].earlier = Answered /\ request'[r].answer = "none"
  /\ request'[r].stage = IF Exists(request'[r].email) THEN "select" ELSE "insert"
Verifies(r) ==
  /\ request'[r].op = "verify" /\ request'[r].earlier = Answered
  /\ request'[r].answer = "none" /\ request'[r].stage = "match"
Keeps(r) ==
  /\ request'[r].op = request[r].op /\ request'[r].email = request[r].email
  /\ request'[r].earlier = request[r].earlier /\ request'[r].given = request[r].given

LEMMA MoverCall ==
  ASSUME TypeInv, NEW r \in Request, Moved(r)
  PROVE  \/ Parted(r) \/ SignedUp(r) \/ Verifies(r)
         \/ /\ Keeps(r)
            /\ \/ /\ SelectCodes(r) /\ request'[r].stage = "supersede"
                  /\ request'[r].rows = Unused(request[r].email)
                  /\ request'[r].answer = "none"
               \/ /\ Supersede(r) /\ request'[r].stage = "update"
                  /\ request'[r].rows = request[r].rows \cap Unused(request[r].email)
                  /\ request'[r].answer = "none"
               \/ /\ Update(r) /\ request'[r].stage = "issue"
                  /\ request'[r].answer = "none"
               \/ /\ Insert(r) /\ request'[r].stage = "issue"
                  /\ request'[r].answer = "none"
               \/ /\ Issue(r) /\ request'[r].stage = "answer"
                  /\ request'[r].answer = "none"
               \/ /\ AnswerSignUp(r) /\ request'[r].stage = "done"
               \/ /\ Match(r) /\ request'[r].stage = "accept"
                  /\ request'[r].answer = "none"
                  /\ Matches(request[r].email, request[r].given)
               \/ /\ LookUp(r) /\ request'[r].stage = "store"
                  /\ request'[r].answer = "none"
<1>0. /\ request \in [Request -> Call] /\ request[r] \in Call /\ Sound(request[r])
  BY DEF TypeInv, TypeOK, Callers
<1>a. ASSUME NEW op, NEW a, a # "created", request' = [request EXCEPT ![r] = Over(op, a)]
      PROVE  Parted(r)
  BY <1>0, <1>a DEF Over, Idle, Parted
<1>b. ASSUME NEW a, a # "created", Leave(r, a) PROVE Parted(r)
  BY <1>a, <1>b DEF Leave
<1>c. Arrives(r) => request[r] = Idle
  BY <1>0 DEF Arrives, At, Sound
<1>1. CASE SignUp(r)
  <2>1. PICK e \in Email :
          IF accounts[e].is_verified
          THEN request' = [request EXCEPT ![r] = Over("signup", "refused")]
          ELSE request' = [request EXCEPT
                 ![r].op = "signup", ![r].email = e, ![r].earlier = Answered,
                 ![r].stage = IF Exists(e) THEN "select" ELSE "insert"]
    BY <1>1 DEF SignUp
  <2>2. CASE accounts[e].is_verified
    BY <1>a, <2>1, <2>2
  <2>3. CASE ~ accounts[e].is_verified
    <3> DEFINE q == [request[r] EXCEPT !.op = "signup", !.email = e,
                       !.earlier = Answered,
                       !.stage = IF Exists(e) THEN "select" ELSE "insert"]
    <3>1. request' = [request EXCEPT ![r] = q]
      BY <1>0, <2>1, <2>3
    <3>2. request[r] = Idle
      BY <1>1, <1>c DEF SignUp
    <3>3. /\ q.op = "signup" /\ q.email = e /\ q.earlier = Answered
          /\ q.answer = "none" /\ q.stage = IF Exists(e) THEN "select" ELSE "insert"
      BY <3>2 DEF Idle
    <3>4. request'[r] = q
      BY <1>0, <3>1
    <3> HIDE DEF q
    <3> QED
      BY <1>1, <3>3, <3>4 DEF SignedUp
  <2> QED
    BY <2>2, <2>3
<1>2. CASE Verify(r)
  <2>1. PICK e \in Email, k \in Issued :
          \/ request' = [request EXCEPT ![r] = Over("verify", "refused")]
          \/ request' = [request EXCEPT ![r] = Over("verify", "ok")]
          \/ request' = [request EXCEPT
               ![r].op = "verify", ![r].email = e, ![r].given = k,
               ![r].earlier = Answered, ![r].stage = "match"]
    BY <1>2 DEF Verify
  <2>2. CASE request' = [request EXCEPT
               ![r].op = "verify", ![r].email = e, ![r].given = k,
               ![r].earlier = Answered, ![r].stage = "match"]
    <3> DEFINE q == [request[r] EXCEPT !.op = "verify", !.email = e, !.given = k,
                       !.earlier = Answered, !.stage = "match"]
    <3>1. request' = [request EXCEPT ![r] = q]
      BY <1>0, <2>2
    <3>2. request[r] = Idle
      BY <1>2, <1>c DEF Verify
    <3>3. /\ q.op = "verify" /\ q.earlier = Answered
          /\ q.answer = "none" /\ q.stage = "match"
      BY <3>2 DEF Idle
    <3>4. request'[r] = q
      BY <1>0, <3>1
    <3> HIDE DEF q
    <3> QED
      BY <3>3, <3>4 DEF Verifies
  <2> QED
    BY <1>a, <2>1, <2>2
<1>3. CASE LogIn(r)
  <2>1. PICK e \in Email :
          \/ request' = [request EXCEPT ![r] = Over("login", "refused")]
          \/ request' = [request EXCEPT ![r].op = "login", ![r].email = e,
                           ![r].stage = "stamp", ![r].answer = "ok"]
    BY <1>3 DEF LogIn
  <2>2. CASE request' = [request EXCEPT ![r].op = "login", ![r].email = e,
                           ![r].stage = "stamp", ![r].answer = "ok"]
    <3> DEFINE q == [request[r] EXCEPT !.op = "login", !.email = e,
                       !.stage = "stamp", !.answer = "ok"]
    <3>1. request' = [request EXCEPT ![r] = q]
      BY <1>0, <2>2
    <3>2. request[r] = Idle
      BY <1>3, <1>c DEF LogIn
    <3>3. q.earlier = {} /\ q.answer = "ok" /\ q.stage = "stamp"
      BY <3>2 DEF Idle
    <3>4. request'[r] = q
      BY <1>0, <3>1
    <3> HIDE DEF q
    <3> QED
      BY <3>3, <3>4 DEF Parted
  <2> QED
    BY <1>a, <2>1, <2>2
<1>4. CASE UseKey(r)
  <2>1. PICK c \in Cache, k \in SignUps :
          \/ request' = [request EXCEPT ![r] = Over("key", "ok")]
          \/ request' = [request EXCEPT ![r].op = "key", ![r].given = k,
                           ![r].cache = c, ![r].stage = "look up"]
    BY <1>4 DEF UseKey
  <2>2. CASE request' = [request EXCEPT ![r].op = "key", ![r].given = k,
                           ![r].cache = c, ![r].stage = "look up"]
    <3> DEFINE q == [request[r] EXCEPT !.op = "key", !.given = k, !.cache = c,
                       !.stage = "look up"]
    <3>1. request' = [request EXCEPT ![r] = q]
      BY <1>0, <2>2
    <3>2. request[r] = Idle
      BY <1>4, <1>c DEF UseKey
    <3>3. q.earlier = {} /\ q.answer = "none" /\ q.stage = "look up"
      BY <3>2 DEF Idle
    <3>4. request'[r] = q
      BY <1>0, <3>1
    <3> HIDE DEF q
    <3> QED
      BY <3>3, <3>4 DEF Parted
  <2> QED
    BY <1>a, <2>1, <2>2
<1>d. ASSUME NEW s, Step(r, s), request[r].answer = "none"
      PROVE  Keeps(r) /\ request'[r].stage = s /\ request'[r].answer = "none"
  BY <1>0, <1>d DEF Step, Keeps, Call
<1>5. CASE SelectCodes(r)
  BY <1>0, <1>5 DEF SelectCodes, Keeps, Call, At, Sound
<1>6. CASE Supersede(r)
  BY <1>0, <1>6 DEF Supersede, Keeps, Call, At, Sound
<1>7. CASE Update(r)
  BY <1>0, <1>7 DEF Update, Keeps, Call, At, Sound
<1>8. CASE Insert(r)
  BY <1>0, <1>8, <1>b, <1>d DEF Insert, At, Sound
<1>9. CASE Issue(r)
  BY <1>0, <1>9, <1>d DEF Issue, At, Sound
<1>10. CASE AnswerSignUp(r)
  BY <1>0, <1>10 DEF AnswerSignUp, Keeps, Call
<1>11. CASE Match(r)
  BY <1>0, <1>11, <1>b, <1>d DEF Match, At, Sound
<1>12. CASE Accept(r) \/ RecordLogin(r) \/ Store(r)
  BY <1>12, <1>b DEF Accept, RecordLogin, Store
<1>13. CASE LookUp(r)
  <2>1. CASE Leave(r, "refused")
    BY <2>1, <1>b
  <2>2. CASE request' = [request EXCEPT ![r].stage = "store", ![r].at = now]
    BY <1>0, <1>13, <2>2 DEF LookUp, Keeps, Call, At, Sound
  <2> QED
    BY <1>13, <2>1, <2>2 DEF LookUp
<1>14. CASE Abort(r)
  BY <1>0, <1>14, <1>b DEF Abort, Open, At, Sound
<1> QED
  BY <1>1, <1>2, <1>3, <1>4, <1>5, <1>6, <1>7, <1>8, <1>9, <1>10, <1>11, <1>12,
     <1>13, <1>14
  DEF Moved, Ask, Proceed

LEMMA CodeInvStep ==
  ASSUME TypeInv, CodeInv, NEW r \in Request, Moved(r) PROVE CodeInv'
<1>0. /\ \A p \in Request : request[p] \in Call /\ Sound(request[p])
      /\ CodesIssued /\ EarlierAnswered /\ Superseded /\ OnlyTheLastCode
      /\ Answered \subseteq Request /\ r \notin Answered
      /\ request \in [Request -> Call] /\ otps \in [Request -> Otp]
  BY MoverNotDone DEF TypeInv, TypeOK, Callers, CodeInv, Answered
<1>1. /\ \A p \in Request : p # r => request'[p] = request[p]
      /\ \A f \in Answered : f # r /\ f \in Answered' /\ request'[f] = request[f]
      /\ \A f \in Request : f # r =>
           /\ otps'[f].email = otps[f].email
           /\ otps'[f].state \in {otps[f].state, "used"}
      /\ \A e \in Email : Exists(e) => Exists(e)'
  BY CodeFrame
<1>2. \A f \in Answered :
        /\ otps[f].state \in {"unused", "used"}
        /\ otps[f].email = request[f].email /\ request[f].email \in Email
  BY <1>0 DEF CodesIssued, Answered, Sound
<1>3. \/ Parted(r) \/ SignedUp(r) \/ Verifies(r)
      \/ /\ Keeps(r)
         /\ \/ /\ SelectCodes(r) /\ request'[r].stage = "supersede"
               /\ request'[r].rows = Unused(request[r].email)
               /\ request'[r].answer = "none"
            \/ /\ Supersede(r) /\ request'[r].stage = "update"
               /\ request'[r].rows = request[r].rows \cap Unused(request[r].email)
               /\ request'[r].answer = "none"
            \/ /\ Update(r) /\ request'[r].stage = "issue"
               /\ request'[r].answer = "none"
            \/ /\ Insert(r) /\ request'[r].stage = "issue"
               /\ request'[r].answer = "none"
            \/ /\ Issue(r) /\ request'[r].stage = "answer"
               /\ request'[r].answer = "none"
            \/ /\ AnswerSignUp(r) /\ request'[r].stage = "done"
            \/ /\ Match(r) /\ request'[r].stage = "accept"
               /\ request'[r].answer = "none"
               /\ Matches(request[r].email, request[r].given)
            \/ /\ LookUp(r) /\ request'[r].stage = "store"
               /\ request'[r].answer = "none"
  BY MoverCall
<1>4. CodesIssued'
  <2> SUFFICES ASSUME NEW f \in Request
               PROVE  /\ (At(f, "issue") \/ At(f, "answer") \/ f \in Answered)'
                         => Exists(request[f].email)'
                      /\ (At(f, "answer") \/ f \in Answered)'
                         => /\ otps'[f].email = request'[f].email
                            /\ otps'[f].state \in {"unused", "used"}
    BY DEF CodesIssued
  <2>1. CASE f # r
    <3>1. request'[f] = request[f]
      BY <1>1, <2>1
    <3>2. /\ At(f, "issue")' = At(f, "issue") /\ At(f, "answer")' = At(f, "answer")
          /\ (f \in Answered)' = (f \in Answered)
      BY <3>1 DEF At, Answered
    <3>3. At(f, "issue") \/ At(f, "answer") \/ f \in Answered
          => request[f].email \in Email
      BY <1>0 DEF At, Answered, Sound
    <3> QED
      BY <1>0, <1>1, <2>1, <3>1, <3>2, <3>3 DEF CodesIssued, Exists
  <2>2. CASE f = r
    <3>1. CASE Parted(r) \/ SignedUp(r) \/ Verifies(r)
      <4>1. /\ request'[r].stage \notin {"issue", "answer"}
            /\ request'[r].answer # "created"
        BY <3>1 DEF Parted, SignedUp, Verifies
      <4> QED
        BY <2>2, <4>1 DEF At, Answered
    <3>2. CASE Keeps(r) /\ Update(r) /\ request'[r].stage = "issue"
               /\ request'[r].answer = "none"
      <4>1. request[r].email \in Email /\ request'[r].email = request[r].email
        BY <1>0, <3>2 DEF Update, Keeps, At, Sound
      <4>2. accounts'[request[r].email].by = r /\ r # None
        BY <4>1, <3>2, AccountsAssumption
        DEF Update, TypeInv, TypeOK, Account, Request, None
      <4>3. Exists(request[f].email)'
        BY <2>2, <4>1, <4>2 DEF Exists
      <4> QED
        BY <2>2, <3>2, <4>3 DEF At, Answered
    <3>3. CASE Keeps(r) /\ Insert(r) /\ request'[r].stage = "issue"
               /\ request'[r].answer = "none"
      <4>1. request[r].email \in Email /\ request'[r].email = request[r].email
        BY <1>0, <3>3 DEF Insert, Keeps, At, Sound
      <4>2. \/ accounts'[request[r].email].by = r /\ r # None
            \/ Exists(request[r].email)
        BY <4>1, <3>3, AccountsAssumption
        DEF Insert, TypeInv, TypeOK, Account, Request, None
      <4>3. Exists(request[f].email)'
        BY <1>1, <2>2, <4>1, <4>2 DEF Exists
      <4> QED
        BY <2>2, <3>3, <4>3 DEF At, Answered
    <3>4. CASE Keeps(r) /\ Issue(r) /\ request'[r].stage = "answer"
               /\ request'[r].answer = "none"
      <4>1. request[r].email \in Email /\ request'[r].email = request[r].email
            /\ Exists(request[r].email)
        BY <1>0, <3>4 DEF Issue, Keeps, At, Sound, CodesIssued
      <4>2. otps'[r].email = request[r].email /\ otps'[r].state = "unused"
        BY <1>0, <3>4 DEF Issue
      <4> QED
        BY <1>1, <2>2, <4>1, <4>2 DEF Exists
    <3>5. CASE Keeps(r) /\ AnswerSignUp(r)
      <4>1. request[r].email \in Email /\ request'[r].email = request[r].email
            /\ Exists(request[r].email)
            /\ otps[r].email = request[r].email /\ otps[r].state \in {"unused", "used"}
        BY <1>0, <3>5 DEF AnswerSignUp, Keeps, At, Sound, CodesIssued
      <4>2. otps' = otps
        BY <3>5 DEF AnswerSignUp, tables
      <4> QED
        BY <1>1, <2>2, <4>1, <4>2 DEF Exists
    <3>6. CASE /\ request'[r].stage \in {"supersede", "update", "accept", "store"}
               /\ request'[r].answer = "none"
      BY <2>2, <3>6 DEF At, Answered
    <3> QED
      BY <1>3, <3>1, <3>2, <3>3, <3>4, <3>5, <3>6
  <2> QED
    BY <2>1, <2>2
<1>5. request'[r].earlier \subseteq Answered
  BY <1>0, <1>3 DEF Parted, SignedUp, Verifies, Keeps, EarlierAnswered
<1>6. \A p \in Request : request'[p].earlier \subseteq Answered
  BY <1>0, <1>1, <1>5 DEF EarlierAnswered
<1>7. EarlierAnswered'
  BY <1>1, <1>6 DEF EarlierAnswered
<1>8. ASSUME NEW s \in Request, NEW f \in Request, Follows(s, f)'
      PROVE  /\ f \in Answered /\ f # r /\ request'[f] = request[f]
             /\ otps'[f].state = "used" \/ (otps[f].state = "unused" /\ otps'[f].state = "unused")
             /\ otps[f].state = "used" => otps'[f].state = "used"
  BY <1>1, <1>2, <1>6, <1>8 DEF Follows
<1>9. Superseded'
  <2> SUFFICES ASSUME NEW s \in Request, NEW f \in Request, Follows(s, f)'
               PROVE  InHand(s, f)'
    BY DEF Superseded
  <2>1. CASE s # r
    <3>1. request'[s] = request[s] /\ request'[f] = request[f]
      BY <1>1, <1>8, <2>1
    <3>2. InHand(s, f)
      BY <1>0, <3>1 DEF Follows, Superseded
    <3> QED
      BY <1>8, <3>1, <3>2 DEF InHand, At, Answered
  <2>2. CASE s = r
    <3>0. request'[f] = request[f] /\ f \in Answered
      BY <1>8
    <3>1. CASE Parted(r) \/ Verifies(r)
      BY <2>2, <3>1 DEF Follows, Parted, Verifies
    <3>2. CASE SignedUp(r)
      <4>1. Exists(request'[r].email)
        BY <1>0, <2>2, <3>0 DEF Follows, CodesIssued
      <4>2. request'[r].stage = "select" /\ request'[r].answer = "none"
        BY <3>2, <4>1 DEF SignedUp
      <4> QED
        BY <2>2, <4>2 DEF InHand, At, Answered
    <3>3. CASE Keeps(r)
      <4>1. InHand(r, f)
        BY <1>0, <2>2, <3>0, <3>3 DEF Follows, Superseded, Keeps
      <4>2. request[r].op = "signup" /\ request[r].email = request[f].email
        BY <2>2, <3>0, <3>3 DEF Follows, Keeps
      <4>3. f \in Unused(request[r].email) \/ otps[f].state = "used"
        BY <1>2, <3>0, <4>2 DEF Unused
      <4>4. CASE SelectCodes(r) /\ request'[r].stage = "supersede"
                 /\ request'[r].rows = Unused(request[r].email)
                 /\ request'[r].answer = "none"
        BY <1>8, <2>2, <4>3, <4>4 DEF InHand, At, Answered
      <4>5. CASE Supersede(r) /\ request'[r].stage = "update"
                 /\ request'[r].rows = request[r].rows \cap Unused(request[r].email)
                 /\ request'[r].answer = "none"
        <5>1. f \in request[r].rows \/ otps[f].state = "used"
          BY <4>1, <4>5 DEF InHand, Supersede
        <5> QED
          BY <1>8, <2>2, <4>3, <4>5, <5>1 DEF InHand, At, Answered
      <4>6. CASE Update(r) /\ request'[r].stage = "issue"
                 /\ request'[r].answer = "none"
        <5>1. f \in request[r].rows \/ otps[f].state = "used"
          BY <4>1, <4>6 DEF InHand, Update
        <5>2. otps'[f].state = "used"
          BY <1>0, <1>8, <4>6, <5>1 DEF Update, Otp
        <5> QED
          BY <2>2, <4>6, <5>2 DEF InHand, At, Answered
      <4>7. CASE Insert(r)
        BY <4>1, <4>7 DEF InHand, Insert
      <4>8. CASE Issue(r) /\ request'[r].stage = "answer"
        BY <1>8, <2>2, <4>1, <4>8 DEF InHand, Issue, At
      <4>9. CASE AnswerSignUp(r) /\ request'[r].stage = "done"
        BY <1>8, <2>2, <4>1, <4>9 DEF InHand, AnswerSignUp, At
      <4>10. CASE Match(r) \/ LookUp(r)
        BY <1>0, <4>2, <4>10 DEF Match, LookUp, At, Sound
      <4> QED
        BY <1>3, <3>1, <3>2, <4>4, <4>5, <4>6, <4>7, <4>8, <4>9, <4>10, <2>2
        DEF Follows, Parted, SignedUp, Verifies
    <3> QED
      BY <1>3, <3>1, <3>2, <3>3
  <2> QED
    BY <2>1, <2>2
<1>10. OnlyTheLastCode'
  <2> SUFFICES ASSUME NEW first \in Request, NEW second \in Request, NEW v \in Request,
                      request'[first].op = "signup", request'[second].op = "signup",
                      request'[first].email = request'[second].email,
                      request'[second].answer = "created",
                      first \in request'[second].earlier,
                      second \in request'[v].earlier,
                      At(v, "accept")', request'[v].given = first
               PROVE  FALSE
    BY DEF OnlyTheLastCode
  <2>1. second \in Answered /\ first \in Answered
    BY <1>6
  <2>2. request'[second] = request[second] /\ request'[first] = request[first]
    BY <1>1, <2>1
  <2>3. otps[first].state = "used"
    <3>1. Follows(second, first)
      BY <2>2 DEF Follows
    <3> QED
      BY <1>0, <2>1, <3>1 DEF Superseded, InHand
  <2>4. CASE v # r
    <3>1. request'[v] = request[v]
      BY <1>1, <2>4
    <3> QED
      BY <1>0, <2>2, <3>1 DEF OnlyTheLastCode, At
  <2>5. CASE v = r
    <3>1. request'[r].stage = "accept"
      BY <2>5 DEF At
    <3>2. Keeps(r) /\ Matches(request[r].email, request[r].given)
      BY <1>3, <3>1 DEF Parted, SignedUp, Verifies
    <3>3. request[r].given = first
      BY <2>5, <3>2 DEF Keeps
    <3> QED
      BY <2>3, <3>2, <3>3 DEF Matches, Unused
  <2> QED
    BY <2>4, <2>5
<1> QED
  BY <1>4, <1>7, <1>9, <1>10 DEF CodeInv

LEMMA CodeInvInductive == TypeInv /\ CodeInv /\ [Next]_vars => CodeInv'
<1> SUFFICES ASSUME TypeInv, CodeInv, [Next]_vars PROVE CodeInv'
  OBVIOUS
<1>1. ASSUME NEW r \in Request, Moved(r) PROVE CodeInv'
  BY <1>1, CodeInvStep
<1>2. CASE UNCHANGED <<tables, request>>
  BY <1>2 DEF tables, CodeInv, CodesIssued, EarlierAnswered, Superseded, InHand,
     Follows, OnlyTheLastCode, Answered, Exists, At
<1>3. (\E r \in Request : Moved(r)) \/ UNCHANGED <<tables, request>>
  BY DEF Next, Moved, Tick, Finished, vars
<1> QED
  BY <1>1, <1>2, <1>3

LEMMA CodeInvInit == Init => CodeInv
<1> SUFFICES ASSUME Init PROVE CodeInv
  OBVIOUS
<1>1. \A r \in Request : request[r] = Idle
  BY DEF Init
<1>2. \A r \in Request : /\ request[r].earlier = {} /\ request[r].stage = "idle"
                         /\ request[r].answer = "none" /\ request[r].op = "none"
  BY <1>1 DEF Idle
<1> QED
  BY <1>2 DEF CodeInv, CodesIssued, EarlierAnswered, Superseded, Follows,
     OnlyTheLastCode, Answered, At

(* "Mark previous unused signup OTPs for this user as used": however       *)
(* signups and verifications of an address interleave, none that comes in  *)
(* after the later of two signups was answered goes through with the code  *)
(* of the earlier one.                                                     *)
THEOREM OldCodesFail == Spec => []OnlyTheLastCode
<1>1. TypeInv /\ CodeInv /\ [Next]_vars => CodeInv'
  BY CodeInvInductive
<1>2. CodeInv => OnlyTheLastCode
  BY DEF CodeInv
<1> QED
  BY <1>1, <1>2, TypeInvHolds, CodeInvInit, PTL DEF Spec
=============================================================================
