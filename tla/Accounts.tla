------------------------------ MODULE Accounts ------------------------------
(* Accounts, one-time passwords and the API-key caches: signup, verify-otp *)
(* and login of routers/auth.py, which run in threads, with PostgreSQL in  *)
(* READ COMMITTED, and verify_api_key_cached of core/dependencies.py with  *)
(* its TTLCache, which routers/chatbot.py has once more.  Every database   *)
(* call is a step.                                                         *)
(*                                                                         *)
(* A signup makes a password, an API key and a one-time password: all      *)
(* three are called by the number of the request.                          *)
EXTENDS Naturals, FiniteSets

CONSTANTS
  Email,         \* the addresses
  Cache,         \* one per router and gateway process
  MaxRequests,   \* bound: how many requests come in
  MaxOpen,       \* bound: how many of them are in progress at once
  MaxErrors,     \* bound: how many requests may fail
  MaxTime,       \* bound: how far the clock goes, from 1
  OtpLife,       \* otp_expires_minutes
  Ttl,           \* ttl_seconds of the caches
  MaxLookUp      \* how long a look-up of a key takes at most, until it is cached

ASSUME AccountsAssumption ==
  /\ MaxRequests \in Nat /\ MaxOpen \in Nat /\ MaxErrors \in Nat
  /\ MaxTime \in Nat /\ MaxLookUp \in Nat
  /\ OtpLife \in Nat \ {0} /\ Ttl \in Nat \ {0}

VARIABLES
  accounts,     \* the committed rows of users
  otps,         \* the committed rows of otp_verifications
  cache,        \* when an entry expires; 0 if there is none
  now,
  request,      \* where each request is, with its transaction
  replaced_at   \* history: when a key stopped being an account's; 0 if it never did

tables == <<accounts, otps>>
vars == <<tables, cache, now, request, replaced_at>>

Request == 1 .. MaxRequests   \* numbered as they arrive
Key == Request
None == 0   \* no row, or nothing given
NoEmail == "no email"

(* by is the signup whose password and key the row has. *)
Account == [by : 0 .. MaxRequests, is_verified : BOOLEAN, logged_in : BOOLEAN]
Otp == [email : Email \cup {NoEmail}, state : {"none", "unused", "used"},
        expires_at : Nat]

Op == {"none", "signup", "verify", "login", "key"}
Stage == {"idle", "select", "supersede", "update", "insert", "issue", "answer",
          "match", "accept", "stamp", "look up", "store", "done"}
Answer == {"none", "created", "ok", "refused", "error"}

(* given is the code, password or key the caller gives, rows the codes a   *)
(* transaction is to update or has locked, at when a key was looked up.    *)
(* earlier is history: the signups that were answered before it came in.   *)
Call == [op : Op, email : Email \cup {NoEmail}, given : 0 .. MaxRequests,
         cache : Cache \cup {None}, stage : Stage, rows : SUBSET Request,
         at : Nat, answer : Answer, earlier : SUBSET Request]

Idle == [op |-> "none", email |-> NoEmail, given |-> None, cache |-> None,
         stage |-> "idle", rows |-> {}, at |-> 0, answer |-> "none",
         earlier |-> {}]

Exists(e) == accounts[e].by # None
Current(k) == \E e \in Email : accounts[e].by = k

At(r, stage) == request[r].stage = stage
Answered == {r \in Request : request[r].answer = "created"}

Issued == {k \in Request : otps[k].state # "none"}
SignUps == {k \in Request : request[k].op = "signup"}
Unused(e) == {k \in Request : otps[k].email = e /\ otps[k].state = "unused"}

(* The signup r has updated the code k and not committed. *)
Locked(k) == \E r \in Request : At(r, "update") /\ k \in request[r].rows

(* mutant: an entry expires one tick late. *)
UsableUntilExpiry(c, k) == now <= cache[c][k]

(* TTLCache.get *)
Usable(c, k) == now < cache[c][k]

Init ==
  /\ accounts = [e \in Email |->
       [by |-> None, is_verified |-> FALSE, logged_in |-> FALSE]]
  /\ otps = [r \in Request |->
       [email |-> NoEmail, state |-> "none", expires_at |-> 0]]
  /\ cache = [c \in Cache |-> [k \in Key |-> 0]]
  /\ now = 1
  /\ request = [r \in Request |-> Idle]
  /\ replaced_at = [k \in Key |-> 0]

Open == {r \in Request : ~ At(r, "idle") /\ ~ At(r, "done")}

Arrives(r) ==
  /\ At(r, "idle") /\ \A q \in 1 .. r - 1 : ~ At(q, "idle")
  /\ Cardinality(Open) < MaxOpen

(* What is remembered of a request that has left nothing to tell apart. *)
Over(op, answer) == [Idle EXCEPT !.op = op, !.stage = "done", !.answer = answer]

Step(r, stage) == request' = [request EXCEPT ![r].stage = stage]
Leave(r, answer) ==
  request' = [request EXCEPT ![r] = Over(request[r].op, answer)]

-----------------------------------------------------------------------------
(* POST /signup *)

(* The first SELECT.  A verified address is a 409. *)
SignUp(r) ==
  /\ Arrives(r)
  /\ \E e \in Email :
       IF accounts[e].is_verified
       THEN request' = [request EXCEPT ![r] = Over("signup", "refused")]
       ELSE request' = [request EXCEPT
              ![r].op = "signup", ![r].email = e, ![r].earlier = Answered,
              ![r].stage = IF Exists(e) THEN "select" ELSE "insert"]
  /\ UNCHANGED <<tables, cache, now, replaced_at>>

(* mutant: only the code of the signup the account shows is marked. *)
SelectCurrentCode(r) ==
  /\ At(r, "select")
  /\ LET e == request[r].email IN
     request' = [request EXCEPT ![r].stage = "supersede",
                                ![r].rows = Unused(e) \cap {accounts[e].by}]
  /\ UNCHANGED <<tables, cache, now, replaced_at>>

(* The bulk UPDATE that marks the unused codes: which ones, it sees when   *)
(* it starts ...                                                           *)
SelectCodes(r) ==
  /\ At(r, "select")
  /\ request' = [request EXCEPT ![r].stage = "supersede",
                                ![r].rows = Unused(request[r].email)]
  /\ UNCHANGED <<tables, cache, now, replaced_at>>

(* ... and it waits for those another signup has locked, and leaves out    *)
(* what is used by then.                                                   *)
Supersede(r) ==
  /\ At(r, "supersede")
  /\ \A k \in request[r].rows : ~ Locked(k)
  /\ request' = [request EXCEPT ![r].stage = "update",
                                ![r].rows = @ \cap Unused(request[r].email)]
  /\ UNCHANGED <<tables, cache, now, replaced_at>>

(* mutant: the row is written as it was read. *)
UpdateWholeRow(r) ==
  /\ At(r, "update")
  /\ LET e == request[r].email IN
     /\ accounts' = [accounts EXCEPT ![e].by = r, ![e].is_verified = FALSE]
     /\ replaced_at' = [replaced_at EXCEPT ![accounts[e].by] = now]
  /\ otps' = [k \in Request |->
       IF k \in request[r].rows THEN [otps[k] EXCEPT !.state = "used"] ELSE otps[k]]
  /\ request' = [request EXCEPT ![r].stage = "issue", ![r].rows = {}]
  /\ UNCHANGED <<cache, now>>

(* The commit of the codes and of the new password and key.  Only these    *)
(* two columns are written, whatever the row has become since the SELECT.  *)
Update(r) ==
  /\ At(r, "update")
  /\ LET e == request[r].email IN
     /\ accounts' = [accounts EXCEPT ![e].by = r]
     /\ replaced_at' = [replaced_at EXCEPT ![accounts[e].by] = now]
  /\ otps' = [k \in Request |->
       IF k \in request[r].rows THEN [otps[k] EXCEPT !.state = "used"] ELSE otps[k]]
  /\ request' = [request EXCEPT ![r].stage = "issue", ![r].rows = {}]
  /\ UNCHANGED <<cache, now>>

(* The commit of a new row, unless another signup has made one of the same *)
(* address: email is unique.                                               *)
Insert(r) ==
  /\ At(r, "insert")
  /\ LET e == request[r].email IN
     IF Exists(e)
     THEN /\ Leave(r, "error")
          /\ UNCHANGED accounts
     ELSE /\ accounts' = [accounts EXCEPT ![e].by = r]
          /\ Step(r, "issue")
  /\ UNCHANGED <<otps, cache, now, replaced_at>>

(* The second transaction: the one-time password. *)
Issue(r) ==
  /\ At(r, "issue")
  /\ otps' = [otps EXCEPT ![r] =
       [email |-> request[r].email, state |-> "unused",
        expires_at |-> now + OtpLife]]
  /\ Step(r, "answer")
  /\ UNCHANGED <<accounts, cache, now, replaced_at>>

(* The row is read again, for the e-mail and the answer: the key answered  *)
(* is the one the row has by then.  send_otp_email never raises, and a     *)
(* code that is not delivered is one that nobody gives to verify-otp.      *)
AnswerSignUp(r) ==
  /\ At(r, "answer")
  /\ request' = [request EXCEPT ![r].stage = "done", ![r].answer = "created"]
  /\ UNCHANGED <<tables, cache, now, replaced_at>>

-----------------------------------------------------------------------------
(* POST /verify-otp *)

(* The SELECT of the user, by a caller who gives a code of any address.    *)
Verify(r) ==
  /\ Arrives(r)
  /\ \E e \in Email, k \in Issued :
       CASE ~ Exists(e) ->
              request' = [request EXCEPT ![r] = Over("verify", "refused")]
         [] accounts[e].is_verified ->
              request' = [request EXCEPT ![r] = Over("verify", "ok")]
         [] Exists(e) /\ ~ accounts[e].is_verified ->
              request' = [request EXCEPT
                ![r].op = "verify", ![r].email = e, ![r].given = k,
                ![r].earlier = Answered, ![r].stage = "match"]
  /\ UNCHANGED <<tables, cache, now, replaced_at>>

Matches(e, k) == k \in Unused(e) /\ now < otps[k].expires_at

(* The SELECT of the code. *)
Match(r) ==
  /\ At(r, "match")
  /\ IF Matches(request[r].email, request[r].given)
     THEN Step(r, "accept")
     ELSE Leave(r, "refused")
  /\ UNCHANGED <<tables, cache, now, replaced_at>>

(* UPDATE of the code, then of the user, and the commit.  The code's row   *)
(* is found by its id, used by now or not; it may be locked by a signup.   *)
Accept(r) ==
  /\ At(r, "accept")
  /\ ~ Locked(request[r].given)
  /\ accounts' = [accounts EXCEPT ![request[r].email].is_verified = TRUE]
  /\ otps' = [otps EXCEPT ![request[r].given].state = "used"]
  /\ Leave(r, "ok")
  /\ UNCHANGED <<cache, now, replaced_at>>

-----------------------------------------------------------------------------
(* POST /login *)

(* mutant: whether the address is verified is not asked. *)
LogInUnverified(r) ==
  /\ Arrives(r)
  /\ \E e \in Email, p \in SignUps :
       IF accounts[e].by = p
       THEN request' = [request EXCEPT ![r].op = "login", ![r].email = e,
                          ![r].stage = "stamp", ![r].answer = "ok"]
       ELSE request' = [request EXCEPT ![r] = Over("login", "refused")]
  /\ UNCHANGED <<tables, cache, now, replaced_at>>

(* One SELECT decides.  The token is sent before the time is recorded. *)
LogIn(r) ==
  /\ Arrives(r)
  /\ \E e \in Email, p \in SignUps :
       IF accounts[e].by = p /\ accounts[e].is_verified
       THEN request' = [request EXCEPT ![r].op = "login", ![r].email = e,
                          ![r].stage = "stamp", ![r].answer = "ok"]
       ELSE request' = [request EXCEPT ![r] = Over("login", "refused")]
  /\ UNCHANGED <<tables, cache, now, replaced_at>>

(* _record_login_time, in a session of its own. *)
RecordLogin(r) ==
  /\ At(r, "stamp")
  /\ accounts' = [accounts EXCEPT ![request[r].email].logged_in = TRUE]
  /\ Leave(r, "ok")
  /\ UNCHANGED <<otps, cache, now, replaced_at>>

-----------------------------------------------------------------------------
(* verify_api_key_cached and _resolve_user_by_api_key *)

(* TTLCache.get: an entry that has expired is deleted. *)
UseKey(r) ==
  /\ Arrives(r)
  /\ \E c \in Cache, k \in SignUps :
       IF Usable(c, k)
       THEN /\ request' = [request EXCEPT ![r] = Over("key", "ok")]
            /\ UNCHANGED cache
       ELSE /\ request' = [request EXCEPT ![r].op = "key", ![r].given = k,
                             ![r].cache = c, ![r].stage = "look up"]
            /\ cache' = [cache EXCEPT ![c][k] = 0]
  /\ UNCHANGED <<tables, now, replaced_at>>

(* verify_api_key.  A key that is not found is not remembered. *)
LookUp(r) ==
  /\ At(r, "look up")
  /\ IF Current(request[r].given)
     THEN request' = [request EXCEPT ![r].stage = "store", ![r].at = now]
     ELSE Leave(r, "refused")
  /\ UNCHANGED <<tables, cache, now, replaced_at>>

(* TTLCache.set, whatever has become of the key since. *)
Store(r) ==
  /\ At(r, "store")
  /\ cache' = [cache EXCEPT ![request[r].cache][request[r].given] = now + Ttl]
  /\ Leave(r, "ok")
  /\ UNCHANGED <<tables, now, replaced_at>>

-----------------------------------------------------------------------------
(* A database call or the process fails: the transaction is rolled back.   *)
(* What the request has committed before stays, and a caller that has been *)
(* answered keeps the answer.                                              *)
Abort(r) ==
  /\ r \in Open
  /\ Cardinality({q \in Request : request[q].answer = "error"}) < MaxErrors
  /\ Leave(r, IF request[r].answer = "none" THEN "error" ELSE request[r].answer)
  /\ UNCHANGED <<tables, cache, now, replaced_at>>

(* A key that has been looked up is cached within MaxLookUp. *)
Tick ==
  /\ now < MaxTime
  /\ \A r \in Request : At(r, "store") => now < request[r].at + MaxLookUp
  /\ now' = now + 1
  /\ UNCHANGED <<tables, cache, request, replaced_at>>

Ask(r) == SignUp(r) \/ Verify(r) \/ LogIn(r) \/ UseKey(r)

Proceed(r) ==
  \/ SelectCodes(r) \/ Supersede(r) \/ Update(r) \/ Insert(r) \/ Issue(r)
  \/ AnswerSignUp(r) \/ Match(r) \/ Accept(r) \/ RecordLogin(r)
  \/ LookUp(r) \/ Store(r)

(* The only state in which nothing more happens: a request stuck anywhere  *)
(* else, at a lock say, is a deadlock that TLC reports.                    *)
Finished ==
  /\ \A r \in Request : At(r, "done")
  /\ UNCHANGED vars

Next ==
  \/ \E r \in Request : Ask(r) \/ Proceed(r) \/ Abort(r)
  \/ Tick
  \/ Finished

Spec == Init /\ [][Next]_vars

-----------------------------------------------------------------------------
TypeOK ==
  /\ accounts \in [Email -> Account]
  /\ otps \in [Request -> Otp]
  /\ cache \in [Cache -> [Key -> Nat]]
  /\ now \in Nat
  /\ request \in [Request -> Call]
  /\ replaced_at \in [Key -> Nat]
  /\ \A e \in Email : accounts[e].logged_in => accounts[e].is_verified

(* "Try to signup again after verification should fail"                    *)
(* (test_gateway.py:168), also if the signup had read the account before:  *)
(* no request ever takes the verification of an address back, nor its row. *)
VerificationIsPermanent ==
  [][\A e \in Email :
       /\ accounts[e].is_verified => accounts'[e].is_verified
       /\ Exists(e) => Exists(e)']_vars

(* "Mark previous unused signup OTPs for this user as used" (auth.py:35,   *)
(* tested in sequence in test_gateway.py:113-165): once a second signup of *)
(* an address has been answered, no verification that comes in after that  *)
(* goes through with the code of an earlier signup, whatever else runs at  *)
(* the same time.                                                          *)
OnlyTheLastCode ==
  \A first, second, v \in Request :
    /\ request[first].op = "signup" /\ request[second].op = "signup"
    /\ request[first].email = request[second].email
    /\ request[second].answer = "created"
    /\ first \in request[second].earlier
    /\ second \in request[v].earlier
    => ~ (At(v, "accept") /\ request[v].given = first)

(* "A just-revoked key stays usable for up to TTL seconds"                 *)
(* (dependencies.py:55): a cache vouches for a key only if the key is an   *)
(* account's, or was until less than a TTL and the time of one look-up     *)
(* ago, however often it is used in the meantime.  The look-up counts too, *)
(* since the entry is made after it, from what it found.                   *)
StaleKeysLapse ==
  \A c \in Cache, k \in Key :
    Usable(c, k) =>
      \/ Current(k)
      \/ replaced_at[k] # 0 /\ now < replaced_at[k] + Ttl + MaxLookUp
=============================================================================
