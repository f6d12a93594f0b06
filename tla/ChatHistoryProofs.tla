-------------------------- MODULE ChatHistoryProofs --------------------------
(***************************************************************************)
(* What holds of ChatHistory for any number of requests and users, and     *)
(* replies of any length.                                                  *)
(***************************************************************************)
EXTENDS ChatHistory, TLAPS

(* A field of a call takes any value of its type. *)
LEMMA FieldUpdates ==
  ASSUME NEW q \in Call
  PROVE  /\ \A x \in Op : [q EXCEPT !.op = x] \in Call
         /\ \A x \in User : [q EXCEPT !.user = x] \in Call
         /\ \A x \in Nat : [q EXCEPT !.conversation = x] \in Call
         /\ \A x \in BOOLEAN : [q EXCEPT !.new = x] \in Call
         /\ \A x \in Stage : [q EXCEPT !.stage = x] \in Call
         /\ \A x \in Seq(Role) : [q EXCEPT !.todo = x] \in Call
         /\ \A x \in SUBSET Message : [q EXCEPT !.rows = x] \in Call
         /\ \A x \in Answer : [q EXCEPT !.answer = x] \in Call
BY DEF Call

(* The same for several fields at once, as the actions change them. *)
LEMMA CallUpdates ==
  ASSUME NEW q \in Call
  PROVE  /\ \A op \in Op, u \in User, s \in Stage, todo \in Seq(Role) :
              [q EXCEPT !.op = op, !.user = u, !.stage = s, !.todo = todo] \in Call
         /\ \A op \in Op, u \in User, c \in Nat, s \in Stage, todo \in Seq(Role) :
              [q EXCEPT !.op = op, !.user = u, !.conversation = c, !.stage = s,
                        !.todo = todo] \in Call
         /\ \A op \in Op, u \in User, c \in Nat, s \in Stage, todo \in Seq(Role),
               rows \in SUBSET Message :
              [q EXCEPT !.op = op, !.user = u, !.conversation = c, !.stage = s,
                        !.todo = todo, !.rows = rows] \in Call
         /\ \A op \in Op, s \in Stage : [q EXCEPT !.op = op, !.stage = s] \in Call
         /\ \A s \in Stage, c \in Nat :
              [q EXCEPT !.stage = s, !.conversation = c] \in Call
         /\ \A s \in Stage, new \in BOOLEAN, c \in Nat :
              [q EXCEPT !.stage = s, !.new = new, !.conversation = c] \in Call
         /\ \A rows \in SUBSET Message, todo \in Seq(Role) :
              [q EXCEPT !.rows = rows, !.todo = todo] \in Call
         /\ \A s \in Stage, a \in Answer :
              [q EXCEPT !.stage = s, !.answer = a] \in Call
<1>1. ASSUME NEW op \in Op, NEW u \in User
      PROVE  [q EXCEPT !.op = op, !.user = u] \in Call
  BY FieldUpdates
<1>2. ASSUME NEW op \in Op, NEW u \in User, NEW s \in Stage
      PROVE  [q EXCEPT !.op = op, !.user = u, !.stage = s] \in Call
  BY <1>1, FieldUpdates
<1>3. ASSUME NEW op \in Op, NEW u \in User, NEW c \in Nat
      PROVE  [q EXCEPT !.op = op, !.user = u, !.conversation = c] \in Call
  BY <1>1, FieldUpdates
<1>4. ASSUME NEW op \in Op, NEW u \in User, NEW c \in Nat, NEW s \in Stage
      PROVE  [q EXCEPT !.op = op, !.user = u, !.conversation = c, !.stage = s] \in Call
  BY <1>3, FieldUpdates
<1>5. ASSUME NEW op \in Op, NEW u \in User, NEW c \in Nat, NEW s \in Stage,
             NEW todo \in Seq(Role)
      PROVE  [q EXCEPT !.op = op, !.user = u, !.conversation = c, !.stage = s,
                       !.todo = todo] \in Call
  BY <1>4, FieldUpdates
<1>6. ASSUME NEW op \in Op, NEW u \in User, NEW s \in Stage, NEW todo \in Seq(Role)
      PROVE  [q EXCEPT !.op = op, !.user = u, !.stage = s, !.todo = todo] \in Call
  BY <1>2, FieldUpdates
<1>7. ASSUME NEW op \in Op, NEW u \in User, NEW c \in Nat, NEW s \in Stage,
             NEW todo \in Seq(Role), NEW rows \in SUBSET Message
      PROVE  [q EXCEPT !.op = op, !.user = u, !.conversation = c, !.stage = s,
                       !.todo = todo, !.rows = rows] \in Call
  BY <1>5, FieldUpdates
<1>8. ASSUME NEW op \in Op, NEW s \in Stage
      PROVE  [q EXCEPT !.op = op, !.stage = s] \in Call
  BY FieldUpdates
<1>9. ASSUME NEW s \in Stage, NEW c \in Nat
      PROVE  [q EXCEPT !.stage = s, !.conversation = c] \in Call
  BY FieldUpdates
<1>10. ASSUME NEW s \in Stage, NEW new \in BOOLEAN
       PROVE  [q EXCEPT !.stage = s, !.new = new] \in Call
  BY FieldUpdates
<1>11. ASSUME NEW s \in Stage, NEW new \in BOOLEAN, NEW c \in Nat
       PROVE  [q EXCEPT !.stage = s, !.new = new, !.conversation = c] \in Call
  BY <1>10, FieldUpdates
<1>12. ASSUME NEW rows \in SUBSET Message, NEW todo \in Seq(Role)
       PROVE  [q EXCEPT !.rows = rows, !.todo = todo] \in Call
  BY FieldUpdates
<1>13. ASSUME NEW s \in Stage, NEW a \in Answer
       PROVE  [q EXCEPT !.stage = s, !.answer = a] \in Call
  BY FieldUpdates
<1> QED
  BY <1>5, <1>6, <1>7, <1>8, <1>9, <1>11, <1>12, <1>13

LEMMA IdleIsCall == Idle \in Call /\ \A a \in Answer : Ended(a) \in Call
<1>1. Idle \in Call
  BY DEF Idle, Call, Op, Stage, Answer, None
<1>2. "done" \in Stage
  BY DEF Stage
<1> QED
  BY <1>1, <1>2, FieldUpdates DEF Ended

(* Whoever has something to write is a user, and writes to a conversation. *)
Callers ==
  \A r \in Request :
    /\ \/ request[r].stage \in {"look up", "open", "touch", "write"}
       \/ request[r].todo # << >>
       => request[r].user \in User
    /\ request[r].stage \in {"touch", "write"} => request[r].conversation # None

TypeInv == TypeOK /\ Callers

(* A history request that finds its conversation, and one that does not. *)
Used(r, op, u, c, s) ==
  /\ op \in {"append", "rename", "delete"} /\ u \in User
  /\ c \in 1 .. nextConversation - 1 /\ s \in FirstStage(op) /\ Owned(c, u)
  /\ request' = [request EXCEPT
       ![r].op = op, ![r].user = u, ![r].conversation = c, ![r].stage = s,
       ![r].todo = IF op = "append" THEN <<"user">> ELSE << >>,
       ![r].rows = IF op = "delete" THEN MessagesOf(c) ELSE {}]

Unused(r, answer) ==
  /\ answer \in {"not found", "error"}
  /\ request' = [request EXCEPT ![r] = Ended(answer)]

LEMMA UseCases ==
  ASSUME NEW r \in Request, UseConversation(r)
  PROVE  (\E op, u, c, s : Used(r, op, u, c, s)) \/ (\E answer : Unused(r, answer))
<1>1. CASE request' = [request EXCEPT ![r] = Ended("error")]
  BY <1>1 DEF Unused
<1>2. CASE request' # [request EXCEPT ![r] = Ended("error")]
  <2>1. PICK op \in {"append", "rename", "delete"}, u \in User,
             c \in 1 .. nextConversation - 1 :
          IF Owned(c, u)
          THEN \E s \in FirstStage(op) :
                 request' = [request EXCEPT
                   ![r].op = op, ![r].user = u, ![r].conversation = c,
                   ![r].stage = s,
                   ![r].todo = IF op = "append" THEN <<"user">> ELSE << >>,
                   ![r].rows = IF op = "delete" THEN MessagesOf(c) ELSE {}]
          ELSE request' = [request EXCEPT ![r] = Ended("not found")]
    BY <1>2 DEF UseConversation
  <2>2. CASE Owned(c, u)
    <3>1. PICK s \in FirstStage(op) :
            request' = [request EXCEPT
              ![r].op = op, ![r].user = u, ![r].conversation = c,
              ![r].stage = s,
              ![r].todo = IF op = "append" THEN <<"user">> ELSE << >>,
              ![r].rows = IF op = "delete" THEN MessagesOf(c) ELSE {}]
      BY <2>1, <2>2
    <3>2. Used(r, op, u, c, s)
      BY <2>2, <3>1 DEF Used
    <3> QED
      BY <3>2
  <2>3. CASE ~ Owned(c, u)
    BY <2>1, <2>3 DEF Unused
  <2> QED
    BY <2>2, <2>3
<1> QED
  BY <1>1, <1>2

(* A step that gives one request a new call of the right type. *)
LEMMA CallStep ==
  ASSUME TypeInv, NEW r \in Request, NEW q \in Call,
         request' = [request EXCEPT ![r] = q],
         \/ q.stage \in {"look up", "open", "touch", "write"} \/ q.todo # << >>
         => q.user \in User,
         q.stage \in {"touch", "write"} => q.conversation # None
  PROVE  request' \in [Request -> Call] /\ Callers'
<1>1. request' \in [Request -> Call]
  BY DEF TypeInv, TypeOK
<1>2. \A p \in Request : request'[p] = IF p = r THEN q ELSE request[p]
  BY DEF TypeInv, TypeOK
<1> QED
  BY <1>1, <1>2 DEF TypeInv, Callers

(* The type invariant is inductive: one step for each action. *)
LEMMA TypeInvInductive == TypeInv /\ [Next]_vars => TypeInv'
<1> SUFFICES ASSUME TypeInv, [Next]_vars PROVE TypeInv'
  OBVIOUS
<1> USE HistoryAssumption
<1>0. /\ \A r \in Request : request[r] \in Call
      /\ TypeOK /\ Callers
  BY DEF TypeInv, TypeOK
<1>1. ASSUME NEW r \in Request, CreateConversation(r) PROVE TypeInv'
  <2>1. PICK u \in User, n \in 0 .. MaxSeeds :
          request' = [request EXCEPT
            ![r].op = "create", ![r].user = u, ![r].stage = "open",
            ![r].todo = [i \in 1 .. n |-> "user"]]
    BY <1>1 DEF CreateConversation
  <2>2. PICK todo : todo = [i \in 1 .. n |-> "user"]
    OBVIOUS
  <2>3. todo \in Seq(Role) /\ "create" \in Op /\ "open" \in Stage
    BY <2>2 DEF Role, Stage, Op
  <2> DEFINE q == [request[r] EXCEPT !.op = "create", !.user = u,
                     !.stage = "open", !.todo = todo]
  <2>4. q \in Call
    BY <1>0, <2>3, CallUpdates
  <2>5. q.stage = "open" /\ q.user = u
    BY <1>0 DEF Call
  <2>6. request' = [request EXCEPT ![r] = q]
    BY <2>1, <2>2
  <2>7. request' \in [Request -> Call] /\ Callers'
    BY <2>4, <2>5, <2>6, CallStep
  <2> QED
    BY <1>0, <1>1, <2>7 DEF CreateConversation, tables, TypeInv, TypeOK
<1>2. ASSUME NEW r \in Request, UseConversation(r) PROVE TypeInv'
  <2>0. UNCHANGED <<tables, stream>>
    BY <1>2 DEF UseConversation
  <2>1. ASSUME NEW a, Unused(r, a)
        PROVE  request' \in [Request -> Call] /\ Callers'
    <3>1. Ended(a) \in Call
      BY <2>1, IdleIsCall DEF Answer, Unused
    <3>2. Ended(a).stage = "done" /\ Ended(a).todo = << >>
      BY DEF Ended, Idle
    <3> QED
      BY <2>1, <3>1, <3>2, CallStep DEF Unused
  <2>2. ASSUME NEW op, NEW u, NEW c, NEW s, Used(r, op, u, c, s)
        PROVE  request' \in [Request -> Call] /\ Callers'
    <3>0. PICK todo, rows :
            /\ todo = IF op = "append" THEN <<"user">> ELSE << >>
            /\ rows = IF op = "delete" THEN MessagesOf(c) ELSE {}
      OBVIOUS
    <3> DEFINE q == [request[r] EXCEPT
                 !.op = op, !.user = u, !.conversation = c, !.stage = s,
                 !.todo = todo, !.rows = rows]
    <3>1. op \in Op /\ u \in User /\ s \in Stage
      BY <2>2 DEF Used, Op, FirstStage, Stage
    <3>2. c \in Nat /\ c # None
      BY <1>0, <2>2 DEF Used, None, TypeOK
    <3>3. << >> \in Seq(Role) /\ <<"user">> \in Seq(Role)
      BY DEF Role
    <3>4. MessagesOf(c) \in SUBSET Message
      BY <1>0 DEF MessagesOf, TypeOK
    <3>5. todo \in Seq(Role) /\ rows \in SUBSET Message
      BY <3>0, <3>3, <3>4
    <3>6. q \in Call
      BY <1>0, <3>1, <3>2, <3>5, CallUpdates
    <3>7. q.user = u /\ q.conversation = c
      BY <1>0 DEF Call
    <3>8. request' = [request EXCEPT ![r] = q]
      BY <2>2, <3>0 DEF Used
    <3> QED
      BY <3>1, <3>2, <3>6, <3>7, <3>8, CallStep
  <2>3. request' \in [Request -> Call] /\ Callers'
    BY <1>2, <2>1, <2>2, UseCases
  <2> QED
    BY <1>0, <2>0, <2>3 DEF tables, TypeInv, TypeOK
<1>3. ASSUME NEW r \in Request, StartChat(r) PROVE TypeInv'
  <2>1. /\ "chat" \in Op /\ "streaming" \in Stage
        /\ <<"user", "assistant">> \in Seq(Role)
    BY DEF Op, Stage, Role
  <2>2. request' \in [Request -> Call] /\ Callers'
    <3>1. ASSUME request' = [request EXCEPT ![r].op = "chat", ![r].stage = "streaming"]
          PROVE  request' \in [Request -> Call] /\ Callers'
      <4> DEFINE q == [request[r] EXCEPT !.op = "chat", !.stage = "streaming"]
      <4>1. q \in Call
        BY <1>0, <2>1, CallUpdates
      <4>2. q.stage = "streaming" /\ q.todo = request[r].todo /\ q.user = request[r].user
        BY <1>0 DEF Call
      <4>3. request' = [request EXCEPT ![r] = q]
        BY <3>1
      <4>4. q.todo # << >> => q.user \in User
        BY <1>0, <4>2 DEF Callers
      <4> QED
        BY <4>1, <4>2, <4>3, <4>4, CallStep
    <3>2. ASSUME NEW u \in User, NEW c \in 0 .. nextConversation - 1,
                 request' = [request EXCEPT
                   ![r].op = "chat", ![r].user = u, ![r].conversation = c,
                   ![r].stage = "streaming", ![r].todo = <<"user", "assistant">>]
          PROVE  request' \in [Request -> Call] /\ Callers'
      <4> DEFINE q == [request[r] EXCEPT
                   !.op = "chat", !.user = u, !.conversation = c,
                   !.stage = "streaming", !.todo = <<"user", "assistant">>]
      <4>0. c \in Nat
        BY <1>0 DEF TypeOK
      <4>1. q \in Call
        BY <1>0, <2>1, <4>0, CallUpdates
      <4>2. q.stage = "streaming" /\ q.user = u
        BY <1>0 DEF Call
      <4>3. request' = [request EXCEPT ![r] = q]
        BY <3>2
      <4> QED
        BY <4>1, <4>2, <4>3, CallStep
    <3> QED
      BY <1>3, <3>1, <3>2 DEF StartChat
  <2> QED
    BY <1>0, <1>3, <2>2 DEF StartChat, tables, TypeInv, TypeOK
<1>4. ASSUME NEW r \in Request, PassChunk(r) PROVE TypeInv'
  <2> DEFINE sentBy(size) == stream[r].sent + size
             overflowBy(size) == stream[r].overflow \/ sentBy(size) > SaveBuffer
  <2>0. PICK size \in 1 .. MaxReply - stream[r].sent :
          stream' = [stream EXCEPT ![r] =
            [sent |-> sentBy(size), overflow |-> overflowBy(size),
             kept |-> IF overflowBy(size) THEN 0 ELSE stream[r].kept + size]]
    BY <1>4 DEF PassChunk
  <2>1. PICK sent, overflow : sent = sentBy(size) /\ overflow = overflowBy(size)
    OBVIOUS
  <2>2. /\ stream[r].sent \in Nat /\ stream[r].kept \in Nat
        /\ stream[r].overflow \in BOOLEAN
    BY <1>0 DEF TypeOK
  <2>3. sent \in Nat /\ overflow \in BOOLEAN /\ stream[r].kept + size \in Nat
    BY <2>1, <2>2
  <2>4. stream' \in [Request -> [sent : Nat, kept : Nat, overflow : BOOLEAN]]
    BY <1>0, <2>0, <2>1, <2>3 DEF TypeOK
  <2> QED
    BY <1>0, <1>4, <2>4 DEF PassChunk, tables, TypeInv, TypeOK, Callers
<1>5. ASSUME NEW r \in Request, Discard(r) PROVE TypeInv'
  <2>1. request' \in [Request -> Call] /\ Callers'
    BY <1>5, IdleIsCall, CallStep DEF Discard, Answer, Ended, Idle
  <2> QED
    BY <1>0, <1>5, <2>1 DEF Discard, tables, NoReply, TypeInv, TypeOK
<1>6. ASSUME NEW r \in Request, NEW s \in Stage \ {"open"},
             UNCHANGED <<tables, stream>>,
             request' = [request EXCEPT ![r].stage = s],
             s \in {"look up", "touch", "write"} => request[r].user \in User,
             s \in {"touch", "write"} => request[r].conversation # None
      PROVE  TypeInv'
  <2> DEFINE q == [request[r] EXCEPT !.stage = s]
  <2>1. q \in Call
    BY <1>0, FieldUpdates
  <2>2. /\ q.stage = s /\ q.user = request[r].user /\ q.todo = request[r].todo
        /\ q.conversation = request[r].conversation
    BY <1>0 DEF Call
  <2>3. q.todo # << >> => q.user \in User
    BY <1>0, <2>2 DEF Callers
  <2>4. request' \in [Request -> Call] /\ Callers'
    BY <1>6, <2>1, <2>2, <2>3, CallStep
  <2> QED
    BY <1>0, <1>6, <2>4 DEF tables, TypeInv, TypeOK
<1>7. ASSUME NEW r \in Request, FindConversation(r) PROVE TypeInv'
  <2>1. /\ request[r].user \in User /\ "touch" \in Stage \ {"open"}
        /\ UNCHANGED <<tables, stream>>
    BY <1>0, <1>7 DEF FindConversation, At, Callers, Stage
  <2>2. ASSUME Owned(request[r].conversation, request[r].user),
               request' = [request EXCEPT ![r].stage = "touch"]
        PROVE  TypeInv'
    <3>1. request[r].conversation # None
      BY <1>0, <2>2 DEF Owned, TypeOK, Conversation, None
    <3> QED
      BY <1>6, <2>1, <2>2, <3>1
  <2>3. ASSUME request' = [request EXCEPT ![r].stage = "open",
                                          ![r].conversation = None]
        PROVE  TypeInv'
    <3> DEFINE q == [request[r] EXCEPT !.stage = "open", !.conversation = None]
    <3>1. q \in Call
      BY <1>0, CallUpdates DEF Stage, None
    <3>2. q.stage = "open" /\ q.user = request[r].user
      BY <1>0 DEF Call
    <3>3. request' = [request EXCEPT ![r] = q]
      BY <2>3
    <3>4. request' \in [Request -> Call] /\ Callers'
      BY <2>1, <3>1, <3>2, <3>3, CallStep
    <3> QED
      BY <1>0, <2>1, <3>4 DEF tables, TypeInv, TypeOK
  <2>4. ASSUME request' = [request EXCEPT ![r] = Ended("error")]
        PROVE  TypeInv'
    <3>1. Ended("error") \in Call
      BY IdleIsCall DEF Answer
    <3>2. Ended("error").stage = "done" /\ Ended("error").todo = << >>
      BY DEF Ended, Idle
    <3>3. request' \in [Request -> Call] /\ Callers'
      BY <2>4, <3>1, <3>2, CallStep
    <3> QED
      BY <1>0, <2>1, <3>3 DEF tables, TypeInv, TypeOK
  <2> QED
    BY <1>7, <2>2, <2>3, <2>4 DEF FindConversation
<1>8. ASSUME NEW r \in Request, Open(r) PROVE TypeInv'
  <2> DEFINE q == [request[r] EXCEPT !.stage = "write", !.new = TRUE,
                                     !.conversation = nextConversation]
  <2>1. q \in Call
    BY <1>0, CallUpdates DEF Stage, TypeOK
  <2>2. /\ q.stage = "write" /\ q.user = request[r].user
        /\ q.conversation = nextConversation
    BY <1>0 DEF Call
  <2>3. request[r].user \in User /\ nextConversation # None
    BY <1>0, <1>8 DEF Open, At, Callers, TypeOK, None
  <2>4. request' = [request EXCEPT ![r] = q]
    BY <1>8 DEF Open
  <2>5. request' \in [Request -> Call] /\ Callers'
    BY <2>1, <2>2, <2>3, <2>4, CallStep
  <2> QED
    BY <1>0, <1>8, <2>5 DEF Open, TypeInv, TypeOK
<1>9. ASSUME NEW r \in Request, NEW s \in {"done", "refresh"}, NEW a \in Answer,
             request' = [request EXCEPT ![r].stage = s, ![r].answer = a]
      PROVE  request' \in [Request -> Call] /\ Callers'
  <2> DEFINE q == [request[r] EXCEPT !.stage = s, !.answer = a]
  <2>1. q \in Call
    BY <1>0, CallUpdates DEF Stage
  <2>2. /\ q.stage = s /\ q.todo = request[r].todo /\ q.user = request[r].user
    BY <1>0 DEF Call
  <2>3. q.todo # << >> => q.user \in User
    BY <1>0, <2>2 DEF Callers
  <2>4. request' = [request EXCEPT ![r] = q]
    BY <1>9
  <2> QED
    BY <2>1, <2>2, <2>3, <2>4, CallStep
<1>10. ASSUME NEW r \in Request, RollBack(r) PROVE TypeInv'
  BY <1>0, <1>9, <1>10 DEF RollBack, Answer, tables, TypeInv, TypeOK
<1>11. ASSUME NEW r \in Request, Insert(r) PROVE TypeInv'
  <2> DEFINE q == [request[r] EXCEPT !.rows = @ \cup {RowOf(r)}, !.todo = Tail(@)]
  <2>0. /\ request[r].todo \in Seq(Role) /\ request[r].todo # << >>
        /\ request[r].rows \in SUBSET Message
        /\ request[r].user \in User
        /\ request[r].conversation \in Nat \ {0}
    BY <1>0, <1>11 DEF Call, Callers, Insert, At, None
  <2>1. Head(request[r].todo) \in Role /\ Tail(request[r].todo) \in Seq(Role)
    BY <2>0
  <2>2. RowOf(r) \in Message
    BY <1>0, <2>0, <2>1 DEF RowOf, Message, TypeOK
  <2>3. q \in Call
    BY <1>0, <2>0, <2>1, <2>2, CallUpdates
  <2>4. /\ q.stage = request[r].stage /\ q.user = request[r].user
        /\ q.conversation = request[r].conversation
    BY <1>0 DEF Call
  <2>5. request' = [request EXCEPT ![r] = q]
    BY <1>11 DEF Insert
  <2>6. request' \in [Request -> Call] /\ Callers'
    BY <2>0, <2>3, <2>4, <2>5, CallStep DEF None
  <2> QED
    BY <1>0, <1>11, <2>6 DEF Insert, TypeInv, TypeOK
<1>12. ASSUME NEW r \in Request, Commit(r) PROVE TypeInv'
  <2>1. request' \in [Request -> Call] /\ Callers'
    <3> DEFINE q == [request[r] EXCEPT !.stage = "refresh"]
    <3>1. q \in Call
      BY <1>0, FieldUpdates DEF Stage
    <3>2. q.stage = "refresh" /\ q.todo = request[r].todo
      BY <1>0 DEF Call
    <3>3. request' = [request EXCEPT ![r] = q] /\ request[r].todo = << >>
      BY <1>12 DEF Commit
    <3> QED
      BY <3>1, <3>2, <3>3, CallStep
  <2>2. /\ request[r].rows \subseteq Message
        /\ [id |-> request[r].conversation, owner |-> request[r].user] \in Conversation
    BY <1>0, <1>12 DEF Commit, At, Call, Callers, Conversation, None
  <2> QED
    BY <1>0, <1>12, <2>1, <2>2 DEF Commit, TypeInv, TypeOK
<1>13. ASSUME NEW r \in Request, Refresh(r) PROVE TypeInv'
  BY <1>0, <1>9, <1>13 DEF Refresh, Answer, tables, TypeInv, TypeOK
<1>14. ASSUME NEW r \in Request, CommitRemoval(r) PROVE TypeInv'
  BY <1>0, <1>9, <1>14 DEF CommitRemoval, Answer, tables, TypeInv, TypeOK
<1>15. ASSUME NEW r \in Request, EndStream(r) PROVE TypeInv'
  <2>1. CASE Discard(r)
    BY <1>5, <2>1
  <2>2. ASSUME request[r].todo # << >>, UNCHANGED <<tables, stream>>,
               request' = [request EXCEPT ![r].stage = "look up"]
        PROVE  TypeInv'
    BY <1>0, <1>6, <2>2 DEF Callers, Stage
  <2> QED
    BY <1>15, <2>1, <2>2 DEF EndStream
<1>16. ASSUME NEW r \in Request, Touch(r) PROVE TypeInv'
  <2>1. request[r].user \in User /\ request[r].conversation # None
    BY <1>0, <1>16 DEF Touch, At, Callers
  <2> QED
    BY <1>6, <1>10, <1>16, <2>1 DEF Touch, Stage
<1>17. ASSUME NEW r \in Request, Remove(r) PROVE TypeInv'
  BY <1>6, <1>17 DEF Remove, Stage
<1>18. CASE UNCHANGED vars
  BY <1>0, <1>18 DEF vars, tables, TypeInv, TypeOK, Callers
<1> QED
  BY <1>1, <1>2, <1>3, <1>4, <1>5, <1>7, <1>8, <1>10, <1>11, <1>12, <1>13,
     <1>14, <1>15, <1>16, <1>17, <1>18
  DEF Next, Ask, Advance, Converse, Transact, Finished, CutStream, Refuse

LEMMA InitTypeInv == Init => TypeInv
<1> SUFFICES ASSUME Init PROVE TypeInv
  OBVIOUS
<1>1. TypeOK
  BY HistoryAssumption, IdleIsCall DEF Init, TypeOK, Conversation, NoReply
<1>2. Callers
  BY DEF Init, Callers, Idle
<1> QED
  BY <1>1, <1>2 DEF TypeInv

(* Every variable keeps its type (app/models/conversation.py:17-64). *)
THEOREM TypeCorrect == Spec => []TypeOK
<1>1. TypeInv => TypeOK
  BY DEF TypeInv
<1> QED
  BY <1>1, InitTypeInv, TypeInvInductive, PTL DEF Spec

-----------------------------------------------------------------------------
(* The strengthening of OwnMessagesOnly and HistoryGrowsAtItsEnd *)

(* A key is taken once. *)
KeysAhead ==
  /\ \A v \in conversations : v.id < nextConversation
  /\ \A m \in messages : m.id < nextMessage
  /\ \A r \in Request : request[r].conversation < nextConversation

OneOwner == \A v, w \in conversations : v.id = w.id => v = w

(* The row of a conversation is locked by one transaction at a time. *)
RowLocks ==
  \A p, r \in Request :
    /\ request[p].stage \in {"write", "removing"}
    /\ request[r].stage \in {"write", "removing"}
    /\ request[p].conversation = request[r].conversation
    => p = r

(* What a call was before it wrote anything. *)
Unwritten(q) ==
  q.stage \in {"idle", "streaming", "look up", "open", "touch"} =>
    q.rows = {} /\ q.new = FALSE

(* Writing is done to a conversation of one's own. *)
Targets(q) ==
  /\ q.stage = "touch" /\ Exists(q.conversation) => Owned(q.conversation, q.user)
  /\ q.stage = "write" /\ ~ q.new => Owned(q.conversation, q.user)

(* A conversation that is not committed yet is known to the request that   *)
(* makes it; a chat may have been told to continue it, and will look it up. *)
NewIsHidden ==
  \A r \in Request : request[r].stage = "write" /\ request[r].new =>
    /\ ~ Exists(request[r].conversation)
    /\ \A p \in Request \ {r} :
         request[p].conversation = request[r].conversation =>
           request[p].stage \in {"streaming", "look up"}

(* What a transaction has inserted comes after all that is committed. *)
RowsAtTheEnd ==
  \A r \in Request : request[r].stage = "write" =>
    \A m \in request[r].rows :
      /\ m.conversation = request[r].conversation
      /\ m.user = request[r].user
      /\ m.id < nextMessage
      /\ \A o \in messages : o.conversation = m.conversation => o.id < m.id

HistoryInv ==
  /\ TypeInv
  /\ KeysAhead /\ OneOwner /\ RowLocks /\ NewIsHidden /\ RowsAtTheEnd
  /\ \A r \in Request : Unwritten(request[r]) /\ Targets(request[r])
  /\ OwnMessagesOnly

(* What a request may become while the tables stay as they are. *)
MayBecome(r, q) ==
  /\ q.conversation < nextConversation
  /\ q.stage \in {"write", "removing"} => RowFree(q.conversation)
  /\ Unwritten(q) /\ Targets(q)
  /\ q.stage = "write" => q.rows = {} /\ q.new = FALSE
  /\ \/ q.stage \in {"streaming", "look up"}
     \/ q.conversation = None \/ Exists(q.conversation)
     \/ /\ q.conversation = request[r].conversation
        /\ request[r].stage \notin {"streaming", "look up"}

LEMMA QuietStep ==
  ASSUME HistoryInv, UNCHANGED tables, TypeInv', NEW r \in Request,
         \A p \in Request \ {r} : request'[p] = request[p],
         MayBecome(r, request'[r])
  PROVE  HistoryInv'
<1>0. PICK q : q = request'[r]
  OBVIOUS
<1>1. \A p \in Request : request'[p] = IF p = r THEN q ELSE request[p]
  BY <1>0
<1>2. /\ q.conversation < nextConversation
      /\ q.stage \in {"write", "removing"} => RowFree(q.conversation)
      /\ Unwritten(q) /\ Targets(q)
      /\ q.stage = "write" => q.rows = {} /\ q.new = FALSE
      /\ \/ q.stage \in {"streaming", "look up"}
         \/ q.conversation = None \/ Exists(q.conversation)
         \/ /\ q.conversation = request[r].conversation
            /\ request[r].stage \notin {"streaming", "look up"}
  BY <1>0 DEF MayBecome
<1>3. /\ conversations' = conversations /\ messages' = messages
      /\ nextConversation' = nextConversation /\ nextMessage' = nextMessage
  BY DEF tables
<1>4. KeysAhead' /\ OneOwner' /\ OwnMessagesOnly'
  BY <1>1, <1>3, <1>2 DEF HistoryInv, KeysAhead, OneOwner, OwnMessagesOnly, Owned
<1>5. RowLocks'
  <2>1. RowLocks
    BY DEF HistoryInv
  <2>2. ASSUME NEW p \in Request \ {r}, request[p].stage \in {"write", "removing"},
               q.stage \in {"write", "removing"},
               request[p].conversation = q.conversation
        PROVE  FALSE
    BY <1>2, <2>2 DEF RowFree, Holds
  <2>3. ASSUME NEW p \in Request, NEW s \in Request,
               request'[p].stage \in {"write", "removing"},
               request'[s].stage \in {"write", "removing"},
               request'[p].conversation = request'[s].conversation
        PROVE  p = s
    <3>1. CASE p # r /\ s # r
      BY <1>1, <2>1, <2>3, <3>1 DEF RowLocks
    <3>2. CASE p = r \/ s = r
      BY <1>1, <2>2, <2>3, <3>2
    <3> QED
      BY <3>1, <3>2
  <2> QED
    BY <2>3 DEF RowLocks
<1>6. NewIsHidden'
  <2>1. NewIsHidden
    BY DEF HistoryInv
  <2>2. ASSUME NEW p \in Request \ {r}, request[p].stage = "write", request[p].new,
               q.conversation = request[p].conversation
        PROVE  q.stage \in {"streaming", "look up"}
    <3>1. request[p].conversation # None /\ ~ Exists(request[p].conversation)
      BY <2>1, <2>2 DEF NewIsHidden, HistoryInv, TypeInv, Callers
    <3>2. request[r].conversation = request[p].conversation =>
            request[r].stage \in {"streaming", "look up"}
      BY <2>1, <2>2 DEF NewIsHidden
    <3> QED
      BY <1>2, <2>2, <3>1, <3>2
  <2>3. \A c : Exists(c)' <=> Exists(c)
    BY <1>3 DEF Exists
  <2>4. ASSUME NEW p \in Request, request'[p].stage = "write", request'[p].new
        PROVE  /\ ~ Exists(request'[p].conversation)
               /\ \A o \in Request \ {p} :
                    request'[o].conversation = request'[p].conversation =>
                      request'[o].stage \in {"streaming", "look up"}
    <3>1. p # r /\ request'[p] = request[p]
      BY <1>1, <1>2, <2>4
    <3>2. request[p].stage = "write" /\ request[p].new
      BY <2>4, <3>1
    <3>3. ASSUME NEW o \in Request \ {p},
                 request'[o].conversation = request'[p].conversation
          PROVE  request'[o].stage \in {"streaming", "look up"}
      <4>1. CASE o = r
        BY <1>1, <2>2, <3>1, <3>2, <3>3, <4>1
      <4>2. CASE o # r
        <5>1. request'[o] = request[o] /\ request'[p] = request[p]
          BY <1>1, <3>1, <4>2
        <5>2. request[o].conversation = request[p].conversation =>
                request[o].stage \in {"streaming", "look up"}
          BY <2>1, <3>2 DEF NewIsHidden
        <5> QED
          BY <3>3, <5>1, <5>2
      <4> QED
        BY <4>1, <4>2
    <3>4. ~ Exists(request'[p].conversation)
      BY <2>1, <3>1, <3>2 DEF NewIsHidden
    <3> QED
      BY <3>3, <3>4
  <2> QED
    BY <1>3, <2>4 DEF NewIsHidden, Exists
<1>7. RowsAtTheEnd'
  <2>1. RowsAtTheEnd
    BY DEF HistoryInv
  <2>2. ASSUME NEW p \in Request, request'[p].stage = "write",
               NEW m \in request'[p].rows
        PROVE  /\ m.conversation = request'[p].conversation
               /\ m.user = request'[p].user
               /\ m.id < nextMessage
               /\ \A o \in messages : o.conversation = m.conversation => o.id < m.id
    <3>1. p # r
      BY <1>1, <1>2, <2>2
    <3>2. request'[p] = request[p]
      BY <1>1, <3>1
    <3> QED
      BY <2>1, <2>2, <3>2 DEF RowsAtTheEnd
  <2> QED
    BY <1>3, <2>2 DEF RowsAtTheEnd
<1>8. (\A p \in Request : Unwritten(request[p]) /\ Targets(request[p]))'
  <2>1. ASSUME NEW p \in Request
        PROVE  /\ Unwritten(request'[p])
               /\ request'[p].stage = "touch"
                  /\ (\E v \in conversations : v.id = request'[p].conversation)
                  => Owned(request'[p].conversation, request'[p].user)
               /\ request'[p].stage = "write" /\ ~ request'[p].new
                  => Owned(request'[p].conversation, request'[p].user)
    <3>1. Unwritten(request[p]) /\ Targets(request[p])
      BY DEF HistoryInv
    <3>2. CASE p = r
      BY <1>1, <1>2, <3>2 DEF Targets, Exists
    <3>3. CASE p # r
      BY <1>1, <3>1, <3>3 DEF Targets, Exists
    <3> QED
      BY <3>2, <3>3
  <2> QED
    BY <1>3, <2>1 DEF Unwritten, Targets, Exists, Owned
<1> QED
  BY <1>4, <1>5, <1>6, <1>7, <1>8 DEF HistoryInv

(* The steps that leave the tables as they are keep the invariant. *)
LEMMA QuietSteps ==
  ASSUME HistoryInv, [Next]_vars, NEW r \in Request,
         \/ CreateConversation(r) \/ UseConversation(r) \/ StartChat(r)
         \/ PassChunk(r) \/ Discard(r) \/ EndStream(r) \/ FindConversation(r)
         \/ Touch(r) \/ Refuse(r) \/ Refresh(r) \/ Remove(r)
  PROVE  HistoryInv'
<1>0. TypeInv' /\ TypeOK /\ request[r] \in Call /\ request \in [Request -> Call]
  BY TypeInvInductive DEF HistoryInv, TypeInv, TypeOK
<1>1. /\ Unwritten(request[r]) /\ Targets(request[r])
      /\ request[r].conversation < nextConversation
      /\ \A p \in Request : request[p].conversation \in Nat
      /\ nextConversation \in Nat \ {0}
  BY <1>0 DEF HistoryInv, KeysAhead, TypeOK, Call
<1>1a. ASSUME NEW a, UNCHANGED tables, request' = [request EXCEPT ![r] = Ended(a)]
       PROVE  HistoryInv'
  <2>1. /\ request'[r] = Ended(a)
        /\ \A p \in Request \ {r} : request'[p] = request[p]
    BY <1>0, <1>1a
  <2>2. /\ Ended(a).stage = "done" /\ Ended(a).conversation = None
        /\ None < nextConversation
    BY <1>1 DEF Ended, Idle, None
  <2>3. MayBecome(r, request'[r])
    BY <2>1, <2>2 DEF MayBecome, Unwritten, Targets
  <2> QED
    BY <1>0, <1>1a, <2>1, <2>3, QuietStep
<1>2. CASE CreateConversation(r)
  <2>1. PICK u \in User, n \in 0 .. MaxSeeds :
          request' = [request EXCEPT
            ![r].op = "create", ![r].user = u, ![r].stage = "open",
            ![r].todo = [i \in 1 .. n |-> "user"]]
    BY <1>2 DEF CreateConversation
  <2>2. /\ request'[r].stage = "open" /\ request'[r].rows = request[r].rows
        /\ request'[r].new = request[r].new
        /\ request'[r].conversation = request[r].conversation
        /\ request[r].stage = "idle"
        /\ \A p \in Request \ {r} : request'[p] = request[p]
    BY <1>0, <1>2, <2>1 DEF Call, CreateConversation, Arrives, At
  <2>3. MayBecome(r, request'[r])
    BY <1>1, <2>2 DEF MayBecome, Unwritten, Targets
  <2> QED
    BY <1>0, <1>2, <2>2, <2>3, QuietStep DEF CreateConversation
<1>3. CASE Discard(r)
  BY <1>3, <1>1a DEF Discard
<1>4. CASE UseConversation(r)
  <2>0. request[r].stage = "idle" /\ UNCHANGED tables
    BY <1>4 DEF UseConversation, Arrives, At
  <2>1. ASSUME NEW op, NEW u, NEW c, NEW s, Used(r, op, u, c, s)
        PROVE  HistoryInv'
    <3>1. /\ request'[r].stage = s /\ request'[r].new = request[r].new
          /\ request'[r].conversation = c /\ request'[r].user = u
          /\ request'[r].rows = IF op = "delete" THEN MessagesOf(c) ELSE {}
          /\ \A p \in Request \ {r} : request'[p] = request[p]
      BY <1>0, <2>1 DEF Used, Call
    <3>2. s \in {"touch", "refresh", "remove"} /\ (s = "touch" => op # "delete")
      BY <2>1 DEF Used, FirstStage
    <3>3. Owned(c, u) /\ Exists(c) /\ c < nextConversation
      BY <1>1, <2>1 DEF Used, Owned, Exists
    <3>4. Unwritten(request'[r]) /\ Targets(request'[r])
      BY <1>1, <2>0, <3>1, <3>2, <3>3 DEF Unwritten, Targets
    <3>5. MayBecome(r, request'[r])
      BY <3>1, <3>2, <3>3, <3>4 DEF MayBecome
    <3> QED
      BY <1>0, <2>0, <3>1, <3>5, QuietStep
  <2>2. ASSUME NEW a, Unused(r, a) PROVE HistoryInv'
    BY <1>1a, <2>0, <2>2 DEF Unused
  <2> QED
    BY <1>4, <2>1, <2>2, UseCases
<1>5. CASE StartChat(r)
  <2>0. request[r].stage = "idle" /\ UNCHANGED tables
    BY <1>5 DEF StartChat, At, Arrives
  <2>1. /\ request'[r].stage = "streaming"
        /\ request'[r].rows = request[r].rows /\ request'[r].new = request[r].new
        /\ request'[r].conversation < nextConversation
        /\ \A p \in Request \ {r} : request'[p] = request[p]
    <3>1. CASE request' = [request EXCEPT ![r].op = "chat", ![r].stage = "streaming"]
      BY <1>0, <1>1, <3>1 DEF Call
    <3>2. ASSUME NEW u \in User, NEW c \in 0 .. nextConversation - 1,
                 request' = [request EXCEPT
                   ![r].op = "chat", ![r].user = u, ![r].conversation = c,
                   ![r].stage = "streaming", ![r].todo = <<"user", "assistant">>]
          PROVE  /\ request'[r].stage = "streaming"
                 /\ request'[r].rows = request[r].rows
                 /\ request'[r].new = request[r].new
                 /\ request'[r].conversation < nextConversation
                 /\ \A p \in Request \ {r} : request'[p] = request[p]
      BY <1>0, <1>1, <3>2 DEF Call
    <3> QED
      BY <1>5, <3>1, <3>2 DEF StartChat
  <2>2. MayBecome(r, request'[r])
    BY <1>1, <2>0, <2>1 DEF MayBecome, Unwritten, Targets
  <2> QED
    BY <1>0, <2>0, <2>1, <2>2, QuietStep
<1>6. CASE PassChunk(r)
  <2>1. UNCHANGED tables /\ request' = request /\ request[r].stage = "streaming"
    BY <1>6 DEF PassChunk, At
  <2>2. MayBecome(r, request'[r])
    BY <1>1, <2>1 DEF MayBecome
  <2> QED
    BY <1>0, <2>1, <2>2, QuietStep
<1>7. ASSUME UNCHANGED tables, NEW s \in Stage,
             request' = [request EXCEPT ![r].stage = s],
             \/ s = "look up" /\ request[r].stage = "streaming"
             \/ /\ s \in {"write", "removing"} /\ RowFree(request[r].conversation)
                /\ request[r].stage \in {"touch", "remove"}
                /\ s = "write" => request[r].stage = "touch" /\ Exists(request[r].conversation)
             \/ /\ s = "touch" /\ request[r].stage = "look up"
                /\ Owned(request[r].conversation, request[r].user)
      PROVE  HistoryInv'
  <2>1. /\ request'[r].stage = s
        /\ request'[r].rows = request[r].rows /\ request'[r].new = request[r].new
        /\ request'[r].conversation = request[r].conversation
        /\ request'[r].user = request[r].user
        /\ \A p \in Request \ {r} : request'[p] = request[p]
    BY <1>0, <1>7 DEF Call
  <2>2. Unwritten(request'[r]) /\ Targets(request'[r])
    BY <1>1, <1>7, <2>1 DEF Unwritten, Targets
  <2>3. Owned(request[r].conversation, request[r].user) => Exists(request[r].conversation)
    BY DEF Owned, Exists
  <2>4. MayBecome(r, request'[r])
    BY <1>1, <1>7, <2>1, <2>2, <2>3 DEF MayBecome, Unwritten
  <2> QED
    BY <1>0, <1>7, <2>1, <2>4, QuietStep
<1>8. CASE EndStream(r)
  BY <1>3, <1>7, <1>8 DEF EndStream, At, Stage
<1>9. CASE FindConversation(r)
  <2>0. UNCHANGED tables /\ request[r].stage = "look up"
    BY <1>9 DEF FindConversation, At
  <2>1. ASSUME Owned(request[r].conversation, request[r].user),
               request' = [request EXCEPT ![r].stage = "touch"]
        PROVE  HistoryInv'
    BY <1>7, <2>0, <2>1 DEF Stage
  <2>2. ASSUME request' = [request EXCEPT ![r].stage = "open", ![r].conversation = None]
        PROVE  HistoryInv'
    <3>0. /\ request[r].stage = "look up"
          /\ request' = [request EXCEPT ![r].stage = "open", ![r].conversation = None]
      BY <2>0, <2>2
    <3>1. /\ request'[r].stage = "open" /\ request'[r].conversation = None
          /\ request'[r].rows = request[r].rows /\ request'[r].new = request[r].new
          /\ \A p \in Request \ {r} : request'[p] = request[p]
      BY <1>0, <3>0 DEF Call
    <3>2. None < nextConversation
      BY <1>1 DEF None
    <3>3. Unwritten(request'[r]) /\ Targets(request'[r])
      BY <1>1, <3>0, <3>1 DEF Unwritten, Targets
    <3>4. MayBecome(r, request'[r])
      BY <3>1, <3>2, <3>3 DEF MayBecome
    <3> QED
      BY <1>0, <2>0, <3>1, <3>4, QuietStep
  <2> QED
    BY <1>9, <1>1a, <2>0, <2>1, <2>2 DEF FindConversation
<1>10. ASSUME UNCHANGED tables, NEW a \in Answer,
              request' = [request EXCEPT ![r].stage = "done", ![r].answer = a],
              request[r].stage \notin {"streaming", "look up"}
       PROVE  HistoryInv'
  <2>1. /\ request'[r].stage = "done"
        /\ request'[r].conversation = request[r].conversation
        /\ \A p \in Request \ {r} : request'[p] = request[p]
    BY <1>0, <1>10 DEF Call
  <2>2. MayBecome(r, request'[r])
    BY <1>1, <1>10, <2>1 DEF MayBecome, Unwritten, Targets
  <2> QED
    BY <1>0, <1>10, <2>1, <2>2, QuietStep
<1>11. CASE Touch(r)
  BY <1>7, <1>10, <1>11 DEF Touch, RollBack, At, Stage, Answer
<1>12. CASE Refuse(r)
  BY <1>10, <1>12 DEF Refuse, RollBack, At, Answer
<1>13. CASE Refresh(r)
  BY <1>10, <1>13 DEF Refresh, At, Answer
<1>14. CASE Remove(r)
  BY <1>7, <1>14 DEF Remove, At, Stage
<1> QED
  BY <1>2, <1>3, <1>4, <1>5, <1>6, <1>8, <1>9, <1>11, <1>12, <1>13, <1>14

(* What each of the other four steps does to its request. *)
LEMMA LoudEffects ==
  ASSUME HistoryInv, NEW r \in Request
  PROVE  /\ Open(r) =>
              /\ request'[r].stage = "write" /\ request'[r].new = TRUE
              /\ request'[r].conversation = nextConversation
              /\ request'[r].rows = request[r].rows
         /\ Insert(r) =>
              /\ request'[r].stage = "write" /\ request'[r].new = request[r].new
              /\ request'[r].conversation = request[r].conversation
              /\ request'[r].user = request[r].user
              /\ request'[r].rows = request[r].rows \cup {RowOf(r)}
         /\ Commit(r) \/ CommitRemoval(r) =>
              /\ request'[r].stage \in {"done", "refresh"}
              /\ request'[r].conversation = request[r].conversation
         /\ Open(r) \/ Insert(r) \/ Commit(r) \/ CommitRemoval(r) =>
              \A p \in Request \ {r} : request'[p] = request[p]
<1>0. request[r] \in Call /\ request \in [Request -> Call]
  BY DEF HistoryInv, TypeInv, TypeOK
<1>1. ASSUME Open(r)
      PROVE  /\ request'[r].stage = "write" /\ request'[r].new = TRUE
             /\ request'[r].conversation = nextConversation
             /\ request'[r].rows = request[r].rows
             /\ \A p \in Request \ {r} : request'[p] = request[p]
  BY <1>0, <1>1 DEF Open, Call
<1>2. ASSUME Insert(r)
      PROVE  /\ request'[r].stage = "write" /\ request'[r].new = request[r].new
             /\ request'[r].conversation = request[r].conversation
             /\ request'[r].user = request[r].user
             /\ request'[r].rows = request[r].rows \cup {RowOf(r)}
             /\ \A p \in Request \ {r} : request'[p] = request[p]
  <2>1. request' = [request EXCEPT ![r].rows = request[r].rows \cup {RowOf(r)},
                                   ![r].todo = Tail(request[r].todo)]
    BY <1>0, <1>2 DEF Insert
  <2>2. request[r].stage = "write"
    BY <1>2 DEF Insert, At
  <2>3. PICK row : row = RowOf(r)
    OBVIOUS
  <2> QED
    BY <1>0, <2>1, <2>2, <2>3 DEF Call
<1>3. ASSUME Commit(r) \/ CommitRemoval(r)
      PROVE  /\ request'[r].stage \in {"done", "refresh"}
             /\ request'[r].conversation = request[r].conversation
             /\ \A p \in Request \ {r} : request'[p] = request[p]
  BY <1>0, <1>3 DEF Commit, CommitRemoval, Call
<1> QED
  BY <1>1, <1>2, <1>3

LEMMA OpenKeeps ==
  ASSUME HistoryInv, TypeInv', NEW r \in Request, Open(r) PROVE HistoryInv'
<1>1. /\ request'[r].stage = "write" /\ request'[r].new = TRUE
      /\ request'[r].conversation = nextConversation
      /\ request'[r].rows = {}
      /\ \A p \in Request \ {r} : request'[p] = request[p]
  BY LoudEffects DEF HistoryInv, Unwritten, Open, At
<1>2. /\ conversations' = conversations /\ messages' = messages
      /\ nextConversation' = nextConversation + 1 /\ nextMessage' = nextMessage
  BY DEF Open
<1>3. /\ nextConversation \in Nat
      /\ \A v \in conversations : v.id \in Nat /\ v.id < nextConversation
      /\ \A p \in Request : /\ request[p].conversation \in Nat
                            /\ request[p].conversation < nextConversation
  BY DEF HistoryInv, TypeInv, TypeOK, KeysAhead, Conversation, Call
<1>4. KeysAhead'
  BY <1>1, <1>2, <1>3 DEF HistoryInv, KeysAhead
<1>5. OneOwner' /\ OwnMessagesOnly'
  BY <1>2 DEF HistoryInv, OneOwner, OwnMessagesOnly, Owned
<1>6. RowLocks'
  <2>1. RowLocks
    BY DEF HistoryInv
  <2>2. ASSUME NEW p \in Request, NEW o \in Request,
               request'[p].stage \in {"write", "removing"},
               request'[o].stage \in {"write", "removing"},
               request'[p].conversation = request'[o].conversation
        PROVE  p = o
    <3>1. CASE p # r /\ o # r
      BY <1>1, <2>1, <2>2, <3>1 DEF RowLocks
    <3>2. CASE p = r \/ o = r
      BY <1>1, <1>3, <2>2, <3>2
    <3> QED
      BY <3>1, <3>2
  <2> QED
    BY <2>2 DEF RowLocks
<1>7. NewIsHidden'
  <2>1. NewIsHidden
    BY DEF HistoryInv
  <2>2. ASSUME NEW p \in Request, request'[p].stage = "write", request'[p].new
        PROVE  /\ ~ Exists(request'[p].conversation)
               /\ \A o \in Request \ {p} :
                    request'[o].conversation = request'[p].conversation =>
                      request'[o].stage \in {"streaming", "look up"}
    <3>1. CASE p = r
      <4>1. ~ Exists(nextConversation)
        BY <1>3 DEF Exists
      <4>2. \A o \in Request \ {r} : request'[o].conversation # nextConversation
        BY <1>1, <1>3
      <4> QED
        BY <1>1, <3>1, <4>1, <4>2
    <3>2. CASE p # r
      <4>1. request'[p] = request[p] /\ request[p].stage = "write" /\ request[p].new
        BY <1>1, <2>2, <3>2
      <4>2. ~ Exists(request[p].conversation)
        BY <2>1, <4>1 DEF NewIsHidden
      <4>3. ASSUME NEW o \in Request \ {p},
                   request'[o].conversation = request'[p].conversation
            PROVE  request'[o].stage \in {"streaming", "look up"}
        <5>1. o # r /\ request'[o] = request[o]
          BY <1>1, <1>3, <4>1, <4>3
        <5>2. request[o].conversation = request[p].conversation =>
                request[o].stage \in {"streaming", "look up"}
          BY <2>1, <4>1 DEF NewIsHidden
        <5> QED
          BY <4>1, <4>3, <5>1, <5>2
      <4> QED
        BY <4>1, <4>2, <4>3
    <3> QED
      BY <3>1, <3>2
  <2> QED
    BY <1>2, <2>2 DEF NewIsHidden, Exists
<1>8. RowsAtTheEnd'
  <2>1. RowsAtTheEnd
    BY DEF HistoryInv
  <2>2. ASSUME NEW p \in Request, request'[p].stage = "write",
               NEW m \in request'[p].rows
        PROVE  /\ m.conversation = request'[p].conversation
               /\ m.user = request'[p].user
               /\ m.id < nextMessage
               /\ \A o \in messages : o.conversation = m.conversation => o.id < m.id
    <3>1. p # r /\ request'[p] = request[p]
      BY <1>1, <2>2
    <3> QED
      BY <2>1, <2>2, <3>1 DEF RowsAtTheEnd
  <2> QED
    BY <1>2, <2>2 DEF RowsAtTheEnd
<1>9. (\A p \in Request : Unwritten(request[p]) /\ Targets(request[p]))'
  <2>1. ASSUME NEW p \in Request
        PROVE  Unwritten(request'[p]) /\ Targets(request'[p])
    <3>1. CASE p = r
      BY <1>1, <3>1 DEF Unwritten, Targets
    <3>2. CASE p # r
      BY <1>1, <3>2 DEF HistoryInv
    <3> QED
      BY <3>1, <3>2
  <2> QED
    BY <1>2, <2>1 DEF Unwritten, Targets, Exists, Owned
<1> QED
  BY <1>4, <1>5, <1>6, <1>7, <1>8, <1>9 DEF HistoryInv

(* A step that leaves every request at its conversation, starts no          *)
(* transaction and opens no conversation leaves the locks as they are.      *)
LEMMA LocksStay ==
  ASSUME RowLocks, NewIsHidden,
         \A p \in Request :
           /\ request'[p].conversation = request[p].conversation
           /\ request'[p].stage \in {"write", "removing"} =>
                /\ request'[p].stage = request[p].stage
                /\ request'[p].new = request[p].new
           /\ request[p].stage \in {"streaming", "look up"} =>
                request'[p].stage = request[p].stage,
         \A p \in Request : request'[p].stage = "write" /\ request'[p].new =>
           (Exists(request[p].conversation)' => Exists(request[p].conversation))
  PROVE  RowLocks' /\ NewIsHidden'
<1>1. RowLocks'
  BY DEF RowLocks
<1>2. ASSUME NEW p \in Request, request'[p].stage = "write", request'[p].new
      PROVE  /\ (~ Exists(request[p].conversation))'
             /\ \A o \in Request \ {p} :
                  request'[o].conversation = request'[p].conversation =>
                    request'[o].stage \in {"streaming", "look up"}
  BY <1>2 DEF NewIsHidden
<1>3. NewIsHidden'
  BY <1>2 DEF NewIsHidden
<1> QED
  BY <1>1, <1>3

LEMMA InsertKeeps ==
  ASSUME HistoryInv, TypeInv', NEW r \in Request, Insert(r) PROVE HistoryInv'
<1>1. /\ request'[r].stage = "write" /\ request'[r].new = request[r].new
      /\ request'[r].conversation = request[r].conversation
      /\ request'[r].user = request[r].user
      /\ request'[r].rows = request[r].rows \cup {RowOf(r)}
      /\ request[r].stage = "write"
      /\ \A p \in Request \ {r} : request'[p] = request[p]
  BY LoudEffects DEF Insert, At
<1>2. /\ conversations' = conversations /\ messages' = messages
      /\ nextConversation' = nextConversation /\ nextMessage' = nextMessage + 1
  BY DEF Insert
<1>3. /\ nextMessage \in Nat
      /\ \A m \in messages : m.id \in Nat /\ m.id < nextMessage
      /\ \A p \in Request : \A m \in request[p].rows : m.id \in Nat
  <2>1. \A p \in Request : request[p] \in Call
    BY DEF HistoryInv, TypeInv, TypeOK
  <2>2. \A p \in Request : request[p].rows \subseteq Message
    BY <2>1 DEF Call
  <2> QED
    BY <2>2 DEF HistoryInv, TypeInv, TypeOK, KeysAhead, Message
<1>4. KeysAhead'
  BY <1>1, <1>2, <1>3 DEF HistoryInv, KeysAhead
<1>5. OneOwner' /\ OwnMessagesOnly'
  BY <1>2 DEF HistoryInv, OneOwner, OwnMessagesOnly, Owned
<1>6. RowLocks' /\ NewIsHidden'
  <2>1. RowLocks /\ NewIsHidden
    BY DEF HistoryInv
  <2>2. \A p \in Request :
          /\ request'[p].conversation = request[p].conversation
          /\ request'[p].stage = request[p].stage
          /\ request'[p].new = request[p].new
    BY <1>1
  <2>3. \A p \in Request : Exists(request[p].conversation)' <=> Exists(request[p].conversation)
    BY <1>2, <2>2 DEF Exists
  <2> QED
    BY <2>1, <2>2, <2>3, LocksStay
<1>7. RowsAtTheEnd'
  <2>1. ASSUME NEW p \in Request, request'[p].stage = "write",
               NEW m \in request'[p].rows
        PROVE  /\ m.conversation = request'[p].conversation
               /\ m.user = request'[p].user
               /\ m.id < nextMessage + 1
               /\ \A o \in messages : o.conversation = m.conversation => o.id < m.id
    <3>1. CASE m \in request[p].rows
      <4>1. request[p].stage = "write"
        BY <1>1, <2>1
      <4>2. /\ m.conversation = request[p].conversation
            /\ m.user = request[p].user
            /\ m.id < nextMessage
            /\ \A o \in messages : o.conversation = m.conversation => o.id < m.id
        BY <3>1, <4>1 DEF HistoryInv, RowsAtTheEnd
      <4> QED
        BY <1>1, <1>3, <3>1, <4>2
    <3>2. CASE m \notin request[p].rows
      <4>1. p = r /\ m = RowOf(r)
        BY <1>1, <2>1, <3>2
      <4>2. /\ m.id = nextMessage /\ m.conversation = request[r].conversation
            /\ m.user = request[r].user
        BY <4>1 DEF RowOf
      <4> QED
        BY <1>1, <1>3, <4>1, <4>2
    <3> QED
      BY <3>1, <3>2
  <2> QED
    BY <1>2, <2>1 DEF RowsAtTheEnd
<1>8. (\A p \in Request : Unwritten(request[p]) /\ Targets(request[p]))'
  <2>1. ASSUME NEW p \in Request
        PROVE  Unwritten(request'[p]) /\ Targets(request'[p])
    <3>1. CASE p = r
      <4>1. Targets(request[r])
        BY DEF HistoryInv
      <4> QED
        BY <1>1, <3>1, <4>1 DEF Unwritten, Targets
    <3>2. CASE p # r
      BY <1>1, <3>2 DEF HistoryInv
    <3> QED
      BY <3>1, <3>2
  <2> QED
    BY <1>2, <2>1 DEF Unwritten, Targets, Exists, Owned
<1> QED
  BY <1>4, <1>5, <1>6, <1>7, <1>8 DEF HistoryInv

(* What a commit adds is at the end of its conversation. *)
LEMMA CommitAppends ==
  ASSUME HistoryInv, NEW r \in Request, Commit(r),
         NEW m \in messages' \ messages
  PROVE  /\ m \in request[r].rows /\ m.conversation = request[r].conversation
         /\ m.user = request[r].user /\ m.id < nextMessage
         /\ \A o \in messages : o.conversation = m.conversation => o.id < m.id
<1>1. m \in request[r].rows /\ request[r].stage = "write"
  BY DEF Commit, At
<1> QED
  BY <1>1 DEF HistoryInv, RowsAtTheEnd

LEMMA CommitKeeps ==
  ASSUME HistoryInv, TypeInv', NEW r \in Request, Commit(r) PROVE HistoryInv'
<1>1. /\ request'[r].stage \in {"done", "refresh"}
      /\ request'[r].conversation = request[r].conversation
      /\ request[r].stage = "write"
      /\ \A p \in Request \ {r} : request'[p] = request[p]
  BY LoudEffects DEF Commit, At
<1>2. /\ nextConversation' = nextConversation /\ nextMessage' = nextMessage
      /\ messages' = messages \cup request[r].rows
      /\ conversations' = conversations \cup
           (IF request[r].new
            THEN {[id |-> request[r].conversation, owner |-> request[r].user]}
            ELSE {})
  BY DEF Commit
<1>3. [id |-> request[r].conversation, owner |-> request[r].user] \in conversations'
  <2>1. CASE request[r].new = TRUE
    BY <1>2, <2>1
  <2>2. CASE request[r].new = FALSE
    <3>1. Targets(request[r])
      BY DEF HistoryInv
    <3> QED
      BY <1>1, <1>2, <2>2, <3>1 DEF Targets, Owned
  <2> QED
    BY <2>1, <2>2 DEF HistoryInv, TypeInv, TypeOK, Call
<1>4. ASSUME NEW v \in conversations' \ conversations
      PROVE  /\ v = [id |-> request[r].conversation, owner |-> request[r].user]
             /\ request[r].new
  BY <1>2, <1>4
<1>5. KeysAhead'
  <2>1. \A v \in conversations' : v.id < nextConversation
    BY <1>4 DEF HistoryInv, KeysAhead
  <2>2. \A m \in messages' : m.id < nextMessage
    BY CommitAppends DEF HistoryInv, KeysAhead
  <2>3. \A p \in Request : request'[p].conversation < nextConversation
    BY <1>1 DEF HistoryInv, KeysAhead
  <2> QED
    BY <1>2, <2>1, <2>2, <2>3 DEF KeysAhead
<1>6. OneOwner'
  <2>1. request[r].new => \A v \in conversations : v.id # request[r].conversation
    BY <1>1 DEF HistoryInv, NewIsHidden, Exists
  <2>2. OneOwner
    BY DEF HistoryInv
  <2> QED
    BY <1>4, <2>1, <2>2 DEF OneOwner
<1>7. OwnMessagesOnly'
  <2>1. \A m \in messages : [id |-> m.conversation, owner |-> m.user] \in conversations'
    BY <1>2 DEF HistoryInv, OwnMessagesOnly, Owned
  <2>2. \A m \in messages' \ messages :
          [id |-> m.conversation, owner |-> m.user] \in conversations'
    BY <1>3, CommitAppends
  <2> QED
    BY <2>1, <2>2 DEF OwnMessagesOnly, Owned
<1>8. RowLocks' /\ NewIsHidden'
  <2>1. RowLocks /\ NewIsHidden
    BY DEF HistoryInv
  <2>2. \A p \in Request :
          /\ request'[p].conversation = request[p].conversation
          /\ request'[p].stage \in {"write", "removing"} =>
               /\ p # r
               /\ request'[p].stage = request[p].stage
               /\ request'[p].new = request[p].new
          /\ request[p].stage \in {"streaming", "look up"} =>
               request'[p].stage = request[p].stage
    BY <1>1
  <2>3. ASSUME NEW p \in Request, request'[p].stage = "write", request'[p].new,
               Exists(request[p].conversation)'
        PROVE  Exists(request[p].conversation)
    <3>1. PICK v \in conversations' : v.id = request[p].conversation
      BY <2>2, <2>3 DEF Exists
    <3>2. p # r /\ request[p].stage = "write"
      BY <2>2, <2>3
    <3>3. request[p].conversation # request[r].conversation
      BY <1>1, <2>1, <3>2 DEF RowLocks
    <3>4. v \in conversations
      BY <1>4, <3>1, <3>3
    <3> QED
      BY <3>1, <3>4 DEF Exists
  <2> QED
    BY <2>1, <2>2, <2>3, LocksStay
<1>9. RowsAtTheEnd'
  <2>1. ASSUME NEW p \in Request, request'[p].stage = "write",
               NEW m \in request'[p].rows
        PROVE  /\ m.conversation = request'[p].conversation
               /\ m.user = request'[p].user
               /\ m.id < nextMessage
               /\ \A o \in messages' : o.conversation = m.conversation => o.id < m.id
    <3>1. p # r /\ request'[p] = request[p]
      BY <1>1, <2>1
    <3>2. /\ m.conversation = request[p].conversation
          /\ m.user = request[p].user
          /\ m.id < nextMessage
          /\ \A o \in messages : o.conversation = m.conversation => o.id < m.id
      BY <2>1, <3>1 DEF HistoryInv, RowsAtTheEnd
    <3>3. request[p].conversation # request[r].conversation
      BY <1>1, <2>1, <3>1 DEF HistoryInv, RowLocks
    <3>4. \A o \in messages' \ messages : o.conversation = request[r].conversation
      BY CommitAppends
    <3> QED
      BY <3>1, <3>2, <3>3, <3>4
  <2> QED
    BY <1>2, <2>1 DEF RowsAtTheEnd
<1>10. (\A p \in Request : Unwritten(request[p]) /\ Targets(request[p]))'
  <2>1. ASSUME NEW p \in Request
        PROVE  /\ Unwritten(request'[p])
               /\ request'[p].stage = "touch"
                  /\ (\E v \in conversations' : v.id = request'[p].conversation)
                  => [id |-> request'[p].conversation, owner |-> request'[p].user]
                       \in conversations'
               /\ request'[p].stage = "write" /\ ~ request'[p].new
                  => [id |-> request'[p].conversation, owner |-> request'[p].user]
                       \in conversations'
    <3>1. CASE p = r
      BY <1>1, <3>1 DEF Unwritten
    <3>2. CASE p # r
      <4>1. request'[p] = request[p] /\ Unwritten(request[p]) /\ Targets(request[p])
        BY <1>1, <3>2 DEF HistoryInv
      <4>2. ASSUME request[p].stage = "touch",
                   NEW v \in conversations', v.id = request[p].conversation
            PROVE  Exists(request[p].conversation)
        <5>1. CASE v \in conversations
          BY <4>2, <5>1 DEF Exists
        <5>2. CASE v \notin conversations
          <6>1. request[r].new /\ request[p].conversation = request[r].conversation
            BY <1>4, <4>2, <5>2
          <6>2. request[p].stage \in {"streaming", "look up"}
            BY <1>1, <3>2, <6>1 DEF HistoryInv, NewIsHidden
          <6> QED
            BY <4>2, <6>2
        <5> QED
          BY <5>1, <5>2
      <4>3. conversations \subseteq conversations'
        BY <1>2
      <4> QED
        BY <4>1, <4>2, <4>3 DEF Targets, Owned
    <3> QED
      BY <3>1, <3>2
  <2> QED
    BY <2>1 DEF Unwritten, Targets, Exists, Owned
<1> QED
  BY <1>5, <1>6, <1>7, <1>8, <1>9, <1>10 DEF HistoryInv

LEMMA RemovalKeeps ==
  ASSUME HistoryInv, TypeInv', NEW r \in Request, CommitRemoval(r) PROVE HistoryInv'
<1>1. /\ request'[r].stage \in {"done", "refresh"}
      /\ request'[r].conversation = request[r].conversation
      /\ request[r].stage = "removing"
      /\ \A p \in Request \ {r} : request'[p] = request[p]
  BY LoudEffects DEF CommitRemoval, At
<1>2. /\ nextConversation' = nextConversation /\ nextMessage' = nextMessage
      /\ messages' \subseteq messages
      /\ \A m \in messages' : m.conversation # request[r].conversation
      /\ conversations' = {v \in conversations : v.id # request[r].conversation}
  BY DEF CommitRemoval, MessagesOf
<1>3. KeysAhead' /\ OneOwner'
  BY <1>1, <1>2 DEF HistoryInv, KeysAhead, OneOwner
<1>4. OwnMessagesOnly'
  <2>1. ASSUME NEW m \in messages'
        PROVE  [id |-> m.conversation, owner |-> m.user] \in conversations'
    <3>1. [id |-> m.conversation, owner |-> m.user] \in conversations
      BY <1>2 DEF HistoryInv, OwnMessagesOnly, Owned
    <3> QED
      BY <1>2, <3>1
  <2> QED
    BY <2>1 DEF OwnMessagesOnly, Owned
<1>5. RowLocks' /\ NewIsHidden'
  <2>1. RowLocks /\ NewIsHidden
    BY DEF HistoryInv
  <2>2. \A p \in Request :
          /\ request'[p].conversation = request[p].conversation
          /\ request'[p].stage \in {"write", "removing"} =>
               /\ request'[p].stage = request[p].stage
               /\ request'[p].new = request[p].new
          /\ request[p].stage \in {"streaming", "look up"} =>
               request'[p].stage = request[p].stage
    BY <1>1
  <2>3. \A p \in Request : Exists(request[p].conversation)' => Exists(request[p].conversation)
    BY <1>2, <2>2 DEF Exists
  <2> QED
    BY <2>1, <2>2, <2>3, LocksStay
<1>6. RowsAtTheEnd'
  <2>1. ASSUME NEW p \in Request, request'[p].stage = "write",
               NEW m \in request'[p].rows
        PROVE  /\ m.conversation = request'[p].conversation
               /\ m.user = request'[p].user
               /\ m.id < nextMessage
               /\ \A o \in messages : o.conversation = m.conversation => o.id < m.id
    <3>1. p # r /\ request'[p] = request[p]
      BY <1>1, <2>1
    <3> QED
      BY <2>1, <3>1 DEF HistoryInv, RowsAtTheEnd
  <2> QED
    BY <1>2, <2>1 DEF RowsAtTheEnd
<1>7. (\A p \in Request : Unwritten(request[p]) /\ Targets(request[p]))'
  <2>1. ASSUME NEW p \in Request
        PROVE  /\ Unwritten(request'[p])
               /\ request'[p].stage = "touch"
                  /\ (\E v \in conversations' : v.id = request'[p].conversation)
                  => [id |-> request'[p].conversation, owner |-> request'[p].user]
                       \in conversations'
               /\ request'[p].stage = "write" /\ ~ request'[p].new
                  => [id |-> request'[p].conversation, owner |-> request'[p].user]
                       \in conversations'
    <3>1. CASE p = r
      BY <1>1, <3>1 DEF Unwritten
    <3>2. CASE p # r
      <4>1. request'[p] = request[p] /\ Unwritten(request[p]) /\ Targets(request[p])
        BY <1>1, <3>2 DEF HistoryInv
      <4>2. request[p].stage = "write" => request[p].conversation # request[r].conversation
        BY <1>1, <3>2 DEF HistoryInv, RowLocks
      <4> QED
        BY <1>2, <4>1, <4>2 DEF Targets, Owned, Exists
    <3> QED
      BY <3>1, <3>2
  <2> QED
    BY <2>1 DEF Unwritten, Targets, Exists, Owned
<1> QED
  BY <1>3, <1>4, <1>5, <1>6, <1>7 DEF HistoryInv

LEMMA HistoryInvInductive == HistoryInv /\ [Next]_vars => HistoryInv'
<1> SUFFICES ASSUME HistoryInv, [Next]_vars PROVE HistoryInv'
  OBVIOUS
<1>1. TypeInv'
  BY TypeInvInductive DEF HistoryInv
<1>2. CASE UNCHANGED vars
  BY <1>2 DEF vars, tables, HistoryInv, TypeInv, TypeOK, Callers, KeysAhead, OneOwner,
     RowLocks, NewIsHidden, RowsAtTheEnd, Unwritten, Targets, OwnMessagesOnly,
     Exists, Owned
<1>3. ASSUME NEW r \in Request, Ask(r) \/ Advance(r) PROVE HistoryInv'
  <2>1. CASE Open(r) \/ Insert(r) \/ Commit(r) \/ CommitRemoval(r)
    BY <1>1, <2>1, OpenKeeps, InsertKeeps, CommitKeeps, RemovalKeeps
  <2>2. CASE ~ (Open(r) \/ Insert(r) \/ Commit(r) \/ CommitRemoval(r))
    BY <1>3, <2>2, QuietSteps DEF Ask, Advance, Converse, Transact, CutStream
  <2> QED
    BY <2>1, <2>2
<1> QED
  BY <1>2, <1>3 DEF Next, Finished

LEMMA HistoryInvAlways == Spec => []HistoryInv
<1>1. Init => HistoryInv
  <2> SUFFICES ASSUME Init PROVE HistoryInv
    OBVIOUS
  <2>1. TypeInv
    BY InitTypeInv
  <2>2. /\ \A r \in Request : request[r] = Idle
        /\ conversations = {[id |-> 1, owner |-> FirstOwner]}
        /\ messages = {} /\ nextConversation = 2
    BY DEF Init
  <2>3. Idle.stage = "idle" /\ Idle.rows = {} /\ Idle.new = FALSE /\ Idle.conversation = 0
    BY DEF Idle, None
  <2>4. KeysAhead /\ OneOwner /\ OwnMessagesOnly
    BY <2>2, <2>3 DEF KeysAhead, OneOwner, OwnMessagesOnly
  <2>5. RowLocks /\ NewIsHidden /\ RowsAtTheEnd
    BY <2>2, <2>3 DEF RowLocks, NewIsHidden, RowsAtTheEnd
  <2>6. \A r \in Request : Unwritten(request[r]) /\ Targets(request[r])
    BY <2>2, <2>3 DEF Unwritten, Targets
  <2> QED
    BY <2>1, <2>4, <2>5, <2>6 DEF HistoryInv
<1> QED
  BY <1>1, HistoryInvInductive, PTL DEF Spec

(* A message is always in a conversation of its writer (history.py:3-6,    *)
(* 147), however many requests append, save and delete at once.            *)
THEOREM MessagesStayWithOwners == Spec => []OwnMessagesOnly
<1>1. HistoryInv => OwnMessagesOnly
  BY DEF HistoryInv
<1> QED
  BY <1>1, HistoryInvAlways, PTL

(* A committed message is the last of its conversation (conversation.py:36),  *)
(* for any number of requests and whatever ids the others take meanwhile.     *)
THEOREM ReadersSeeHistoryGrow == Spec => HistoryGrowsAtItsEnd
<1>1. HistoryInv /\ [Next]_vars =>
        [\A m \in messages' \ messages, o \in messages :
           m.conversation = o.conversation => m.id > o.id]_vars
  <2> SUFFICES ASSUME HistoryInv, [Next]_vars,
                      NEW m \in messages' \ messages, NEW o \in messages,
                      m.conversation = o.conversation
               PROVE  m.id > o.id
    OBVIOUS
  <2>1. PICK r \in Request : Commit(r)
    <3>1. messages' # messages
      OBVIOUS
    <3>2. ~ UNCHANGED vars
      BY <3>1 DEF vars, tables
    <3>3. PICK r \in Request : Ask(r) \/ Advance(r)
      BY <3>2 DEF Next, Finished
    <3>4. \/ UNCHANGED tables
          \/ Open(r) \/ Insert(r) \/ Commit(r) \/ CommitRemoval(r)
      BY <3>3 DEF Ask, Advance, Converse, Transact, CreateConversation,
         UseConversation, StartChat, PassChunk, CutStream, Discard, EndStream,
         FindConversation, Touch, Refuse, RollBack, Refresh, Remove, tables
    <3>5. messages' \subseteq messages \/ Commit(r)
      BY <3>4 DEF tables, Open, Insert, CommitRemoval
    <3> QED
      BY <3>5
  <2>2. o.id < m.id
    BY <2>1, CommitAppends
  <2>3. o.id \in Nat /\ m.id \in Nat
    <3>1. messages \subseteq Message /\ messages' \subseteq Message
      BY TypeInvInductive DEF HistoryInv, TypeInv, TypeOK
    <3> QED
      BY <3>1 DEF Message
  <2> QED
    BY <2>2, <2>3
<1> QED
  BY <1>1, HistoryInvAlways, PTL DEF Spec, HistoryGrowsAtItsEnd
-----------------------------------------------------------------------------
(* Exchanges and answers.  Both properties look at a request and the rows   *)
(* it has written; what they need besides is what it has in hand before.   *)

(* What a request is at each stage. *)
Stages(r) ==
  /\ request[r].stage \in {"open", "touch", "write", "refresh"} =>
       request[r].op \in {"create", "append", "rename", "chat"}
  /\ request[r].stage \in {"streaming", "look up"} => request[r].op = "chat"
  /\ request[r].stage \in {"remove", "removing"} =>
       request[r].op = "delete" /\ request[r].new = FALSE
  /\ \/ request[r].stage = "refresh"
     \/ /\ request[r].stage = "done" /\ request[r].answer = "ok"
        /\ request[r].op # "delete"
     => request[r].todo = << >>
  /\ request[r].stage = "idle" => request[r].op = "none" /\ request[r].todo = << >>
  /\ request[r].stage = "done" /\ request[r].answer = "ok" => request[r].op # "none"

(* The rows a request has in hand are of its conversation: its own, or for *)
(* a deletion those it has loaded.                                         *)
Authors(r) ==
  \A m \in request[r].rows :
    /\ m.conversation = request[r].conversation
    /\ request[r].op # "delete" => m.by = r

(* What is kept of a reply is all of it or will not be saved. *)
Whole(r) ==
  /\ ~ stream[r].overflow => stream[r].kept = stream[r].sent
  /\ request[r].op = "chat" /\ request[r].stage # "streaming" => ~ stream[r].overflow

BothMessages == <<"user", "assistant">>

Exchange(rows, sent) ==
  \E q, a \in rows :
    /\ rows = {q, a}
    /\ q.role = "user" /\ a.role = "assistant" /\ q.id < a.id
    /\ a.size = sent

Question(rows) == \E q \in rows : rows = {q} /\ q.role = "user"

(* A chat inserts the question, then the answer. *)
Pairing(call, sent) ==
  /\ call.stage = "streaming" => call.todo \in {<< >>, BothMessages}
  /\ call.stage \in {"look up", "open", "touch"} => call.todo = BothMessages
  /\ call.stage = "write" =>
       \/ call.todo = BothMessages /\ call.rows = {}
       \/ call.todo = <<"assistant">> /\ Question(call.rows)
       \/ call.todo = << >> /\ Exchange(call.rows, sent)
  /\ call.stage \in {"refresh", "done"} /\ call.todo = << >>
     => Exchange(call.rows, sent)

Paired(r) == request[r].op = "chat" => Pairing(request[r], stream[r].sent)

(* Until it commits a request has nothing in the tables, afterwards all of *)
(* its rows or none.                                                       *)
Saved(r) == SavedBy(r) # {} =>
  /\ request[r].stage \in {"refresh", "done"}
  /\ request[r].op # "delete"
  /\ SavedBy(r) = request[r].rows

Unbroken(r) == request[r].op = "chat" =>
  \A q, a \in SavedBy(r) : q.role = "user" /\ a.role = "assistant" =>
    \A m \in MessagesOf(q.conversation) : m.id <= q.id \/ m.id >= a.id

(* A conversation that is gone does not come back. *)
Outcome(r) ==
  /\ \/ request[r].stage = "refresh"
     \/ /\ request[r].stage = "done" /\ request[r].answer = "ok"
        /\ request[r].op # "delete"
     => request[r].rows \subseteq messages \/ ~ Exists(request[r].conversation)
  /\ request[r].stage = "done" /\ request[r].answer = "ok" /\ request[r].op = "delete"
     => ~ Exists(request[r].conversation)
  /\ request[r].stage = "done" /\ request[r].answer = "error"
     => NothingLeft(r) \/ AllSaved(r)
  /\ request[r].stage = "done" /\ request[r].answer \notin {"ok", "error"}
     => NothingLeft(r)

Accounted(r) ==
  /\ Stages(r) /\ Authors(r) /\ Whole(r) /\ Paired(r)
  /\ Saved(r) /\ Unbroken(r) /\ Outcome(r)


ExchangeInv == \A r \in Request : Accounted(r)

LEMMA InitExchange == Init => ExchangeInv
<1> SUFFICES ASSUME Init, NEW r \in Request PROVE Accounted(r)
  BY DEF ExchangeInv
<1>1. request[r] = Idle /\ stream[r] = NoReply /\ messages = {}
  BY DEF Init
<1>2. /\ Idle.op = "none" /\ Idle.stage = "idle" /\ Idle.rows = {} /\ Idle.todo = << >>
      /\ ~ NoReply.overflow /\ NoReply.kept = NoReply.sent
  BY DEF Idle, NoReply
<1>3. SavedBy(r) = {}
  BY <1>1 DEF SavedBy
<1> QED
  BY <1>1, <1>2, <1>3 DEF Accounted, Stages, Authors, Whole, Paired, Saved, Unbroken,
     Outcome

(* The part of an account that the tables have no say in. *)
LEMMA OwnPart ==
  ASSUME NEW p \in Request, Accounted(p),
         request'[p] = request[p], stream'[p] = stream[p]
  PROVE  Stages(p)' /\ Authors(p)' /\ Whole(p)' /\ Paired(p)'
<1>1. Stages(p)' /\ Authors(p)' /\ Whole(p)'
  BY DEF Accounted, Stages, Authors, Whole
<1>2. Paired(p)'
  BY DEF Accounted, Paired
<1> QED
  BY <1>1, <1>2

(* A step that commits nothing leaves the accounts of the others. *)
LEMMA OthersKept ==
  ASSUME UNCHANGED <<conversations, messages>>, NEW p \in Request,
         request'[p] = request[p], stream'[p] = stream[p], Accounted(p)
  PROVE  Accounted(p)'
<1>1. SavedBy(p)' = SavedBy(p)
  BY DEF SavedBy
<1>2. Saved(p)' /\ Unbroken(p)'
  BY <1>1 DEF Accounted, Saved, Unbroken, MessagesOf
<1>3. Outcome(p)'
  BY <1>1 DEF Accounted, Outcome, NothingLeft, AllSaved, Exists
<1> QED
  BY <1>2, <1>3, OwnPart DEF Accounted

(* What is saved of a request is all in its conversation. *)
LEMMA SavedTogether ==
  ASSUME NEW p \in Request, Accounted(p), NEW m \in SavedBy(p)
  PROVE  m \in request[p].rows /\ m.conversation = request[p].conversation
BY DEF Accounted, Saved, Authors

(* A commit adds rows of its own request at the end of a conversation that *)
(* no finished request has known as gone.                                  *)
LEMMA OthersAfterCommit ==
  ASSUME HistoryInv, HistoryInv', ExchangeInv, NEW r \in Request, Commit(r),
         NEW p \in Request \ {r}
  PROVE  Accounted(p)'
<1>1. /\ request'[p] = request[p] /\ stream' = stream
      /\ messages' = messages \cup request[r].rows
      /\ request[r].stage = "write"
      /\ Accounted(p) /\ Accounted(r)
  BY LoudEffects DEF Commit, At, ExchangeInv
<1>2. \A m \in request[r].rows : m.by = r
  BY <1>1 DEF Accounted, Stages, Authors
<1>3. SavedBy(p)' = SavedBy(p)
  BY <1>1, <1>2 DEF SavedBy
<1>4. Saved(p)'
  BY <1>1, <1>3 DEF Accounted, Saved
<1>5. Unbroken(p)'
  <2>1. ASSUME request[p].op = "chat", NEW q \in SavedBy(p), NEW a \in SavedBy(p),
               q.role = "user", a.role = "assistant",
               NEW m \in messages', m.conversation = q.conversation
        PROVE  m.id <= q.id \/ m.id >= a.id
    <3>1. CASE m \in messages
      BY <1>1, <2>1, <3>1 DEF Accounted, Unbroken, MessagesOf
    <3>2. CASE m \notin messages
      <4>1. m.conversation = a.conversation /\ a \in messages
        BY <1>1, <2>1, SavedTogether DEF SavedBy
      <4>2. a.id < m.id
        BY <3>2, <4>1, CommitAppends
      <4>3. a.id \in Nat /\ m.id \in Nat
        <5>1. messages \subseteq Message /\ messages' \subseteq Message
          BY DEF HistoryInv, TypeInv, TypeOK
        <5> QED
          BY <4>1, <5>1 DEF Message
      <4> QED
        BY <4>2, <4>3
    <3> QED
      BY <3>1, <3>2
  <2> QED
    BY <1>1, <1>3, <2>1 DEF Unbroken, MessagesOf
<1>6. /\ request[p].stage \in {"refresh", "done"}
      /\ ~ Exists(request[p].conversation)
      => ~ Exists(request[p].conversation)'
  <2>1. request[r].new /\ request[p].conversation = request[r].conversation =>
          request[p].stage \in {"streaming", "look up"}
    BY <1>1 DEF HistoryInv, NewIsHidden
  <2>2. \A v \in conversations' :
          \/ v \in conversations
          \/ request[r].new /\ v.id = request[r].conversation
    <3>1. conversations' = conversations \cup
            (IF request[r].new
             THEN {[id |-> request[r].conversation, owner |-> request[r].user]}
             ELSE {})
      BY DEF Commit
    <3> QED
      BY <3>1
  <2> QED
    BY <1>1, <2>1, <2>2 DEF Exists
<1>7. Outcome(p)'
  <2>1. messages \subseteq messages'
    BY <1>1
  <2>2. NothingLeft(p) /\ request[p].stage = "done" => NothingLeft(p)'
    BY <1>1, <1>3, <1>6 DEF NothingLeft
  <2>3. AllSaved(p) => AllSaved(p)'
    BY <1>1, <1>3 DEF AllSaved
  <2> QED
    BY <1>1, <1>6, <2>1, <2>2, <2>3 DEF Accounted, Outcome
<1> QED
  BY <1>1, <1>4, <1>5, <1>7, OwnPart DEF Accounted

(* A deletion takes a conversation and all that is in it. *)
LEMMA RemovalEffects ==
  ASSUME ExchangeInv, NEW r \in Request, CommitRemoval(r)
  PROVE  /\ messages' = {m \in messages : m.conversation # request[r].conversation}
         /\ conversations' = {v \in conversations : v.id # request[r].conversation}
<1>1. \A m \in request[r].rows : m.conversation = request[r].conversation
  BY DEF ExchangeInv, Accounted, Authors
<1> QED
  BY <1>1 DEF CommitRemoval, MessagesOf

LEMMA OthersAfterRemoval ==
  ASSUME HistoryInv, ExchangeInv, NEW r \in Request, CommitRemoval(r),
         NEW p \in Request \ {r}
  PROVE  Accounted(p)'
<1>1. /\ request'[p] = request[p] /\ stream' = stream
      /\ messages' = {m \in messages : m.conversation # request[r].conversation}
      /\ conversations' = {v \in conversations : v.id # request[r].conversation}
      /\ Accounted(p)
  BY LoudEffects, RemovalEffects DEF CommitRemoval, ExchangeInv
<1>2. /\ request[p].conversation = request[r].conversation => SavedBy(p)' = {}
      /\ request[p].conversation # request[r].conversation => SavedBy(p)' = SavedBy(p)
  BY <1>1, SavedTogether DEF SavedBy
<1>3. Saved(p)'
  BY <1>1, <1>2 DEF Accounted, Saved
<1>4. Unbroken(p)'
  BY <1>1, <1>2 DEF Accounted, Unbroken, MessagesOf
<1>5. /\ ~ Exists(request[p].conversation) => ~ Exists(request[p].conversation)'
      /\ request[p].conversation = request[r].conversation =>
           ~ Exists(request[p].conversation)'
  BY <1>1 DEF Exists
<1>6. /\ request[p].conversation # request[r].conversation
      /\ request[p].rows \subseteq messages
      => request[p].rows \subseteq messages'
  BY <1>1 DEF Accounted, Authors
<1>7. Outcome(p)'
  <2>1. NothingLeft(p) => NothingLeft(p)'
    BY <1>1, <1>2, <1>5 DEF NothingLeft
  <2>2. AllSaved(p) => AllSaved(p)' \/ NothingLeft(p)'
    BY <1>1, <1>2, <1>5 DEF NothingLeft, AllSaved
  <2> QED
    BY <1>1, <1>5, <1>6, <2>1, <2>2 DEF Accounted, Outcome
<1> QED
  BY <1>1, <1>3, <1>4, <1>7, OwnPart DEF Accounted

(* Before its commit a request has nothing in the tables. *)
LEMMA NothingYet ==
  ASSUME NEW r \in Request, Accounted(r), request[r].stage \notin {"refresh", "done"}
  PROVE  SavedBy(r) = {}
BY DEF Accounted, Saved

(* A request on its way to its first INSERT. *)
LEMMA Preparing ==
  ASSUME UNCHANGED <<conversations, messages>>, NEW r \in Request, SavedBy(r) = {},
         request'[r].rows = {}, request'[r].stage \notin {"refresh", "done"},
         Stages(r)', Whole(r)',
         request'[r].op = "chat" =>
           /\ request'[r].stage = "streaming" => request'[r].todo \in {<< >>, BothMessages}
           /\ request'[r].stage \in {"look up", "open", "touch", "write"} =>
                request'[r].todo = BothMessages
  PROVE  Accounted(r)'
<1>1. SavedBy(r)' = {}
  BY DEF SavedBy
<1>2. Authors(r)' /\ Paired(r)'
  BY DEF Authors, Paired, Pairing
<1>3. Saved(r)' /\ Unbroken(r)' /\ Outcome(r)'
  BY <1>1 DEF Saved, Unbroken, Outcome
<1> QED
  BY <1>2, <1>3 DEF Accounted

(* A request that ends with nothing in the tables. *)
LEMMA EndingEmpty ==
  ASSUME UNCHANGED <<conversations, messages>>, NEW r \in Request, SavedBy(r) = {},
         request'[r].stage = "done", request'[r].answer # "ok",
         request'[r].new => ~ Exists(request'[r].conversation),
         Authors(r)', Whole(r)', Paired(r)'
  PROVE  Accounted(r)'
<1>1. SavedBy(r)' = {}
  BY DEF SavedBy
<1>2. Stages(r)' /\ Saved(r)' /\ Unbroken(r)'
  BY <1>1 DEF Stages, Saved, Unbroken
<1>3. Outcome(r)'
  BY <1>1 DEF Outcome, NothingLeft, Exists
<1> QED
  BY <1>2, <1>3 DEF Accounted

LEMMA EndedAccounted ==
  ASSUME HistoryInv, UNCHANGED <<conversations, messages>>, NEW r \in Request,
         SavedBy(r) = {}, NEW answer \in Answer \ {"ok"},
         request' = [request EXCEPT ![r] = Ended(answer)],
         stream'[r] = stream[r] \/ stream'[r] = NoReply, Whole(r)
  PROVE  Accounted(r)'
<1>1. /\ Ended(answer).stage = "done" /\ Ended(answer).answer = answer
      /\ Ended(answer).op = "none" /\ Ended(answer).rows = {}
      /\ Ended(answer).new = FALSE
  BY DEF Ended, Idle
<1>2. request'[r] = Ended(answer)
  BY DEF HistoryInv, TypeInv, TypeOK
<1>3. ~ NoReply.overflow /\ NoReply.kept = NoReply.sent
  BY DEF NoReply
<1>4. Authors(r)' /\ Whole(r)' /\ Paired(r)'
  BY <1>1, <1>2, <1>3 DEF Authors, Whole, Paired
<1> QED
  BY <1>1, <1>2, <1>4, EndingEmpty

LEMMA RolledBackAccounted ==
  ASSUME HistoryInv, NEW r \in Request, Accounted(r), RollBack(r),
         request[r].stage \in {"open", "touch", "write", "remove", "removing"}
  PROVE  Accounted(r)'
<1>1. request[r] \in Call /\ request \in [Request -> Call]
  BY DEF HistoryInv, TypeInv, TypeOK
<1>2. /\ request'[r].stage = "done" /\ request'[r].answer = "error"
      /\ request'[r].op = request[r].op /\ request'[r].rows = request[r].rows
      /\ request'[r].conversation = request[r].conversation
      /\ request'[r].new = request[r].new /\ request'[r].todo = request[r].todo
      /\ UNCHANGED <<conversations, messages, stream>>
  BY <1>1 DEF RollBack, Call, tables
<1>3. SavedBy(r) = {}
  BY NothingYet
<1>4. request[r].new => ~ Exists(request[r].conversation)
  BY DEF HistoryInv, Unwritten, NewIsHidden, Accounted, Stages
<1>5. Authors(r)' /\ Whole(r)'
  BY <1>2 DEF Accounted, Authors, Whole
<1>6. Paired(r)'
  <2>1. Paired(r) /\ (request[r].op = "chat" => request[r].stage \in {"open", "touch", "write"})
    BY DEF Accounted, Stages
  <2>2. BothMessages # << >> /\ <<"assistant">> # << >>
    BY DEF BothMessages
  <2> QED
    BY <1>2, <2>1, <2>2 DEF Paired, Pairing
<1> QED
  BY <1>2, <1>3, <1>4, <1>5, <1>6, EndingEmpty

(* A request that has saved nothing keeps an account of what it has in hand. *)
LEMMA UnsavedAccounted ==
  ASSUME UNCHANGED <<conversations, messages>>, NEW r \in Request, SavedBy(r) = {},
         Stages(r)', Authors(r)', Whole(r)', Paired(r)', Outcome(r)'
  PROVE  Accounted(r)'
<1>1. SavedBy(r)' = {}
  BY DEF SavedBy
<1> QED
  BY <1>1 DEF Accounted, Saved, Unbroken

(* A request starts with nothing in hand, a deletion with what is there. *)
LEMMA AskAccounted ==
  ASSUME HistoryInv, NEW r \in Request, Accounted(r), Ask(r)
  PROVE  Accounted(r)'
<1>1. /\ request[r] \in Call /\ request \in [Request -> Call]
      /\ request[r].rows = {} /\ request[r].stage = "idle"
      /\ request[r].op = "none" /\ request[r].todo = << >>
      /\ UNCHANGED <<conversations, messages, stream>>
  <2>1. /\ request[r].stage = "idle"
        /\ UNCHANGED <<conversations, messages, stream>>
    BY DEF Ask, CreateConversation, UseConversation, StartChat, Arrives, At, tables
  <2> QED
    BY <2>1 DEF HistoryInv, TypeInv, TypeOK, Unwritten, Accounted, Stages
<1>2. SavedBy(r) = {} /\ Whole(r)
  BY <1>1, NothingYet DEF Accounted
<1>3. ASSUME CreateConversation(r) PROVE Accounted(r)'
  <2>1. PICK u \in User, n \in 0 .. MaxSeeds :
          request' = [request EXCEPT
            ![r].op = "create", ![r].user = u, ![r].stage = "open",
            ![r].todo = [i \in 1 .. n |-> "user"]]
    BY <1>3 DEF CreateConversation
  <2>2. PICK todo : todo = [i \in 1 .. n |-> "user"]
    OBVIOUS
  <2>3. /\ request'[r].op = "create" /\ request'[r].stage = "open"
        /\ request'[r].rows = {}
    BY <1>1, <2>1, <2>2 DEF Call
  <2>4. Stages(r)' /\ Whole(r)'
    BY <1>1, <1>2, <2>3 DEF Stages, Whole
  <2> QED
    BY <1>1, <1>2, <2>3, <2>4, Preparing
<1>4. ASSUME UseConversation(r) PROVE Accounted(r)'
  <2>1. ASSUME NEW a, Unused(r, a) PROVE Accounted(r)'
    <3>1. a \in Answer \ {"ok"}
      BY <2>1 DEF Answer, Unused
    <3> QED
      BY <1>1, <1>2, <2>1, <3>1, EndedAccounted DEF Unused
  <2>2. ASSUME NEW op, NEW u, NEW c, NEW s, Used(r, op, u, c, s)
        PROVE  Accounted(r)'
    <3>1. PICK todo, rows :
            /\ todo = IF op = "append" THEN <<"user">> ELSE << >>
            /\ rows = IF op = "delete" THEN MessagesOf(c) ELSE {}
      OBVIOUS
    <3>2. /\ request'[r].op = op /\ request'[r].stage = s
          /\ request'[r].conversation = c /\ request'[r].rows = rows
          /\ request'[r].todo = todo /\ request'[r].new = request[r].new
      BY <1>1, <2>2, <3>1 DEF Used, Call
    <3>3. /\ op = "delete" => s = "remove"
          /\ op # "delete" => s \in {"touch", "refresh"}
          /\ s = "refresh" => op = "rename"
          /\ op \in {"append", "rename", "delete"}
      <4>1. CASE op = "delete"
        BY <2>2, <4>1 DEF Used, FirstStage
      <4>2. CASE op # "delete"
        BY <2>2, <4>2 DEF Used, FirstStage
      <4> QED
        BY <4>1, <4>2
    <3>4. Stages(r)' /\ Whole(r)'
      <4>1. request[r].new = FALSE
        BY <1>1 DEF HistoryInv, Unwritten
      <4>2. op = "rename" => todo = << >>
        BY <3>1
      <4> QED
        BY <1>1, <1>2, <3>2, <3>3, <4>1, <4>2 DEF Stages, Whole
    <3>5. Authors(r)'
      BY <3>1, <3>2 DEF Authors, MessagesOf
    <3>6. Paired(r)'
      BY <3>2, <3>3 DEF Paired
    <3>7. Outcome(r)'
      BY <3>1, <3>2, <3>3 DEF Outcome
    <3> QED
      BY <1>1, <1>2, <3>4, <3>5, <3>6, <3>7, UnsavedAccounted
  <2> QED
    BY <1>4, <2>1, <2>2, UseCases
<1>5. ASSUME StartChat(r) PROVE Accounted(r)'
  <2>1. /\ request'[r].op = "chat" /\ request'[r].stage = "streaming"
        /\ request'[r].rows = {}
        /\ request'[r].todo \in {<< >>, BothMessages}
    <3>1. CASE request' = [request EXCEPT ![r].op = "chat", ![r].stage = "streaming"]
      BY <1>1, <3>1 DEF Call
    <3>2. ASSUME NEW u \in User, NEW c \in 0 .. nextConversation - 1,
                 request' = [request EXCEPT
                   ![r].op = "chat", ![r].user = u, ![r].conversation = c,
                   ![r].stage = "streaming", ![r].todo = <<"user", "assistant">>]
          PROVE  /\ request'[r].op = "chat" /\ request'[r].stage = "streaming"
                 /\ request'[r].rows = {} /\ request'[r].todo = BothMessages
      BY <1>1, <3>2 DEF Call, BothMessages
    <3> QED
      BY <1>5, <3>1, <3>2 DEF StartChat
  <2>2. Stages(r)' /\ Whole(r)'
    BY <1>1, <1>2, <2>1 DEF Stages, Whole
  <2> QED
    BY <1>1, <1>2, <2>1, <2>2, Preparing
<1> QED
  BY <1>3, <1>4, <1>5 DEF Ask

(* A chat streams, and looks up its conversation, with nothing written. *)
LEMMA ConverseAccounted ==
  ASSUME HistoryInv, NEW r \in Request, Accounted(r), Converse(r)
  PROVE  Accounted(r)'
<1>1. /\ request[r] \in Call /\ request \in [Request -> Call]
      /\ stream \in [Request -> [sent : Nat, kept : Nat, overflow : BOOLEAN]]
  BY DEF HistoryInv, TypeInv, TypeOK
<1>2. /\ request[r].stage \in {"streaming", "look up"}
      /\ UNCHANGED <<conversations, messages>>
  BY DEF Converse, PassChunk, CutStream, Discard, EndStream, FindConversation, At, tables
<1>3. /\ SavedBy(r) = {} /\ request[r].op = "chat" /\ request[r].rows = {}
      /\ Whole(r)
      /\ request[r].stage = "streaming" => request[r].todo \in {<< >>, BothMessages}
      /\ request[r].stage = "look up" => request[r].todo = BothMessages
  BY <1>2, NothingYet DEF HistoryInv, Unwritten, Accounted, Stages, Paired, Pairing
<1>4. ASSUME PassChunk(r) PROVE Accounted(r)'
  <2>1. request'[r] = request[r] /\ request[r].stage = "streaming"
    BY <1>4 DEF PassChunk, At
  <2>2. Whole(r)'
    <3>1. PICK size \in 1 .. MaxReply - stream[r].sent :
            stream' = [stream EXCEPT ![r] =
              [sent |-> stream[r].sent + size,
               overflow |-> stream[r].overflow \/ stream[r].sent + size > SaveBuffer,
               kept |-> IF stream[r].overflow \/ stream[r].sent + size > SaveBuffer
                        THEN 0 ELSE stream[r].kept + size]]
      BY <1>4 DEF PassChunk
    <3>2. PICK now : now =
            [sent |-> stream[r].sent + size,
             overflow |-> stream[r].overflow \/ stream[r].sent + size > SaveBuffer,
             kept |-> IF stream[r].overflow \/ stream[r].sent + size > SaveBuffer
                      THEN 0 ELSE stream[r].kept + size]
      OBVIOUS
    <3>3. stream'[r] = now
      BY <1>1, <3>1, <3>2
    <3>4. /\ now.sent = stream[r].sent + size
          /\ ~ now.overflow => ~ stream[r].overflow /\ now.kept = stream[r].kept + size
      BY <3>2
    <3> QED
      BY <1>3, <2>1, <3>3, <3>4 DEF Whole
  <2>3. Stages(r)'
    BY <1>3, <2>1 DEF Stages
  <2> QED
    BY <1>2, <1>3, <2>1, <2>2, <2>3, Preparing
<1>5. ASSUME Discard(r) PROVE Accounted(r)'
  <2>1. /\ request' = [request EXCEPT ![r] = Ended("unsaved")]
        /\ stream'[r] = NoReply
    BY <1>1, <1>5 DEF Discard
  <2>2. "unsaved" \in Answer \ {"ok"}
    BY DEF Answer
  <2> QED
    BY <1>2, <1>3, <2>1, <2>2, EndedAccounted
<1>6. ASSUME EndStream(r), ~ Discard(r) PROVE Accounted(r)'
  <2>1. /\ request[r].stage = "streaming" /\ request[r].todo = BothMessages
        /\ ~ stream[r].overflow /\ stream' = stream
        /\ request' = [request EXCEPT ![r].stage = "look up"]
    BY <1>3, <1>6 DEF EndStream, At
  <2>2. /\ request'[r].op = "chat" /\ request'[r].stage = "look up"
        /\ request'[r].rows = {} /\ request'[r].todo = BothMessages
    BY <1>1, <1>3, <2>1 DEF Call
  <2>3. Stages(r)' /\ Whole(r)'
    BY <1>3, <2>1, <2>2 DEF Stages, Whole
  <2> QED
    BY <1>2, <1>3, <2>2, <2>3, Preparing
<1>7. ASSUME FindConversation(r), request' # [request EXCEPT ![r] = Ended("error")]
      PROVE  Accounted(r)'
  <2>0. request' # [request EXCEPT ![r] = Ended("error")]
    BY <1>7
  <2>1. request[r].stage = "look up" /\ stream' = stream
    BY <1>7 DEF FindConversation, At
  <2>2. /\ request'[r].op = "chat" /\ request'[r].stage \in {"touch", "open"}
        /\ request'[r].rows = {} /\ request'[r].todo = BothMessages
    <3>1. \/ request' = [request EXCEPT ![r].stage = "touch"]
          \/ request' = [request EXCEPT ![r].stage = "open", ![r].conversation = None]
      BY <1>7, <2>0 DEF FindConversation
    <3>2. CASE request' = [request EXCEPT ![r].stage = "touch"]
      BY <1>1, <1>3, <2>1, <3>2 DEF Call
    <3>3. CASE request' = [request EXCEPT ![r].stage = "open", ![r].conversation = None]
      BY <1>1, <1>3, <2>1, <3>3 DEF Call
    <3> QED
      BY <3>1, <3>2, <3>3
  <2>3. Stages(r)' /\ Whole(r)'
    BY <1>3, <2>1, <2>2 DEF Stages, Whole
  <2> QED
    BY <1>2, <1>3, <2>2, <2>3, Preparing
<1>8. ASSUME FindConversation(r), request' = [request EXCEPT ![r] = Ended("error")]
      PROVE  Accounted(r)'
  <2>1. stream' = stream /\ "error" \in Answer \ {"ok"}
    BY <1>8 DEF FindConversation, Answer
  <2> QED
    BY <1>2, <1>3, <1>8, <2>1, EndedAccounted
<1> QED
  BY <1>4, <1>5, <1>6, <1>7, <1>8 DEF Converse, CutStream

(* The steps of a transaction that insert nothing and commit nothing. *)
LEMMA PlainAccounted ==
  ASSUME HistoryInv, NEW r \in Request, Accounted(r),
         Open(r) \/ Touch(r) \/ Refuse(r) \/ Remove(r)
  PROVE  Accounted(r)'
<1>1. /\ request[r] \in Call /\ request \in [Request -> Call]
      /\ request[r].stage \in {"open", "touch", "write", "remove", "removing"}
      /\ UNCHANGED <<conversations, messages, stream>>
  BY DEF HistoryInv, TypeInv, TypeOK, Open, Touch, Refuse, Remove, RollBack, At, tables
<1>2. SavedBy(r) = {} /\ Stages(r) /\ Authors(r) /\ Whole(r) /\ Paired(r)
  BY <1>1, NothingYet DEF Accounted
<1>3. ASSUME Open(r) \/ (Touch(r) /\ Exists(request[r].conversation))
      PROVE  Accounted(r)'
  <2>1. /\ request[r].stage \in {"open", "touch"}
        /\ request[r].rows = {}
    BY <1>3 DEF Open, Touch, At, HistoryInv, Unwritten
  <2>2. /\ request'[r].stage = "write" /\ request'[r].rows = {}
        /\ request'[r].op = request[r].op /\ request'[r].todo = request[r].todo
    <3>1. CASE Open(r)
      BY <1>1, <2>1, <3>1 DEF Open, Call
    <3>2. CASE Touch(r) /\ Exists(request[r].conversation)
      <4>1. request' = [request EXCEPT ![r].stage = "write"]
        BY <3>2 DEF Touch
      <4> QED
        BY <1>1, <2>1, <4>1 DEF Call
    <3> QED
      BY <1>3, <3>1, <3>2
  <2>3. Stages(r)' /\ Whole(r)'
    BY <1>1, <1>2, <2>1, <2>2 DEF Stages, Whole
  <2>4. request[r].op = "chat" => request[r].todo = BothMessages
    BY <1>2, <2>1 DEF Paired, Pairing
  <2> QED
    BY <1>1, <1>2, <2>2, <2>3, <2>4, Preparing
<1>4. ASSUME Refuse(r) \/ (Touch(r) /\ ~ Exists(request[r].conversation))
      PROVE  Accounted(r)'
  BY <1>1, <1>4, RolledBackAccounted DEF Refuse, Touch
<1>5. ASSUME Remove(r) PROVE Accounted(r)'
  <2>1. /\ request[r].stage = "remove"
        /\ request' = [request EXCEPT ![r].stage = "removing"]
    BY <1>5 DEF Remove, At
  <2>2. /\ request'[r].stage = "removing" /\ request'[r].op = "delete"
        /\ request'[r].rows = request[r].rows /\ request'[r].new = FALSE
        /\ request'[r].conversation = request[r].conversation
    BY <1>1, <1>2, <2>1 DEF Stages, Call
  <2>3. Stages(r)' /\ Authors(r)' /\ Whole(r)'
    BY <1>1, <1>2, <2>2 DEF Stages, Authors, Whole
  <2>4. Paired(r)' /\ Outcome(r)'
    BY <2>2 DEF Paired, Outcome
  <2> QED
    BY <1>1, <1>2, <2>3, <2>4, UnsavedAccounted
<1>6. \/ Open(r) \/ (Touch(r) /\ Exists(request[r].conversation))
      \/ Refuse(r) \/ (Touch(r) /\ ~ Exists(request[r].conversation))
      \/ Remove(r)
  OBVIOUS
<1> QED
  BY <1>3, <1>4, <1>5, <1>6

(* The answer of the LLM gets the next id, after that of the question. *)
LEMMA InsertAccounted ==
  ASSUME HistoryInv, NEW r \in Request, Accounted(r), Insert(r)
  PROVE  Accounted(r)'
<1>1. /\ request[r] \in Call /\ request \in [Request -> Call]
      /\ request[r].stage = "write" /\ request[r].todo # << >>
      /\ UNCHANGED <<conversations, messages, stream>>
  BY DEF HistoryInv, TypeInv, TypeOK, Insert, At
<1>2. PICK row : row = RowOf(r)
  OBVIOUS
<1>3. /\ row.id = nextMessage /\ row.conversation = request[r].conversation
      /\ row.by = r /\ row.role = Head(request[r].todo)
      /\ row.role = "assistant" => row.size = stream[r].kept
  BY <1>2 DEF RowOf
<1>4. /\ request'[r].stage = "write" /\ request'[r].op = request[r].op
      /\ request'[r].conversation = request[r].conversation
      /\ request'[r].rows = request[r].rows \cup {row}
      /\ request'[r].todo = Tail(request[r].todo)
  <2>1. request' = [request EXCEPT ![r].rows = request[r].rows \cup {row},
                                   ![r].todo = Tail(request[r].todo)]
    BY <1>1, <1>2 DEF Insert
  <2> QED
    BY <1>1, <2>1 DEF Call
<1>5. /\ SavedBy(r) = {} /\ Stages(r) /\ Authors(r) /\ Whole(r) /\ Paired(r)
      /\ request[r].op # "delete"
  BY <1>1, NothingYet DEF Accounted, Stages
<1>6. Stages(r)' /\ Whole(r)'
  BY <1>1, <1>4, <1>5 DEF Stages, Whole
<1>7. Authors(r)'
  BY <1>3, <1>4, <1>5 DEF Authors
<1>8. Outcome(r)'
  BY <1>4 DEF Outcome
<1>9. ASSUME request[r].op = "chat"
      PROVE  \/ request'[r].todo = <<"assistant">> /\ Question(request'[r].rows)
             \/ request'[r].todo = << >> /\ Exchange(request'[r].rows, stream[r].sent)
  <2>1. \/ request[r].todo = BothMessages /\ request[r].rows = {}
        \/ request[r].todo = <<"assistant">> /\ Question(request[r].rows)
    BY <1>1, <1>5, <1>9 DEF Paired, Pairing
  <2>2. CASE request[r].todo = BothMessages /\ request[r].rows = {}
    <3>1. Head(request[r].todo) = "user" /\ Tail(request[r].todo) = <<"assistant">>
      BY <2>2 DEF BothMessages
    <3> QED
      BY <1>3, <1>4, <2>2, <3>1 DEF Question
  <2>3. CASE request[r].todo = <<"assistant">> /\ Question(request[r].rows)
    <3>1. Head(request[r].todo) = "assistant" /\ Tail(request[r].todo) = << >>
      BY <2>3
    <3>2. PICK q \in request[r].rows : request[r].rows = {q} /\ q.role = "user"
      BY <2>3 DEF Question
    <3>3. q.id < row.id
      BY <1>1, <1>3, <3>2 DEF HistoryInv, RowsAtTheEnd
    <3>4. row.size = stream[r].sent /\ row.role = "assistant"
      BY <1>1, <1>3, <1>5, <1>9, <3>1 DEF Whole
    <3>5. request'[r].rows = {q, row}
      BY <1>4, <3>2
    <3>6. Exchange(request'[r].rows, stream[r].sent)
      BY <3>2, <3>3, <3>4, <3>5 DEF Exchange
    <3> QED
      BY <1>4, <3>1, <3>6
  <2> QED
    BY <2>1, <2>2, <2>3
<1>10. Paired(r)'
  BY <1>1, <1>4, <1>9 DEF Paired, Pairing
<1> QED
  BY <1>1, <1>5, <1>6, <1>7, <1>8, <1>10, UnsavedAccounted

(* A commit puts all the rows in the table, one after the other. *)
LEMMA CommitAccounted ==
  ASSUME HistoryInv, NEW r \in Request, Accounted(r), Commit(r)
  PROVE  Accounted(r)'
<1>1. /\ request[r] \in Call /\ request \in [Request -> Call]
      /\ request[r].stage = "write" /\ request[r].todo = << >>
      /\ messages' = messages \cup request[r].rows
      /\ stream' = stream
      /\ request' = [request EXCEPT ![r].stage = "refresh"]
  BY DEF HistoryInv, TypeInv, TypeOK, Commit, At
<1>2. /\ request'[r].stage = "refresh" /\ request'[r].op = request[r].op
      /\ request'[r].rows = request[r].rows /\ request'[r].todo = << >>
      /\ request'[r].conversation = request[r].conversation
  BY <1>1 DEF Call
<1>3. /\ SavedBy(r) = {} /\ Stages(r) /\ Authors(r) /\ Whole(r) /\ Paired(r)
      /\ request[r].op \in {"create", "append", "rename", "chat"}
  BY <1>1, NothingYet DEF Accounted, Stages
<1>4. SavedBy(r)' = request[r].rows
  BY <1>1, <1>3 DEF SavedBy, Authors
<1>5. Stages(r)' /\ Authors(r)' /\ Whole(r)' /\ Saved(r)'
  BY <1>1, <1>2, <1>3, <1>4 DEF Stages, Authors, Whole, Saved
<1>6. request[r].op = "chat" => Exchange(request[r].rows, stream[r].sent)
  <2>1. /\ BothMessages # << >>
        /\ <<"assistant">> # << >>
    BY DEF BothMessages
  <2> QED
    BY <1>1, <1>3, <2>1 DEF Paired, Pairing
<1>7. Paired(r)'
  BY <1>1, <1>2, <1>6 DEF Paired, Pairing
<1>8. Outcome(r)'
  BY <1>1, <1>2 DEF Outcome
<1>9. Unbroken(r)'
  <2>1. ASSUME request[r].op = "chat",
               NEW q \in request[r].rows, NEW a \in request[r].rows,
               q.role = "user", a.role = "assistant",
               NEW m \in messages', m.conversation = q.conversation
        PROVE  m.id <= q.id \/ m.id >= a.id
    <3>1. request[r].rows = {q, a}
      BY <1>6, <2>1 DEF Exchange
    <3>2. m.id \in Nat /\ q.id \in Nat /\ a.id \in Nat
      <4>1. request[r].rows \subseteq Message /\ messages \subseteq Message
        BY <1>1 DEF HistoryInv, TypeInv, TypeOK, Call
      <4> QED
        BY <1>1, <4>1 DEF Message
    <3>3. CASE m \in request[r].rows
      BY <3>1, <3>2, <3>3
    <3>4. CASE m \in messages
      <4>1. m.id < q.id
        BY <1>1, <2>1, <3>4 DEF HistoryInv, RowsAtTheEnd
      <4> QED
        BY <3>2, <4>1
    <3> QED
      BY <1>1, <3>3, <3>4
  <2> QED
    BY <1>2, <1>4, <2>1 DEF Unbroken, MessagesOf
<1> QED
  BY <1>5, <1>7, <1>8, <1>9 DEF Accounted

(* A request whose conversation is gone has nothing left in the tables; *)
(* otherwise all it wrote is there, even if it cannot be read.          *)
LEMMA RefreshAccounted ==
  ASSUME HistoryInv, NEW r \in Request, Accounted(r), Refresh(r)
  PROVE  Accounted(r)'
<1>1. /\ request[r] \in Call /\ request \in [Request -> Call]
      /\ request[r].stage = "refresh"
      /\ UNCHANGED <<conversations, messages, stream>>
  BY DEF HistoryInv, TypeInv, TypeOK, Refresh, At, tables
<1>2. PICK answer \in {"ok", "error"} :
        /\ request' = [request EXCEPT ![r].stage = "done", ![r].answer = answer]
        /\ answer = "ok" => Exists(request[r].conversation)
  BY DEF Refresh
<1>3. /\ request'[r].stage = "done" /\ request'[r].answer = answer
      /\ request'[r].op = request[r].op /\ request'[r].rows = request[r].rows
      /\ request'[r].todo = request[r].todo
      /\ request'[r].conversation = request[r].conversation
      /\ request'[r].new = request[r].new
  BY <1>1, <1>2 DEF Call
<1>4. /\ Stages(r) /\ Authors(r) /\ Whole(r) /\ Paired(r)
      /\ Saved(r) /\ Unbroken(r) /\ Outcome(r)
      /\ request[r].op \in {"create", "append", "rename", "chat"}
      /\ request[r].todo = << >>
  BY <1>1 DEF Accounted, Stages
<1>5. SavedBy(r)' = SavedBy(r)
  BY <1>1 DEF SavedBy
<1>6. Stages(r)' /\ Authors(r)' /\ Whole(r)'
  BY <1>1, <1>3, <1>4 DEF Stages, Authors, Whole
<1>7. Paired(r)'
  BY <1>1, <1>3, <1>4 DEF Paired, Pairing
<1>8. Saved(r)' /\ Unbroken(r)'
  BY <1>1, <1>3, <1>4, <1>5 DEF Saved, Unbroken, MessagesOf
<1>9. ~ Exists(request[r].conversation) => SavedBy(r) = {}
  <2>1. ASSUME NEW m \in SavedBy(r) PROVE Exists(request[r].conversation)
    <3>1. m \in messages /\ m.conversation = request[r].conversation
      BY SavedTogether DEF SavedBy
    <3>2. PICK owner : [id |-> m.conversation, owner |-> owner] \in conversations
      BY <3>1 DEF HistoryInv, OwnMessagesOnly, Owned
    <3> QED
      BY <3>1, <3>2 DEF Exists
  <2> QED
    BY <2>1
<1>10. ~ Exists(request[r].conversation) => NothingLeft(r)'
  BY <1>1, <1>3, <1>5, <1>9 DEF NothingLeft, Exists
<1>11. Exists(request[r].conversation) => AllSaved(r)'
  <2>1. ASSUME Exists(request[r].conversation) PROVE SavedBy(r) = request[r].rows
    <3>1. request[r].rows \subseteq messages
      BY <1>1, <1>4, <2>1 DEF Outcome
    <3>2. request[r].rows \subseteq SavedBy(r)
      BY <1>4, <3>1 DEF Authors, SavedBy
    <3> QED
      BY <1>4, <3>2 DEF Saved
  <2> QED
    BY <1>3, <1>4, <1>5, <2>1 DEF AllSaved
<1>12. Outcome(r)'
  BY <1>1, <1>2, <1>3, <1>4, <1>10, <1>11 DEF Outcome, Exists
<1> QED
  BY <1>6, <1>7, <1>8, <1>12 DEF Accounted

LEMMA RemovalAccounted ==
  ASSUME HistoryInv, ExchangeInv, NEW r \in Request, CommitRemoval(r)
  PROVE  Accounted(r)'
<1>1. /\ request[r] \in Call /\ request \in [Request -> Call]
      /\ request[r].stage = "removing" /\ Accounted(r)
      /\ stream' = stream
      /\ request' = [request EXCEPT ![r].stage = "done", ![r].answer = "ok"]
  BY DEF HistoryInv, TypeInv, TypeOK, CommitRemoval, At, ExchangeInv
<1>2. /\ request[r].op = "delete" /\ SavedBy(r) = {} /\ Authors(r) /\ Whole(r)
  BY <1>1, NothingYet DEF Accounted, Stages
<1>3. /\ request'[r].stage = "done" /\ request'[r].answer = "ok"
      /\ request'[r].op = "delete" /\ request'[r].rows = request[r].rows
      /\ request'[r].conversation = request[r].conversation
  BY <1>1, <1>2 DEF Call
<1>4. SavedBy(r)' = {}
  BY <1>2, RemovalEffects DEF SavedBy
<1>5. ~ Exists(request[r].conversation)'
  BY <1>1, <1>3, RemovalEffects DEF Exists
<1>6. Stages(r)' /\ Authors(r)' /\ Whole(r)' /\ Paired(r)'
  BY <1>1, <1>2, <1>3 DEF Stages, Authors, Whole, Paired
<1>7. Saved(r)' /\ Unbroken(r)'
  BY <1>3, <1>4 DEF Saved, Unbroken
<1>8. Outcome(r)'
  BY <1>3, <1>5 DEF Outcome, Exists
<1> QED
  BY <1>6, <1>7, <1>8 DEF Accounted

(* A step is one of one request. *)
LEMMA OneAtATime ==
  ASSUME HistoryInv, NEW r \in Request, Ask(r) \/ Advance(r), NEW p \in Request \ {r}
  PROVE  request'[p] = request[p] /\ stream'[p] = stream[p]
<1>0. /\ request \in [Request -> Call]
      /\ stream \in [Request -> [sent : Nat, kept : Nat, overflow : BOOLEAN]]
  BY DEF HistoryInv, TypeInv, TypeOK
<1>1. ASSUME Ask(r) PROVE request'[p] = request[p] /\ stream' = stream
  <2>1. CASE CreateConversation(r)
    <3>1. PICK u \in User, n \in 0 .. MaxSeeds :
            request' = [request EXCEPT
              ![r].op = "create", ![r].user = u, ![r].stage = "open",
              ![r].todo = [i \in 1 .. n |-> "user"]]
      BY <2>1 DEF CreateConversation
    <3>2. PICK todo : todo = [i \in 1 .. n |-> "user"]
      OBVIOUS
    <3> QED
      BY <1>0, <2>1, <3>1, <3>2 DEF CreateConversation
  <2>2. CASE UseConversation(r)
    <3>1. stream' = stream
      BY <2>2 DEF UseConversation
    <3>2. ASSUME NEW op, NEW u, NEW c, NEW s, Used(r, op, u, c, s)
          PROVE  request'[p] = request[p]
      BY <1>0, <3>2 DEF Used
    <3>3. ASSUME NEW a, Unused(r, a) PROVE request'[p] = request[p]
      BY <1>0, <3>3 DEF Unused
    <3> QED
      BY <2>2, <3>1, <3>2, <3>3, UseCases
  <2>3. CASE StartChat(r)
    BY <1>0, <2>3 DEF StartChat
  <2> QED
    BY <1>1, <2>1, <2>2, <2>3 DEF Ask
<1>2. ASSUME Converse(r)
      PROVE  request'[p] = request[p] /\ stream'[p] = stream[p]
  <2>1. CASE PassChunk(r)
    BY <1>0, <2>1 DEF PassChunk
  <2>2. CASE Discard(r)
    BY <1>0, <2>2 DEF Discard
  <2>3. CASE EndStream(r) /\ ~ Discard(r)
    BY <1>0, <2>3 DEF EndStream
  <2>4. CASE FindConversation(r)
    BY <1>0, <2>4 DEF FindConversation
  <2> QED
    BY <1>2, <2>1, <2>2, <2>3, <2>4 DEF Converse, CutStream
<1>3. ASSUME Transact(r) PROVE request'[p] = request[p] /\ stream' = stream
  <2>1. CASE Insert(r)
    <3>1. PICK rows, todo :
            request' = [request EXCEPT ![r].rows = rows, ![r].todo = todo]
      BY <2>1 DEF Insert
    <3> QED
      BY <1>0, <2>1, <3>1 DEF Insert
  <2>2. CASE Open(r) \/ Commit(r) \/ CommitRemoval(r) \/ Remove(r)
    BY <1>0, <2>2 DEF Open, Commit, CommitRemoval, Remove
  <2>3. CASE Touch(r) \/ Refuse(r)
    BY <1>0, <2>3 DEF Touch, Refuse, RollBack
  <2>4. CASE Refresh(r)
    <3>1. PICK answer :
            request' = [request EXCEPT ![r].stage = "done", ![r].answer = answer]
      BY <2>4 DEF Refresh
    <3> QED
      BY <1>0, <2>4, <3>1 DEF Refresh
  <2> QED
    BY <1>3, <2>1, <2>2, <2>3, <2>4 DEF Transact
<1> QED
  BY <1>1, <1>2, <1>3 DEF Advance

LEMMA ExchangeInvInductive == HistoryInv /\ ExchangeInv /\ [Next]_vars => ExchangeInv'
<1> SUFFICES ASSUME HistoryInv, ExchangeInv, [Next]_vars, NEW p \in Request
             PROVE  Accounted(p)'
  BY DEF ExchangeInv
<1>1. Accounted(p)
  BY DEF ExchangeInv
<1>2. CASE UNCHANGED vars
  <2>1. /\ UNCHANGED <<conversations, messages>>
        /\ request'[p] = request[p] /\ stream'[p] = stream[p]
    BY <1>2 DEF vars, tables
  <2> QED
    BY <1>1, <2>1, OthersKept
<1>3. ASSUME NEW r \in Request, Ask(r) \/ Advance(r) PROVE Accounted(p)'
  <2>1. CASE p = r
    BY <1>1, <1>3, <2>1, AskAccounted, ConverseAccounted, PlainAccounted,
       InsertAccounted, CommitAccounted, RefreshAccounted, RemovalAccounted
    DEF Advance, Transact
  <2>2. CASE p # r
    <3>1. CASE Commit(r)
      <4>1. HistoryInv'
        BY HistoryInvInductive
      <4> QED
        BY <2>2, <3>1, <4>1, OthersAfterCommit
    <3>2. CASE CommitRemoval(r)
      BY <2>2, <3>2, OthersAfterRemoval
    <3>3. CASE ~ Commit(r) /\ ~ CommitRemoval(r)
      <4>1. UNCHANGED <<conversations, messages>>
        BY <1>3, <3>3 DEF Ask, Advance, Converse, Transact, CreateConversation,
           UseConversation, StartChat, PassChunk, CutStream, Discard, EndStream,
           FindConversation, Open, Touch, Insert, Refuse, RollBack, Refresh, Remove,
           tables
      <4>2. request'[p] = request[p] /\ stream'[p] = stream[p]
        BY <1>3, <2>2, <3>3, OneAtATime
      <4> QED
        BY <1>1, <4>1, <4>2, OthersKept
    <3> QED
      BY <3>1, <3>2, <3>3
  <2> QED
    BY <2>1, <2>2
<1> QED
  BY <1>2, <1>3 DEF Next, Finished

LEMMA ExchangeInvAlways == Spec => [](HistoryInv /\ ExchangeInv)
BY InitExchange, ExchangeInvInductive, HistoryInvAlways, PTL DEF Spec

(* Both messages of a chat are saved or none is (chatbot.py:150), the       *)
(* question first, nothing between them, and the reply to its end: for any  *)
(* number of requests, of chunks and of messages, and any buffer limit.     *)
THEOREM ExchangesStayWhole == Spec => []ExchangesStayTogether
<1>1. HistoryInv /\ ExchangeInv => ExchangesStayTogether
  <2> SUFFICES ASSUME HistoryInv, ExchangeInv, NEW r \in Request,
                      request[r].op = "chat", SavedBy(r) # {}
               PROVE  \E q, a \in SavedBy(r) :
                        /\ SavedBy(r) = {q, a}
                        /\ q.role = "user" /\ a.role = "assistant"
                        /\ q.conversation = a.conversation
                        /\ q.id < a.id
                        /\ \A m \in MessagesOf(q.conversation) : m.id <= q.id \/ m.id >= a.id
                        /\ a.size = stream[r].sent
    BY DEF ExchangesStayTogether
  <2>1. Accounted(r)
    BY DEF ExchangeInv
  <2>2. SavedBy(r) = request[r].rows /\ request[r].stage \in {"refresh", "done"}
    BY <2>1 DEF Accounted, Saved
  <2>3. request[r].todo = << >>
    BY <2>1, <2>2 DEF Accounted, Outcome, Stages, NothingLeft, AllSaved
  <2>4. Exchange(SavedBy(r), stream[r].sent)
    BY <2>1, <2>2, <2>3 DEF Accounted, Paired, Pairing
  <2>5. PICK q \in SavedBy(r), a \in SavedBy(r) :
          /\ SavedBy(r) = {q, a}
          /\ q.role = "user" /\ a.role = "assistant" /\ q.id < a.id
          /\ a.size = stream[r].sent
    BY <2>4 DEF Exchange
  <2>6. q.conversation = a.conversation
    BY <2>1, SavedTogether
  <2>7. \A m \in MessagesOf(q.conversation) : m.id <= q.id \/ m.id >= a.id
    BY <2>1, <2>5 DEF Accounted, Unbroken
  <2> QED
    BY <2>5, <2>6, <2>7
<1> QED
  BY <1>1, ExchangeInvAlways, PTL

(* What a caller is told holds, whatever the other requests do to the       *)
(* conversation (history.py:82-155, chatbot.py:146-201).                    *)
THEOREM AnswersAreKept == Spec => []AnswersTellOutcome
<1>1. HistoryInv /\ ExchangeInv => AnswersTellOutcome
  BY DEF ExchangeInv, Accounted, Outcome, AnswersTellOutcome, At
<1> QED
  BY <1>1, ExchangeInvAlways, PTL

==============================================================================
