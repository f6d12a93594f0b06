----------------------------- MODULE ChatHistory -----------------------------
(***************************************************************************)
(* The conversations and chat_messages tables and everything that writes   *)
(* them: the history endpoints (app/routers/history.py), which run in      *)
(* threads, and proxy_chat (app/routers/chatbot.py), which streams a reply *)
(* on the event loop and, at its end, saves the exchange in a transaction  *)
(* that blocks the loop.                                                   *)
(*                                                                         *)
(* The database is PostgreSQL, READ COMMITTED, which production requires   *)
(* (app/config.py:212).  A statement sees what was committed before it; an *)
(* UPDATE or DELETE waits while another transaction has changed the row;   *)
(* a sequence gives out message ids, to whichever transaction asks next.   *)
(* The sessions do not autoflush, so a handler's first statement after its *)
(* look-up is the flush in its commit: parents first, the UPDATE of the    *)
(* conversation, and then the INSERTs of its messages.                     *)
(***************************************************************************)
EXTENDS Naturals, FiniteSets, Sequences

CONSTANTS
  MaxRequests,  \* bound: requests to a history endpoint or to POST /api/chat
  User,
  FirstOwner,   \* of the one, empty, conversation there is at first
  SaveBuffer,   \* _MAX_SAVE_BUFFER, in units of reply
  MaxReply,     \* bound: units in a reply
  MaxSeeds      \* bound: messages in the body that creates a conversation

ASSUME HistoryAssumption ==
  /\ FirstOwner \in User
  /\ MaxRequests \in Nat /\ SaveBuffer \in Nat
  /\ MaxReply \in Nat /\ MaxSeeds \in Nat

VARIABLES
  conversations,   \* the committed rows
  messages,        \* the committed rows
  nextConversation, nextMessage,   \* the sequences of the two keys
  request,         \* where each request is, with its transaction
  stream           \* of a chat: the reply so far and what is kept of it

tables == <<conversations, messages, nextConversation, nextMessage>>
vars == <<tables, request, stream>>

Request == 1 .. MaxRequests   \* numbered as they arrive
None == 0   \* no conversation id
NoUser == "no user"

Role == {"user", "assistant"}

Conversation == [id : Nat \ {0}, owner : User]

(* size is the length of a saved reply, 0 for messages whose text is not   *)
(* told apart; by is the request that wrote the row.                       *)
Message == [id : Nat \ {0}, conversation : Nat \ {0}, user : User,
            role : Role, size : Nat, by : Request]

Op == {"none", "create", "append", "rename", "delete", "chat"}
Stage == {"idle", "streaming", "look up", "open", "touch", "write", "refresh",
          "remove", "removing", "done"}

Answer == {"none", "ok", "not found", "error", "unsaved"}

Call == [op : Op, user : User \cup {NoUser}, conversation : Nat, new : BOOLEAN,
         stage : Stage, todo : Seq(Role), rows : SUBSET Message, answer : Answer]

Idle == [op |-> "none", user |-> NoUser, conversation |-> None, new |-> FALSE,
         stage |-> "idle", todo |-> << >>, rows |-> {}, answer |-> "none"]

(* A request that is over and has nothing in the tables. *)
Ended(answer) == [Idle EXCEPT !.stage = "done", !.answer = answer]

NoReply == [sent |-> 0, kept |-> 0, overflow |-> FALSE]

Exists(c) == \E v \in conversations : v.id = c

(* _owned_conversation, and the look-up of _save_chat_messages. *)
Owned(c, u) == [id |-> c, owner |-> u] \in conversations

MessagesOf(c) == {m \in messages : m.conversation = c}

(* mutant: messages are added without a touch of their conversation. *)
HoldsForRemovalOnly(r, c) ==
  /\ request[r].conversation = c
  /\ request[r].stage = "removing"

(* A transaction that has updated or deleted a row keeps it to its end. *)
Holds(r, c) ==
  /\ request[r].conversation = c
  /\ request[r].stage \in {"write", "removing"}

RowFree(c) == \A r \in Request : ~ Holds(r, c)

Init ==
  /\ conversations = {[id |-> 1, owner |-> FirstOwner]}
  /\ messages = {}
  /\ nextConversation = 2 /\ nextMessage = 1
  /\ request = [r \in Request |-> Idle]
  /\ stream = [r \in Request |-> NoReply]

At(r, stage) == request[r].stage = stage

Arrives(r) == At(r, "idle") /\ \A q \in 1 .. r - 1 : ~ At(q, "idle")

-----------------------------------------------------------------------------
(* The history endpoints: a request and its look-up *)

(* POST /conversations, with n messages. *)
CreateConversation(r) ==
  /\ Arrives(r)
  /\ \E u \in User, n \in 0 .. MaxSeeds :
       request' = [request EXCEPT
         ![r].op = "create", ![r].user = u, ![r].stage = "open",
         ![r].todo = [i \in 1 .. n |-> "user"]]
  /\ UNCHANGED <<tables, stream>>

(* A rename to the title and mode the row has already emits no UPDATE. *)
FirstStage(op) ==
  IF op = "delete" THEN {"remove"}
  ELSE {"touch"} \cup (IF op = "rename" THEN {"refresh"} ELSE {})

(* POST .../messages, PATCH and DELETE.  db.delete loads the messages.  A  *)
(* look-up that fails is answered 500.                                     *)
UseConversation(r) ==
  /\ Arrives(r)
  /\ \/ \E op \in {"append", "rename", "delete"}, u \in User,
           c \in 1 .. nextConversation - 1 :
          IF Owned(c, u)
          THEN \E stage \in FirstStage(op) :
                 request' = [request EXCEPT
                   ![r].op = op, ![r].user = u, ![r].conversation = c,
                   ![r].stage = stage,
                   ![r].todo = IF op = "append" THEN <<"user">> ELSE << >>,
                   ![r].rows = IF op = "delete" THEN MessagesOf(c) ELSE {}]
          ELSE request' = [request EXCEPT ![r] = Ended("not found")]
     \/ request' = [request EXCEPT ![r] = Ended("error")]
  /\ UNCHANGED <<tables, stream>>

-----------------------------------------------------------------------------
(* proxy_chat: the stream *)

(* With the conversation of X-Conversation-Id, if any.  There is nothing   *)
(* to save if the route is open and there is no user, if there is no user  *)
(* message, or if the client sends X-Client-Persist.                       *)
StartChat(r) ==
  /\ Arrives(r)
  /\ \/ \E u \in User, c \in 0 .. nextConversation - 1 :
          request' = [request EXCEPT
            ![r].op = "chat", ![r].user = u, ![r].conversation = c,
            ![r].stage = "streaming", ![r].todo = <<"user", "assistant">>]
     \/ request' = [request EXCEPT ![r].op = "chat", ![r].stage = "streaming"]
  /\ UNCHANGED <<tables, stream>>

(* mutant: what is over the limit is not kept, and the rest is saved. *)
PassChunkTruncated(r) ==
  /\ At(r, "streaming")
  /\ \E size \in 1 .. MaxReply - stream[r].sent :
       LET sent == stream[r].sent + size
       IN  stream' = [stream EXCEPT ![r].sent = sent,
             ![r].kept = IF sent > SaveBuffer THEN @ ELSE sent]
  /\ UNCHANGED <<tables, request>>

(* A chunk is passed on, and kept unless the buffer would overflow; then   *)
(* everything kept is dropped.                                             *)
PassChunk(r) ==
  /\ At(r, "streaming")
  /\ \E size \in 1 .. MaxReply - stream[r].sent :
       LET sent == stream[r].sent + size
           overflow == stream[r].overflow \/ sent > SaveBuffer
       IN  stream' = [stream EXCEPT ![r] =
             [sent |-> sent, overflow |-> overflow,
              kept |-> IF overflow THEN 0 ELSE stream[r].kept + size]]
  /\ UNCHANGED <<tables, request>>

Discard(r) ==
  /\ request' = [request EXCEPT ![r] = Ended("unsaved")]
  /\ stream' = [stream EXCEPT ![r] = NoReply]
  /\ UNCHANGED tables

(* The client leaves, or the LLM service fails or cannot be reached: the   *)
(* generator is closed or raises, and nothing is saved.                    *)
CutStream(r) ==
  /\ At(r, "streaming")
  /\ Discard(r)

(* The reply is whole.  It may have no content, such as an error's.        *)
EndStream(r) ==
  /\ At(r, "streaming")
  /\ \/ /\ request[r].todo # << >>
        /\ ~ stream[r].overflow
        /\ stream[r].kept > 0
        /\ request' = [request EXCEPT ![r].stage = "look up"]
        /\ UNCHANGED <<tables, stream>>
     \/ Discard(r)

(* The conversation named is continued if it is there and the user's.  If  *)
(* the look-up fails the save is given up.                                 *)
FindConversation(r) ==
  /\ At(r, "look up")
  /\ \/ IF Owned(request[r].conversation, request[r].user)
        THEN request' = [request EXCEPT ![r].stage = "touch"]
        ELSE request' = [request EXCEPT ![r].stage = "open",
                                        ![r].conversation = None]
     \/ request' = [request EXCEPT ![r] = Ended("error")]
  /\ UNCHANGED <<tables, stream>>

-----------------------------------------------------------------------------
(* The transactions of both *)

(* mutant: the conversation is not flushed, so its id is not known. *)
OpenUnflushed(r) ==
  /\ At(r, "open")
  /\ request' = [request EXCEPT ![r].stage = "write", ![r].new = TRUE]
  /\ nextConversation' = nextConversation + 1
  /\ UNCHANGED <<conversations, messages, nextMessage, stream>>

(* INSERT of the conversation: its id is taken, its row not yet visible. *)
Open(r) ==
  /\ At(r, "open")
  /\ request' = [request EXCEPT ![r].stage = "write", ![r].new = TRUE,
                                ![r].conversation = nextConversation]
  /\ nextConversation' = nextConversation + 1
  /\ UNCHANGED <<conversations, messages, nextMessage, stream>>

(* mutant: what was inserted before the error stays. *)
RollBackNothing(r) ==
  /\ request' = [request EXCEPT ![r].stage = "done", ![r].answer = "error"]
  /\ messages' = messages \cup request[r].rows
  /\ UNCHANGED <<conversations, nextConversation, nextMessage, stream>>

(* The session is rolled back: a history request is answered 500, a failed *)
(* save is logged.                                                         *)
RollBack(r) ==
  /\ request' = [request EXCEPT ![r].stage = "done", ![r].answer = "error"]
  /\ UNCHANGED <<tables, stream>>

(* UPDATE of updated_at, or of the title and mode.  If it finds no row the *)
(* ORM raises StaleDataError.                                              *)
Touch(r) ==
  /\ At(r, "touch")
  /\ RowFree(request[r].conversation)
  /\ IF Exists(request[r].conversation)
     THEN /\ request' = [request EXCEPT ![r].stage = "write"]
          /\ UNCHANGED <<tables, stream>>
     ELSE RollBack(r)

RowOf(r) ==
  [id |-> nextMessage, conversation |-> request[r].conversation,
   user |-> request[r].user, role |-> Head(request[r].todo),
   size |-> IF Head(request[r].todo) = "assistant" THEN stream[r].kept ELSE 0,
   by |-> r]

(* INSERT of one message, with the next id. *)
Insert(r) ==
  /\ At(r, "write")
  /\ request[r].todo # << >>
  /\ request' = [request EXCEPT ![r].rows = @ \cup {RowOf(r)}, ![r].todo = Tail(@)]
  /\ nextMessage' = nextMessage + 1
  /\ UNCHANGED <<conversations, messages, nextConversation, stream>>

(* A statement or the commit itself raises: the database refuses a message *)
(* (a text with a NUL, say), ends the transaction or cannot be reached, or *)
(* the pool has no connection for it in time.                              *)
Refuse(r) ==
  /\ request[r].stage \in {"open", "touch", "write", "remove", "removing"}
  /\ RollBack(r)

Commit(r) ==
  /\ At(r, "write")
  /\ request[r].todo = << >>
  /\ messages' = messages \cup request[r].rows
  /\ conversations' = conversations \cup
       (IF request[r].new
        THEN {[id |-> request[r].conversation, owner |-> request[r].user]}
        ELSE {})
  /\ request' = [request EXCEPT ![r].stage = "refresh"]
  /\ UNCHANGED <<nextConversation, nextMessage, stream>>

(* After the commit the row is read again, by db.refresh or for the log    *)
(* line of a save: a new transaction, on a connection that is checked out  *)
(* anew.  That raises if the row is gone by now (a message goes with its   *)
(* conversation only), and it may raise while the row is there, as any     *)
(* statement may: then what is committed stays.                            *)
Refresh(r) ==
  /\ At(r, "refresh")
  /\ \/ /\ Exists(request[r].conversation)
        /\ request' = [request EXCEPT ![r].stage = "done", ![r].answer = "ok"]
     \/ request' = [request EXCEPT ![r].stage = "done", ![r].answer = "error"]
  /\ UNCHANGED <<tables, stream>>

(* DELETE of the messages loaded and of the conversation.  A row that is   *)
(* gone already earns a warning only.                                      *)
Remove(r) ==
  /\ At(r, "remove")
  /\ RowFree(request[r].conversation)
  /\ request' = [request EXCEPT ![r].stage = "removing"]
  /\ UNCHANGED <<tables, stream>>

(* mutant: only the messages that were loaded are deleted. *)
CommitRemovalOfLoaded(r) ==
  /\ At(r, "removing")
  /\ conversations' = {v \in conversations : v.id # request[r].conversation}
  /\ messages' = messages \ request[r].rows
  /\ request' = [request EXCEPT ![r].stage = "done", ![r].answer = "ok"]
  /\ UNCHANGED <<nextConversation, nextMessage, stream>>

(* ON DELETE CASCADE takes the messages that came after those loaded. *)
CommitRemoval(r) ==
  /\ At(r, "removing")
  /\ conversations' = {v \in conversations : v.id # request[r].conversation}
  /\ messages' = messages \ (request[r].rows \cup MessagesOf(request[r].conversation))
  /\ request' = [request EXCEPT ![r].stage = "done", ![r].answer = "ok"]
  /\ UNCHANGED <<nextConversation, nextMessage, stream>>

-----------------------------------------------------------------------------
Transact(r) ==
  \/ Open(r) \/ Touch(r) \/ Insert(r) \/ Refuse(r) \/ Commit(r)
  \/ Refresh(r) \/ Remove(r) \/ CommitRemoval(r)

Ask(r) == CreateConversation(r) \/ UseConversation(r) \/ StartChat(r)
Converse(r) == PassChunk(r) \/ CutStream(r) \/ EndStream(r) \/ FindConversation(r)

(* The only state in which nothing more happens: a request stuck anywhere  *)
(* else is a deadlock that TLC reports.                                    *)
Finished ==
  /\ \A r \in Request : At(r, "done")
  /\ UNCHANGED vars

Advance(r) == Converse(r) \/ Transact(r)

Next ==
  \/ \E r \in Request : Ask(r) \/ Advance(r)
  \/ Finished

Spec == Init /\ [][Next]_vars

-----------------------------------------------------------------------------
TypeOK ==
  /\ conversations \subseteq Conversation
  /\ messages \subseteq Message
  /\ nextConversation \in Nat \ {0} /\ nextMessage \in Nat \ {0}
  /\ request \in [Request -> Call]
  /\ stream \in [Request -> [sent : Nat, kept : Nat, overflow : BOOLEAN]]

(* "Every route is scoped to the authenticated API-key user, so users only *)
(* ever see their own chats" (history.py:3-6) and "Delete a conversation   *)
(* and all its messages" (history.py:147): a message is always in a        *)
(* conversation of the user who wrote it, also when appends and saves race *)
(* with a deletion of the conversation.                                    *)
OwnMessagesOnly == \A m \in messages : Owned(m.conversation, m.user)

SavedBy(r) == {m \in messages : m.by = r}

(* A chat leaves both messages of the exchange or none (chatbot.py:150),   *)
(* the question first, with no message of another request between them,    *)
(* and the reply as the client got it, to its end.                         *)
ExchangesStayTogether ==
  \A r \in Request : request[r].op = "chat" /\ SavedBy(r) # {} =>
    \E q, a \in SavedBy(r) :
      /\ SavedBy(r) = {q, a}
      /\ q.role = "user" /\ a.role = "assistant"
      /\ q.conversation = a.conversation
      /\ q.id < a.id
      /\ \A m \in MessagesOf(q.conversation) : m.id <= q.id \/ m.id >= a.id
      /\ a.size = stream[r].sent

(* Messages are shown in the order of their ids (conversation.py:36).  A   *)
(* reader who has seen a conversation up to some message never finds       *)
(* another one before it later: ids are given out when rows are inserted,  *)
(* rows are seen when they are committed, and only the lock on the         *)
(* conversation's row keeps the two orders the same.                       *)
HistoryGrowsAtItsEnd ==
  [][\A m \in messages' \ messages, o \in messages :
       m.conversation = o.conversation => m.id > o.id]_vars

NothingLeft(r) ==
  /\ SavedBy(r) = {}
  /\ request[r].new => ~ Exists(request[r].conversation)

AllSaved(r) == request[r].todo = << >> /\ SavedBy(r) = request[r].rows

(* What a caller is told holds: a request that is answered with success    *)
(* has all its rows in the tables unless the conversation was deleted      *)
(* since, a deletion that is answered is not undone, and a refusal means   *)
(* that the request has left nothing behind.  An error tells less, since   *)
(* the read after the commit may be what failed: everything is there, or   *)
(* nothing, but never a part.                                              *)
AnswersTellOutcome ==
  \A r \in Request : At(r, "done") =>
    CASE request[r].answer = "ok" /\ request[r].op = "delete" ->
           ~ Exists(request[r].conversation)
      [] request[r].answer = "ok" /\ request[r].op # "delete" ->
           request[r].rows \subseteq messages \/ ~ Exists(request[r].conversation)
      [] request[r].answer = "error" -> NothingLeft(r) \/ AllSaved(r)
      [] request[r].answer \notin {"ok", "error"} -> NothingLeft(r)
=============================================================================
