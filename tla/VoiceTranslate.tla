--------------------------- MODULE VoiceTranslate ---------------------------
(***************************************************************************)
(* One session of the /ws/voice-translate web socket                       *)
(* (app/routers/chatbot.py, ws_voice_translate).  Three tasks share it on  *)
(* the event loop: the receive loop queues the chunks of the microphone,   *)
(* a worker transcribes one chunk at a time and asks the translator, and a *)
(* pump passes the translations on.  A step is what a task does between    *)
(* two awaits.                                                             *)
(*                                                                         *)
(* A frame written to a connection counts as delivered; once the gateway   *)
(* knows a connection to be gone, writing to it raises.                    *)
(***************************************************************************)
EXTENDS Naturals, Sequences

CONSTANTS
  QueueSize,   \* maxsize of audio_queue, 8 in the code
  MaxChunks,   \* bound: chunks the client sends
  MaxConfigs,  \* bound: config frames the client sends
  MaxUnread    \* bound: translations on their way to the pump

ASSUME BoundsAssumption ==
  /\ QueueSize \in Nat \ {0}
  /\ MaxChunks \in Nat /\ MaxConfigs \in Nat /\ MaxUnread \in Nat

VARIABLES
  phase,      \* of the handler
  client,     \* whether the client's connection is up
  upstream,   \* whether the connection to the translator is up
  lang,       \* target_lang: which config frame set it, 0 for the default
  spoken,     \* chunks received
  langAt,     \* history: lang when each chunk was received
  queue,      \* audio_queue
  worker,     \* where the audio worker is
  pump,       \* whether the upstream pump runs
  seq,        \* the translate requests numbered so far
  sent,       \* the requests written upstream
  unread,     \* translations from upstream the pump has not read
  shown,      \* chunks whose transcript was written to the client
  translated, \* requests whose translation was written to the client
  settled     \* history: chunks that are through, or were shed

handshakeVars ==
  <<lang, spoken, langAt, queue, seq, sent, unread, shown, translated, settled>>
vars == <<phase, client, upstream, lang, spoken, langAt, queue, worker, pump,
          seq, sent, unread, shown, translated, settled>>

Chunk == 1 .. MaxChunks
Phase == {"accepted", "connecting", "retrying", "open", "closing", "closing client", "closed"}

Waiting == [pc |-> "waiting"]
Stopped == [pc |-> "stopped"]
Working == [pc : {"posting", "echoing", "forwarding", "failing"}, chunk : Chunk]

Request == [id : Nat, chunk : Chunk, lang : 0 .. MaxConfigs]

Init ==
  /\ phase = "accepted"
  /\ client = TRUE
  /\ upstream = FALSE
  /\ lang = 0
  /\ spoken = 0
  /\ langAt = << >>
  /\ queue = << >>
  /\ worker = Stopped
  /\ pump = FALSE
  /\ seq = 0
  /\ sent = << >>
  /\ unread = << >>
  /\ shown = << >>
  /\ translated = {}
  /\ settled = {}

-----------------------------------------------------------------------------
(* The handshake *)

(* No key, an unknown key, or the rate limit: close codes 4401 and 1008. *)
TurnAway ==
  /\ phase = "accepted"
  /\ phase' = "closed"
  /\ client' = FALSE
  /\ UNCHANGED <<upstream, worker, pump, handshakeVars>>

LetIn ==
  /\ phase = "accepted"
  /\ phase' = "connecting"
  /\ UNCHANGED <<client, upstream, worker, pump, handshakeVars>>

(* Either URL answers, and both tasks are created. *)
Connect ==
  /\ phase \in {"connecting", "retrying"}
  /\ phase' = "open"
  /\ upstream' = TRUE
  /\ worker' = Waiting
  /\ pump' = TRUE
  /\ UNCHANGED <<client, handshakeVars>>

ConnectFails ==
  /\ \/ phase = "connecting" /\ phase' = "retrying" /\ UNCHANGED client
     \/ phase = "retrying" /\ phase' = "closed" /\ client' = FALSE
  /\ UNCHANGED <<upstream, worker, pump, handshakeVars>>

-----------------------------------------------------------------------------
(* _pump_client_to_upstream *)

(* mutant: the queue without its maxsize *)
PutUnbounded(q, c) == Append(q, c)

(* mutant: a full queue turns the new chunk away *)
PutUnlessFull(q, c) == IF Len(q) = QueueSize THEN q ELSE Append(q, c)

(* A full queue gives up its oldest chunk. *)
Put(q, c) == Append(IF Len(q) = QueueSize THEN Tail(q) ELSE q, c)

ReceiveChunk ==
  /\ phase = "open"
  /\ client
  /\ spoken < MaxChunks
  /\ spoken' = spoken + 1
  /\ langAt' = Append(langAt, lang)
  /\ queue' = Put(queue, spoken')
  /\ settled' = settled \cup (IF Len(queue) = QueueSize THEN {Head(queue)} ELSE {})
  /\ UNCHANGED <<phase, client, upstream, lang, worker, pump, seq, sent, unread,
                 shown, translated>>

ReceiveConfig ==
  /\ phase = "open"
  /\ client
  /\ lang < MaxConfigs
  /\ lang' = lang + 1
  /\ UNCHANGED <<phase, client, upstream, spoken, langAt, queue, worker, pump,
                 seq, sent, unread, shown, translated, settled>>

(* mutant: worker.cancel() forgotten *)
LeaveWorkerRunning ==
  /\ phase = "open"
  /\ phase' = "closing"
  /\ pump' = FALSE
  /\ UNCHANGED <<client, upstream, worker, handshakeVars>>

(* The loop ends and both tasks are cancelled: CancelledError is thrown at *)
(* their await and caught by neither, so they take no further step.        *)
Leave ==
  /\ phase = "open"
  /\ phase' = "closing"
  /\ worker' = Stopped
  /\ pump' = FALSE
  /\ UNCHANGED <<client, upstream, handshakeVars>>

(* receive() returns the disconnect, or sending a pong raises. *)
ReceiveDisconnect == ~ client /\ Leave

(* A text frame that is JSON but not an object: frame.get raises. *)
ReceiveNonObject == client /\ Leave

CloseUpstream ==
  /\ phase = "closing"
  /\ phase' = "closing client"
  /\ upstream' = FALSE
  /\ UNCHANGED <<client, worker, pump, handshakeVars>>

CloseClient ==
  /\ phase = "closing client"
  /\ phase' = "closed"
  /\ client' = FALSE
  /\ UNCHANGED <<upstream, worker, pump, handshakeVars>>

-----------------------------------------------------------------------------
(* _audio_worker and _send_audio_chunk *)

At(pc) == worker.pc = pc
Goto(pc, c) == worker' = [pc |-> pc, chunk |-> c]

(* mutant: the newest chunk first *)
TakeNewest ==
  /\ At("waiting")
  /\ queue # << >>
  /\ Goto("posting", queue[Len(queue)])
  /\ queue' = SubSeq(queue, 1, Len(queue) - 1)
  /\ UNCHANGED <<phase, client, upstream, lang, spoken, langAt, pump,
                 seq, sent, unread, shown, translated, settled>>

Take ==
  /\ At("waiting")
  /\ queue # << >>
  /\ Goto("posting", Head(queue))
  /\ queue' = Tail(queue)
  /\ UNCHANGED <<phase, client, upstream, lang, spoken, langAt, pump,
                 seq, sent, unread, shown, translated, settled>>

Finish ==
  /\ worker' = Waiting
  /\ settled' = settled \cup {worker.chunk}

sessionVars ==
  <<phase, client, upstream, lang, spoken, langAt, queue, pump, unread, translated>>

(* No success status, or nothing was said. *)
NoTranscript ==
  /\ At("posting")
  /\ Finish
  /\ UNCHANGED <<sessionVars, seq, sent, shown>>

(* The transcript is written to the client. *)
Echo ==
  /\ At("posting")
  /\ client
  /\ shown' = Append(shown, worker.chunk)
  /\ Goto("echoing", worker.chunk)
  /\ UNCHANGED <<sessionVars, seq, sent, settled>>

(* mutant: the default language, read when the session began *)
FirstLanguage == 0

(* target_lang is read after the await of the echo. *)
TargetLang == lang

(* The request is numbered, and written upstream. *)
Forward ==
  /\ At("echoing")
  /\ seq' = seq + 1
  /\ IF upstream
       THEN /\ sent' = Append(sent, [id |-> seq', chunk |-> worker.chunk, lang |-> TargetLang])
            /\ Goto("forwarding", worker.chunk)
       ELSE Goto("failing", worker.chunk) /\ UNCHANGED sent
  /\ UNCHANGED <<sessionVars, shown, settled>>

ForwardReturns ==
  /\ At("forwarding")
  /\ Finish
  /\ UNCHANGED <<sessionVars, seq, sent, shown>>

(* The post may always raise, a send when its connection is gone. *)
Raise ==
  /\ \/ At("posting")
     \/ At("echoing") /\ ~ client
     \/ At("forwarding") /\ ~ upstream
  /\ Goto("failing", worker.chunk)
  /\ UNCHANGED <<sessionVars, seq, sent, shown, settled>>

(* mutant: the exception ends the worker *)
ReportAndStop ==
  /\ At("failing")
  /\ worker' = Stopped
  /\ UNCHANGED <<sessionVars, seq, sent, shown, settled>>

(* The error frame is tried; if it raises too, that is ignored. *)
Report ==
  /\ At("failing")
  /\ Finish
  /\ UNCHANGED <<sessionVars, seq, sent, shown>>

-----------------------------------------------------------------------------
(* The translator, another service, and _pump_upstream_to_client *)

Answered == translated \cup {unread[i] : i \in DOMAIN unread}

(* Requests are answered in any order. *)
TranslatorAnswers ==
  /\ upstream
  /\ Len(unread) < MaxUnread
  /\ \E n \in DOMAIN sent \ Answered : unread' = Append(unread, sent[n].id)
  /\ UNCHANGED <<phase, client, upstream, lang, spoken, langAt, queue, worker, pump,
                 seq, sent, shown, translated, settled>>

(* A frame is passed on. *)
PassOn ==
  /\ pump
  /\ unread # << >>
  /\ client
  /\ translated' = translated \cup {Head(unread)}
  /\ unread' = Tail(unread)
  /\ UNCHANGED <<phase, client, upstream, lang, spoken, langAt, queue, worker, pump,
                 seq, sent, shown, settled>>

(* Upstream has closed, or the client is gone: the pump ends. *)
PumpEnds ==
  /\ pump
  /\ IF unread = << >> THEN ~ upstream ELSE ~ client
  /\ pump' = FALSE
  /\ UNCHANGED <<phase, client, upstream, worker, handshakeVars>>

ClientDrops ==
  /\ client
  /\ client' = FALSE
  /\ UNCHANGED <<phase, upstream, worker, pump, handshakeVars>>

UpstreamDrops ==
  /\ upstream
  /\ upstream' = FALSE
  /\ UNCHANGED <<phase, client, worker, pump, handshakeVars>>

-----------------------------------------------------------------------------
Handshake == TurnAway \/ LetIn \/ Connect \/ ConnectFails
Work ==
  \/ Take \/ NoTranscript \/ Echo \/ Forward \/ ForwardReturns \/ Raise \/ Report
Pump == PassOn \/ PumpEnds
Close == ReceiveDisconnect \/ CloseUpstream \/ CloseClient

Next ==
  \/ Handshake
  \/ ReceiveChunk \/ ReceiveConfig \/ ReceiveNonObject
  \/ Work
  \/ Pump
  \/ Close
  \/ TranslatorAnswers \/ ClientDrops \/ UpstreamDrops

(* Connecting, posting and closing have timeouts (open_timeout=10, 30 s,   *)
(* the library's 10 s), and a connection that stalls a send is dropped by  *)
(* the keepalive pings of either web socket library.                       *)
Fairness == WF_vars(Handshake) /\ WF_vars(Work) /\ WF_vars(Pump) /\ WF_vars(Close)

Spec == Init /\ [][Next]_vars
FairSpec == Spec /\ Fairness

-----------------------------------------------------------------------------
(* Every variable has its type; the queue keeps to its maxsize. *)
TypeOK ==
  /\ phase \in Phase
  /\ client \in BOOLEAN /\ upstream \in BOOLEAN /\ pump \in BOOLEAN
  /\ lang \in 0 .. MaxConfigs
  /\ spoken \in 0 .. MaxChunks
  /\ langAt \in Seq(0 .. MaxConfigs) /\ Len(langAt) = spoken
  /\ queue \in Seq(Chunk) /\ Len(queue) <= QueueSize
  /\ worker \in Working \cup {Waiting, Stopped}
  /\ seq \in Nat
  /\ sent \in Seq(Request)
  /\ unread \in Seq(Nat)
  /\ shown \in Seq(Chunk)
  /\ translated \subseteq 1 .. seq
  /\ settled \subseteq 1 .. spoken

(* "for live subtitles, fresh audio matters more than stale chunks"        *)
(* (chatbot.py:770-774): the backlog is always the latest chunks, with no  *)
(* gap, and what was taken or shed is older than all of it.                *)
BacklogIsFreshest ==
  /\ \A i \in DOMAIN queue : queue[i] = spoken - Len(queue) + i
  /\ \A c \in settled : c <= spoken - Len(queue)

(* A chunk is translated into the language the client asked for when it    *)
(* spoke or into one it has asked for since (chatbot.py:736-744, 817), and *)
(* subtitles do not switch back to an earlier choice.                      *)
LanguageNeverReverts ==
  \A i \in DOMAIN sent :
    /\ langAt[sent[i].chunk] <= sent[i].lang
    /\ i > 1 => sent[i - 1].lang <= sent[i].lang

Asked == [i \in DOMAIN sent |-> sent[i].chunk]

S == INSTANCE Subtitles WITH asked <- Asked

(* "transcripts (and their seq ids) then stay in speech order"             *)
(* (chatbot.py:769-772): translation N is the translation of the client's  *)
(* N-th transcript, and comes after it.                                    *)
ImplementsSubtitles == S!Spec

(* Every chunk the client sends is transcribed, reported, found silent or  *)
(* shed, unless the session ends first.                                    *)
EveryChunkSettles ==
  \A c \in Chunk : (spoken >= c) ~> (c \in settled \/ phase = "closed")

(* When the client is gone the session ends and leaves nothing behind: no  *)
(* task and no connection (chatbot.py:826-838).                            *)
SessionEnds ==
  ~ client ~> (phase = "closed" /\ ~ upstream /\ worker = Stopped /\ ~ pump)
=============================================================================
