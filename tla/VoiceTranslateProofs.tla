------------------------ MODULE VoiceTranslateProofs ------------------------
(***************************************************************************)
(* What holds of a live session for any size of the queue and any number   *)
(* of chunks, languages and translations on their way.                     *)
(***************************************************************************)
EXTENDS VoiceTranslate, SequenceTheorems, TLAPS

(* Both tasks run just as long as the loop; until then there is nothing. *)
Stages ==
  /\ worker = Stopped <=> phase # "open"
  /\ pump => phase = "open"
  /\ phase \in {"accepted", "connecting", "retrying"}
     => ~ upstream /\ seq = 0 /\ sent = << >> /\ shown = << >>

(* What is being worked on is older than the backlog, and what was shown   *)
(* is older than what is about to be.                                      *)
InOrder ==
  /\ BacklogIsFreshest
  /\ Len(queue) <= spoken
  /\ worker \in Working => worker.chunk <= spoken - Len(queue)
  /\ \A i \in DOMAIN shown : shown[i] <= spoken - Len(queue)
  /\ At("posting") => \A i \in DOMAIN shown : shown[i] < worker.chunk

(* A request is numbered by its place, as long as all of them are written; *)
(* none is answered twice.                                                 *)
Numbered ==
  /\ Len(sent) <= seq
  /\ upstream => Len(sent) = seq
  /\ \A i \in DOMAIN sent : sent[i].id = i
  /\ \A i \in DOMAIN unread : unread[i] \in DOMAIN sent /\ unread[i] \notin translated
  /\ \A i, j \in DOMAIN unread : unread[i] = unread[j] => i = j
  /\ translated \subseteq DOMAIN sent

(* The requests are for the transcripts, one by one; the last transcript   *)
(* may still be without.                                                   *)
Aligned ==
  /\ Len(sent) <= Len(shown)
  /\ \A i \in DOMAIN sent : sent[i].chunk = shown[i]
  /\ At("echoing") /\ upstream
     => Len(shown) = Len(sent) + 1 /\ shown[Len(shown)] = worker.chunk
  /\ worker # Stopped /\ ~ At("echoing") /\ client /\ upstream
     => Len(shown) = Len(sent)

(* The language only moves on. *)
Languages ==
  /\ \A i \in DOMAIN langAt : langAt[i] <= lang
  /\ \A i \in DOMAIN sent : sent[i].chunk <= spoken /\ sent[i].lang <= lang
  /\ LanguageNeverReverts

SessionInv == TypeOK /\ Stages /\ InOrder /\ Numbered /\ Aligned /\ Languages

-----------------------------------------------------------------------------
(* What Append and Tail make of a sequence. *)
LEMMA Appended ==
  ASSUME NEW T, NEW s \in Seq(T), NEW e \in T
  PROVE  /\ Append(s, e) \in Seq(T)
         /\ Len(Append(s, e)) = Len(s) + 1
         /\ DOMAIN Append(s, e) = 1 .. Len(s) + 1
         /\ \A i \in DOMAIN s : Append(s, e)[i] = s[i]
         /\ Append(s, e)[Len(s) + 1] = e
BY AppendProperties, LenProperties

LEMMA Dropped ==
  ASSUME NEW T, NEW s \in Seq(T), s # << >>
  PROVE  /\ Len(s) \in Nat \ {0}
         /\ Head(s) = s[1] /\ Head(s) \in T
         /\ Tail(s) \in Seq(T)
         /\ Len(Tail(s)) = Len(s) - 1
         /\ DOMAIN Tail(s) = 1 .. Len(s) - 1
         /\ \A i \in 1 .. Len(s) - 1 : Tail(s)[i] = s[i + 1]
BY HeadTailProperties, LenProperties, EmptySeq

(* A full queue keeps its length, and what stays in it moves up. *)
LEMMA PutKeepsNewest ==
  ASSUME NEW q \in Seq(Chunk), Len(q) <= QueueSize, NEW c \in Chunk
  PROVE  /\ Put(q, c) \in Seq(Chunk)
         /\ Len(q) = QueueSize
            => /\ q # << >> /\ Len(Put(q, c)) = Len(q)
               /\ \A i \in 1 .. Len(q) - 1 : Put(q, c)[i] = q[i + 1]
         /\ Len(q) # QueueSize
            => /\ Len(Put(q, c)) = Len(q) + 1
               /\ \A i \in 1 .. Len(q) : Put(q, c)[i] = q[i]
         /\ Put(q, c)[Len(Put(q, c))] = c
<1> USE BoundsAssumption
<1>1. CASE Len(q) = QueueSize
  <2>1. q # << >>
    BY <1>1, EmptySeq
  <2> QED
    BY <1>1, <2>1, Dropped, Appended, LenProperties DEF Put
<1>2. CASE Len(q) # QueueSize
  BY <1>2, Appended, LenProperties DEF Put
<1> QED
  BY <1>1, <1>2

-----------------------------------------------------------------------------
LEMMA InitialSession == Init => SessionInv
<1> SUFFICES ASSUME Init PROVE SessionInv
  OBVIOUS
<1> USE BoundsAssumption DEF Init
<1>1. TypeOK
  <2>1. /\ langAt \in Seq(0 .. MaxConfigs) /\ Len(langAt) = 0
        /\ queue \in Seq(Chunk) /\ Len(queue) = 0
        /\ sent \in Seq(Request) /\ unread \in Seq(Nat) /\ shown \in Seq(Chunk)
    BY EmptySeq
  <2>2. client \in BOOLEAN /\ upstream \in BOOLEAN /\ pump \in BOOLEAN
    BY Zenon
  <2>3. lang \in 0 .. MaxConfigs /\ spoken \in 0 .. MaxChunks /\ seq \in Nat
    OBVIOUS
  <2> QED
    BY <2>1, <2>2, <2>3 DEF TypeOK, Phase, Stopped
<1>2. Stages
  BY DEF Stages, Stopped
<1>3. InOrder
  BY DEF InOrder, BacklogIsFreshest, Working, Stopped, At
<1>4. Numbered
  BY DEF Numbered
<1>5. Aligned
  BY DEF Aligned, Stopped, At
<1>6. Languages
  BY DEF Languages, LanguageNeverReverts
<1> QED
  BY <1>1, <1>2, <1>3, <1>4, <1>5, <1>6 DEF SessionInv

(* The worker's states are told apart by its pc. *)
LEMMA WorkerStates ==
  ASSUME TypeOK
  PROVE  /\ worker = Stopped <=> At("stopped")
         /\ worker = Waiting <=> At("waiting")
         /\ worker \in Working <=> ~ At("stopped") /\ ~ At("waiting")
         /\ worker \in Working => worker.chunk \in Chunk
         /\ \A c \in Chunk : \A pc \in {"posting", "echoing", "forwarding", "failing"} :
              /\ [pc |-> pc, chunk |-> c] \in Working
              /\ [pc |-> pc, chunk |-> c] # Stopped
BY DEF TypeOK, At, Working, Waiting, Stopped

-----------------------------------------------------------------------------
LEMMA TypeStep == SessionInv /\ [Next]_vars => TypeOK'
<1> SUFFICES ASSUME SessionInv, [Next]_vars PROVE TypeOK'
  OBVIOUS
<1> USE BoundsAssumption
<1>0. TypeOK /\ InOrder /\ Numbered
  BY DEF SessionInv
<1>1. CASE Handshake
  BY <1>0, <1>1 DEF Handshake, TurnAway, LetIn, Connect, ConnectFails, TypeOK,
     handshakeVars, Phase
<1>2. CASE ReceiveChunk
  <2>1. spoken' = spoken + 1 /\ spoken' \in Chunk /\ spoken \in Nat
    BY <1>0, <1>2 DEF ReceiveChunk, TypeOK, Chunk
  <2>2. langAt' \in Seq(0 .. MaxConfigs) /\ Len(langAt') = spoken'
    BY <1>0, <1>2, <2>1, Appended DEF ReceiveChunk, TypeOK
  <2>3. queue' \in Seq(Chunk) /\ Len(queue') <= QueueSize
    <3>1. Len(queue) \in Nat
      BY <1>0, LenProperties DEF TypeOK
    <3> QED
      BY <1>0, <1>2, <2>1, <3>1, PutKeepsNewest DEF ReceiveChunk, TypeOK
  <2>4. settled' \subseteq 1 .. spoken'
    <3>0. 1 .. spoken \subseteq 1 .. spoken'
      BY <2>1
    <3>1. CASE Len(queue) = QueueSize
      <4>1. queue # << >>
        BY <1>0, <3>1, EmptySeq DEF TypeOK
      <4>2. Head(queue) = spoken - Len(queue) + 1 /\ Len(queue) \in Nat \ {0}
        BY <1>0, <4>1, Dropped, LenProperties DEF TypeOK, InOrder, BacklogIsFreshest
      <4>3. Head(queue) \in 1 .. spoken
        BY <1>0, <4>2 DEF TypeOK, InOrder
      <4>4. settled' = settled \cup {Head(queue)}
        BY <1>2, <3>1 DEF ReceiveChunk
      <4> QED
        BY <1>0, <3>0, <4>3, <4>4 DEF TypeOK
    <3>2. CASE Len(queue) # QueueSize
      BY <1>0, <1>2, <3>0, <3>2 DEF ReceiveChunk, TypeOK
    <3> QED
      BY <3>1, <3>2
  <2> QED
    BY <1>0, <1>2, <2>1, <2>2, <2>3, <2>4 DEF ReceiveChunk, TypeOK, Chunk
<1>3. CASE ReceiveConfig
  BY <1>0, <1>3 DEF ReceiveConfig, TypeOK
<1>4. CASE ReceiveNonObject \/ Close
  BY <1>0, <1>4 DEF ReceiveNonObject, Close, ReceiveDisconnect, Leave, CloseUpstream,
     CloseClient, TypeOK, handshakeVars, Phase
<1>5. CASE Take
  <2>1. queue' \in Seq(Chunk) /\ Len(queue') <= QueueSize /\ Head(queue) \in Chunk
    BY <1>0, <1>5, Dropped DEF Take, TypeOK
  <2> QED
    BY <1>0, <1>5, <2>1, WorkerStates DEF Take, Goto, TypeOK
<1>6. CASE Echo
  <2>1. worker.chunk \in Chunk
    BY <1>0, <1>6, WorkerStates DEF Echo, At
  <2>2. shown' \in Seq(Chunk)
    BY <1>0, <1>6, <2>1, Appended DEF Echo, TypeOK
  <2> QED
    BY <1>0, <1>6, <2>1, <2>2, WorkerStates DEF Echo, Goto, TypeOK, sessionVars
<1>7. CASE Forward
  <2>1. worker.chunk \in Chunk
    BY <1>0, <1>7, WorkerStates DEF Forward, At
  <2>2. worker' \in Working /\ seq' = seq + 1
    BY <1>7, <2>1, <1>0, WorkerStates DEF Forward, Goto
  <2>3. [id |-> seq', chunk |-> worker.chunk, lang |-> TargetLang] \in Request
    BY <1>0, <2>1, <2>2 DEF TypeOK, Request, TargetLang
  <2>4. sent' \in Seq(Request)
    <3>1. sent \in Seq(Request)
      BY <1>0 DEF TypeOK
    <3>2. Append(sent, [id |-> seq', chunk |-> worker.chunk, lang |-> TargetLang])
          \in Seq(Request)
      BY <2>3, <3>1, Appended
    <3> QED
      BY <1>7, <3>1, <3>2 DEF Forward
  <2> QED
    BY <1>0, <1>7, <2>2, <2>4 DEF Forward, TypeOK, sessionVars
<1>8. CASE NoTranscript \/ ForwardReturns \/ Report
  <2>1. worker.chunk \in Chunk /\ worker \in Working
    BY <1>0, <1>8, WorkerStates DEF NoTranscript, ForwardReturns, Report, At
  <2>2. worker.chunk \in 1 .. spoken
    BY <1>0, <2>1, LenProperties DEF InOrder, TypeOK, Chunk
  <2> QED
    BY <1>0, <1>8, <2>2 DEF NoTranscript, ForwardReturns, Report, Finish, TypeOK,
       sessionVars
<1>9. CASE Raise
  <2>1. worker.chunk \in Chunk
    BY <1>0, <1>9, WorkerStates DEF Raise, At
  <2> QED
    BY <1>0, <1>9, <2>1, WorkerStates DEF Raise, Goto, TypeOK, sessionVars
<1>10. CASE TranslatorAnswers
  <2>1. \A n \in DOMAIN sent : sent[n].id \in Nat
    BY <1>0, LenProperties DEF TypeOK, Numbered
  <2>2. unread' \in Seq(Nat)
    BY <1>0, <1>10, <2>1, Appended DEF TranslatorAnswers, TypeOK
  <2> QED
    BY <1>0, <1>10, <2>2 DEF TranslatorAnswers, TypeOK
<1>11. CASE PassOn
  <2>1. unread' \in Seq(Nat) /\ Head(unread) = unread[1] /\ 1 \in DOMAIN unread
    BY <1>0, <1>11, Dropped, LenProperties DEF PassOn, TypeOK
  <2>2. Head(unread) \in 1 .. seq
    BY <1>0, <2>1, LenProperties DEF TypeOK, Numbered
  <2> QED
    BY <1>0, <1>11, <2>1, <2>2 DEF PassOn, TypeOK
<1>12. CASE PumpEnds \/ ClientDrops \/ UpstreamDrops
  BY <1>0, <1>12 DEF PumpEnds, ClientDrops, UpstreamDrops, TypeOK, handshakeVars
<1>13. CASE UNCHANGED vars
  BY <1>0, <1>13 DEF vars, TypeOK
<1> QED
  BY <1>1, <1>2, <1>3, <1>4, <1>5, <1>6, <1>7, <1>8, <1>9, <1>10, <1>11, <1>12,
     <1>13 DEF Next, Work, Pump
-----------------------------------------------------------------------------
LEMMA StagesStep == SessionInv /\ [Next]_vars => Stages'
<1> SUFFICES ASSUME SessionInv, [Next]_vars PROVE Stages'
  OBVIOUS
<1>0. TypeOK /\ Stages
  BY DEF SessionInv
<1>1. CASE Handshake
  BY <1>0, <1>1 DEF Handshake, TurnAway, LetIn, Connect, ConnectFails, Stages,
     handshakeVars, Waiting, Stopped
<1>2. CASE ReceiveChunk \/ ReceiveConfig
  BY <1>0, <1>2 DEF ReceiveChunk, ReceiveConfig, Stages
<1>3. CASE ReceiveNonObject \/ Close
  <2>1. CASE Leave
    BY <2>1 DEF Leave, Stages
  <2>2. CASE CloseUpstream \/ CloseClient
    <3>1. /\ phase \in {"closing", "closing client"} /\ phase' \in {"closing client", "closed"}
          /\ worker' = worker /\ pump' = pump
      BY <2>2 DEF CloseUpstream, CloseClient
    <3> QED
      BY <1>0, <3>1 DEF Stages
  <2> QED
    BY <1>3, <2>1, <2>2 DEF ReceiveNonObject, Close, ReceiveDisconnect
<1>4. CASE Work
  <2>1. phase = "open" /\ phase' = phase /\ pump' = pump
    BY <1>0, <1>4, WorkerStates DEF Work, Take, NoTranscript, Echo, Forward,
       ForwardReturns, Raise, Report, At, Stages, sessionVars, Stopped
  <2>2. worker' # Stopped
    BY <1>4 DEF Work, Take, NoTranscript, Echo, Forward, ForwardReturns, Raise, Report,
       Goto, Finish, Waiting, Stopped
  <2> QED
    BY <2>1, <2>2 DEF Stages
<1>5. CASE TranslatorAnswers \/ Pump \/ ClientDrops \/ UpstreamDrops
  BY <1>0, <1>5 DEF TranslatorAnswers, Pump, PassOn, PumpEnds, ClientDrops,
     UpstreamDrops, Stages, handshakeVars
<1>6. CASE UNCHANGED vars
  BY <1>0, <1>6 DEF vars, Stages
<1> QED
  BY <1>1, <1>2, <1>3, <1>4, <1>5, <1>6 DEF Next

-----------------------------------------------------------------------------
LEMMA InOrderStep == SessionInv /\ [Next]_vars => InOrder'
<1> SUFFICES ASSUME SessionInv, [Next]_vars PROVE InOrder'
  OBVIOUS
<1>0. TypeOK /\ InOrder /\ Stages
  BY DEF SessionInv
<1>a. spoken \in Nat /\ Len(queue) \in Nat
  BY <1>0, LenProperties DEF TypeOK
<1>b. DOMAIN queue = 1 .. Len(queue) /\ queue \in Seq(Chunk) /\ Len(queue) <= QueueSize
  BY <1>0, LenProperties DEF TypeOK
<1>c. /\ shown \in Seq(Chunk) /\ DOMAIN shown = 1 .. Len(shown) /\ Len(shown) \in Nat
      /\ \A i \in DOMAIN shown : shown[i] \in Nat
  BY <1>0, LenProperties, BoundsAssumption DEF TypeOK, Chunk
<1>d. settled \subseteq Nat /\ \A c \in settled : c <= spoken - Len(queue)
  BY <1>0, <1>a DEF TypeOK, InOrder, BacklogIsFreshest
<1>e. \A i \in 1 .. Len(queue) : queue[i] = spoken - Len(queue) + i
  BY <1>0, <1>b DEF InOrder, BacklogIsFreshest
<1>f. worker \in Working => worker.chunk \in Nat
  BY <1>0, WorkerStates, BoundsAssumption DEF Chunk
<1>2. CASE ReceiveChunk
  <2>1. spoken' = spoken + 1 /\ spoken < MaxChunks
    BY <1>2 DEF ReceiveChunk
  <2>2. spoken' \in Chunk
    BY <1>a, <2>1, BoundsAssumption DEF Chunk
  <2>3. queue' = Put(queue, spoken') /\ worker' = worker /\ shown' = shown
    BY <1>2 DEF ReceiveChunk
  <2>4. CASE Len(queue) = QueueSize
    <3>1. queue # << >> /\ Len(queue') = Len(queue) /\ queue' \in Seq(Chunk)
      BY <1>b, <2>2, <2>3, <2>4, PutKeepsNewest
    <3>2. \A i \in 1 .. Len(queue) - 1 : queue'[i] = queue[i + 1]
      BY <1>b, <2>2, <2>3, <2>4, PutKeepsNewest
    <3>3. queue'[Len(queue)] = spoken'
      BY <1>b, <2>2, <2>3, <3>1, PutKeepsNewest
    <3>4. Len(queue) > 0 /\ Head(queue) = queue[1]
      BY <1>b, <3>1, Dropped
    <3>5. Head(queue) = spoken - Len(queue) + 1
      BY <1>a, <1>e, <3>4
    <3>6. settled' = settled \cup {Head(queue)}
      BY <1>2, <2>4 DEF ReceiveChunk
    <3>7. DOMAIN queue' = 1 .. Len(queue)
      BY <3>1, LenProperties
    <3>8. spoken' - Len(queue') = spoken - Len(queue) + 1 /\ Len(queue') <= spoken'
      BY <1>0, <1>a, <2>1, <3>1 DEF InOrder
    <3>9. \A i \in DOMAIN queue' : queue'[i] = spoken' - Len(queue') + i
      <4> SUFFICES ASSUME NEW i \in 1 .. Len(queue)
                   PROVE  queue'[i] = spoken - Len(queue) + 1 + i
        BY <3>7, <3>8
      <4>1. CASE i = Len(queue)
        BY <1>a, <2>1, <3>3, <4>1
      <4>2. CASE i # Len(queue)
        <5>1. i \in 1 .. Len(queue) - 1 /\ i + 1 \in 1 .. Len(queue)
          BY <1>a, <4>2
        <5>2. queue'[i] = queue[i + 1]
          BY <3>2, <5>1
        <5> QED
          BY <1>a, <1>e, <5>1, <5>2
      <4> QED
        BY <4>1, <4>2
    <3>10. \A c \in settled' : c <= spoken' - Len(queue')
      BY <1>a, <1>d, <3>5, <3>6, <3>8
    <3>11. worker' \in Working => worker'.chunk <= spoken' - Len(queue')
      BY <1>0, <1>a, <1>f, <2>3, <3>8 DEF InOrder
    <3>12. \A i \in DOMAIN shown' : shown'[i] <= spoken' - Len(queue')
      BY <1>0, <1>a, <1>c, <2>3, <3>8 DEF InOrder
    <3> QED
      BY <1>0, <2>3, <3>8, <3>9, <3>10, <3>11, <3>12 DEF InOrder, BacklogIsFreshest, At
  <2>5. CASE Len(queue) # QueueSize
    <3>1. Len(queue') = Len(queue) + 1 /\ queue' \in Seq(Chunk)
      BY <1>b, <2>2, <2>3, <2>5, PutKeepsNewest
    <3>2. \A i \in 1 .. Len(queue) : queue'[i] = queue[i]
      BY <1>b, <2>2, <2>3, <2>5, PutKeepsNewest
    <3>3. queue'[Len(queue) + 1] = spoken'
      BY <1>b, <2>2, <2>3, <3>1, PutKeepsNewest
    <3>4. settled' = settled
      BY <1>2, <2>5 DEF ReceiveChunk
    <3>5. DOMAIN queue' = 1 .. Len(queue) + 1
      BY <3>1, LenProperties
    <3>6. spoken' - Len(queue') = spoken - Len(queue) /\ Len(queue') <= spoken'
      BY <1>0, <1>a, <2>1, <3>1 DEF InOrder
    <3>7. \A i \in DOMAIN queue' : queue'[i] = spoken' - Len(queue') + i
      <4> SUFFICES ASSUME NEW i \in 1 .. Len(queue) + 1
                   PROVE  queue'[i] = spoken - Len(queue) + i
        BY <3>5, <3>6
      <4>1. CASE i = Len(queue) + 1
        BY <1>a, <2>1, <3>3, <4>1
      <4>2. CASE i # Len(queue) + 1
        <5>1. i \in 1 .. Len(queue)
          BY <1>a, <4>2
        <5> QED
          BY <1>e, <3>2, <5>1
      <4> QED
        BY <4>1, <4>2
    <3> QED
      BY <1>0, <2>3, <3>4, <3>6, <3>7 DEF InOrder, BacklogIsFreshest, At
  <2> QED
    BY <2>4, <2>5
<1>3. CASE Take
  <2>1. queue # << >> /\ queue' = Tail(queue)
    BY <1>3 DEF Take
  <2>2. Len(queue) > 0 /\ Len(queue') = Len(queue) - 1 /\ Head(queue) = queue[1]
    BY <1>b, <2>1, Dropped
  <2>3. /\ DOMAIN queue' = 1 .. Len(queue) - 1
        /\ \A i \in 1 .. Len(queue) - 1 : queue'[i] = queue[i + 1]
    BY <1>b, <2>1, Dropped
  <2>4. Head(queue) = spoken - Len(queue) + 1
    BY <1>a, <1>e, <2>2
  <2>5. /\ worker'.chunk = Head(queue) /\ worker'.pc = "posting"
        /\ spoken' = spoken /\ shown' = shown /\ settled' = settled
    BY <1>3 DEF Take, Goto
  <2>6. spoken' - Len(queue') = spoken - Len(queue) + 1 /\ Len(queue') <= spoken'
    BY <1>0, <1>a, <2>2, <2>5 DEF InOrder
  <2>7. \A i \in DOMAIN queue' : queue'[i] = spoken' - Len(queue') + i
    <3> SUFFICES ASSUME NEW i \in 1 .. Len(queue) - 1
                 PROVE  queue'[i] = spoken - Len(queue) + 1 + i
      BY <2>3, <2>6
    <3>1. i + 1 \in 1 .. Len(queue)
      BY <1>a
    <3>2. queue'[i] = queue[i + 1]
      BY <2>3
    <3> QED
      BY <1>a, <1>e, <3>1, <3>2
  <2>8. \A c \in settled' : c <= spoken' - Len(queue')
    BY <1>a, <1>d, <2>5, <2>6
  <2>9. \A i \in DOMAIN shown' : /\ shown'[i] <= spoken' - Len(queue')
                                 /\ shown'[i] < worker'.chunk
    BY <1>0, <1>a, <1>c, <2>4, <2>5, <2>6 DEF InOrder
  <2>10. worker'.chunk <= spoken' - Len(queue')
    BY <1>a, <2>4, <2>5, <2>6
  <2> QED
    BY <2>6, <2>7, <2>8, <2>9, <2>10 DEF InOrder, BacklogIsFreshest
<1>4. CASE Echo
  <2>1. worker \in Working /\ worker.chunk \in Chunk
    BY <1>0, <1>4, WorkerStates DEF Echo, At
  <2>2. /\ shown' = Append(shown, worker.chunk)
        /\ worker'.pc = "echoing" /\ worker'.chunk = worker.chunk
        /\ spoken' = spoken /\ queue' = queue /\ settled' = settled
    BY <1>4 DEF Echo, Goto, sessionVars
  <2>3. /\ DOMAIN shown' = 1 .. Len(shown) + 1 /\ shown'[Len(shown) + 1] = worker.chunk
        /\ \A i \in DOMAIN shown : shown'[i] = shown[i]
    BY <1>c, <2>1, <2>2, Appended
  <2>4. \A i \in DOMAIN shown' : shown'[i] <= spoken - Len(queue)
    BY <1>0, <1>a, <1>c, <2>1, <2>3 DEF InOrder
  <2> QED
    BY <1>0, <2>1, <2>2, <2>4 DEF InOrder, BacklogIsFreshest, At
<1>5. CASE NoTranscript \/ ForwardReturns \/ Report
  <2>1. worker \in Working
    BY <1>0, <1>5, WorkerStates DEF NoTranscript, ForwardReturns, Report, At
  <2>2. /\ worker' = Waiting /\ settled' = settled \cup {worker.chunk}
        /\ spoken' = spoken /\ queue' = queue /\ shown' = shown
    BY <1>5 DEF NoTranscript, ForwardReturns, Report, Finish, sessionVars
  <2> QED
    BY <1>0, <2>1, <2>2 DEF InOrder, BacklogIsFreshest, At, Working, Waiting
<1>6. CASE Forward \/ Raise
  <2>1. worker \in Working
    BY <1>0, <1>6, WorkerStates DEF Forward, Raise, At
  <2>2. /\ worker'.chunk = worker.chunk /\ worker'.pc \in {"forwarding", "failing"}
        /\ spoken' = spoken /\ queue' = queue /\ shown' = shown /\ settled' = settled
    BY <1>6 DEF Forward, Raise, Goto, sessionVars
  <2> QED
    BY <1>0, <2>1, <2>2 DEF InOrder, BacklogIsFreshest, At
<1>7. CASE UNCHANGED <<spoken, queue, shown, settled>> /\ worker' \in {worker, Waiting, Stopped}
  BY <1>0, <1>7 DEF InOrder, BacklogIsFreshest, At, Working, Waiting, Stopped
<1>8. \/ ReceiveChunk \/ Work
      \/ UNCHANGED <<spoken, queue, shown, settled>> /\ worker' \in {worker, Waiting, Stopped}
  BY DEF Next, Handshake, TurnAway, LetIn, Connect, ConnectFails, ReceiveConfig,
     ReceiveNonObject, Leave, Pump, PassOn, PumpEnds, Close, ReceiveDisconnect,
     CloseUpstream, CloseClient, TranslatorAnswers, ClientDrops, UpstreamDrops,
     handshakeVars, vars
<1> QED
  BY <1>2, <1>3, <1>4, <1>5, <1>6, <1>7, <1>8 DEF Work

-----------------------------------------------------------------------------
LEMMA NumberedStep == SessionInv /\ [Next]_vars => Numbered'
<1> SUFFICES ASSUME SessionInv, [Next]_vars PROVE Numbered'
  OBVIOUS
<1>0. TypeOK /\ Numbered /\ Stages
  BY DEF SessionInv
<1>1. /\ seq \in Nat /\ Len(sent) \in Nat /\ DOMAIN sent = 1 .. Len(sent)
      /\ sent \in Seq(Request)
  BY <1>0, LenProperties DEF TypeOK
<1>u. Len(unread) \in Nat /\ DOMAIN unread = 1 .. Len(unread) /\ unread \in Seq(Nat)
  BY <1>0, LenProperties DEF TypeOK
<1>v. /\ \A i \in DOMAIN unread : unread[i] \in DOMAIN sent /\ unread[i] \notin translated
      /\ \A i, j \in DOMAIN unread : unread[i] = unread[j] => i = j
      /\ \A i \in DOMAIN sent : sent[i].id = i
  BY <1>0 DEF Numbered
<1>2. CASE Connect
  BY <1>0, <1>2, EmptySeq DEF Connect, Stages, Numbered, handshakeVars
<1>3. CASE Forward
  <2>1. worker \in Working /\ worker.chunk \in Chunk
    BY <1>0, <1>3, WorkerStates DEF Forward, At
  <2>2. CASE upstream
    <3> DEFINE e == [id |-> seq + 1, chunk |-> worker.chunk, lang |-> lang]
    <3>1. e \in Request /\ e.id = seq + 1
      BY <1>0, <1>1, <2>1 DEF TypeOK, Request
    <3>2. /\ seq' = seq + 1 /\ sent' = Append(sent, e) /\ Len(sent) = seq
          /\ unread' = unread /\ translated' = translated
      BY <1>0, <1>3, <2>2 DEF Forward, TargetLang, sessionVars, Numbered
    <3> HIDE DEF e
    <3>3. /\ Len(sent') = Len(sent) + 1 /\ DOMAIN sent' = 1 .. Len(sent) + 1
          /\ \A i \in DOMAIN sent : sent'[i] = sent[i]
          /\ sent'[Len(sent) + 1] = e
      BY <1>1, <3>1, <3>2, Appended
    <3>4. \A i \in DOMAIN sent' : sent'[i].id = i
      BY <1>0, <1>1, <3>1, <3>2, <3>3 DEF Numbered
    <3>5. DOMAIN sent \subseteq DOMAIN sent'
      BY <1>1, <3>3
    <3> QED
      BY <1>0, <1>1, <3>2, <3>3, <3>4, <3>5 DEF Numbered
  <2>3. CASE ~ upstream
    <3>1. /\ seq' = seq + 1 /\ sent' = sent /\ ~ upstream'
          /\ unread' = unread /\ translated' = translated
      BY <1>3, <2>3 DEF Forward, sessionVars
    <3>2. Len(sent) <= seq
      BY <1>0 DEF Numbered
    <3>3. Len(sent') <= seq'
      BY <1>1, <3>1, <3>2
    <3> QED
      BY <1>0, <3>1, <3>3 DEF Numbered
  <2> QED
    BY <2>2, <2>3
<1>4. CASE TranslatorAnswers
  <2>1. PICK n \in DOMAIN sent \ Answered : unread' = Append(unread, sent[n].id)
    BY <1>4 DEF TranslatorAnswers
  <2>2. sent[n].id = n /\ n \in Nat
    BY <1>1, <1>v
  <2>3. n \notin translated /\ \A i \in DOMAIN unread : unread[i] # n
    BY <2>1 DEF Answered
  <2>4. /\ DOMAIN unread' = 1 .. Len(unread) + 1
        /\ \A i \in DOMAIN unread : unread'[i] = unread[i]
        /\ unread'[Len(unread) + 1] = n
    BY <1>u, <2>1, <2>2, Appended
  <2>a. \A i \in DOMAIN unread' : i \in DOMAIN unread \/ i = Len(unread) + 1
    BY <1>u, <2>4
  <2>5. UNCHANGED <<seq, sent, translated, upstream>>
    BY <1>4 DEF TranslatorAnswers
  <2>6. \A i \in DOMAIN unread' : unread'[i] \in DOMAIN sent /\ unread'[i] \notin translated
    BY <1>v, <2>1, <2>3, <2>4, <2>a
  <2>7. \A i, j \in DOMAIN unread' : unread'[i] = unread'[j] => i = j
    BY <1>v, <2>3, <2>4, <2>a
  <2> QED
    BY <1>0, <2>5, <2>6, <2>7 DEF Numbered
<1>5. CASE PassOn
  <2>1. /\ Len(unread) > 0 /\ Head(unread) = unread[1]
        /\ DOMAIN unread' = 1 .. Len(unread) - 1
        /\ \A i \in 1 .. Len(unread) - 1 : unread'[i] = unread[i + 1]
    BY <1>u, <1>5, Dropped DEF PassOn
  <2>2. /\ translated' = translated \cup {unread[1]}
        /\ UNCHANGED <<seq, sent, upstream>>
    BY <1>5, <2>1 DEF PassOn
  <2>a. 1 \in DOMAIN unread /\ \A i \in DOMAIN unread' : i + 1 \in DOMAIN unread /\ i + 1 # 1
    BY <1>u, <2>1
  <2>3. unread[1] \in DOMAIN sent
    BY <1>v, <2>a
  <2>4. ASSUME NEW i \in DOMAIN unread'
        PROVE  unread'[i] \in DOMAIN sent /\ unread'[i] \notin translated'
    <3>1. unread'[i] = unread[i + 1]
      BY <2>1
    <3>2. unread[i + 1] # unread[1] /\ unread[i + 1] \in DOMAIN sent
          /\ unread[i + 1] \notin translated
      BY <1>v, <2>a
    <3> QED
      BY <2>2, <3>1, <3>2
  <2>5. \A i, j \in DOMAIN unread' : unread'[i] = unread'[j] => i = j
    <3> SUFFICES ASSUME NEW i \in DOMAIN unread', NEW j \in DOMAIN unread',
                        unread'[i] = unread'[j]
                 PROVE  i = j
      OBVIOUS
    <3>1. i + 1 \in DOMAIN unread /\ j + 1 \in DOMAIN unread /\ i \in Nat /\ j \in Nat
      BY <1>u, <2>1
    <3>2. unread[i + 1] = unread[j + 1]
      BY <2>1
    <3>3. i + 1 = j + 1
      BY <1>v, <3>1, <3>2
    <3> QED
      BY <3>1, <3>3
  <2> QED
    BY <1>0, <2>2, <2>3, <2>4, <2>5 DEF Numbered
<1>6. CASE UNCHANGED <<seq, sent, unread, translated>> /\ (upstream' => upstream)
  BY <1>0, <1>6 DEF Numbered
<1>7. \/ Connect \/ Forward \/ TranslatorAnswers \/ PassOn
      \/ UNCHANGED <<seq, sent, unread, translated>> /\ (upstream' => upstream)
  BY DEF Next, Handshake, TurnAway, LetIn, ConnectFails, ReceiveChunk, ReceiveConfig,
     ReceiveNonObject, Leave, Pump, PumpEnds, Close, ReceiveDisconnect, CloseUpstream,
     CloseClient, Work, Take, NoTranscript, Echo, ForwardReturns, Raise, Report,
     Finish, ClientDrops, UpstreamDrops, handshakeVars, sessionVars, vars
<1> QED
  BY <1>2, <1>3, <1>4, <1>5, <1>6, <1>7

-----------------------------------------------------------------------------
LEMMA AlignedStep == SessionInv /\ [Next]_vars => Aligned'
<1> SUFFICES ASSUME SessionInv, [Next]_vars PROVE Aligned'
  OBVIOUS
<1>0. TypeOK /\ Aligned /\ Stages
  BY DEF SessionInv
<1>1. /\ sent \in Seq(Request) /\ shown \in Seq(Chunk)
      /\ Len(sent) \in Nat /\ DOMAIN sent = 1 .. Len(sent)
      /\ Len(shown) \in Nat /\ DOMAIN shown = 1 .. Len(shown)
  BY <1>0, LenProperties DEF TypeOK
<1>a. Len(sent) <= Len(shown)
  BY <1>0 DEF Aligned
<1>2. CASE Connect
  BY <1>0, <1>2, EmptySeq DEF Connect, Stages, Aligned, At, Waiting, handshakeVars
<1>3. CASE Echo
  <2>1. worker # Stopped /\ ~ At("echoing") /\ worker.chunk \in Chunk /\ client
    BY <1>0, <1>3, WorkerStates DEF Echo, At
  <2>2. /\ shown' = Append(shown, worker.chunk) /\ sent' = sent
        /\ worker'.pc = "echoing" /\ worker'.chunk = worker.chunk
        /\ upstream' = upstream
    BY <1>3 DEF Echo, Goto, sessionVars
  <2>3. /\ Len(shown') = Len(shown) + 1 /\ shown'[Len(shown) + 1] = worker.chunk
        /\ \A i \in DOMAIN shown : shown'[i] = shown[i]
    BY <1>1, <2>1, <2>2, Appended
  <2>4. upstream => Len(shown) = Len(sent)
    BY <1>0, <2>1 DEF Aligned
  <2>5. \A i \in DOMAIN sent : sent[i].chunk = shown'[i]
    <3>1. DOMAIN sent \subseteq DOMAIN shown
      BY <1>1, <1>a
    <3> QED
      BY <1>0, <2>3, <3>1 DEF Aligned
  <2>6. At("echoing")'
    BY <2>2 DEF At
  <2>7. Len(sent) <= Len(shown')
    BY <1>1, <1>a, <2>3
  <2>8. upstream' => Len(shown') = Len(sent') + 1 /\ shown'[Len(shown')] = worker'.chunk
    BY <2>2, <2>3, <2>4
  <2> QED
    BY <2>2, <2>5, <2>6, <2>7, <2>8 DEF Aligned
<1>4. CASE Forward
  <2>1. At("echoing") /\ worker.chunk \in Chunk
    BY <1>0, <1>4, WorkerStates DEF Forward, At
  <2>2. shown' = shown /\ upstream' = upstream /\ worker'.pc # "echoing"
    BY <1>4 DEF Forward, Goto, sessionVars
  <2>3. CASE upstream
    <3> DEFINE e == [id |-> seq + 1, chunk |-> worker.chunk, lang |-> lang]
    <3>1. e \in Request /\ e.chunk = worker.chunk
      BY <1>0, <2>1 DEF TypeOK, Request
    <3>2. sent' = Append(sent, e)
      BY <1>4, <2>3 DEF Forward, TargetLang
    <3> HIDE DEF e
    <3>3. /\ Len(sent') = Len(sent) + 1 /\ DOMAIN sent' = 1 .. Len(sent) + 1
          /\ \A i \in DOMAIN sent : sent'[i] = sent[i]
          /\ sent'[Len(sent) + 1] = e
      BY <1>1, <3>1, <3>2, Appended
    <3>4. Len(shown) = Len(sent) + 1 /\ shown[Len(shown)] = worker.chunk
      BY <1>0, <2>1, <2>3 DEF Aligned
    <3>5. ASSUME NEW i \in DOMAIN sent' PROVE sent'[i].chunk = shown'[i]
      <4>1. i \in DOMAIN sent \/ i = Len(sent) + 1
        BY <1>1, <3>3
      <4> QED
        BY <1>0, <2>2, <3>1, <3>3, <3>4, <4>1 DEF Aligned
    <3> QED
      BY <1>1, <2>2, <3>3, <3>4, <3>5 DEF Aligned, At
  <2>4. CASE ~ upstream
    BY <1>0, <1>4, <2>2, <2>4 DEF Forward, Aligned, At
  <2> QED
    BY <2>3, <2>4
<1>5. CASE Take \/ NoTranscript \/ ForwardReturns \/ Raise \/ Report
  <2>1. /\ UNCHANGED <<sent, shown, client, upstream>>
        /\ worker # Stopped /\ worker'.pc # "echoing"
    BY <1>0, <1>5, WorkerStates DEF Take, NoTranscript, ForwardReturns, Raise, Report,
       At, Goto, Finish, Waiting, sessionVars
  <2>2. At("echoing") => ~ client
    BY <1>5 DEF Take, NoTranscript, ForwardReturns, Raise, Report, At
  <2> QED
    BY <1>0, <2>1, <2>2 DEF Aligned, At
<1>6. CASE /\ UNCHANGED <<sent, shown>> /\ worker' \in {worker, Stopped}
           /\ upstream' => upstream
           /\ client' => client
  BY <1>0, <1>6 DEF Aligned, At, Stopped
<1>7. \/ Connect \/ Work
      \/ /\ UNCHANGED <<sent, shown>> /\ worker' \in {worker, Stopped}
         /\ upstream' => upstream
         /\ client' => client
  BY DEF Next, Handshake, TurnAway, LetIn, ConnectFails, ReceiveChunk, ReceiveConfig,
     ReceiveNonObject, Leave, Pump, PassOn, PumpEnds, Close, ReceiveDisconnect,
     CloseUpstream, CloseClient, TranslatorAnswers, ClientDrops, UpstreamDrops,
     handshakeVars, vars
<1> QED
  BY <1>2, <1>3, <1>4, <1>5, <1>6, <1>7 DEF Work

-----------------------------------------------------------------------------
LEMMA LanguagesStep == SessionInv /\ [Next]_vars => Languages'
<1> SUFFICES ASSUME SessionInv, [Next]_vars PROVE Languages'
  OBVIOUS
<1> USE BoundsAssumption
<1>0. TypeOK /\ Languages /\ InOrder
  BY DEF SessionInv
<1>1. /\ sent \in Seq(Request) /\ Len(sent) \in Nat /\ DOMAIN sent = 1 .. Len(sent)
      /\ spoken \in Nat /\ lang \in Nat
  BY <1>0, LenProperties DEF TypeOK
<1>a. \A i \in DOMAIN sent : sent[i].chunk \in Nat \ {0} /\ sent[i].lang \in Nat
  <2>1. \A i \in DOMAIN sent : sent[i] \in Request
    BY <1>1, ElementOfSeq
  <2> QED
    BY <2>1 DEF Request, Chunk
<1>b. langAt \in Seq(0 .. MaxConfigs) /\ Len(langAt) = spoken /\ DOMAIN langAt = 1 .. spoken
  BY <1>0, LenProperties DEF TypeOK
<1>c. \A i \in DOMAIN langAt : langAt[i] \in Nat
  <2>1. \A i \in DOMAIN langAt : langAt[i] \in 0 .. MaxConfigs
    BY <1>b, ElementOfSeq
  <2> QED
    BY <2>1
<1>d. \A i \in DOMAIN sent : sent[i].chunk \in 1 .. spoken
  BY <1>0, <1>1, <1>a DEF Languages
<1>2. CASE ReceiveChunk
  <2>1. /\ spoken' = spoken + 1 /\ langAt' = Append(langAt, lang)
        /\ sent' = sent /\ lang' = lang
    BY <1>2 DEF ReceiveChunk
  <2>2. /\ DOMAIN langAt' = 1 .. spoken + 1 /\ langAt'[spoken + 1] = lang
        /\ \A i \in 1 .. spoken : langAt'[i] = langAt[i]
    <3>1. lang \in 0 .. MaxConfigs
      BY <1>0 DEF TypeOK
    <3> QED
      BY <1>b, <2>1, <3>1, Appended
  <2>3. \A i \in DOMAIN langAt' : langAt'[i] <= lang
    <3>1. \A i \in DOMAIN langAt' : i \in 1 .. spoken \/ i = spoken + 1
      BY <1>1, <2>2
    <3> QED
      BY <1>0, <1>1, <1>b, <2>2, <3>1 DEF Languages
  <2>5. LanguageNeverReverts'
    BY <1>0, <1>d, <2>1, <2>2 DEF Languages, LanguageNeverReverts
  <2>6. \A i \in DOMAIN sent : sent[i].chunk <= spoken'
    BY <1>1, <1>a, <1>d, <2>1
  <2> QED
    BY <1>0, <2>1, <2>3, <2>5, <2>6 DEF Languages
<1>3. CASE ReceiveConfig
  BY <1>0, <1>1, <1>a, <1>c, <1>3 DEF ReceiveConfig, Languages, LanguageNeverReverts
<1>4. CASE Forward
  <2>1. /\ worker.chunk \in Chunk /\ worker.chunk \in Nat
        /\ worker.chunk <= spoken - Len(queue)
    BY <1>0, <1>4, WorkerStates DEF Forward, At, InOrder, Chunk
  <2>2. worker.chunk \in 1 .. spoken
    BY <1>0, <1>1, <2>1, LenProperties DEF Chunk, TypeOK
  <2>3. UNCHANGED <<lang, spoken, langAt>>
    BY <1>4 DEF Forward, sessionVars
  <2>4. CASE upstream
    <3> DEFINE e == [id |-> seq + 1, chunk |-> worker.chunk, lang |-> lang]
    <3>1. e \in Request /\ e.chunk = worker.chunk /\ e.lang = lang
      BY <1>0, <2>1 DEF TypeOK, Request
    <3>2. sent' = Append(sent, e)
      BY <1>4, <2>4 DEF Forward, TargetLang
    <3> HIDE DEF e
    <3>3. /\ DOMAIN sent' = 1 .. Len(sent) + 1
          /\ \A i \in DOMAIN sent : sent'[i] = sent[i]
          /\ sent'[Len(sent) + 1] = e
      BY <1>1, <3>1, <3>2, Appended
    <3>4. \A i \in DOMAIN sent' : sent'[i].chunk <= spoken /\ sent'[i].lang <= lang
      BY <1>0, <1>1, <2>2, <3>1, <3>3 DEF Languages
    <3>5. ASSUME NEW i \in DOMAIN sent' PROVE langAt[sent'[i].chunk] <= sent'[i].lang
      <4>1. i \in DOMAIN sent \/ i = Len(sent) + 1
        BY <1>1, <3>3
      <4>2. langAt[worker.chunk] <= lang
        BY <1>0, <1>b, <2>2 DEF Languages
      <4> QED
        BY <1>0, <3>1, <3>3, <4>1, <4>2 DEF Languages, LanguageNeverReverts
    <3>6. ASSUME NEW i \in DOMAIN sent', i > 1
          PROVE  sent'[i - 1].lang <= sent'[i].lang
      <4>1. CASE i \in DOMAIN sent
        <5>1. i - 1 \in DOMAIN sent
          BY <1>1, <3>6, <4>1
        <5> QED
          BY <1>0, <3>3, <3>6, <4>1, <5>1 DEF Languages, LanguageNeverReverts
      <4>2. CASE i = Len(sent) + 1
        <5>1. i - 1 \in DOMAIN sent
          BY <1>1, <3>6, <4>2
        <5> QED
          BY <1>0, <3>1, <3>3, <4>2, <5>1 DEF Languages
      <4> QED
        BY <1>1, <3>3, <4>1, <4>2
    <3> QED
      BY <1>0, <2>3, <3>4, <3>5, <3>6 DEF Languages, LanguageNeverReverts
  <2>5. CASE ~ upstream
    BY <1>0, <1>4, <2>3, <2>5 DEF Forward, Languages, LanguageNeverReverts
  <2> QED
    BY <2>4, <2>5
<1>5. CASE UNCHANGED <<lang, spoken, langAt, sent>>
  BY <1>0, <1>5 DEF Languages, LanguageNeverReverts
<1>6. ReceiveChunk \/ ReceiveConfig \/ Forward \/ UNCHANGED <<lang, spoken, langAt, sent>>
  BY DEF Next, Handshake, TurnAway, LetIn, Connect, ConnectFails, ReceiveNonObject,
     Leave, Pump, PassOn, PumpEnds, Close, ReceiveDisconnect, CloseUpstream,
     CloseClient, Work, Take, NoTranscript, Echo, ForwardReturns, Raise, Report,
     Finish, TranslatorAnswers, ClientDrops, UpstreamDrops, handshakeVars,
     sessionVars, vars
<1> QED
  BY <1>2, <1>3, <1>4, <1>5, <1>6

-----------------------------------------------------------------------------
LEMMA SessionStep == SessionInv /\ [Next]_vars => SessionInv'
BY TypeStep, StagesStep, InOrderStep, NumberedStep, AlignedStep, LanguagesStep
DEF SessionInv

(* The invariant all the others follow from. *)
THEOREM SessionInvHolds == Spec => []SessionInv
BY InitialSession, SessionStep, PTL DEF Spec

(* Every variable keeps its type; the queue never outgrows its maxsize     *)
(* (chatbot.py:774), the numbers of translations never run ahead.          *)
THEOREM TypeCorrect == Spec => []TypeOK
<1>1. SessionInv => TypeOK
  BY DEF SessionInv
<1> QED
  BY <1>1, SessionInvHolds, PTL

(* "fresh audio matters more than stale chunks" (chatbot.py:770-774): the  *)
(* backlog is the latest speech without a gap, however the queue sheds.    *)
THEOREM FreshestIsKept == Spec => []BacklogIsFreshest
<1>1. SessionInv => BacklogIsFreshest
  BY DEF SessionInv, InOrder
<1> QED
  BY <1>1, SessionInvHolds, PTL

(* No chunk is translated into a language the client had left before it    *)
(* spoke, and no translation goes back to an earlier choice                *)
(* (chatbot.py:736-744, 817).                                              *)
THEOREM LanguageOnlyMovesOn == Spec => []LanguageNeverReverts
<1>1. SessionInv => LanguageNeverReverts
  BY DEF SessionInv, Languages
<1> QED
  BY <1>1, SessionInvHolds, PTL

-----------------------------------------------------------------------------
(* Which chunks were asked for, as a sequence. *)
AskedMatches ==
  /\ Asked \in Seq(Chunk) /\ Len(Asked) = Len(sent) /\ Len(sent) \in Nat
  /\ DOMAIN sent = 1 .. Len(sent)
  /\ DOMAIN Asked = 1 .. Len(sent)
  /\ \A i \in DOMAIN sent : Asked[i] = sent[i].chunk

LEMMA AskedIsSequence == TypeOK => AskedMatches
<1> SUFFICES ASSUME TypeOK PROVE AskedMatches
  OBVIOUS
<1>1. /\ sent \in Seq(Request) /\ Len(sent) \in Nat /\ DOMAIN sent = 1 .. Len(sent)
      /\ \A i \in DOMAIN sent : sent[i] \in Request
  BY LenProperties, ElementOfSeq DEF TypeOK
<1>2. Asked \in [1 .. Len(sent) -> Chunk]
  BY <1>1 DEF Asked, Request
<1>3. Asked \in Seq(Chunk)
  BY <1>1, <1>2, SeqDef
<1>4. DOMAIN Asked = 1 .. Len(Asked) /\ Len(Asked) \in Nat
  BY <1>3, LenProperties
<1>5. 1 .. Len(Asked) = 1 .. Len(sent)
  BY <1>2, <1>4
<1>6. Len(Asked) = Len(sent)
  <2>1. \A m, n \in Nat : 1 .. m = 1 .. n => m <= n
    OBVIOUS
  <2>2. Len(Asked) <= Len(sent) /\ Len(sent) <= Len(Asked)
    BY <1>1, <1>4, <1>5, <2>1
  <2>3. Len(Asked) \in Nat /\ Len(sent) \in Nat
    BY <1>1, <1>4
  <2> QED
    BY <2>2, <2>3
<1> QED
  BY <1>1, <1>2, <1>3, <1>6 DEF Asked, AskedMatches

(* Every step of a session is one of the promise, or none. *)
LEMMA SubtitleStep ==
  ASSUME SessionInv, SessionInv', [Next]_vars
  PROVE  [S!Next]_(S!vars)
<1>0. TypeOK /\ InOrder /\ Numbered /\ Aligned /\ Stages /\ TypeOK'
  BY DEF SessionInv
<1>1. CASE ReceiveChunk
  <2>1. /\ spoken < MaxChunks /\ spoken' = spoken + 1
        /\ shown' = shown /\ sent' = sent /\ translated' = translated
    BY <1>1 DEF ReceiveChunk
  <2>2. Asked' = Asked
    BY <2>1 DEF Asked
  <2> QED
    BY <2>1, <2>2 DEF S!Next, S!Speak
<1>2. CASE Echo
  <2>1. worker \in Working /\ worker.chunk \in Chunk
    BY <1>0, <1>2, WorkerStates DEF Echo, At
  <2>2. worker.chunk \in 1 .. spoken
    <3>1. worker.chunk \in Nat \ {0} /\ worker.chunk <= spoken - Len(queue)
      BY <1>0, <2>1, BoundsAssumption DEF InOrder, Chunk
    <3>2. spoken \in Nat /\ Len(queue) \in Nat
      BY <1>0, LenProperties DEF TypeOK
    <3> QED
      BY <3>1, <3>2
  <2>3. \A i \in DOMAIN shown : shown[i] < worker.chunk
    BY <1>0, <1>2 DEF Echo, InOrder
  <2>4. /\ shown' = Append(shown, worker.chunk)
        /\ spoken' = spoken /\ sent' = sent /\ translated' = translated
    BY <1>2 DEF Echo, sessionVars
  <2>5. Asked' = Asked
    BY <2>4 DEF Asked
  <2> QED
    BY <2>2, <2>3, <2>4, <2>5 DEF S!Next, S!Show
<1>3. CASE Forward /\ upstream
  <2>1. worker.chunk \in Chunk /\ At("echoing")
    BY <1>0, <1>3, WorkerStates DEF Forward, At
  <2>2. Len(shown) = Len(sent) + 1 /\ shown[Len(shown)] = worker.chunk
    BY <1>0, <1>3, <2>1 DEF Aligned
  <2> DEFINE e == [id |-> seq + 1, chunk |-> worker.chunk, lang |-> lang]
  <2>3. e \in Request /\ e.chunk = worker.chunk
    BY <1>0, <2>1 DEF TypeOK, Request
  <2>4. /\ sent' = Append(sent, e)
        /\ spoken' = spoken /\ shown' = shown /\ translated' = translated
    BY <1>3 DEF Forward, TargetLang, sessionVars
  <2> HIDE DEF e
  <2>5. sent \in Seq(Request)
    BY <1>0 DEF TypeOK
  <2>6. /\ Len(sent') = Len(sent) + 1 /\ sent'[Len(sent) + 1] = e
        /\ DOMAIN sent' = 1 .. Len(sent) + 1
        /\ \A i \in DOMAIN sent : sent'[i] = sent[i]
    BY <2>3, <2>4, <2>5, Appended
  <2>7. /\ Asked \in Seq(Chunk) /\ Len(Asked) = Len(sent) /\ Len(sent) \in Nat
        /\ DOMAIN Asked = 1 .. Len(sent) /\ DOMAIN sent = 1 .. Len(sent)
        /\ \A i \in DOMAIN sent : Asked[i] = sent[i].chunk
    BY <1>0, AskedIsSequence DEF AskedMatches
  <2>8. /\ Asked' \in Seq(Chunk) /\ Len(Asked') = Len(sent')
        /\ \A i \in DOMAIN sent' : Asked'[i] = sent'[i].chunk
    <3>1. AskedMatches'
      BY <1>0, AskedIsSequence, PTL
    <3> QED
      BY <3>1 DEF AskedMatches
  <2> DEFINE extended == Append(Asked, worker.chunk)
  <2>9. /\ extended \in Seq(Chunk) /\ Len(extended) = Len(sent) + 1
        /\ \A i \in 1 .. Len(sent) : extended[i] = Asked[i]
        /\ extended[Len(sent) + 1] = worker.chunk
    BY <2>1, <2>7, Appended
  <2> HIDE DEF extended
  <2>10. ASSUME NEW i \in 1 .. Len(sent) + 1 PROVE Asked'[i] = extended[i]
    <3>1. i \in 1 .. Len(sent) \/ i = Len(sent) + 1
      BY <2>7
    <3> QED
      BY <2>3, <2>6, <2>7, <2>8, <2>9, <3>1
  <2>11. Asked' = extended
    BY <2>6, <2>8, <2>9, <2>10, SeqEqual
  <2>12. Len(Asked) < Len(shown) /\ shown[Len(Asked) + 1] = worker.chunk
    BY <2>2, <2>7
  <2> QED
    BY <2>4, <2>11, <2>12 DEF S!Next, S!Ask, extended
<1>4. CASE PassOn
  <2>1. /\ unread \in Seq(Nat) /\ unread # << >> /\ translated' = translated \cup {Head(unread)}
        /\ spoken' = spoken /\ shown' = shown /\ sent' = sent
    BY <1>0, <1>4 DEF PassOn, TypeOK
  <2>2. Head(unread) = unread[1] /\ 1 \in DOMAIN unread
    BY <2>1, Dropped, LenProperties
  <2>3. Head(unread) \in DOMAIN sent /\ Head(unread) \notin translated
    BY <1>0, <2>2 DEF Numbered
  <2>4. Asked' = Asked /\ DOMAIN Asked = DOMAIN sent
    BY <2>1 DEF Asked
  <2> QED
    BY <2>1, <2>3, <2>4 DEF S!Next, S!Translate
<1>5. CASE UNCHANGED <<spoken, shown, sent, translated>>
  <2>1. Asked' = Asked
    BY <1>5 DEF Asked
  <2> QED
    BY <1>5, <2>1 DEF S!vars
<1>6. \/ ReceiveChunk \/ Echo \/ PassOn
      \/ Forward /\ upstream
      \/ UNCHANGED <<spoken, shown, sent, translated>>
  <2>1. CASE Work
    BY <2>1 DEF Work, Take, NoTranscript, Forward, ForwardReturns, Raise, Report, Finish,
       sessionVars
  <2>2. CASE ~ Work
    BY <2>2 DEF Next, Handshake, TurnAway, LetIn, Connect, ConnectFails, ReceiveConfig,
       ReceiveNonObject, Leave, Pump, PumpEnds, Close, ReceiveDisconnect, CloseUpstream,
       CloseClient, TranslatorAnswers, ClientDrops, UpstreamDrops, handshakeVars, vars
  <2> QED
    BY <2>1, <2>2
<1> QED
  BY <1>1, <1>2, <1>3, <1>4, <1>5, <1>6

(* "transcripts (and their seq ids) then stay in speech order"             *)
(* (chatbot.py:769-772): a session is a stream of subtitles, in which the  *)
(* n-th translation is for the n-th transcript and comes after it.         *)
THEOREM SessionImplementsSubtitles == Spec => ImplementsSubtitles
<1>1. Init => S!Init
  <2> SUFFICES ASSUME Init PROVE S!Init
    OBVIOUS
  <2>1. TypeOK
    BY InitialSession DEF SessionInv
  <2>2. sent = << >> /\ Len(sent) = 0
    BY EmptySeq DEF Init
  <2>3. Asked \in Seq(Chunk) /\ Len(Asked) = 0
    BY <2>1, <2>2, AskedIsSequence DEF AskedMatches
  <2>4. Asked = << >>
    BY <2>3, EmptySeq
  <2> QED
    BY <2>4 DEF Init, S!Init
<1>2. SessionInv /\ SessionInv' /\ [Next]_vars => [S!Next]_(S!vars)
  BY SubtitleStep
<1> QED
  BY <1>1, <1>2, SessionInvHolds, PTL DEF Spec, ImplementsSubtitles, S!Spec
=============================================================================
