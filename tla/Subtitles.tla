------------------------------ MODULE Subtitles ------------------------------
(***************************************************************************)
(* What live subtitles promise.  Speech comes in chunks.  Some chunks get  *)
(* a transcript, in the order they were spoken; transcripts are handed to  *)
(* the translator in that order, none skipped, so that the n-th request is *)
(* for the n-th transcript; and a translation follows its transcript.      *)
(* VoiceTranslate is shown to implement it.                                *)
(***************************************************************************)
EXTENDS Naturals, Sequences

CONSTANT MaxChunks   \* bound: chunks of speech

VARIABLES
  spoken,      \* how many chunks have been spoken
  shown,       \* the chunks whose transcript was shown, in that order
  asked,       \* the chunks given to the translator, in that order
  translated   \* the requests whose translation was shown

vars == <<spoken, shown, asked, translated>>

Init ==
  /\ spoken = 0
  /\ shown = << >>
  /\ asked = << >>
  /\ translated = {}

Speak ==
  /\ spoken < MaxChunks
  /\ spoken' = spoken + 1
  /\ UNCHANGED <<shown, asked, translated>>

Show ==
  /\ \E c \in 1 .. spoken :
       /\ \A i \in DOMAIN shown : shown[i] < c
       /\ shown' = Append(shown, c)
  /\ UNCHANGED <<spoken, asked, translated>>

Ask ==
  /\ Len(asked) < Len(shown)
  /\ asked' = Append(asked, shown[Len(asked) + 1])
  /\ UNCHANGED <<spoken, shown, translated>>

Translate ==
  /\ \E n \in DOMAIN asked \ translated : translated' = translated \cup {n}
  /\ UNCHANGED <<spoken, shown, asked>>

Next == Speak \/ Show \/ Ask \/ Translate

Spec == Init /\ [][Next]_vars
=============================================================================
