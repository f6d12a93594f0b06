--------------------------- MODULE MCTextToSpeech ---------------------------
(* Model values for the runs of TextToSpeech. *)
EXTENDS TextToSpeech

CONSTANTS u1, u2, x1, x2, h1, h2
=============================================================================
