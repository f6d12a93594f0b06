--------------------------- MODULE MCSpeechToText ---------------------------
(* Model values for the runs of SpeechToText. *)
EXTENDS SpeechToText

CONSTANTS u1, u2, h1, h2
=============================================================================
