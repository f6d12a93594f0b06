-------------------------- MODULE MCVoiceTranslate --------------------------
(* The instance of VoiceTranslate for TLC. *)
EXTENDS VoiceTranslate
=============================================================================
