--------------------------- MODULE MCAudioRouting ---------------------------
(***************************************************************************)
(* AudioRouting with a phone, a microphone and one call that fails.        *)
(***************************************************************************)
EXTENDS AudioRouting
=============================================================================
