---------------------------- MODULE MCTranscript ----------------------------
(***************************************************************************)
(* A session of a few runs for TLC.                                        *)
(***************************************************************************)
EXTENDS Transcript

=============================================================================
