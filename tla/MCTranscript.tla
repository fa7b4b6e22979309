---------------------------- MODULE MCTranscript ----------------------------
EXTENDS Transcript
=============================================================================
