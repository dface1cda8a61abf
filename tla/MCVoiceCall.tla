---------------------------- MODULE MCVoiceCall ----------------------------
EXTENDS VoiceCall
=============================================================================
