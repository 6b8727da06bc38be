-------------------------- MODULE MCVoiceProcessor --------------------------
EXTENDS VoiceProcessor

\* The configurations shipped under resource/, with and without alg_vad_enable.
ShippedConfigs == {[vt |-> TRUE, vad |-> v] : v \in BOOLEAN}

\* alg_vt_enable turned off, which the documentation offers.
NoVtConfig == {[vt |-> FALSE, vad |-> TRUE]}
=============================================================================
