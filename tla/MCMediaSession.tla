--------------------------- MODULE MCMediaSession ---------------------------
(* One call leg in and one out, a speech synthesizer and a barge-in.        *)
EXTENDS MediaSession

MCInputs == <<"in">>
MCOutputs == <<"out">>
=============================================================================
