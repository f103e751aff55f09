---------------------------- MODULE MCMaskedReader ---------------------------
(* Instances of MaskedReader for TLC: empty frames, frames of less than one   *)
(* word and of up to three, with and without a suffix.                        *)
EXTENDS MaskedReader

MCFrameLens == 0 .. 24
MCChunkLens == 0 .. 24
=============================================================================
