--------------------------- MODULE MCEnvelopeCodec ---------------------------
(* Instances of EnvelopeCodec for TLC. *)
EXTENDS EnvelopeCodec

CONSTANTS s1, s2

(* Two well-formed Schema fingerprints. *)
TwoSchemas == {Digest(s1), Digest(s2)}
=============================================================================
