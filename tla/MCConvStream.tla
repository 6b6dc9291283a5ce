---------------------------- MODULE MCConvStream ----------------------------
(* Model-checking instances of ConvStream. *)
EXTENDS ConvStream
=============================================================================
