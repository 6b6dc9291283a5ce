--------------------------- MODULE MCConvDispatch ---------------------------
(* Model-checking instances of ConvDispatch: model values come from the .cfg. *)
EXTENDS ConvDispatch, TLC

CONSTANTS p1, p2, p3

Symmetric == Permutations(Msgs) \cup Permutations(Convs) \cup Permutations({p1, p2})
=============================================================================
