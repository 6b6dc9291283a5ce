--------------------------- MODULE MCConnections ----------------------------
(* Two users, one provider, two flows with overlapping callbacks. *)
EXTENDS Connections, TLC

CONSTANTS a, b

MCManifests == {{a}, {a, b}}
MCClaims == {{b}}
MCResponses == {[names |-> {}, sep |-> " "], [names |-> {b}, sep |-> " "],
                [names |-> {a, b}, sep |-> ","]}
MCSymmetry == Permutations(Owners) \cup Permutations(StateKeys)
              \cup Permutations(Codes) \cup Permutations(Callbacks)
=============================================================================
