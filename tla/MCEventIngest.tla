--------------------------- MODULE MCEventIngest ---------------------------
(* A message event, an event of another type and one without the token,    *)
(* served by two handlers that are interchangeable.                        *)
EXTENDS EventIngest, TLC

CONSTANTS msg, other, forged

HandlerSymmetry == Permutations(Handlers)

=============================================================================
