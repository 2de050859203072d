-------------------------- MODULE MCKnowledgeIndex --------------------------
(* A day of three messages, which split into two overlapping pieces (or    *)
(* one, if the window of a build cuts the day), and another day of one.    *)
(* The last message of each may come late.                                 *)
EXTENDS KnowledgeIndex, TLC

CONSTANTS monday, tuesday, b1, b2

MCUnitOf == (1 :> monday) @@ (2 :> monday) @@ (3 :> monday) @@ (4 :> tuesday)

BuilderSymmetry == Permutations(Builders)

=============================================================================
