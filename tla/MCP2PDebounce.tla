--------------------------- MODULE MCP2PDebounce ---------------------------
(* Three messages of one conversation, so that a third can meet the timer  *)
(* the second left behind, one of another conversation, and one without a  *)
(* key.                                                                    *)
EXTENDS P2PDebounce, TLC

CONSTANTS a1, a2, a3, b1, x1, chatA, chatB

MCKeyOf == (a1 :> chatA) @@ (a2 :> chatA) @@ (a3 :> chatA) @@ (b1 :> chatB) @@ (x1 :> NoKey)

=============================================================================
