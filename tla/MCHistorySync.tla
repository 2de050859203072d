--------------------------- MODULE MCHistorySync ---------------------------
(* A group chat of two messages, one that may leave the window and one     *)
(* without a text, and a contact whose private chat holds one and has to   *)
(* be resolved first, which may fail.  Two runs meet over one source, one  *)
(* run works through both, or starts again.                                *)
EXTENDS HistorySync, TLC

CONSTANTS team, ann, teamRoom, annRoom, m1, m2, m3, hourly, web

MCRoomOf == (team :> teamRoom)
MCMatches == (ann :> annRoom)
MCItemsOf == (teamRoom :> {m1, m2}) @@ (annRoom :> {m3})

Starts(h, w) == (hourly :> h) @@ (web :> w)
MCScenarios ==
  {[selected |-> {team}, starts |-> Starts(1, 1)], [selected |-> {ann}, starts |-> Starts(1, 1)],
   [selected |-> {team, ann}, starts |-> Starts(1, 0)], [selected |-> {ann}, starts |-> Starts(2, 0)]}

=============================================================================
