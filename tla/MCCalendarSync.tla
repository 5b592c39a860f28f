--------------------------- MODULE MCCalendarSync ---------------------------
(***************************************************************************)
(* CalendarSync for TLC: occurrences and persons are interchangeable; the  *)
(* view leaves out what neither an action on rows nor the asks depend on.  *)
(***************************************************************************)
EXTENDS CalendarSync, TLC

Symmetry == Permutations(Key) \cup Permutations(Person)

AtHand(f) == IF fetch[f].at = "copy" THEN <<fetch[f].occs, fetch[f].until>> ELSE <<fetch[f].at>>

Unpaged == <<now, source, edits, rows, series, process, [f \in Fetcher |-> AtHand(f)], asks>>
=============================================================================
