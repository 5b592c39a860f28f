---------------------------- MODULE MCIcsExpand -----------------------------
(***************************************************************************)
(* IcsExpand for TLC: a calendar of two years of three short months, in    *)
(* which an ordinal, a 5th of the month and a week across months are as    *)
(* rare as in a real one, and every rule of a few small families.          *)
(***************************************************************************)
EXTENDS IcsExpand

SmallCalendar == <<0, 4, 7, 12, 16, 19, 24>>

Base == [freq |-> "DAILY", interval |-> 1, until |-> None, count |-> 0,
         byDay |-> <<>>, byMonth |-> <<>>, byMonthDay |-> <<>>, bySetPos |-> <<>>]

On(ord, weekday) == [ord |-> ord, weekday |-> weekday]

\* Ends of a series and intervals, for every family.
Limited(rules) ==
  {[r EXCEPT !.interval = n, !.count = c, !.until = u] :
     r \in rules, n \in {1, 2, 3}, c \in {0, 3}, u \in {None, 17}}

Daily   == {Base}
Weekly  == {[Base EXCEPT !.freq = "WEEKLY", !.byDay = d] : d \in {<<>>, <<On(0, 1)>>, <<On(0, 2), On(0, 0)>>}}
Monthly ==
  {[Base EXCEPT !.freq = "MONTHLY", !.byDay = d, !.bySetPos = p] :
     d \in {<<>>, <<On(1, 0)>>, <<On(-1, 1)>>, <<On(2, 2)>>, <<On(0, 0), On(0, 2)>>}, p \in {<<>>, <<2>>, <<-1>>}}
  \cup {[Base EXCEPT !.freq = "MONTHLY", !.byMonthDay = d, !.bySetPos = p] :
     d \in {<<-1>>, <<5>>, <<4, 2>>}, p \in {<<>>, <<2>>}}
Yearly ==
  {[Base EXCEPT !.freq = "YEARLY", !.byMonth = m] : m \in {<<>>, <<1, 3>>}}
  \cup {[Base EXCEPT !.freq = "YEARLY", !.byMonth = m, !.byDay = d] :
     m \in {<<2>>, <<1, 3>>}, d \in {<<On(-1, 0)>>, <<On(0, 1)>>}}

Understood == Limited(Daily \cup Weekly \cup Monthly \cup Yearly)

\* A part twice, in another order than the calendar's, or one the code leaves out.
Twice == Limited({[Base EXCEPT !.freq = "MONTHLY", !.byMonthDay = <<5, -1>>],
                  [Base EXCEPT !.freq = "YEARLY", !.byMonth = <<3, 1>>]})
Unfollowed == Limited({[Base EXCEPT !.byDay = <<On(0, 0)>>],
                       [Base EXCEPT !.freq = "MONTHLY", !.byDay = <<On(0, 1)>>, !.byMonthDay = <<2>>]})

Plainly(rule, start) ==
  [rule |-> rule, start |-> start, cancelled |-> FALSE, exdates |-> {}, rdates |-> {}, overrides |-> <<>>]

\* Exclusions, additions and moved or cancelled occurrences: on a day of the series
\* before the window, in it, and on one that is none.
Edits(e) ==
  {e, [e EXCEPT !.exdates = {e.start}], [e EXCEPT !.exdates = {9, 10}, !.rdates = {10, 11, e.start}]}
  \cup {[e EXCEPT !.overrides = [d \in {o[1]} |-> o[2]]] : o \in {<<4, 12>>, <<9, Cancelled>>, <<11, 20>>}}

Singles(rules) == {<<e>> : e \in UNION {Edits(Plainly(r, d)) : r \in rules, d \in {0, 4, 11}}}
                  \cup {<<e>> : e \in Edits(Plainly(None, 9))}

UnderstoodFeeds == Singles(Understood)
ForwardFeeds    == {<<[Plainly(r, 4) EXCEPT !.overrides = [d \in {21} |-> 12]]>> : r \in Limited({Base})}
TwiceFeeds      == Singles(Twice)
UnfollowedFeeds == Singles(Unfollowed)

\* Three series that share a budget: one is too long for its allowance, and three
\* daily ones for that of the feed.
Neighbours ==
  {Plainly(None, 9), [Plainly(None, 9) EXCEPT !.rdates = 10..14],
   Plainly(Base, 0), [Plainly(Base, 0) EXCEPT !.cancelled = TRUE],
   Plainly([Base EXCEPT !.count = 3], 4), Plainly([Base EXCEPT !.freq = "HOURLY"], 4),
   Plainly([Base EXCEPT !.freq = "MONTHLY", !.byDay = <<On(0, 0), On(0, 1), On(0, 2)>>], 4),
   [Plainly([Base EXCEPT !.freq = "MONTHLY", !.byDay = <<On(0, 0)>>], 11) EXCEPT !.rdates = 12..13]}

NeighbourFeeds == {<<e, f, g>> : e \in Neighbours, f \in Neighbours, g \in Neighbours}

AllFeeds == UnderstoodFeeds \cup NeighbourFeeds

SmallWindows == {<<0, 20>>, <<8, 14>>, <<10, 11>>}
=============================================================================
