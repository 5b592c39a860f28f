----------------------------- MODULE IcsExpand ------------------------------
(***************************************************************************)
(* Expanding the recurrences of a feed into occurrences within a window.   *)
(* The state is that of the loop over the VEVENTs, which share a budget of *)
(* enumeration steps; what one rule yields is an operator, and the series  *)
(* RFC 5545 gives it is a definition of its own, to compare with.          *)
(*                                                                         *)
(* Abstractions.  Time is a day number, day 0 the first of a week and of a *)
(* month; weeks, months and years are as long as the constants say, and    *)
(* the time of day, zones and durations are left out.  A VEVENT and the    *)
(* overrides of its series are one record; no two series share a UID.  The *)
(* texts of a rule are read already.                                       *)
(***************************************************************************)
EXTENDS Integers, Sequences, FiniteSets, SequencesExt, FiniteSetsExt

CONSTANTS
  Week,                    \* days of a week
  FirstOf,                 \* the first day of each month, and of the one after the last
  MonthsPerYear,
  MaxInterval, MaxCount,   \* maxInterval, maxCount
  EventSteps, FeedSteps,   \* maxEventSteps, maxFeedSteps
  None,                    \* no rule, no UNTIL; a step that yields no day
  Cancelled                \* an override that cancels its occurrence

CONSTANTS                  \* the inputs there are, a bound of the model
  Feeds, Windows

VARIABLES
  feed, window,            \* the arguments of Expand
  next,                    \* the VEVENT the loop is at
  allowance, feedLeft,     \* budget.event, budget.feed
  occs, skipped            \* its results, a VEVENT by its place in the feed

vars == <<feed, window, next, allowance, feedLeft, occs, skipped>>

Month == 1..(Len(FirstOf) - 1)
Day   == 0..(FirstOf[Len(FirstOf)] - 1)

MonthOf(d)    == CHOOSE k \in Month : FirstOf[k] <= d /\ d < FirstOf[k + 1]
DaysOf(k)     == {d \in Day : FirstOf[k] <= d /\ d < FirstOf[k + 1]}
WeekdayOf(d)  == d % Week
startOfISOWeek(d) == d - WeekdayOf(d)

Rule ==
  [freq: {"DAILY", "WEEKLY", "MONTHLY", "YEARLY", "HOURLY"}, interval: Nat \ {0},
   until: Day \cup {None}, count: Nat,
   byDay: Seq([ord: Int, weekday: 0..(Week - 1)]),
   byMonth: Seq(1..MonthsPerYear), byMonthDay: Seq(Int \ {0}), bySetPos: Seq(Int \ {0})]

Occurrence == [of: Nat \ {0}, key: Day, start: Day]

\* A VEVENT as it is parsed.
IsEvent(e) ==
  /\ e.rule = None \/ e.rule \in Rule
  /\ e.start \in Day /\ e.cancelled \in BOOLEAN
  /\ e.exdates \subseteq Day /\ e.rdates \subseteq Day
  /\ DOMAIN e.overrides \subseteq Day

ASSUME IcsAssumption ==
  /\ Week \in Nat \ {0} /\ MonthsPerYear \in Nat \ {0}
  /\ FirstOf \in Seq(Nat) /\ Len(FirstOf) > 1 /\ FirstOf[1] = 0
  /\ \A k \in Month : FirstOf[k] < FirstOf[k + 1]
  /\ EventSteps \in Nat /\ FeedSteps \in Nat
  /\ None \notin Day /\ None \notin Rule /\ Cancelled \notin Day
  /\ \A f \in Feeds : Len(f) \in Nat /\ DOMAIN f = 1..Len(f) /\ \A i \in 1..Len(f) : IsEvent(f[i])
  /\ Windows \subseteq Day \X Day

\* The calendar ends with a year.
ASSUME WholeYears == (Len(FirstOf) - 1) % MonthsPerYear = 0

TypeOK ==
  /\ \A i \in DOMAIN feed : IsEvent(feed[i])
  /\ next \in 1..(Len(feed) + 1)
  /\ allowance \in 0..EventSteps /\ feedLeft \in 0..FeedSteps
  /\ occs \in Seq(Occurrence)
  /\ \A i, j \in DOMAIN occs : i < j => occs[i].start <= occs[j].start
  /\ skipped \subseteq 1..(next - 1)

Init ==
  /\ feed \in Feeds /\ window \in Windows
  /\ next = 1 /\ allowance = EventSteps /\ feedLeft = FeedSteps
  /\ occs = <<>> /\ skipped = {}

-----------------------------------------------------------------------------
\* The steps of an enumeration: a day where add is called, None where the budget
\* alone is asked.

Ticks(n) == [i \in 1..n |-> None]

\* A set of numbers as a sequence.
InOrder(days) ==
  [i \in 1..Cardinality(days) |-> CHOOSE d \in days : Cardinality({c \in days : c <= d}) = i]

\* Every step-th of the numbers from first to last.
Every(first, step, last) == InOrder({d \in first..last : (d - first) % step = 0})

\* The round that notices the end asks the budget as well.
Rounds(rounds) == FlattenSeq(rounds) \o Ticks(1)

\* Where a daily walk begins: an interval before the window.
DailyFrom(anchor, interval, lower) ==
  LET i == (lower - anchor) \div interval - 1 IN anchor + (IF i < 0 THEN 0 ELSE i) * interval

DailySteps(e, lower, end) ==
  LET days == Every(DailyFrom(e.start, e.rule.interval, lower), e.rule.interval, end)
  IN Rounds([i \in DOMAIN days |-> <<None, days[i]>>])

Weekdays(e) ==
  IF e.rule.byDay = <<>> THEN {WeekdayOf(e.start)} ELSE {bd.weekday : bd \in ToSet(e.rule.byDay)}

WeeklySteps(e, lower, end) ==
  LET from == IF lower - e.start > Week THEN lower - Week ELSE e.start
      days == InOrder(from..end)
      week(d) == (startOfISOWeek(d) - startOfISOWeek(e.start)) \div Week
      on(d) == week(d) % e.rule.interval = 0 /\ WeekdayOf(d) \in Weekdays(e)
  IN Rounds([i \in DOMAIN days |-> IF on(days[i]) THEN <<None, days[i]>> ELSE <<None>>])

\* The pos-th of a sequence, from the end when negative.
Nth(s, pos) ==
  LET i == IF pos < 0 THEN Len(s) + pos + 1 ELSE pos
  IN IF i \in DOMAIN s THEN <<s[i]>> ELSE <<>>

\* The places of a sequence of numbers in the order of the numbers, equal ones as
\* they come.
Order(s) ==
  LET upTo(i) == {j \in DOMAIN s : s[j] < s[i] \/ (s[j] = s[i] /\ j <= i)}
  IN [k \in DOMAIN s |-> CHOOSE i \in DOMAIN s : Cardinality(upTo(i)) = k]

\* What a sequence has at some places, in the order of these.
At(s, places) == [k \in DOMAIN places |-> s[places[k]]]

\* Days as sort.Slice leaves them.
Sorted(days) == At(days, Order(days))

\* nthWeekday, or all of them.
ByDay(bd, k) ==
  LET matches == InOrder({d \in DaysOf(k) : WeekdayOf(d) = bd.weekday})
  IN IF bd.ord = 0 THEN matches ELSE Nth(matches, bd.ord)

\* The days of month k a rule selects, before BYSETPOS; a day may come twice.
Selected(e, k) ==
  LET r == e.rule
      day == e.start - FirstOf[MonthOf(e.start)] + 1
  IN CASE r.byDay # <<>> -> FlattenSeq([i \in DOMAIN r.byDay |-> ByDay(r.byDay[i], k)])
       [] r.byDay = <<>> /\ r.byMonthDay # <<>> ->
            FlattenSeq([i \in DOMAIN r.byMonthDay |-> Nth(InOrder(DaysOf(k)), r.byMonthDay[i])])
       [] OTHER -> Nth(InOrder(DaysOf(k)), day)

\* The budget monthCandidates asks for before any day is added.
SelectTicks(e, k) ==
  LET r == e.rule
      weekdays(bd) == 1 + IF bd.ord = 0 THEN Len(ByDay(bd, k)) ELSE 0
  IN Ticks(Len(r.bySetPos)) \o
     CASE r.byDay # <<>> -> FlattenSeq([i \in DOMAIN r.byDay |-> Ticks(weekdays(r.byDay[i]))])
       [] r.byDay = <<>> /\ r.byMonthDay # <<>> -> Ticks(Len(r.byMonthDay))
       [] OTHER -> Ticks(1)

\* BYSETPOS picks from the sorted days of the month.
Picked(pos, days) ==
  IF pos = <<>> THEN days ELSE Sorted(FlattenSeq([i \in DOMAIN pos |-> Nth(days, pos[i])]))

\* monthCandidates.
MonthSteps(e, k) == SelectTicks(e, k) \o Picked(e.rule.bySetPos, Sorted(Selected(e, k)))

\* The months of the calendar that begin by end, from one on.
MonthsFrom(k, step, end) == Every(k, step, Cardinality({l \in Month : FirstOf[l] <= end}))

MonthlySteps(e, end) ==
  LET months == MonthsFrom(MonthOf(e.start), e.rule.interval, end)
  IN Rounds([i \in DOMAIN months |-> <<None>> \o MonthSteps(e, months[i])])

\* The place of a month in its year, and the first month of its year.
PlaceInYear(k) == 1 + ((k - 1) % MonthsPerYear)
YearStart(k)   == k - PlaceInYear(k) + 1

YearlySteps(e, end) ==
  LET years  == MonthsFrom(YearStart(MonthOf(e.start)), e.rule.interval * MonthsPerYear, end)
      months == IF e.rule.byMonth = <<>> THEN <<PlaceInYear(MonthOf(e.start))>> ELSE e.rule.byMonth
      year(k) == FlattenSeq([j \in DOMAIN months |-> MonthSteps(e, k + months[j] - 1)])
  IN Rounds([i \in DOMAIN years |-> <<None>> \o year(years[i])])

\* Mutant of Lower: a counted series starts at the window, too.
LowerAtWindow(e, windowStart) == IF windowStart > e.start THEN windowStart ELSE e.start

\* A counted series is walked from its anchor.
Lower(e, windowStart) ==
  IF e.rule.count = 0 /\ windowStart > e.start THEN windowStart ELSE e.start

\* add, without a budget: COUNT ends the walk where it is met.
Counted(r, steps, added) ==
  LET enough == r.count > 0 /\ Len(added) >= r.count
  IN [starts |-> [i \in 1..(IF enough THEN r.count ELSE Len(added)) |-> steps[added[i]]],
      cost |-> IF enough THEN added[r.count] ELSE Len(steps)]

Walked(e, steps, end) ==
  Counted(e.rule, steps, InOrder({i \in DOMAIN steps : steps[i] # None /\ steps[i] \in e.start..end}))

Steps(e, lower, end) ==
  CASE e.rule.freq = "DAILY"   -> DailySteps(e, lower, end)
    [] e.rule.freq = "WEEKLY"  -> WeeklySteps(e, lower, end)
    [] e.rule.freq = "MONTHLY" -> MonthlySteps(e, end)
    [] e.rule.freq = "YEARLY"  -> YearlySteps(e, end)

\* expandRule without a budget: the starts, and the steps it took to get them.
ExpandRule(e, windowStart, windowEnd) ==
  LET until == e.rule.until
      end == IF until # None /\ until < windowEnd THEN until ELSE windowEnd
  IN Walked(e, Steps(e, Lower(e, windowStart), end), end)

-----------------------------------------------------------------------------
\* The loop of Expand.

\* parseRule: what it takes.
Parses(r) == r.freq # "HOURLY" /\ r.interval <= MaxInterval /\ r.count <= MaxCount

\* An override may move an occurrence from before the window into it.
WindowStart(e) == Min(DOMAIN e.overrides \cup {window[1]})

\* The starts of a VEVENT by its rule, or its only one.
RuleStarts(e) ==
  IF e.rule = None THEN [starts |-> <<e.start>>, cost |-> 0]
  ELSE ExpandRule(e, WindowStart(e), window[2])

\* RDATEs add to the series what it does not have.
WithRDates(e, starts) == starts \o InOrder(e.rdates \ ToSet(starts))

\* The steps a VEVENT takes in all.
Budgeted(e) == RuleStarts(e).cost + Cardinality(e.rdates)

\* The occurrences of VEVENT i, exclusions, overrides and the window applied.
Occurrences(i) ==
  LET e == feed[i]
      starts == WithRDates(e, RuleStarts(e).starts)
      moved(d) == IF d \in DOMAIN e.overrides THEN e.overrides[d] ELSE d
      keeps(d) == d \notin e.exdates /\ moved(d) # Cancelled /\ moved(d) \in window[1]..window[2]
      kept == At(starts, InOrder({k \in DOMAIN starts : keeps(starts[k])}))
  IN [k \in DOMAIN kept |-> [of |-> i, key |-> kept[k], start |-> moved(kept[k])]]

\* Mutant of NextEvent: the allowance of the last VEVENT is what is left.
NextEventShared == allowance

\* nextEvent: a fresh allowance, within what the feed has left.
NextEvent == EventSteps

Least(a, b) == IF a < b THEN a ELSE b

\* Whether the budget lasted.
Whole(cost, spent) == spent = cost

\* The results so far with those of another VEVENT.
Collected(new) ==
  LET all == occs \o new IN At(all, Order([k \in DOMAIN all |-> all[k].start]))

\* "cancelled in source", or a rule that is not understood.
Refused(e) == e.cancelled \/ (e.rule # None /\ ~Parses(e.rule))

\* A VEVENT that is skipped before anything is enumerated.
Skip ==
  /\ next <= Len(feed) /\ Refused(feed[next])
  /\ skipped' = skipped \cup {next} /\ next' = next + 1
  /\ allowance' = IF feed[next].cancelled THEN allowance ELSE NextEvent
  /\ UNCHANGED <<feed, window, feedLeft, occs>>

\* One that is enumerated at a cost, to its end or until the budget is gone.
Spend(cost, spent) ==
  /\ \E done \in {Whole(cost, spent)} :
       /\ occs' = IF done THEN Collected(Occurrences(next)) ELSE occs
       /\ skipped' = IF done THEN skipped ELSE skipped \cup {next}
  /\ allowance' = NextEvent - spent /\ feedLeft' = feedLeft - spent
  /\ next' = next + 1
  /\ UNCHANGED <<feed, window>>

Enumerate ==
  /\ next <= Len(feed) /\ ~Refused(feed[next])
  /\ \E cost \in {Budgeted(feed[next])} : Spend(cost, Least(cost, Least(NextEvent, feedLeft)))

Next == Skip \/ Enumerate

Spec == Init /\ [][Next]_vars

-----------------------------------------------------------------------------
\* The recurrence set of RFC 5545, by what belongs to it.

\* The months in which the period of a month lies that a rule looks at.
PeriodMonths(r, k) ==
  IF r.freq = "MONTHLY" THEN {k}
  ELSE {l \in Month : YearStart(l) = YearStart(k)}

\* Whether the parts of a rule that select days select day d of month k; the anchor
\* lies in month a.
Selects(e, d, k, a) ==
  LET r == e.rule
      front(bd) == Cardinality({c \in DaysOf(k) : c <= d /\ WeekdayOf(c) = bd.weekday})
      back(bd)  == Cardinality({c \in DaysOf(k) : c >= d /\ WeekdayOf(c) = bd.weekday})
      byDay == \E bd \in ToSet(r.byDay) : WeekdayOf(d) = bd.weekday /\ bd.ord \in {0, front(bd), -back(bd)}
      day == d - FirstOf[k] + 1
      byMonthDay == {day, d - FirstOf[k + 1]} \cap ToSet(r.byMonthDay) # {}
  IN /\ r.byDay # <<>> => byDay
     /\ r.byMonthDay # <<>> => byMonthDay
     /\ r.byMonth # <<>> => PlaceInYear(k) \in ToSet(r.byMonth)
     /\ r.byDay = <<>> /\ r.byMonthDay = <<>> /\ r.freq \in {"MONTHLY", "YEARLY"} =>
          day = e.start - FirstOf[a] + 1
     /\ r.byDay = <<>> /\ r.freq = "WEEKLY" => WeekdayOf(d) = WeekdayOf(e.start)
     /\ r.byMonth = <<>> /\ r.byDay = <<>> /\ r.byMonthDay = <<>> /\ r.freq = "YEARLY" =>
          PlaceInYear(k) = PlaceInYear(a)

Filters(e, d) == Selects(e, d, MonthOf(d), MonthOf(e.start))

\* Whether d lies in a period the interval does not leave out.
Aligned(e, d) ==
  LET r == e.rule
      periods == CASE r.freq = "DAILY"   -> d - e.start
                   [] r.freq = "WEEKLY"  -> (startOfISOWeek(d) - startOfISOWeek(e.start)) \div Week
                   [] r.freq = "MONTHLY" -> MonthOf(d) - MonthOf(e.start)
                   [] r.freq = "YEARLY"  -> (YearStart(MonthOf(d)) - YearStart(MonthOf(e.start))) \div MonthsPerYear
  IN periods % r.interval = 0

\* BYSETPOS: the place of d among the days of its period.
PlacedIn(pos, d, period) ==
  LET front == Cardinality({c \in period : c <= d})
      back  == Cardinality({c \in period : c >= d})
  IN pos # <<>> => {front, -back} \cap ToSet(pos) # {}

Placed(e, d) ==
  PlacedIn(e.rule.bySetPos, d,
           {c \in UNION {DaysOf(k) : k \in PeriodMonths(e.rule, MonthOf(d))} : Filters(e, c)})

\* COUNT and UNTIL end the set, which begins at the anchor.
Ended(r, all) ==
  {d \in all : /\ r.until # None => d <= r.until
               /\ r.count > 0 => Cardinality({c \in all : c <= d}) <= r.count}

Series(e) ==
  IF e.rule = None THEN {e.start}
  ELSE Ended(e.rule, {d \in Day : d >= e.start /\ Aligned(e, d) /\ Filters(e, d) /\ Placed(e, d)})

\* The occurrences an event has in the window.
Promised(i) ==
  LET e == feed[i]
      moved(d) == IF d \in DOMAIN e.overrides THEN e.overrides[d] ELSE d
  IN {[of |-> i, key |-> d, start |-> moved(d)] :
        d \in {c \in (Series(e) \cup e.rdates) \ e.exdates : moved(c) \in window[1]..window[2]}}

\* Given once by every part, and no part that the frequency leaves out.
OneSign(s) == (\A i \in DOMAIN s : s[i] > 0) \/ (\A i \in DOMAIN s : s[i] < 0)
Distinct(s) == \A i, j \in DOMAIN s : i < j => s[i] # s[j]

Plain(r) ==
  /\ r.freq = "DAILY" => r.byDay = <<>> /\ r.byMonth = <<>> /\ r.byMonthDay = <<>> /\ r.bySetPos = <<>>
  /\ r.freq = "WEEKLY" => r.byMonth = <<>> /\ r.byMonthDay = <<>> /\ r.bySetPos = <<>>
                          /\ \A i \in DOMAIN r.byDay : r.byDay[i].ord = 0
  /\ r.freq = "MONTHLY" => r.byMonth = <<>>
  /\ r.freq = "YEARLY" => /\ r.byMonth = <<>> => r.byDay = <<>> /\ r.byMonthDay = <<>>
                          /\ r.bySetPos # <<>> => Len(r.byMonth) = 1
  /\ r.byDay = <<>> \/ r.byMonthDay = <<>>

Unambiguous(r) ==
  /\ Distinct([i \in DOMAIN r.byDay |-> r.byDay[i].weekday])
  /\ OneSign(r.byMonthDay) /\ Distinct(r.byMonthDay)
  /\ OneSign(r.bySetPos) /\ Distinct(r.bySetPos)
  /\ \A i, j \in DOMAIN r.byMonth : i < j => r.byMonth[i] < r.byMonth[j]

-----------------------------------------------------------------------------
\* Properties.

\* The results that are of VEVENT i, by their places.
Given(i) == {k \in DOMAIN occs : occs[k].of = i}
Done     == (1..(next - 1)) \ skipped

\* An event has exactly the occurrences of its series, each once.
Expanded(i) ==
  /\ {occs[k] : k \in Given(i)} = Promised(i)
  /\ Cardinality(Given(i)) = Cardinality(Promised(i))

\* What the expansion is held to: no part of a rule is given twice, no override takes
\* an occurrence from beyond the window.
InScope(e) ==
  /\ e.rule # None => Plain(e.rule) /\ Unambiguous(e.rule)
  /\ \A d \in DOMAIN e.overrides : d <= window[2]

\* An event that is not reported as skipped has the occurrences of its series:
\* wherever the window lies, whatever was skipped on the way to it, with COUNT,
\* exclusions, additions and overrides (Expand: "COUNT and EXDATE stay correct even
\* when the anchor lies in the past").
ExpandsTheSeries == \A i \in Done : InScope(feed[i]) => Expanded(i)

\* One expensive series does not cost its neighbours theirs: an event that could be
\* enumerated alone is skipped only when the feed's budget is used up (nextEvent).
OwnAllowance ==
  \A i \in skipped : Refused(feed[i]) \/ Budgeted(feed[i]) > EventSteps \/ feedLeft = 0

\* "COUNT and EXDATE stay correct": the days a counted series is given are the first
\* COUNT of its series.
CountIsMet ==
  \A i \in Done :
    feed[i].rule # None /\ feed[i].rule.count > 0 /\ Plain(feed[i].rule) => {occs[k] : k \in Given(i)} = Promised(i)

\* "Expand turns parsed events into occurrences within [from, to]": also one that its
\* override brought forward from after the window.
BroughtForwardIsGiven ==
  \A i \in Done :
    feed[i].rule # None /\ Plain(feed[i].rule) /\ Unambiguous(feed[i].rule) => {occs[k] : k \in Given(i)} = Promised(i)

\* "An event or series the importer could not expand [is] surfaced to the operator":
\* a rule with a part the importer does not follow is not expanded as if it said less.
FollowedOrSkipped ==
  \A i \in Done :
    feed[i].rule # None /\ Unambiguous(feed[i].rule) => {occs[k] : k \in Given(i)} = Promised(i)
=============================================================================
