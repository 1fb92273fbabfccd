---------------------------- MODULE CronSchedule ----------------------------
(***************************************************************************)
(* The next time a cron expression fires: its fields as they are read, and the  *)
(* search that runs through months, days, hours and minutes with one cursor       *)
(* (packages/automation/src/cron.ts).                                              *)
(*                                                                         *)
(* The calendar is a parameter, so that hours, days, months and years can be     *)
(* short; UTC has no other irregularity than the lengths of its months.  The       *)
(* minute the search starts after has lost its seconds.                             *)
(***************************************************************************)
EXTENDS Integers, Functions

CONSTANTS Hours, Minutes, WeekDays,  \* how many of them, from 0
          Months, MonthDays,         \* from 1; the length of month m of year y: MonthDays[y % Leap][m]
          Leap,                      \* years after which the lengths recur
          Terms,                     \* what may stand in each of the five fields
          Starts,                    \* days on which a search may start
          Horizon                    \* CRON_SCAN_HORIZON_DAYS, which counts turns of the loop

VARIABLES expression,  \* the fields, each a set of terms; no term for a lone star
          from,        \* the minute the search starts after
          cursor,      \* day, hour and minute
          turns,       \* of the loop
          answer       \* the minute it fires, in a set; empty after the last turn is null
cronVars == <<expression, from, cursor, turns, answer>>

-----------------------------------------------------------------------------
(* The calendar.  Days are numbered from the first one of year 0.               *)

Length(y, m) == MonthDays[y % Leap][m]

\* The first day of a year, and of a month, the one after the last as well.
YearLength(y) == FoldFunction(+, 0, MonthDays[y % Leap])
NewYear(y)    == FoldFunction(+, 0, [z \in 0 .. y - 1 |-> YearLength(z)])
First(y, m)   == NewYear(y) + FoldFunctionOnSet(+, 0, MonthDays[y % Leap], 1 .. m - 1)

Year(d)    == CHOOSE y \in 0 .. d : NewYear(y) <= d /\ d < NewYear(y + 1)
Month(d)   == CHOOSE m \in 1 .. Months : First(Year(d), m) <= d /\ d < First(Year(d), m + 1)
Day(d)     == d - First(Year(d), Month(d)) + 1
WeekDay(d) == d % WeekDays

At(d, h, m) == [day |-> d, hour |-> h, minute |-> m]
Earlier(s, t) == \/ s.day < t.day
                 \/ s.day = t.day /\ s.hour < t.hour
                 \/ s.day = t.day /\ s.hour = t.hour /\ s.minute < t.minute

MinutesOf(d) == {At(d, h, m) : h \in 0 .. Hours - 1, m \in 0 .. Minutes - 1}

-----------------------------------------------------------------------------
(* parseField.  A term is a star, one value or a range, with a step.             *)

Spec(f) == CASE f = "minute"     -> [min |-> 0, max |-> Minutes - 1]
             [] f = "hour"       -> [min |-> 0, max |-> Hours - 1]
             [] f = "dayOfMonth" -> [min |-> 1, max |-> 31]
             [] f = "month"      -> [min |-> 1, max |-> Months]
             [] f = "dayOfWeek"  -> [min |-> 0, max |-> WeekDays]

\* The day after the last of the week is the first.
Normal(f, v) == IF f = "dayOfWeek" /\ v = WeekDays THEN 0 ELSE v

Low(f, term)  == IF term.form = "star" THEN Spec(f).min ELSE term.lo
High(f, term) == CASE term.form = "star"  -> Spec(f).max
                   [] term.form = "one"   -> term.lo       \* whatever the step
                   [] term.form = "range" -> term.hi

Any(f) == expression[f] = {}
Values(f) == UNION {{Normal(f, v) : v \in {w \in Low(f, t) .. High(f, t) : (w - Low(f, t)) % t.step = 0}}
                    : t \in expression[f]}

Matches(f, v) == Any(f) \/ v \in Values(f)

\* Two restricted day fields are alternatives.
DayMatches(d) ==
  LET dom == Matches("dayOfMonth", Day(d))  dow == Matches("dayOfWeek", WeekDay(d))
  IN IF Any("dayOfMonth") \/ Any("dayOfWeek") THEN dom /\ dow ELSE dom \/ dow

-----------------------------------------------------------------------------
(* nextOccurrence.                                                          *)

\* Mutant: a day that does not match is left for the same time of the next.
SameTimeTomorrow(t) == At(t.day + 1, t.hour, t.minute)

NextDay(t)   == At(t.day + 1, 0, 0)
NextMonth(t) == At(First(Year(t.day), Month(t.day) + 1), 0, 0)

\* The minute after a minute.
After(t) ==
  IF t.minute + 1 < Minutes THEN At(t.day, t.hour, t.minute + 1)
  ELSE IF t.hour + 1 < Hours THEN At(t.day, t.hour + 1, 0) ELSE At(t.day + 1, 0, 0)

Init ==
  /\ expression \in [minute : Terms.minute, hour : Terms.hour, dayOfMonth : Terms.dayOfMonth,
                     month : Terms.month, dayOfWeek : Terms.dayOfWeek]
  /\ from \in UNION {MinutesOf(d) : d \in Starts}
  /\ cursor = After(from)
  /\ turns = 0 /\ answer = {}

\* A turn that goes on to a later day.
Skip(to) ==
  /\ cursor' = to /\ turns' = turns + 1
  /\ UNCHANGED <<expression, from, answer>>

Turn == answer = {} /\ turns < Horizon

SkipMonth == Turn /\ ~Matches("month", Month(cursor.day)) /\ Skip(NextMonth(cursor))

SkipDay ==
  /\ Turn /\ Matches("month", Month(cursor.day)) /\ ~DayMatches(cursor.day)
  /\ Skip(NextDay(cursor))

\* Hours from the cursor's on, and in its hour minutes from its own on.
Candidates ==
  {t \in MinutesOf(cursor.day) : /\ Matches("hour", t.hour) /\ Matches("minute", t.minute)
                                 /\ ~Earlier(t, cursor) /\ Earlier(from, t)}

TryDay ==
  /\ Turn /\ Matches("month", Month(cursor.day)) /\ DayMatches(cursor.day)
  /\ IF Candidates = {} THEN Skip(NextDay(cursor))
     ELSE /\ answer' = {t \in Candidates : \A u \in Candidates \ {t} : Earlier(t, u)}
          /\ UNCHANGED <<expression, from, cursor, turns>>

CronNext == SkipMonth \/ SkipDay \/ TryDay

CronSpec == Init /\ [][CronNext]_cronVars

-----------------------------------------------------------------------------
(* Properties.                                                              *)

\* What the expression means, of one minute.
Fires(t) ==
  /\ Matches("month", Month(t.day)) /\ DayMatches(t.day)
  /\ Matches("hour", t.hour) /\ Matches("minute", t.minute)

\* The minutes of a number of days that come after the start.
Upcoming(days) == {t \in UNION {MinutesOf(d) : d \in from.day .. from.day + days} : Earlier(from, t)}

\* The answer is the first minute after the start at which the expression fires:
\* the search, which resets its cursor at every change of day and month, passes none
\* over, and it gives up only on an expression that does not fire within the horizon,
\* however short the month or seldom the leap day.
FiresNext ==
  /\ answer = {} /\ turns = Horizon => \A t \in Upcoming(Horizon - 1) : ~Fires(t)
  /\ \A found \in answer :
       /\ Earlier(from, found) /\ Fires(found)
       /\ \A t \in Upcoming(found.day - from.day) : Earlier(t, found) => ~Fires(t)

=============================================================================
