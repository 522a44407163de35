-------------------------- MODULE TemporalPhrases --------------------------
(***************************************************************************)
(* The phrases TemporalNormalizer of analysis/temporal.rs resolves against *)
(* the moment of the reader: a phrase is a tuple of its kind and of its    *)
(* numbers, what it resolves to a span of dates or of local moments.       *)
(***************************************************************************)
EXTENDS Integers, Sequences

-----------------------------------------------------------------------------
\* Dates of the Gregorian calendar as the crates time and chrono give them: a
\* date is the number of days since the first of March of the year 0, months
\* count from 1 and weekdays from Monday, which is 0.  A moment is a number of
\* minutes, day * 1440 of UTC and on.

DayNumber(year, month, day) ==
  LET y == IF month <= 2 THEN year - 1 ELSE year IN
  365 * y + y \div 4 - y \div 100 + y \div 400
    + (153 * ((month + 9) % 12) + 2) \div 5 + day - 1

\* The year, month and day of a date.
Civil(date) ==
  LET era == date \div 146097
      ofEra == date % 146097
      y == (ofEra - ofEra \div 1460 + ofEra \div 36524 - ofEra \div 146096) \div 365
      ofYear == ofEra - (365 * y + y \div 4 - y \div 100)
      m == (5 * ofYear + 2) \div 153
      month == IF m < 10 THEN m + 3 ELSE m - 9
  IN [year |-> y + era * 400 + (IF month <= 2 THEN 1 ELSE 0),
      month |-> month,
      day |-> ofYear - (153 * m + 2) \div 5 + 1]

Weekday(date) == (date + 2) % 7

Midnight(date) == date * 1440

DateOf(moment) == moment \div 1440

\* add_months of analysis/temporal.rs.
AddMonths(year, month, delta) ==
  LET total == year * 12 + month - 1 + delta
  IN [year |-> total \div 12, month |-> (total % 12) + 1]

\* last_day_of_month of analysis/temporal.rs, and the last_day_in_month of
\* its users.
LastDay(year, month) ==
  LET next == AddMonths(year, month, 1)
  IN Civil(DayNumber(next.year, next.month, 1) - 1).day

StartOfWeek(date, weekStart) == date - ((Weekday(date) - weekStart) % 7)

NextWeekdayAfter(date, weekday) == date + 1 + ((weekday - Weekday(date + 1)) % 7)

PreviousWeekdayBefore(date, weekday) == date - 1 - ((Weekday(date - 1) - weekday) % 7)

NextWeekdayOnOrAfter(date, weekday) == date + ((weekday - Weekday(date)) % 7)

-----------------------------------------------------------------------------

Friday == 4
Sunday == 6
Monday == 0

Dates(from, to) == [kind |-> "dates", from |-> from, to |-> to]
On(date) == Dates(date, date)
Times(from, to) == [kind |-> "times", from |-> from, to |-> to]
At(date, hour, minute) == Times(Midnight(date) + 60 * hour + minute, Midnight(date) + 60 * hour + minute)
Unsupported == [kind |-> "error", from |-> 0, to |-> 0]

First(ym) == DayNumber(ym.year, ym.month, 1)
MonthOf(ym) == Dates(First(ym), DayNumber(ym.year, ym.month, LastDay(ym.year, ym.month)))
Months(date, delta) == AddMonths(Civil(date).year, Civil(date).month, delta)

\* Weeks of the reader start on Monday.
ThisWeekday(date, weekday) == StartOfWeek(date, Monday) + weekday
WeekFrom(date, offset) ==
  Dates(StartOfWeek(date, Monday) + 7 * offset, StartOfWeek(date, Monday) + 7 * offset + 6)

WeeksFromWeekday(date, weeks, weekday) ==
  IF weeks = 0 THEN ThisWeekday(date, weekday)
  ELSE IF weeks > 0 THEN NextWeekdayAfter(date, weekday) + 7 * (weeks - 1)
  ELSE PreviousWeekdayBefore(date, weekday) + 7 * (weeks + 1)

\* The day is cut to the length of the month.
MonthsAway(date, delta) ==
  LET ym == Months(date, delta)
      last == LastDay(ym.year, ym.month)
      day == Civil(date).day
  IN DayNumber(ym.year, ym.month, IF day < last THEN day ELSE last)

QuarterOf(year, quarter) ==
  Dates(DayNumber(year, 3 * quarter - 2, 1), DayNumber(year, 3 * quarter, LastDay(year, 3 * quarter)))

BusinessDay(date) == CHOOSE d \in date .. date + 2 :
  Weekday(d) < 5 /\ \A e \in date .. d - 1 : Weekday(e) >= 5

IsDate(year, month, day) == month \in 1 .. 12 /\ day \in 1 .. LastDay(year, month)

\* convert_hour: 0 .. 23, or -1 for an hour that does not exist.
Hour(hour, mark) ==
  CASE mark = "none" -> IF hour \in 0 .. 23 THEN hour ELSE -1
    [] mark # "none" /\ hour \notin 1 .. 12 -> -1
    [] mark = "am" /\ hour \in 1 .. 12 -> hour % 12
    [] mark = "pm" /\ hour \in 1 .. 12 -> (hour % 12) + 12

Clock(date, hour, mark) ==
  IF Hour(hour, mark) < 0 THEN Unsupported ELSE At(date, Hour(hour, mark), 0)

-----------------------------------------------------------------------------
\* resolve, one operator for every group of phrases.
DayPhrase(p, today) ==
  CASE p[1] = "days" -> On(today + p[2])
    [] p[1] = "weeks" -> On(today + 7 * p[2])
    [] p[1] = "weekday" -> On(WeeksFromWeekday(today, p[2], p[3]))
    [] p[1] = "week" -> WeekFrom(today, p[2])
    [] p[1] = "sunday after next" -> On(NextWeekdayAfter(today, Sunday) + 7)

MonthPhrase(p, today) ==
  CASE p[1] = "month" -> MonthOf(Months(today, p[2]))
    [] p[1] = "months" -> On(MonthsAway(today, p[2]))
    [] p[1] = "end of month" -> On(MonthOf(Months(today, 0)).to)
    [] p[1] = "start of next month" -> On(First(Months(today, 1)))
    [] p[1] = "first business day" -> On(BusinessDay(First(Months(today, 1))))
    [] p[1] = "quarter" -> QuarterOf(p[2], p[3])
    [] p[1] = "end of quarter" -> On(QuarterOf(Civil(today).year, p[2]).to)
    [] p[1] = "year" -> Dates(DayNumber(p[2], 1, 1), DayNumber(p[2], 12, 31))
    [] p[1] = "date" -> IF IsDate(p[2], p[3], p[4]) THEN On(DayNumber(p[2], p[3], p[4]))
                        ELSE Unsupported

\* The first Sunday of November at one is taken for the next change of the
\* clocks, and noon of a next weekday is a week later than that weekday.
ClockPhrase(p, now) ==
  LET today == DateOf(now) IN
  CASE p[1] = "minutes" -> Times(now + p[2], now + p[2])
    [] p[1] = "last hours" -> Times(now - 60 * p[2], now)
    [] p[1] = "morning" -> Times(Midnight(today) + 360, Midnight(today) + 719)
    [] p[1] = "midnight tomorrow" -> At(today + 1, 0, 0)
    [] p[1] = "dst change" -> At(NextWeekdayOnOrAfter(DayNumber(Civil(today).year, 11, 1), Sunday), 1, 0)
    [] p[1] = "today at" -> Clock(today, p[2], p[3])
    [] p[1] = "weekday at" -> Clock(NextWeekdayOnOrAfter(today, p[2]), p[3], p[4])
    [] p[1] = "next weekday at" -> Clock(NextWeekdayAfter(today, p[2]), p[3], p[4])
    [] p[1] = "noon next" -> At(NextWeekdayAfter(today, p[2]) + 7, 12, 0)

DayKinds == {"days", "weeks", "weekday", "week", "sunday after next"}
ClockKinds == {"minutes", "last hours", "morning", "midnight tomorrow", "dst change", "today at",
               "weekday at", "next weekday at", "noon next"}

Resolve(p, now) ==
  IF p[1] \in DayKinds THEN DayPhrase(p, DateOf(now))
  ELSE IF p[1] \in ClockKinds THEN ClockPhrase(p, now)
  ELSE MonthPhrase(p, DateOf(now))
=============================================================================
