------------------------------ MODULE Calendar ------------------------------
(***************************************************************************)
(* The date functions of verify-v-engine.mjs (section 2) over the UTC      *)
(* calendar of ECMAScript.  An instant is the number of minutes since      *)
(* 1970; the seconds of a text are only what their own part reads.  A date *)
(* text is a record with the fields of the pattern it matches: "date" for  *)
(* YYYY-MM-DD, "datetime" for the longer one with a zone offset in         *)
(* minutes, "other" for a text that matches neither.                       *)
(***************************************************************************)
EXTENDS Integers

CONSTANT RollsDays  \* whether Date.parse takes day 30 of February as March

DayMinutes == 24 * 60

\* The Date object.
DayFromYear(y) == 365 * (y - 1970) + ((y - 1969) \div 4)
                    - ((y - 1901) \div 100) + ((y - 1601) \div 400)

Leap(y) == (y % 4 = 0 /\ y % 100 # 0) \/ y % 400 = 0

DaysBefore(y, month) ==
    LET cumulated == <<0, 31, 59, 90, 120, 151, 181, 212, 243, 273, 304, 334, 365>>
    IN  cumulated[month + 1] + (IF Leap(y) /\ month > 1 THEN 1 ELSE 0)

\* MakeDay: months beyond the year and days beyond the month run over.
MakeDay(y, month, date) ==
    LET year == y + (month \div 12)
    IN  DayFromYear(year) + DaysBefore(year, month % 12) + date - 1

DayOf(t) == t \div DayMinutes

YearOf(t) ==
    LET guess == 1970 + ((DayOf(t) * 400) \div 146097)
    IN  CHOOSE y \in (guess - 1)..(guess + 1) :
            DayFromYear(y) <= DayOf(t) /\ DayOf(t) < DayFromYear(y + 1)

MonthOf(t) ==
    LET y == YearOf(t)
    IN  CHOOSE m \in 0..11 :
            /\ DayFromYear(y) + DaysBefore(y, m) <= DayOf(t)
            /\ DayOf(t) < DayFromYear(y) + DaysBefore(y, m + 1)

DateOf(t) == DayOf(t) - MakeDay(YearOf(t), MonthOf(t), 1) + 1

At(t, day) == day * DayMinutes + (t % DayMinutes)
SetFullYear(t, y) == At(t, MakeDay(y, MonthOf(t), DateOf(t)))
SetMonth(t, m)    == At(t, MakeDay(YearOf(t), m, DateOf(t)))
SetDate(t, d)     == At(t, MakeDay(YearOf(t), MonthOf(t), d))

\* Date.UTC reads the years 0 to 99 as 1900 to 1999.
UTC(y, month, date) ==
    MakeDay(IF y \in 0..99 THEN 1900 + y ELSE y, month, date) * DayMinutes

\* Date.parse of the long form, which has two writings of midnight.
InRange(s) ==
    /\ s.month \in 1..12
    /\ s.day \in 1..31
    /\ RollsDays \/ s.day <= DaysBefore(s.year, s.month) - DaysBefore(s.year, s.month - 1)
    /\ s.hour \in 0..24 /\ s.minute \in 0..59 /\ s.second \in 0..59
    /\ s.hour = 24 => s.minute = 0 /\ s.second = 0

-----------------------------------------------------------------------------
(***************************************************************************)
(* The functions.  The empty set stands for null, {t} for the instant t.   *)
(***************************************************************************)
ParseIso(s) ==
    IF s.form = "date" THEN {UTC(s.year, s.month - 1, s.day)}
    ELSE IF s.form = "datetime" /\ InRange(s)
         THEN {MakeDay(s.year, s.month - 1, s.day) * DayMinutes
                 + s.hour * 60 + s.minute - s.offset}
         ELSE {}

DaysBetween(from, to) ==
    {(d2 - d1) \div DayMinutes : d1 \in ParseIso(from), d2 \in ParseIso(to)}

\* A month is left by its last day when the day does not exist in the other.
LastDayOfMonth(t) == DateOf(UTC(YearOf(t), MonthOf(t) + 1, 0))

AddYears(t, n) ==
    LET out == SetFullYear(t, YearOf(t) + n)
    IN  IF MonthOf(t) = 1 /\ DateOf(t) = 29 /\ MonthOf(out) # 1
        THEN SetDate(out, 0) ELSE out

\* Mutant: the month is set while the day may not exist in it.
AddMonthsRunsOver(t, n) == SetMonth(t, MonthOf(t) + n)

AddMonths(t, n) ==
    LET out  == SetMonth(SetDate(t, 1), MonthOf(t) + n)
        last == LastDayOfMonth(out)
    IN  SetDate(out, IF DateOf(t) < last THEN DateOf(t) ELSE last)

Shift(unit, t, n) ==
    CASE unit = "years"  -> AddYears(t, n)
      [] unit = "months" -> AddMonths(t, n)
      [] unit = "days"   -> SetDate(t, DateOf(t) + n)
      [] unit = "hours"  -> t + n * 60

\* amount is the set of the integer it converts to, or empty.
DateAdd(unit, base, amount) ==
    {Shift(unit, t, n) : t \in ParseIso(base), n \in amount}

\* The instant r is n months after t: the same time of the day, and the same
\* day or, where the month has none, its last.
LandsInMonth(r, t, n) ==
    /\ 12 * YearOf(r) + MonthOf(r) = 12 * YearOf(t) + MonthOf(t) + n
    /\ r % DayMinutes = t % DayMinutes
    /\ \/ DateOf(r) = DateOf(t)
       \/ DateOf(r) < DateOf(t) /\ DateOf(r + DayMinutes) = 1

\* 1970-01-01 was a Thursday; Sunday is 7.
DayOfWeek(t) ==
    LET day == (DayOf(t) + 4) % 7 IN IF day = 0 THEN 7 ELSE day

Part(unit, t) ==
    CASE unit = "year"        -> YearOf(t)
      [] unit = "month"       -> MonthOf(t) + 1
      [] unit = "day"         -> DateOf(t)
      [] unit = "hour"        -> (t % DayMinutes) \div 60
      [] unit = "minute"      -> t % 60
      [] unit = "day_of_week" -> DayOfWeek(t)

SecondsOf(s) == IF s.form = "date" THEN 0 ELSE s.second

DatePart(unit, s) ==
    {IF unit = "second" THEN SecondsOf(s) ELSE Part(unit, t) : t \in ParseIso(s)}

MonthLastDay(s) == {UTC(YearOf(t), MonthOf(t) + 1, 0) : t \in ParseIso(s)}
=============================================================================
