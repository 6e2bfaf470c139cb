------------------------------ MODULE Calendar ------------------------------
(***************************************************************************)
(* Days and calendars of the reports: the Gregorian calendar of Python's     *)
(* datetime, on days numbered from 1 January 1, and the conversion of the    *)
(* Jalali dates an administrator types (bot_stats_service.py), with the      *)
(* Jalali calendar itself to compare it with.                               *)
(***************************************************************************)
EXTENDS Integers, FiniteSets

Date(y, m, d) == [y |-> y, m |-> m, d |-> d]

-----------------------------------------------------------------------------
(* datetime.date                                                           *)

Leap(y) == (y % 4 = 0 /\ y % 100 # 0) \/ y % 400 = 0
DaysIn(y, m) == CASE m = 2 -> IF Leap(y) THEN 29 ELSE 28
                  [] m \in {4, 6, 9, 11} -> 30
                  [] OTHER -> 31
\* The days of the year before its month m.
Before(y, m) == <<0, 31, 59, 90, 120, 151, 181, 212, 243, 273, 304, 334, 365>>[m]
                + IF m > 2 /\ Leap(y) THEN 1 ELSE 0

IsDate(t) == t.m \in 1..12 /\ t.d \in 1..DaysIn(t.y, t.m)
DayOf(t) == LET z == t.y - 1 IN
            365 * z + (z \div 4) - (z \div 100) + (z \div 400) + Before(t.y, t.m) + t.d
DateOf(day) ==
    LET y == CHOOSE x \in (day \div 366)..(day \div 365 + 1) :
                DayOf(Date(x, 1, 1)) <= day /\ day < DayOf(Date(x + 1, 1, 1))
        m == CHOOSE x \in 1..12 :
                DayOf(Date(y, x, 1)) <= day /\ day < DayOf(Date(y, x, 1)) + DaysIn(y, x)
    IN  Date(y, m, day - DayOf(Date(y, m, 1)) + 1)

-----------------------------------------------------------------------------
(* The Jalali calendar: six months of 31 days, five of 30 and one of 29, or  *)
(* 30 in the leap years of a cycle of 33.                                   *)

JalaliLeap(y) == y % 33 \in {1, 5, 9, 13, 17, 22, 26, 30}
IsJalali(t) ==
    /\ t.m \in 1..12
    /\ t.d \in 1..(IF t.m <= 6 THEN 31 ELSE IF t.m <= 11 \/ JalaliLeap(t.y) THEN 30 ELSE 29)

\* 1 Farvardin 1300 is 21 March 1921.
JalaliDay(t) ==
    DayOf(Date(1921, 3, 21)) + 365 * (t.y - 1300)
    + Cardinality({y \in 1300..t.y - 1 : JalaliLeap(y)})
    + (IF t.m <= 7 THEN 31 * (t.m - 1) ELSE 186 + 30 * (t.m - 7)) + t.d - 1

-----------------------------------------------------------------------------
(* bot_stats_service.py                                                    *)

\* jalali_to_gregorian: the days since year 0, then centuries, leap periods and years
\* taken off one after the other.
DaysSinceZero(t) ==
    LET jy == t.y + 1595 IN
    365 * jy - 355668 + (jy \div 33) * 8 + (((jy % 33) + 3) \div 4) + t.d
    + IF t.m < 7 THEN (t.m - 1) * 31 ELSE (t.m - 7) * 30 + 186

CenturyOf(era) == IF era > 36524 THEN (era - 1) \div 36524 ELSE 0
RestOf(era) ==
    LET r == (era - 1) % 36524 IN
    IF era > 36524 THEN IF r >= 365 THEN r + 1 ELSE r ELSE era

GregorianYear(days) ==
    LET era == days % 146097  four == RestOf(era) % 1461 IN
    400 * (days \div 146097) + 100 * CenturyOf(era) + 4 * (RestOf(era) \div 1461)
    + IF four > 365 THEN (four - 1) \div 365 ELSE 0
DayOfYear(days) ==
    LET four == RestOf(days % 146097) % 1461 IN
    1 + IF four > 365 THEN (four - 1) % 365 ELSE four

JalaliToGregorian(t) ==
    LET gy == GregorianYear(DaysSinceZero(t))
        gd == DayOfYear(DaysSinceZero(t))
        gm == CHOOSE m \in 1..12 : Before(gy, m) < gd /\ gd <= Before(gy, m + 1)
    IN  Date(gy, gm, gd - Before(gy, gm))

NoDay == 0

\* parse_jalali_date: years from 1500 on are Gregorian.  30 Esfand of a common year is
\* let through and becomes the day after.
ParseJalali(t) ==
    LET plausible == t.m \in 1..12 /\ t.d \in 1..(IF t.m <= 6 THEN 31 ELSE 30)
    IN  IF t.y >= 1500 THEN IF IsDate(t) THEN DayOf(t) ELSE NoDay
        ELSE IF plausible THEN DayOf(JalaliToGregorian(t)) ELSE NoDay

\* The day a typed date is the date of.
Real(t) == IF t.y >= 1500 THEN IsDate(t) ELSE IsJalali(t)
Meant(t) == IF t.y >= 1500 THEN DayOf(t) ELSE JalaliDay(t)
=============================================================================
