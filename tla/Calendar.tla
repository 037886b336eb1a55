------------------------------ MODULE Calendar ------------------------------
(***************************************************************************)
(* Dates (common/calendar.h, rtc_now() in kernel/time.c, gmtime_r() in     *)
(* userland/lib/time.c).  The kernel turns the date of the real-time clock *)
(* into days since 1970, the C library turns seconds back into a date.     *)
(* The state walks through the calendar one day at a time, by the rules of *)
(* the calendar and not by the code, and the code must agree on each day.  *)
(***************************************************************************)
EXTENDS Integers, Sequences, SequencesExt

CONSTANT StartYears,    \* years at whose last weeks a walk may begin
         WalkDays       \* bound: days in a walk

ASSUME CalendarAssumption == WalkDays \in Nat /\ StartYears \subseteq Nat

VARIABLES day,          \* the day, as [y, m, d], of the walk
          dayNumber,    \* its number, 1970-01-01 being 0
          weekday,      \* its day of the week, Sunday being 0
          walked        \* days walked so far

calendarVars == <<day, dayNumber, weekday, walked>>

(* is_leap_year(), days_in_year(), days_in_month(), day_of_year().         *)
IsLeapYearJulian(y) == y % 4 = 0

IsLeapYear(y) == y % 4 = 0 /\ (y % 100 # 0 \/ y % 400 = 0)

DaysInYear(y) == IF IsLeapYear(y) THEN 366 ELSE 365

MonthTable == <<31, 28, 31, 30, 31, 30, 31, 31, 30, 31, 30, 31>>

DaysInMonth(y, m) == IF m = 2 /\ IsLeapYear(y) THEN 29 ELSE MonthTable[m]

DaysBeforeMonth(y) ==
    LET f[m \in 1..13] == IF m = 1 THEN 0 ELSE f[m - 1] + DaysInMonth(y, m - 1)
    IN  f

DayOfYear(y, m, d) == d - 1 + DaysBeforeMonth(y)[m]

(* day_of_week(), Zeller's congruence.                                     *)
DayOfWeek(year, month, d) ==
    LET y == IF month <= 2 THEN year - 1 ELSE year
        m == IF month <= 2 THEN month + 12 ELSE month
    IN  (d + (13 * m + 8) \div 5 + y + y \div 4 - y \div 100 + y \div 400) % 7

(* days_since_epoch().                                                     *)
DaysSinceEpoch(y, m, d) ==
    LET years[k \in 1970..y] == IF k = 1970 THEN 0
                                ELSE years[k - 1] + DaysInYear(k - 1)
    IN  DayOfYear(y, m, d) + years[y]

(* rtc_now(): the registers of the real-time clock, in BCD or binary.  The *)
(* PM bit of a 12-hour clock is cut off before it is looked at.  The time  *)
(* is in seconds since 1970 (a time_t has 64 bits), kept here as days and  *)
(* the seconds of the last one.                                            *)
BcdToBin(b) == (b % 16) + (b \div 16) * 10

RtcNow(reg, binary, hours24) ==
    LET bin(b) == IF binary THEN b ELSE BcdToBin(b)
        h == IF binary THEN reg.hour ELSE BcdToBin(reg.hour % 128)
        hour == IF hours24 THEN h ELSE h % 12
    IN  [days |-> DaysSinceEpoch(2000 + bin(reg.y), bin(reg.m), bin(reg.d)),
         secs |-> (hour * 60 + bin(reg.min)) * 60 + bin(reg.sec)]

(* gmtime_r(): whole years are taken off, then whole months.               *)
GmtimeYear(days) ==
    LET f[y \in 1970..2200] ==
            [left |-> IF y = 1970 THEN days
                      ELSE f[y - 1].left - DaysInYear(y - 1)]
        y0 == CHOOSE y \in 1970..2200 :
                 /\ f[y].left < DaysInYear(y)
                 /\ \A z \in 1970..(y - 1) : f[z].left >= DaysInYear(z)
    IN  [y |-> y0, yday |-> f[y0].left]

GmtimeMonth(y, yday) ==
    LET before == DaysBeforeMonth(y)
        m == CHOOSE k \in 1..12 : /\ \A j \in 1..(k - 1) : yday >= before[j + 1]
                                  /\ k = 12 \/ yday < before[k + 1]
    IN  [m |-> m, d |-> yday - before[m] + 1]

Gmtime(time) ==
    LET yr == GmtimeYear(time.days)
        mon == GmtimeMonth(yr.y, yr.yday)
        s == time.secs
    IN  [y |-> yr.y, m |-> mon.m, d |-> mon.d,
         wday |-> DayOfWeek(yr.y, mon.m, mon.d),
         hour |-> s \div 3600, min |-> (s \div 60) % 60, sec |-> s % 60]

(* cal: the column in which each day of the month is printed.  The first   *)
(* day's weekday is counted back from today's; a line ends after the       *)
(* weekday 6, even when the count began below zero.                        *)
CalFirst(tm) == tm.wday - ((tm.d - 1) % 7)

CalColumns(tm) ==
    LET step(acc, mday) ==
            LET full == acc.wday + 1 >= 7
            IN  [wday |-> IF full THEN 0 ELSE acc.wday + 1,
                 col |-> IF full THEN 0 ELSE acc.col + 1,
                 out |-> Append(acc.out, acc.col)]
        first == CalFirst(tm)
    IN  FoldLeft(step, [wday |-> first, col |-> IF first > 0 THEN first ELSE 0,
                        out |-> <<>>],
                 [k \in 1..DaysInMonth(tm.y, tm.m) |-> k]).out

-----------------------------------------------------------------------------
(* The calendar itself: a leap day every four years, but in centuries only *)
(* every four hundred; leap years before a year, counted directly.         *)
LeapsBefore(y) == (y - 1) \div 4 - (y - 1) \div 100 + (y - 1) \div 400

LastOfMonth(y, m) ==
    CASE m \in {4, 6, 9, 11} -> 30
      [] m = 2 -> 28 + LeapsBefore(y + 1) - LeapsBefore(y)
      [] OTHER -> 31

CalendarInit ==
    \E y \in StartYears :
      /\ day = [y |-> y, m |-> 12, d |-> 25]
      /\ dayNumber = 365 * (y + 1 - 1970) + LeapsBefore(y + 1)
                       - LeapsBefore(1970) - 7
      /\ weekday = (4 + dayNumber) % 7
      /\ walked = 0

NextDay ==
    /\ walked < WalkDays
    /\ walked' = walked + 1
    /\ dayNumber' = dayNumber + 1
    /\ weekday' = (weekday + 1) % 7
    /\ day' = CASE day.d < LastOfMonth(day.y, day.m) ->
                     [day EXCEPT !.d = @ + 1]
                [] day.d = LastOfMonth(day.y, day.m) /\ day.m < 12 ->
                     [day EXCEPT !.d = 1, !.m = @ + 1]
                [] OTHER -> [y |-> day.y + 1, m |-> 1, d |-> 1]

(* What the real-time clock shows on a day at a time: in BCD, or binary.   *)
Bcd(n) == (n \div 10) * 16 + (n % 10)

Registers(binary, t) ==
    LET show(n) == IF binary THEN n ELSE Bcd(n)
    IN  [y |-> show(day.y % 100), m |-> show(day.m), d |-> show(day.d),
         hour |-> show(t[1]), min |-> show(t[2]), sec |-> show(t[3])]

(* The kernel reads the right day off a 24-hour clock in either encoding,  *)
(* and the C library gets the date and the day of the week back from it,   *)
(* at the first and the last second of the day.  cal prints each day of    *)
(* the month under its weekday, unless it counts back past a Sunday        *)
(* (time.c:71, userland/lib/time.c:74, cal.c:59).                          *)
DatesRoundTrip ==
    /\ \A t \in {<<0, 0, 0>>, <<23, 59, 59>>}, binary \in BOOLEAN :
         LET time == [days |-> dayNumber,
                      secs |-> (t[1] * 60 + t[2]) * 60 + t[3]]
         IN  /\ day.y < 2100 =>
                  RtcNow(Registers(binary, t), binary, TRUE) = time
             /\ Gmtime(time) =
                  [y |-> day.y, m |-> day.m, d |-> day.d, wday |-> weekday,
                   hour |-> t[1], min |-> t[2], sec |-> t[3]]
    /\ LET tm == [y |-> day.y, m |-> day.m, d |-> day.d, wday |-> weekday]
       IN  CalFirst(tm) >= 0 =>
             CalColumns(tm) = [k \in 1..LastOfMonth(day.y, day.m) |->
                                 (weekday + 35 + k - day.d) % 7]
=============================================================================
