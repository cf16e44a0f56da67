--------------------------- MODULE CalendarDates ---------------------------
(***************************************************************************)
(* Calendar days and the instants they stand for: the day an imported      *)
(* record names (core/domain/calendar), the instant of a wall clock in the *)
(* zone of the owner, the check-in and check-out of an imported stay, and  *)
(* the month the dashboard adds up.                                        *)
(*                                                                         *)
(* Instants and wall clocks are counted in minutes since the same day 0; a *)
(* time zone is a function from instants to how far its clocks are ahead.  *)
(***************************************************************************)
EXTENDS Integers

(***************************************************************************)
(* Days                                                                    *)
(***************************************************************************)

MinutesOfDay == 24 * 60

(* setUTCFullYear: month 13 is the next January, day 32 the next month.    *)
Leaps(y) == (y + 3) \div 4 - (y + 99) \div 100 + (y + 399) \div 400
MonthStart(year, month) ==
    LET y == year + (month - 1) \div 12
        m == (month - 1) % 12
        ended == <<0, 31, 59, 90, 120, 151, 181, 212, 243, 273, 304, 334>>
    IN  365 * y + Leaps(y) + ended[m + 1]
            + IF m > 1 /\ Leaps(y + 1) > Leaps(y) THEN 1 ELSE 0
DayNumber(year, month, day) == MonthStart(year, month) + day - 1

(* CalendarDate.of: the day exists if it reads back as it was written.     *)
IsDay(year, month, day) ==
    /\ month \in 1 .. 12
    /\ DayNumber(year, month, day)
          \in MonthStart(year, month) .. MonthStart(year, month + 1) - 1

ComparableValue(date) == date.year * 10000 + date.month * 100 + date.day
IsBefore(date, other) == ComparableValue(date) < ComparableValue(other)

(* What a calendar on the wall says.                                       *)
DaysOf(year, month) ==
    CASE month \in {4, 6, 9, 11} -> 30
      [] month = 2 -> IF year % 4 = 0 /\ (year % 100 # 0 \/ year % 400 = 0)
                      THEN 29 ELSE 28
      [] OTHER -> 31

(* Only days of the calendar are accepted, and they are ordered as days.   *)
ASSUME DatesAssumption ==
    \A y \in {1900, 2000, 2023, 2024} :
       /\ \A m \in 0 .. 13, d \in 0 .. 32 :
             IsDay(y, m, d) <=> m \in 1 .. 12 /\ d \in 1 .. DaysOf(y, m)
       /\ \A m \in {1, 2, 3, 12}, d \in {1, 28, 31}, n \in {1, 2, 12}, e \in {1, 31} :
             IsDay(y, m, d) /\ IsDay(y + 1, n, e) =>
                /\ IsBefore([year |-> y, month |-> m, day |-> d],
                            [year |-> y + 1, month |-> n, day |-> e])
                /\ DayNumber(y, m, d) < DayNumber(y + 1, n, e)

(***************************************************************************)
(* Wall clocks                                                             *)
(***************************************************************************)

(* WallClockTime: HH:MM, as minutes of the day.                            *)
ClockTimes == 0 .. MinutesOfDay - 1
Midnight == 0

Zones == [Int -> Int]
(* A zone that changes its clocks once.                                    *)
Changing(at, before, after) == [i \in Int |-> IF i < at THEN before ELSE after]

ClockAt(zone, instant) == instant + zone[instant]
Clock(day, time) == day * MinutesOfDay + time

(* The offset is looked up twice: as if the clock were UTC, then at the    *)
(* instant this gives.                                                     *)
AtWallClock(zone, clock) ==
    LET firstGuess == clock - zone[clock]
    IN  clock - zone[firstGuess]

(* The clock an instant is looked for is the clock it shows, unless the    *)
(* zone skips it: tried around one change.                                 *)
ASSUME ClockAssumption ==
    \A before, after \in -3 .. 3, clock \in -8 .. 8 :
       LET zone == Changing(0, before, after)
       IN  (\E i \in -12 .. 12 : ClockAt(zone, i) = clock)
               => ClockAt(zone, AtWallClock(zone, clock)) = clock

(***************************************************************************)
(* Imported stays and ledger entries                                       *)
(***************************************************************************)

DefaultCheckIn == 14 * 60
DefaultCheckOut == 11 * 60

(* #timeOfSetting: what is no time of the form HH:MM is passed over.       *)
TimeOfSetting(value, fallback) == IF value \in ClockTimes THEN value ELSE fallback
CheckTimesOf(in, out) == [in |-> TimeOfSetting(in, DefaultCheckIn),
                          out |-> TimeOfSetting(out, DefaultCheckOut)]

StayBetween(zone, times, in, out) ==
    [in |-> AtWallClock(zone, Clock(in, times.in)),
     out |-> AtWallClock(zone, Clock(out, times.out))]

(* The instant recorded as created_at.                                     *)
EntryOn(zone, day) == AtWallClock(zone, Clock(day, Midnight))

(***************************************************************************)
(* The revenue of a month; start[m] is the first instant of month m in the *)
(* zone of the server.                                                     *)
(***************************************************************************)

Months(start) == /\ start \in [Int -> Int]
                 /\ \A m, n \in Int : m < n => start[m] < start[n]

InMonth(start, m, instant) == start[m] <= instant /\ instant <= start[m + 1]

=============================================================================
