--------------------------- MODULE DateCalculation ---------------------------
(***************************************************************************)
(* seconds_since_epoch, compared with a calendar: the state walks from day *)
(* to day through the years the function is made for and counts them.      *)
(*                                                                         *)
(* The function returns days * 86400 + second_of_day.  The product exceeds *)
(* the integers TLC computes with, and the seconds of a day are no more    *)
(* than added, so what is modelled is the number of days.                  *)
(***************************************************************************)
EXTENDS Integers

years_between_leapyears == 4
last_month              == 12
epoch_start_year        == 1970
last_valid_year         == 2099

is_leapyear(year) == year % years_between_leapyears = 0

days_in_year_per_month ==
  <<0, 31, 59, 90, 120, 151, 181, 212, 243, 273, 304, 334>>

day_of_the_year(day, month, year) ==
  days_in_year_per_month[month] + (day - 1)
    + (IF is_leapyear(year) THEN 1 ELSE 0)

days_per_month == <<31, 28, 31, 30, 31, 30, 31, 31, 30, 31, 30, 31>>

\* Mutant: February always has 28 days.
is_valid_without_leapday(day, month, year) ==
  /\ year \in epoch_start_year .. last_valid_year
  /\ month \in 1 .. last_month
  /\ day \in 1 .. days_per_month[month]

is_valid_epoch_date(day, month, year) ==
  /\ year \in epoch_start_year .. last_valid_year
  /\ month \in 1 .. last_month
  /\ day \in 1 .. days_per_month[month]
                    + (IF month = 2 /\ is_leapyear(year) THEN 1 ELSE 0)

(* The leap days of the years before the given one.  Mutant: counted from  *)
(* 1970 on, what the comment in the code warns of.                         *)
leapdays_from_1970(year) ==
  (year - epoch_start_year) \div years_between_leapyears

days_due_to_leapyears(year) ==
  (year - epoch_start_year + 1) \div years_between_leapyears

(* seconds_since_epoch, in days; -1 for a date that is not valid. *)
days_since_epoch(day, month, year) ==
  IF is_valid_epoch_date(day, month, year)
  THEN (year - epoch_start_year) * 365 + days_due_to_leapyears(year)
         + day_of_the_year(day, month, year)
  ELSE -1

-----------------------------------------------------------------------------
(***************************************************************************)
(* The Gregorian calendar.                                                 *)
(***************************************************************************)
VARIABLES day, month, year,
          elapsed   \* the days since 1 January 1970

vars == <<day, month, year, elapsed>>

HasLeapDay(y) == y % 4 = 0 /\ (y % 100 # 0 \/ y % 400 = 0)

DaysOfMonth(m, y) ==
  CASE m \in {4, 6, 9, 11} -> 30
    [] m = 2               -> IF HasLeapDay(y) THEN 29 ELSE 28
    [] OTHER               -> 31

Init == day = 1 /\ month = 1 /\ year = epoch_start_year /\ elapsed = 0

NextDay ==
  /\ day < DaysOfMonth(month, year)
  /\ day' = day + 1
  /\ UNCHANGED <<month, year>>

NextMonth ==
  /\ day = DaysOfMonth(month, year) /\ month < last_month
  /\ day' = 1 /\ month' = month + 1
  /\ UNCHANGED year

NextYear ==
  /\ day = DaysOfMonth(month, year) /\ month = last_month
  /\ year < last_valid_year
  /\ day' = 1 /\ month' = 1 /\ year' = year + 1

Next == (NextDay \/ NextMonth \/ NextYear) /\ elapsed' = elapsed + 1

Spec == Init /\ [][Next]_vars

-----------------------------------------------------------------------------
(***************************************************************************)
(* is_valid_epoch_date accepts the days of the month that exist, and no    *)
(* others, although it takes every fourth year for a leap year: the years  *)
(* up to 2099 contain no century that has none.                            *)
(***************************************************************************)
AcceptsTheCalendar ==
  \A d \in 0 .. 32 :
    is_valid_epoch_date(d, month, year) <=> d \in 1 .. DaysOfMonth(month, year)

(***************************************************************************)
(* "Given the number of seconds elapsed at a day and the date of that day, *)
(* the number of seconds elapsed since epoch time will be returned."       *)
(***************************************************************************)
CountsDays == days_since_epoch(day, month, year) = elapsed
=============================================================================
