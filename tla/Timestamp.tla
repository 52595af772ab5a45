------------------------------ MODULE Timestamp ------------------------------
(***************************************************************************)
(* parse_timestamp, which reads a date in one of three formats.  A date is *)
(* a sequence of digits, separators and words; of the weekdays no more is  *)
(* used than whether their name is short or long.  What is behind a date   *)
(* is a null character, as behind every value of a header field.           *)
(*                                                                         *)
(* Each parsing function is the sequence of the steps it takes.  A step    *)
(* moves the data pointer, keeps a value, or ends the function with -1.    *)
(***************************************************************************)
EXTENDS DateCalculation, Parsing

hours_per_day         == 24
minutes_per_hour      == 60
seconds_per_minute    == 60
begin_of_19_hundrets  == 1900
end_of_19_hundrets    == 1999

short_weekday == "weekday"
long_weekday  == "long weekday"

months ==
  <<"jan", "feb", "mar", "apr", "may", "jun",
    "jul", "aug", "sep", "oct", "nov", "dec">>

Refused == <<-1>>

-----------------------------------------------------------------------------
(* The steps. *)
Skip              == [do |-> "skip_whitespace"]
SkipOne           == [do |-> "skip_one_character"]
Take(field)       == [do |-> "parse_unsigned_integer", field |-> field]
TakeMonth         == [do |-> "parse_month"]
Expect(c)         == [do |-> "expect", char |-> c]
Check(field, min, max) ==
  [do |-> "check_range", field |-> field, min |-> min, max |-> max]
Add(field, n)     == [do |-> "add", field |-> field, n |-> n]

parse_time ==
  <<Take("hour"), Skip, Check("hour", 0, hours_per_day - 1), Expect(":"), Skip,
    Take("minute"), Skip, Check("minute", 0, minutes_per_hour - 1), Expect(":"),
    Skip, Take("second"), Check("second", 0, seconds_per_minute - 1)>>

(* Mutant: the zone is not looked at. *)
parse_gmt_or_not == <<>>

parse_gmt == <<Expect("gmt")>>

parse_rfc1123_date_time ==
  <<SkipOne, Skip, Take("day"), Skip, TakeMonth, Skip, Take("year"), Skip>>
    \o parse_time \o <<Skip>> \o parse_gmt

(* The code goes on when parse_time fails; seconds_since_epoch returns -1  *)
(* for the second -1.                                                      *)
parse_rfc850_date_time ==
  <<Skip, Expect(","), Skip, Take("day"), Expect("-"), TakeMonth, Expect("-"),
    Take("year"), Add("year", begin_of_19_hundrets),
    Check("year", begin_of_19_hundrets, end_of_19_hundrets), Skip>>
    \o parse_time \o <<Skip>> \o parse_gmt

parse_asctime_date_time ==
  <<Skip, TakeMonth, SkipOne, Skip, Take("day"), SkipOne, Skip>>
    \o parse_time \o <<SkipOne, Skip, Take("year")>>

-----------------------------------------------------------------------------
Peek(data) == IF data = <<>> THEN "nul" ELSE Head(data)

Behind(data, n) == SubSeq(data, n + 1, Len(data))

(* The value of a word the trie does not hold is 0, and nothing is used. *)
MonthOf(c) ==
  IF \E m \in DOMAIN months : months[m] = c
  THEN CHOOSE m \in DOMAIN months : months[m] = c ELSE 0

Done(p, step) ==
  CASE step.do = "skip_whitespace" ->
         [p EXCEPT !.data = Behind(@, SkippedBy(@))]
    [] step.do = "skip_one_character" ->
         [p EXCEPT !.data = Behind(@, 1)]
    [] step.do = "parse_unsigned_integer" ->
         LET number == ParseUnsignedInteger(p.data)
         IN  [p EXCEPT ![step.field] = number.result,
                       !.data = Behind(@, number.used)]
    [] step.do = "parse_month" ->
         LET number == MonthOf(Peek(p.data))
         IN  [p EXCEPT !.month = number,
                       !.data = Behind(@, IF number = 0 THEN 0 ELSE 1)]
    [] step.do = "expect" ->
         [p EXCEPT !.failed = @ \/ Peek(p.data) # step.char,
                   !.data = Behind(@, 1)]
    [] step.do = "check_range" ->
         [p EXCEPT !.failed = @ \/ p[step.field] \notin step.min .. step.max]
    [] step.do = "add" ->
         [p EXCEPT ![step.field] = @ + step.n]

(* What a function returns that takes the given steps from the data on: a  *)
(* day and a second of it, or Refused.  seconds_since_epoch gets the day   *)
(* and the month in eight bits, and the year in sixteen.                   *)
ResultOf(p) ==
  LET days == days_since_epoch(p.day % 256, p.month % 256, p.year % 65536)
  IN  IF p.failed \/ days < 0 THEN Refused
      ELSE <<days, seconds_per_minute * (minutes_per_hour * p.hour + p.minute)
                     + p.second>>

Run(steps, data) ==
  ResultOf(FoldLeft(Done, [data |-> data, failed |-> FALSE,
                           day |-> 0, month |-> 0, year |-> 0,
                           hour |-> 0, minute |-> 0, second |-> 0], steps))

(* A short weekday is used up, and so is a long one. *)
parse_weekday(data) ==
  LET begin == Behind(data, SkippedBy(data))
  IN  Behind(begin, IF Peek(begin) \in {short_weekday, long_weekday} THEN 1 ELSE 0)

is_long_format(data) ==
  Peek(Behind(data, SkippedBy(data))) = long_weekday

ParseTimestamp(data) ==
  LET rest == parse_weekday(data)
  IN  CASE is_long_format(data) -> Run(parse_rfc850_date_time, rest)
        [] ~is_long_format(data) /\ Peek(rest) = "blank" ->
             Run(parse_asctime_date_time, rest)
        [] OTHER -> Run(parse_rfc1123_date_time, rest)

-----------------------------------------------------------------------------
(***************************************************************************)
(* The dates a server gets, written for the day of the calendar.  The time *)
(* changes with the day, and is not always one that exists.                *)
(***************************************************************************)
DigitOf(n) == CHOOSE d \in DOMAIN Digit : Digit[d] = n

TwoDigits(n) == <<DigitOf((n \div 10) % 10), DigitOf(n % 10)>>

hour   == elapsed % (hours_per_day + 1)
minute == elapsed % (minutes_per_hour + 1)
second == (elapsed \div 2) % (seconds_per_minute + 1)

TimeExists ==
  hour < hours_per_day /\ minute < minutes_per_hour /\ second < seconds_per_minute

TimeText == TwoDigits(hour) \o <<":">> \o TwoDigits(minute) \o <<":">> \o TwoDigits(second)

YearText == TwoDigits(year \div 100) \o TwoDigits(year)

b == <<"blank">>

Rfc1123Date ==
  <<short_weekday, ",">> \o b \o TwoDigits(day) \o b \o <<months[month]>> \o b
    \o YearText \o b \o TimeText \o b \o <<"gmt">>

Rfc850Date ==
  <<long_weekday, ",">> \o b \o TwoDigits(day) \o <<"-", months[month], "-">>
    \o TwoDigits(year) \o b \o TimeText \o b \o <<"gmt">>

(* A day of one digit is behind two blanks. *)
AsctimeDate ==
  <<short_weekday>> \o b \o <<months[month]>> \o b
    \o (IF day < 10 THEN b \o <<DigitOf(day)>> ELSE TwoDigits(day)) \o b
    \o TimeText \o b \o YearText

(* The format changes with the day, and one without a century is not       *)
(* written any more in the next one.                                       *)
DateText ==
  CASE elapsed % 3 = 0 -> Rfc1123Date
    [] elapsed % 3 = 1 -> AsctimeDate
    [] OTHER           -> IF year <= end_of_19_hundrets THEN Rfc850Date
                          ELSE Rfc1123Date

(***************************************************************************)
(* A date in each of the three formats is read as the day and the second   *)
(* it says, and refused when its time does not exist: no leap day is       *)
(* missed or counted twice over 130 years.  January and February of leap   *)
(* years are left to CountsDays.                                           *)
(***************************************************************************)
DatesAreRead ==
  (is_leapyear(year) => month > 2) =>
    ParseTimestamp(DateText) =
      IF TimeExists
      THEN <<elapsed, (hour * minutes_per_hour + minute) * seconds_per_minute
                        + second>>
      ELSE Refused

(***************************************************************************)
(* A date that is cut off anywhere is refused, and not taken for another   *)
(* one: the functions look at the character behind what is left.  Checked  *)
(* on the last days of the months.                                         *)
(***************************************************************************)
CutDatesAreRefused ==
  day = DaysOfMonth(month, year) =>
    \A n \in 0 .. Len(DateText) - 1 :
      ParseTimestamp(SubSeq(DateText, 1, n)) = Refused
=============================================================================
