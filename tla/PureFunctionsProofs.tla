------------------------- MODULE PureFunctionsProofs -------------------------
(***************************************************************************)
(* The functions that keep no state, on every input: the dates that are    *)
(* accepted, the days that are counted, and where parse writes.            *)
(***************************************************************************)
EXTENDS PureFunctions, UriProofs

(* The walk stays among the days the function is made for. *)
DateInv ==
  /\ year \in epoch_start_year .. last_valid_year
  /\ month \in 1 .. last_month
  /\ day \in 1 .. DaysOfMonth(month, year)

-----------------------------------------------------------------------------
LEMMA DaysOfMonthType ==
  ASSUME NEW m, NEW y
  PROVE  DaysOfMonth(m, y) \in 28 .. 31
BY DEF DaysOfMonth

LEMMA StepPreservesDateInv ==
  DateInv /\ [NextAll]_allVars => DateInv'
<1> SUFFICES ASSUME DateInv, [NextAll]_allVars
             PROVE  DateInv'
  OBVIOUS
<1>1. CASE UNCHANGED <<day, month, year>>
  BY <1>1 DEF DateInv, DaysOfMonth, HasLeapDay
<1>2. CASE NextDay
  <2>1. DaysOfMonth(month, year)' = DaysOfMonth(month, year)
    BY <1>2 DEF NextDay, DaysOfMonth, HasLeapDay
  <2> QED
    BY <1>2, <2>1, DaysOfMonthType DEF DateInv, NextDay
<1>3. CASE NextMonth
  <2>1. DaysOfMonth(month, year)' \in 28 .. 31
    BY DEF DaysOfMonth
  <2> QED
    BY <1>3, <2>1 DEF DateInv, NextMonth, last_month
<1>4. CASE NextYear
  <2>1. DaysOfMonth(month, year)' \in 28 .. 31
    BY DEF DaysOfMonth
  <2> QED
    BY <1>4, <2>1
       DEF DateInv, NextYear, last_month, epoch_start_year, last_valid_year
<1> QED
  BY <1>1, <1>2, <1>3, <1>4 DEF NextAll, Next, Extend, allVars, vars

THEOREM DateInvariance == SpecAll => []DateInv
<1>1. InitAll => DateInv
  BY DaysOfMonthType
     DEF InitAll, Init, DateInv, last_month, epoch_start_year, last_valid_year
<1> QED
  BY <1>1, StepPreservesDateInv, PTL DEF SpecAll

(* There is one century up to 2099, and it has a leap day. *)
LEMMA LeapYears ==
  ASSUME NEW y \in epoch_start_year .. last_valid_year
  PROVE  is_leapyear(y) <=> HasLeapDay(y)
<1>1. y \in 1970 .. 2099
  BY DEF epoch_start_year, last_valid_year
<1>2. y % 100 = 0 => y = 2000
  BY <1>1
<1>3. 2000 % 400 = 0
  OBVIOUS
<1> QED
  BY <1>1, <1>2, <1>3 DEF is_leapyear, HasLeapDay, years_between_leapyears

(* The days of a month are the table's, and the leap day. *)
LEMMA DaysInTable ==
  ASSUME NEW m \in 1 .. last_month, NEW y \in epoch_start_year .. last_valid_year
  PROVE  DaysOfMonth(m, y)
           = days_per_month[m] + (IF m = 2 /\ is_leapyear(y) THEN 1 ELSE 0)
<1>1. is_leapyear(y) <=> HasLeapDay(y)
  BY LeapYears
<1>2. m \in 1 .. 12
  BY DEF last_month
<1>3. CASE m \in {4, 6, 9, 11}
  BY <1>3 DEF DaysOfMonth, days_per_month
<1>4. CASE m = 2
  BY <1>1, <1>4 DEF DaysOfMonth, days_per_month
<1>5. CASE m \in {1, 3, 5, 7, 8, 10, 12}
  BY <1>5 DEF DaysOfMonth, days_per_month
<1> QED
  BY <1>2, <1>3, <1>4, <1>5

(***************************************************************************)
(* is_valid_epoch_date accepts the days that exist, and no others, in each *)
(* month of the years it is made for.                                      *)
(***************************************************************************)
THEOREM CalendarCorrect == SpecAll => []AcceptsTheCalendar
<1>1. DateInv => AcceptsTheCalendar
  <2> SUFFICES ASSUME DateInv, NEW d \in 0 .. 32
               PROVE  is_valid_epoch_date(d, month, year)
                        <=> d \in 1 .. DaysOfMonth(month, year)
    BY DEF AcceptsTheCalendar
  <2>1. /\ month \in 1 .. last_month
        /\ year \in epoch_start_year .. last_valid_year
    BY DEF DateInv
  <2>2. DaysOfMonth(month, year)
          = days_per_month[month]
              + (IF month = 2 /\ is_leapyear(year) THEN 1 ELSE 0)
    BY <2>1, DaysInTable
  <2> QED
    BY <2>1, <2>2 DEF is_valid_epoch_date
<1> QED
  BY <1>1, DateInvariance, PTL

-----------------------------------------------------------------------------
(* The leap day is added from the year's first day on, one day too early   *)
(* until the end of February.                                              *)
DaysTooEarly(m, y) == IF is_leapyear(y) /\ m <= 2 THEN 1 ELSE 0

CountInv ==
  /\ DateInv /\ elapsed \in Nat
  /\ days_since_epoch(day, month, year) = elapsed + DaysTooEarly(month, year)

(* What is counted on a day that is one. *)
LEMMA CountedDays ==
  ASSUME NEW y \in epoch_start_year .. last_valid_year, NEW m \in 1 .. last_month,
         NEW d \in 1 .. DaysOfMonth(m, y)
  PROVE  days_since_epoch(d, m, y)
           = (y - 1970) * 365 + (y - 1969) \div 4 + days_in_year_per_month[m]
               + (d - 1) + (IF is_leapyear(y) THEN 1 ELSE 0)
<1>1. is_valid_epoch_date(d, m, y)
  BY DaysInTable DEF is_valid_epoch_date
<1>2. y - epoch_start_year + 1 = y - 1969 /\ y - epoch_start_year = y - 1970
  BY DEF epoch_start_year, last_valid_year
<1>3. days_in_year_per_month[m] \in Nat
  BY DEF days_in_year_per_month, last_month
<1> QED
  BY <1>1, <1>2, <1>3
     DEF days_since_epoch, days_due_to_leapyears, day_of_the_year,
         years_between_leapyears, epoch_start_year, last_valid_year

(* The first days of two months are as far from each other as the first    *)
(* one is long.                                                            *)
LEMMA MonthsInTable ==
  ASSUME NEW m \in 1 .. 11
  PROVE  days_in_year_per_month[m + 1] = days_in_year_per_month[m] + days_per_month[m]
<1>1. /\ m = 1 \/ m = 2 \/ m = 3 \/ m = 4 \/ m = 5 \/ m = 6 \/ m = 7
         \/ m = 8 \/ m = 9 \/ m = 10 \/ m = 11
  OBVIOUS
<1> QED
  BY <1>1 DEF days_in_year_per_month, days_per_month

(* A leap day is counted with the first day of the next year at the latest. *)
LEMMA LeapDaysCounted ==
  ASSUME NEW y \in epoch_start_year .. last_valid_year
  PROVE  (y + 1 - 1969) \div 4
           = (y - 1969) \div 4 + (IF is_leapyear(y) THEN 1 ELSE 0)
BY DEF epoch_start_year, last_valid_year, is_leapyear, years_between_leapyears

LEMMA StepPreservesCountInv ==
  CountInv /\ [NextAll]_allVars => CountInv'
<1> SUFFICES ASSUME CountInv, [NextAll]_allVars
             PROVE  CountInv'
  OBVIOUS
<1>1. DateInv'
  BY StepPreservesDateInv DEF CountInv
<1>2. CASE UNCHANGED vars
  BY <1>1, <1>2
     DEF vars, CountInv, DaysTooEarly, is_leapyear, days_since_epoch,
         is_valid_epoch_date, days_due_to_leapyears, day_of_the_year
<1>3. CASE Next
  <2>1. /\ day \in 1 .. DaysOfMonth(month, year) /\ month \in 1 .. last_month
        /\ year \in epoch_start_year .. last_valid_year
        /\ elapsed \in Nat /\ elapsed' = elapsed + 1
    BY <1>3 DEF CountInv, DateInv, Next
  <2>2. PICK y, m, d : y = year' /\ m = month' /\ d = day'
    OBVIOUS
  <2>3. /\ d \in 1 .. DaysOfMonth(m, y) /\ m \in 1 .. last_month
        /\ y \in epoch_start_year .. last_valid_year
    BY <1>1, <2>2 DEF DateInv, DaysOfMonth, HasLeapDay
  <2>4. days_since_epoch(day, month, year)
          = (year - 1970) * 365 + (year - 1969) \div 4
              + days_in_year_per_month[month]
              + (day - 1) + (IF is_leapyear(year) THEN 1 ELSE 0)
    BY <2>1, CountedDays
  <2>5. days_since_epoch(d, m, y)
          = (y - 1970) * 365 + (y - 1969) \div 4 + days_in_year_per_month[m]
              + (d - 1) + (IF is_leapyear(y) THEN 1 ELSE 0)
    BY <2>3, CountedDays
  <2>6. /\ days_in_year_per_month[month] \in Nat /\ days_in_year_per_month[m] \in Nat
        /\ year \in Nat /\ y \in Nat /\ day \in Nat /\ d \in Nat /\ month \in Nat
        /\ (year - 1969) \div 4 \in Int /\ (y - 1969) \div 4 \in Int
    BY <2>1, <2>3
       DEF days_in_year_per_month, last_month, epoch_start_year, last_valid_year
  <2>7. days_since_epoch(day, month, year) = elapsed + DaysTooEarly(month, year)
    BY DEF CountInv
  <2>8. days_since_epoch(d, m, y) = elapsed + 1 + DaysTooEarly(m, y)
    <3>1. CASE NextDay
      <4>1. d = day + 1 /\ m = month /\ y = year
        BY <2>2, <3>1 DEF NextDay
      <4> QED
        BY <2>1, <2>4, <2>5, <2>6, <2>7, <4>1 DEF DaysTooEarly
    <3>2. CASE NextMonth
      <4>1. /\ day = DaysOfMonth(month, year) /\ month \in 1 .. 11
            /\ d = 1 /\ m = month + 1 /\ y = year
        BY <2>1, <2>2, <3>2 DEF NextMonth, last_month
      <4>2. /\ days_in_year_per_month[m]
                 = days_in_year_per_month[month] + days_per_month[month]
            /\ days_per_month[month] \in Nat
        BY <4>1, MonthsInTable DEF days_per_month
      <4>3. day = days_per_month[month]
                    + (IF month = 2 /\ is_leapyear(year) THEN 1 ELSE 0)
        BY <2>1, <4>1, DaysInTable
      <4> HIDE DEF is_leapyear
      <4> QED
        BY <2>1, <2>4, <2>5, <2>6, <2>7, <4>1, <4>2, <4>3 DEF DaysTooEarly
    <3>3. CASE NextYear
      <4>1. /\ day = DaysOfMonth(month, year) /\ month = 12
            /\ d = 1 /\ m = 1 /\ y = year + 1
        BY <2>1, <2>2, <3>3 DEF NextYear, last_month
      <4>2. day = 31
        BY <4>1 DEF DaysOfMonth
      <4>3. days_in_year_per_month[month] = 334 /\ days_in_year_per_month[m] = 0
        BY <4>1 DEF days_in_year_per_month
      <4>4. (y - 1969) \div 4
              = (year - 1969) \div 4 + (IF is_leapyear(year) THEN 1 ELSE 0)
        BY <2>1, <4>1, LeapDaysCounted
      <4> QED
        BY <2>1, <2>4, <2>5, <2>6, <2>7, <4>1, <4>2, <4>3, <4>4 DEF DaysTooEarly
    <3> QED
      BY <1>3, <3>1, <3>2, <3>3 DEF Next
  <2>9. days_since_epoch(day, month, year)' = (elapsed + DaysTooEarly(month, year))'
    <3>1. days_since_epoch(day, month, year)' = days_since_epoch(d, m, y)
      BY <2>2 DEF days_since_epoch, is_valid_epoch_date, is_leapyear,
                  days_due_to_leapyears, day_of_the_year
    <3>2. DaysTooEarly(month, year)' = DaysTooEarly(m, y)
      BY <2>2 DEF DaysTooEarly, is_leapyear
    <3> QED
      BY <2>1, <2>8, <3>1, <3>2
  <2> QED
    BY <1>1, <2>1, <2>9 DEF CountInv
<1> QED
  BY <1>2, <1>3 DEF NextAll, Extend, allVars

(***************************************************************************)
(* seconds_since_epoch is right on every day but those of January and      *)
(* February of a leap year, on which it is one day ahead, and never        *)
(* farther.                                                                *)
(***************************************************************************)
THEOREM DaysCounted ==
  SpecAll => [](days_since_epoch(day, month, year)
                  = elapsed + DaysTooEarly(month, year))
<1>1. InitAll => CountInv
  <2> SUFFICES ASSUME InitAll PROVE CountInv
    OBVIOUS
  <2>1. day = 1 /\ month = 1 /\ year = 1970 /\ elapsed = 0
    BY DEF InitAll, Init, epoch_start_year
  <2>2. DateInv
    BY <2>1, DaysOfMonthType
       DEF DateInv, last_month, epoch_start_year, last_valid_year
  <2>3. is_valid_epoch_date(1, 1, 1970)
    BY DEF is_valid_epoch_date, epoch_start_year, last_valid_year, last_month,
           days_per_month
  <2>4. ~is_leapyear(1970) /\ days_due_to_leapyears(1970) = 0
    BY DEF is_leapyear, years_between_leapyears, days_due_to_leapyears,
           epoch_start_year
  <2>5. day_of_the_year(1, 1, 1970) = 0
    BY <2>4 DEF day_of_the_year, days_in_year_per_month
  <2> QED
    BY <2>1, <2>2, <2>3, <2>4, <2>5
       DEF CountInv, days_since_epoch, DaysTooEarly, epoch_start_year
<1>2. CountInv => days_since_epoch(day, month, year) = elapsed + DaysTooEarly(month, year)
  BY DEF CountInv
<1> QED
  BY <1>1, <1>2, StepPreservesCountInv, PTL DEF SpecAll

-----------------------------------------------------------------------------
(***************************************************************************)
(* parse, on any text.                                                     *)
(***************************************************************************)
TextInv == text \in Seq(DOMAIN Byte)

THEOREM TextInvariance == SpecAll => []TextInv
<1>1. InitAll => TextInv
  BY EmptySeq DEF InitAll, TextInv
<1>2. TextInv /\ [NextAll]_allVars => TextInv'
  <2>1. CASE Extend
    BY <2>1, PiecesAssumption, ConcatProperties DEF Extend, TextInv
  <2>2. CASE UNCHANGED text
    BY <2>2 DEF TextInv
  <2> QED
    BY <2>1, <2>2 DEF NextAll, allVars
<1> QED
  BY <1>1, <1>2, PTL DEF SpecAll

(* The text is behind the gap, and the blank behind the text. *)
LEMMA BufferIs ==
  ASSUME NEW S, NEW t \in Seq(S), NEW gap \in Nat,
         NEW buffer, buffer = Buffer(t, gap)
  PROVE  /\ IsBuffer(buffer, gap + Len(t) + 1)
         /\ Len(buffer) = gap + Len(t) + 1
         /\ \A i \in 1 .. Len(t) : buffer[gap + i] = t[i]
         /\ buffer[gap + Len(t) + 1] = "blank"
<1>1. PICK front : front = [i \in 1 .. gap |-> "gap"]
  OBVIOUS
<1>2. PICK All : All = S \cup {"gap", "blank"}
  OBVIOUS
<1>3. /\ front \in Seq(All) /\ Len(front) = gap /\ t \in Seq(All)
      /\ <<"blank">> \in Seq(All) /\ Len(<<"blank">>) = 1 /\ <<"blank">>[1] = "blank"
      /\ Len(t) \in Nat
  BY <1>1, <1>2
<1>4. PICK rest : rest = front \o t
  OBVIOUS
<1>5. /\ rest \in Seq(All) /\ Len(rest) = gap + Len(t)
      /\ \A i \in 1 .. gap + Len(t) : rest[i] = IF i <= gap THEN front[i] ELSE t[i - gap]
  BY <1>3, <1>4, ConcatProperties
<1>6. buffer = rest \o <<"blank">>
  BY <1>1, <1>4 DEF Buffer
<1>7. /\ buffer \in Seq(All) /\ Len(buffer) = gap + Len(t) + 1
      /\ \A i \in 1 .. gap + Len(t) + 1 :
           buffer[i] = IF i <= gap + Len(t) THEN rest[i] ELSE "blank"
  <2>1. /\ buffer \in Seq(All) /\ Len(buffer) = Len(rest) + 1
        /\ \A i \in 1 .. Len(rest) + 1 :
             buffer[i] = IF i <= Len(rest) THEN rest[i]
                         ELSE <<"blank">>[i - Len(rest)]
    BY <1>3, <1>5, <1>6, ConcatProperties
  <2> QED
    BY <1>3, <1>5, <2>1
<1>8. IsBuffer(buffer, gap + Len(t) + 1)
  BY <1>3, <1>7 DEF IsBuffer
<1>9. ASSUME NEW i \in 1 .. Len(t)
      PROVE  buffer[gap + i] = t[i]
  <2>1. /\ gap + i \in 1 .. gap + Len(t) /\ gap + i \in 1 .. gap + Len(t) + 1
        /\ gap + i - gap = i /\ ~(gap + i <= gap) /\ gap + i <= gap + Len(t)
    BY <1>3
  <2> QED
    BY <1>5, <1>7, <2>1
<1>10. buffer[gap + Len(t) + 1] = "blank"
  BY <1>3, <1>7
<1> QED
  BY <1>7, <1>8, <1>9, <1>10

LEMMA NothingInNewUri ==
  ASSUME NEW buffer, NEW m
  PROVE  UriOK(NewUri, buffer, m)
BY DEF UriOK, NewUri, IsRecord, UriFields, UriStrings, IsEnded

(***************************************************************************)
(* No byte behind the destination is written, whatever the text is, and    *)
(* however short the destination.                                          *)
(***************************************************************************)
THEOREM DestinationKept == SpecAll => []StaysInDestination
<1>1. TextInv => StaysInDestination
  <2> SUFFICES ASSUME TextInv, NEW skip \in BOOLEAN, NEW size \in 0 .. Space(text),
                      NEW i \in size + 1 .. Len(Buffer(text, Space(text)))
               PROVE  ParsedWithGap(text, Space(text), size, skip).buffer[i]
                        = Buffer(text, Space(text))[i]
    BY DEF StaysInDestination
  <2>1. Len(text) \in Nat
    BY DEF TextInv
  <2>2. PICK gap \in Nat : gap = Space(text) /\ gap = Len(text) + 3
    BY <2>1 DEF Space, maximum_uri_enlargement
  <2>3. PICK n \in Nat : n = gap + Len(text) + 1
    BY <2>1
  <2>4. PICK buffer : buffer = Buffer(text, gap)
    OBVIOUS
  <2>5. IsBuffer(buffer, n) /\ Len(buffer) = n
    BY <2>3, <2>4, BufferIs DEF TextInv
  <2>6. PICK c : c = Cursor(buffer, gap + 1, Len(text), 1, size)
    OBVIOUS
  <2>7. PICK e \in Nat : e = size + 1
    BY <2>2
  <2>8. /\ IsRecord(c, CursorFields) /\ c.buffer = buffer
        /\ c.source_length = Len(text) /\ c.destination = 1
        /\ c.destination_length = size
    BY <2>6 DEF Cursor, IsRecord, CursorFields
  <2>9. CursorOK(c, n, 1, e) /\ e <= n
    BY <2>1, <2>2, <2>3, <2>5, <2>7, <2>8 DEF CursorOK
  <2>10. PICK r : r = Parse(NewUri, c, skip)
    OBVIOUS
  <2>11. IsBuffer(r.buffer, n) /\ SameBehind(r.buffer, c.buffer, e)
    <3>1. UriOK(NewUri, c.buffer, 1 - 1)
      BY NothingInNewUri
    <3>2. 1 \in Nat \ {0} /\ c.source_length >= 0 /\ c.destination_length >= 0
      BY <2>1, <2>2, <2>8
    <3> QED
      BY <2>8, <2>9, <2>10, <3>1, <3>2, UriEnds
  <2>12. i \in DOMAIN r.buffer /\ i >= e
    BY <2>2, <2>4, <2>5, <2>7, <2>11 DEF IsBuffer
  <2>13. r.buffer[i] = buffer[i]
    BY <2>8, <2>11, <2>12 DEF SameBehind
  <2> QED
    BY <2>2, <2>4, <2>6, <2>10, <2>13 DEF ParsedWithGap
<1> QED
  BY <1>1, TextInvariance, PTL
(***************************************************************************)
(* The parts do not depend on where the source is, if there are two bytes  *)
(* or more in front of it: two runs of parse, apart and overlapping, read  *)
(* the same and write the same.                                            *)
(***************************************************************************)
(* Cursor c is to read text t, and the blank behind it. *)
IsAtSource(c, n, t, gap) ==
  /\ Reads(c, n, 2) /\ c.destination = 1 /\ c.source = gap + 1
  /\ c.source_length = Len(t) /\ c.destination_length = Len(t) + 3
  /\ \A i \in 0 .. Len(t) :
       c.buffer[gap + 1 + i] = IF i < Len(t) THEN t[i + 1] ELSE "blank"

LEMMA SourceIsRead ==
  ASSUME NEW S, NEW t \in Seq(S), NEW gap \in Nat, gap >= 2,
         NEW c, c = Cursor(Buffer(t, gap), gap + 1, Len(t), 1, Space(t)),
         NEW n, n = gap + Len(t) + 1
  PROVE  IsAtSource(c, n, t, gap)
<1>1. Len(t) \in Nat
  OBVIOUS
<1>2. PICK buffer : buffer = Buffer(t, gap)
  OBVIOUS
<1>3. IsBuffer(buffer, n) /\ buffer[n] = "blank" /\ \A i \in 1 .. Len(t) : buffer[gap + i] = t[i]
  BY <1>2, BufferIs
<1>4. /\ IsRecord(c, CursorFields) /\ c.buffer = buffer /\ c.source = gap + 1
      /\ c.source_length = Len(t) /\ c.destination = 1
      /\ c.destination_length = Len(t) + 3
  BY <1>2 DEF Cursor, IsRecord, CursorFields, Space, maximum_uri_enlargement
<1>5. Reads(c, n, 2)
  <2>1. c.source + c.source_length = n /\ c.destination + 2 <= c.source
        /\ c.destination_length - c.source_length > 2
        /\ c.source \in Nat /\ c.source_length \in Nat /\ c.destination \in Nat \ {0}
        /\ c.destination_length \in Int
    BY <1>1, <1>4
  <2>2. c.buffer[n] \in Ends
    BY <1>3, <1>4 DEF Ends
  <2> QED
    BY <1>3, <1>4, <2>1, <2>2 DEF Reads
<1>6. ASSUME NEW i \in 0 .. Len(t)
      PROVE  c.buffer[gap + 1 + i] = IF i < Len(t) THEN t[i + 1] ELSE "blank"
  <2>1. CASE i < Len(t)
    <3>1. PICK k : k = i + 1
      OBVIOUS
    <3>2. k \in 1 .. Len(t) /\ gap + 1 + i = gap + k
      BY <1>1, <2>1, <3>1
    <3> QED
      BY <1>3, <1>4, <2>1, <3>1, <3>2
  <2>2. CASE ~(i < Len(t))
    <3>1. gap + 1 + i = n
      BY <1>1, <2>2
    <3> QED
      BY <1>3, <1>4, <2>2, <3>1
  <2> QED
    BY <2>1, <2>2
<1> QED
  BY <1>4, <1>5, <1>6 DEF IsAtSource

THEOREM PlaceDoesNotMatter == SpecAll => []BuffersMayOverlap
<1>1. TextInv => BuffersMayOverlap
  <2> SUFFICES ASSUME TextInv, NEW skip \in BOOLEAN, NEW gap \in Gaps,
                      NEW apart, apart = ParsedApart(text, skip),
                      NEW overlap, overlap = ParsedWithGap(text, gap, Space(text), skip)
               PROVE  /\ overlap.parsed = apart.parsed
                      /\ apart.parsed => Parts(overlap.uri, overlap.buffer)
                                           = Parts(apart.uri, apart.buffer)
    BY DEF BuffersMayOverlap
  <2>1. PICK S : text \in Seq(S) /\ Len(text) \in Nat
    BY DEF TextInv
  <2>2. PICK far \in Nat : far = Space(text) /\ far = Len(text) + 3 /\ far >= 2
    BY <2>1 DEF Space, maximum_uri_enlargement
  <2>3. PICK near \in Nat : near = gap /\ near >= 2
    BY GapsAssumption
  <2>4. PICK c : c = Cursor(Buffer(text, far), far + 1, Len(text), 1, Space(text))
    OBVIOUS
  <2>5. PICK f : f = Cursor(Buffer(text, near), near + 1, Len(text), 1, Space(text))
    OBVIOUS
  <2>6. apart = Parse(NewUri, c, skip) /\ overlap = Parse(NewUri, f, skip)
    BY <2>2, <2>3, <2>4, <2>5 DEF ParsedApart, ParsedWithGap
  <2>7. PICK n : n = far + Len(text) + 1
    OBVIOUS
  <2>8. PICK n2 : n2 = near + Len(text) + 1
    OBVIOUS
  <2>9. IsAtSource(c, n, text, far) /\ IsAtSource(f, n2, text, near)
    BY <2>1, <2>2, <2>3, <2>4, <2>5, <2>7, <2>8, SourceIsRead
  <2>10. /\ Reads(c, n, 2) /\ c.destination = 1 /\ Reads(f, n2, 2)
         /\ c.source_length = Len(text) /\ c.destination_length = Len(text) + 3
         /\ f.source_length = Len(text) /\ f.destination_length = Len(text) + 3
    BY <2>9 DEF IsAtSource
  <2>11. Paired(c, f)
    <3>1. \A i \in 0 .. c.source_length : c.buffer[c.source + i] = f.buffer[f.source + i]
      BY <2>9 DEF IsAtSource
    <3>2. SameUpTo(c.buffer, f.buffer, c.destination - 1)
      BY <2>10 DEF SameUpTo
    <3> QED
      BY <2>9, <3>1, <3>2 DEF Paired, IsAtSource
  <2>12. CASE ~HasSpace(c.source_length, c.destination_length)
    <3>1. ~HasSpace(f.source_length, f.destination_length)
      BY <2>10, <2>12
    <3> QED
      BY <2>6, <2>12, <3>1 DEF Parse
  <2>13. CASE HasSpace(c.source_length, c.destination_length)
    <3>1. UriOK(NewUri, c.buffer, 0)
      BY NothingInNewUri
    <3>2. c.destination_length < n
      BY <2>1, <2>2, <2>7, <2>10
    <3>3. apart.parsed = overlap.parsed
          /\ Parts(apart.uri, apart.buffer) = Parts(overlap.uri, overlap.buffer)
      BY <2>6, <2>10, <2>11, <2>13, <3>1, <3>2, PlacesAlike
    <3> QED
      BY <3>3
  <2> QED
    BY <2>12, <2>13
<1> QED
  BY <1>1, TextInvariance, PTL
=============================================================================
