----------------------------- MODULE LunarCore -----------------------------
(* The lunar calendar of the app (General/Lib/LunarCore/LunarCore.m): what    *)
(* solarToLunar answers on one day after another, the page that calendar      *)
(* draws of a month, and the cache of solar terms that both read.             *)
(* NSCalendar (weekdays, days between two dates) is external; names are kept   *)
(* as their indices, and a list of solar terms as the year it was made for.    *)
EXTENDS Integers, Sequences, FiniteSets, FiniteSetsExt, LunarTables

CONSTANTS FirstYear, LastYear   \* the walk goes from 1 January to 31 December

minYear == 1890
maxYear == 2100
weekStart == 0

ASSUME YearsAssumption ==
    /\ FirstYear \in minYear + 1 .. maxYear
    /\ LastYear \in FirstYear .. maxYear

VARIABLES
    today,   \* the date asked last: year, month (from 0), day
    lunar,   \* the answer of solarToLunar
    cache,   \* the memory cache: its current year, and its termList or 0
    page     \* the page calendar answered for the month of today, or empty

vars == <<today, lunar, cache, page>>

-----------------------------------------------------------------------------
(* The Gregorian calendar.                                                   *)

isLeapYear(year) == \/ year % 4 = 0 /\ year % 100 # 0
                    \/ year % 400 = 0

solarDaysOfMonth == <<31, 0, 31, 30, 31, 30, 31, 31, 30, 31, 30, 31>>

getSolarMonthDays(year, month) ==
    IF month = 1 THEN IF isLeapYear(year) THEN 29 ELSE 28
                 ELSE solarDaysOfMonth[month + 1]

DaysBeforeMonth == <<0, 31, 59, 90, 120, 151, 181, 212, 243, 273, 304, 334>>

\* Days since 31 December of the year 0, as NSCalendar counts them.
DayNumber(d) ==
    LET y == d.year - 1
        leapDay == IF d.month > 1 /\ isLeapYear(d.year) THEN 1 ELSE 0
    IN  365 * y + y \div 4 - y \div 100 + y \div 400
          + DaysBeforeMonth[d.month + 1] + leapDay + d.day

Date(year, month, day) == [year |-> year, month |-> month, day |-> day]

\* Sunday is 0.
getDay(d) == DayNumber(d) % 7

getDaysBetweenSolar(d, e) == DayNumber(e) - DayNumber(d)

Tomorrow(d) ==
    IF d.day < getSolarMonthDays(d.year, d.month)
    THEN [d EXCEPT !.day = @ + 1]
    ELSE IF d.month < 11 THEN Date(d.year, d.month + 1, 1)
                         ELSE Date(d.year + 1, 0, 1)

-----------------------------------------------------------------------------
(* The lunar year.                                                           *)

YearData(year) == lunarInfo[year - minYear + 1]

getLunarLeapYear(year) == YearData(year)[1]

\* The first day of a lunar year.
Zheng(year) == Date(year, YearData(year)[2] - 1, YearData(year)[3])

\* The binary digits of num, without the zeros in front.
toString(num) ==
    LET width == CHOOSE w \in 0 .. 16 : 2 ^ w > num /\ (w = 0 \/ 2 ^ (w - 1) <= num)
    IN  [i \in 1 .. width |-> (num \div 2 ^ (width - i)) % 2]

\* The loop compares i with 16 - count while each insertion raises count, so
\* only half of the missing zeros are put back; the variant puts back none.
Unpadded(bits) == bits
Padded(bits) == LET missing == 16 - Len(bits)
                IN  [i \in 1 .. (missing + 1) \div 2 |-> 0] \o bits

monthDays(year) ==
    LET bits == Padded(toString(YearData(year)[4]))
    IN  [i \in 1 .. IF getLunarLeapYear(year) # 0 THEN 13 ELSE 12 |-> 29 + bits[i]]

\* The days of the first n months of a lunar year.
DaysOfMonths(year, n) ==
    LET days == monthDays(year)
    IN  29 * n + Cardinality({m \in 1 .. n : days[m] = 30})

yearDays(year) == DaysOfMonths(year, Len(monthDays(year)))


-----------------------------------------------------------------------------
(* From one calendar to the other.  A lunar date counts its months from 0 and *)
(* gives the leap month a place of its own.                                   *)

\* Variant: the last day of a month is taken for the next month.
getLunarDateByBetweenOrAt(year, between) ==
    LET end == IF between > 0 THEN between ELSE yearDays(year) + between
        past == {m \in 1 .. Len(monthDays(year)) : DaysOfMonths(year, m) >= end}
        month == IF past = {} THEN 0 ELSE Min(past) - 1
    IN  Date(year, month, end - DaysOfMonths(year, month) + 1)

\* The date `between` days after the first day of the year, or before it.
getLunarDateByBetween(year, between) ==
    LET end == IF between > 0 THEN between ELSE yearDays(year) + between
        past == {m \in 1 .. Len(monthDays(year)) : DaysOfMonths(year, m) > end}
        month == IF past = {} THEN 0 ELSE Min(past) - 1
        tempDays == DaysOfMonths(year, IF past = {} THEN Len(monthDays(year)) ELSE month)
    IN  Date(year, month, end - tempDays + 1)

getLunarByBetween(d) ==
    LET between == getDaysBetweenSolar(Zheng(d.year), d)
    IN  IF between = 0 THEN Date(d.year, 0, 1)
        ELSE getLunarDateByBetween(IF between > 0 THEN d.year ELSE d.year - 1, between)

\* Variant: the first of a month counts as a day gone.
daysWithToday(l) == DaysOfMonths(l.year, l.month) + l.day

getDaysBetweenZheng(l) == DaysOfMonths(l.year, l.month) + l.day - 1

\* The day number of a lunar date.
lunarToSolar(l) == DayNumber(Zheng(l.year)) + getDaysBetweenZheng(l)

-----------------------------------------------------------------------------
(* The answer of solarToLunar.                                               *)

\* Variant: New Year's day still belongs to the old year.
isAfterNewYear(d) ==
    LET spring == springFestival[d.year - minYear + 1]
    IN  \/ d.month + 1 > spring[1]
        \/ d.month + 1 = spring[1] /\ d.day > spring[2]

\* The table of New Year's days, a second one beside lunarInfo.
isNewLunarYear(d) ==
    LET spring == springFestival[d.year - minYear + 1]
    IN  \/ d.month + 1 > spring[1]
        \/ d.month + 1 = spring[1] /\ d.day >= spring[2]

\* The place of a year in the cycle of sixty.
getLunarYearName(year) == (year - 1890 + 25) % 60

\* Variant: the months after a leap month are not named one back.
lunarMonthNameOwn(l) ==
    LET leap == getLunarLeapYear(l.year)
    IN  IF leap > 0 /\ leap = l.month THEN [leap |-> TRUE, name |-> l.month - 1]
        ELSE [leap |-> FALSE, name |-> l.month]

\* The name a month is given: its index in monthCn, and whether it is a leap month.
lunarMonthName(l) ==
    LET leap == getLunarLeapYear(l.year)
    IN  IF leap > 0 /\ leap = l.month THEN [leap |-> TRUE, name |-> l.month - 1]
        ELSE IF leap > 0 /\ l.month > leap THEN [leap |-> FALSE, name |-> l.month - 1]
        ELSE [leap |-> FALSE, name |-> l.month]

\* The key looked up in lunarFestival; New Year's Eve has the key <<0, 0>>.
Eve == <<0, 0>>

\* Variant: the twelfth month is taken for the last.
lunarFtvOfTwelve(l) ==
    LET days == monthDays(l.year)
        leap == getLunarLeapYear(l.year)
    IN  IF l.month = 11 /\ l.day = days[12] THEN Eve
        ELSE IF leap > 0 /\ l.month >= leap THEN <<l.month, l.day>>
        ELSE <<l.month + 1, l.day>>

lunarFtv(l) ==
    LET days == monthDays(l.year)
        leap == getLunarLeapYear(l.year)
    IN  IF l.month = Len(days) - 1 /\ l.day = days[Len(days)] THEN Eve
        ELSE IF leap > 0 /\ l.month >= leap THEN <<l.month, l.day>>
        ELSE <<l.month + 1, l.day>>

-----------------------------------------------------------------------------
(* The memory cache.                                                         *)

NoTerms == 0

\* Variant: the cache changes its year and keeps what it holds.
setCurrentOnly(c, year) == [c EXCEPT !.current = year]

setCurrent(c, year) ==
    IF c.current # year THEN [current |-> year, termList |-> NoTerms] ELSE c

\* The cache once solarToLunar has looked the year's terms up, or made them.
TermsCached(c, year) ==
    LET d == setCurrent(c, year)
    IN  IF d.termList = NoTerms THEN [d EXCEPT !.termList = year] ELSE d

InRange(d) == d.year \in minYear .. maxYear

Error == [error |-> 100]

\* The cache solarToLunar leaves, and what it answers; a year out of range is
\* refused before the cache is asked.
CacheAfter(c, d) == IF InRange(d) THEN TermsCached(c, d.year) ELSE c

solarToLunar(c, d) ==
    IF ~InRange(d) THEN Error
    ELSE LET l == getLunarByBetween(d)
             GanZhiYear == IF isNewLunarYear(d) THEN d.year + 1 ELSE d.year
         IN  [date |-> l,
              monthName |-> lunarMonthName(l),
              festival |-> lunarFtv(l),
              GanZhiYear |-> getLunarYearName(GanZhiYear),
              terms |-> CacheAfter(c, d).termList]

-----------------------------------------------------------------------------
(* The page of a month: six weeks of days.                                   *)

createMonthData(year, month, len, start) ==
    [i \in 1 .. len |-> Date(year, month, start + i - 1)]

\* Variant: the week is taken to start on Monday.
preFillFromMonday(year, month) == (getDay(Date(year, month, 1)) + 6) % 7

preFillDays(year, month) ==
    LET firstDay == getDay(Date(year, month, 1))
    IN  (IF firstDay >= weekStart THEN firstDay ELSE firstDay + 7) - weekStart

solarCalendar(year, month) ==
    LET preYear == IF month = 0 THEN year - 1 ELSE year
        preMonth == IF month = 0 THEN 11 ELSE month - 1
        pre == preFillDays(year, month)
        days == createMonthData(preYear, preMonth, pre,
                                getSolarMonthDays(preYear, preMonth) - pre + 1)
                \o createMonthData(year, month, getSolarMonthDays(year, month), 1)
    IN  days \o createMonthData(IF month = 11 THEN year + 1 ELSE year,
                                (month + 1) % 12, 42 - Len(days), 1)

\* The cache after the first i days of a page were asked for.
CacheAlong(c, days) ==
    LET left[i \in 0 .. Len(days)] == IF i = 0 THEN c ELSE CacheAfter(left[i - 1], days[i])
    IN  left

-----------------------------------------------------------------------------
NoCache == [current |-> 0, termList |-> NoTerms]

Init ==
    /\ today = Date(FirstYear, 0, 1)
    /\ lunar = solarToLunar(NoCache, today)
    /\ cache = CacheAfter(NoCache, today)
    /\ page = <<>>

\* The calendar asks for the next day.
NextDay ==
    /\ Tomorrow(today).year <= LastYear
    /\ today' = Tomorrow(today)
    /\ lunar' = solarToLunar(cache, today')
    /\ cache' = CacheAfter(cache, today')
    /\ page' = <<>>

\* The page of the month is drawn on its first day: calendar asks solarToLunar for
\* one of its days after another.
ShowMonth ==
    LET days == solarCalendar(today.year, today.month)
        left == CacheAlong(cache, days)
    IN  /\ today.day = 1
        /\ page = <<>>
        /\ page' = [i \in 1 .. Len(days) |->
                        [date |-> days[i], lunar |-> solarToLunar(left[i - 1], days[i])]]
        /\ cache' = left[Len(days)]
        /\ UNCHANGED <<today, lunar>>

Next == NextDay \/ ShowMonth

Spec == Init /\ [][Next]_vars

-----------------------------------------------------------------------------
(* Properties.                                                               *)

NewYear(year) == Date(year, 0, 1)

\* Lunar days run on: the day after a lunar date is the next day of its month,
\* or after the 29th or the 30th the first day of the next month or year, across
\* the change of the solar year, where the same lunar year is counted backwards
\* from the New Year before it instead of forwards (getLunarByBetween).
LunarDaysRunOn ==
    [][LET l == lunar.date
           m == lunar'.date
       IN  today' # today =>
               \/ m = [l EXCEPT !.day = @ + 1]
               \/ l.day \in 29 .. 30 /\ m = Date(l.year, l.month + 1, 1)
               \/ l.day \in 29 .. 30 /\ l.month >= 11 /\ m = NewYear(l.year + 1)]_vars

\* Months are named in their order, a leap month after the month it repeats and
\* none other, and the last month of every year is the twelfth, so that the month
\* after it is the first (the three cases of solarToLunar).
MonthsFollow ==
    [][LET n == lunar.monthName
           m == lunar'.monthName
       IN  IF lunar'.date.day # 1 \/ today' = today THEN m = n
           ELSE IF lunar'.date.year # lunar.date.year
           THEN n.name = 11 /\ m = [leap |-> FALSE, name |-> 0]
           ELSE \/ m = [leap |-> FALSE, name |-> n.name + 1]
                \/ m = [n EXCEPT !.leap = TRUE] /\ ~n.leap]_vars

\* New Year's Eve is announced on the day before New Year and on no other, in
\* years of twelve months and of thirteen.
EveIsTheDayBeforeNewYear ==
    [][today' # today => (lunar.festival = Eve <=> lunar'.date = NewYear(lunar'.date.year))]_vars

\* The sexagenary year of the answer, read from springFestival, and the lunar
\* year, read from lunarInfo, change on the same day.
GanZhiFollowsTheLunarYear == lunar.GanZhiYear = getLunarYearName(lunar.date.year + 1)

\* lunarToSolar takes every answer of solarToLunar back to the day asked.
RoundTrip == lunarToSolar(lunar.date) = DayNumber(today)

\* A cell of a page and the answer for a day carry the terms of their own year,
\* although the page of January or December passes through three changes of year
\* of the one cache.
TermsOfTheYear ==
    /\ lunar.terms = today.year
    /\ \A i \in 1 .. Len(page) :
           page[i].lunar # Error => page[i].lunar.terms = page[i].date.year

\* A page is six whole weeks from Sunday, each day after the one before it, with
\* every day of its month (solarCalendar fills it in front and behind).
PageIsSixWeeks ==
    page # <<>> =>
        /\ Len(page) = 42
        /\ getDay(page[1].date) = weekStart
        /\ \A i \in 1 .. 41 : page[i + 1].date = Tomorrow(page[i].date)
        /\ \E i \in 1 .. 7 : page[i].date = today

\* The months of a lunar year are as long as the sixteen binary digits of its table
\* entry say, but in the years whose digits begin with two zeros or more: there they
\* are read one place too early, as the loop that puts the zeros back runs half way
\* (:691, :692).
MonthsAsInTheTable ==
    LET year      == lunar.date.year
        Digit(i)  == (YearData(year)[4] \div 2^(16 - i)) % 2
        AsWritten == \A i \in 1 .. Len(monthDays(year)) : monthDays(year)[i] = 29 + Digit(i)
    IN  AsWritten <=> year \notin {1926, 1935, 1945, 2007}

\* A page shows whole weeks of consecutive days, each with what belongs to its own year.
PageShowsItsDays == PageIsSixWeeks /\ TermsOfTheYear

\* From one day to the next the lunar calendar runs on: days, names of months, and the
\* eve of the New Year that changes the year.
CalendarRunsOn == LunarDaysRunOn /\ MonthsFollow /\ EveIsTheDayBeforeNewYear
=============================================================================
