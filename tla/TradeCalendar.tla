---------------------------- MODULE TradeCalendar ----------------------------
(***************************************************************************)
(* StockUtil of pub/logic: dates as numbers yyyymmdd, the days before and   *)
(* after them, and which of them are trading days.  The one piece of state  *)
(* is MONTH_DAY[2], the length of February, which a leap year sets to 29    *)
(* and nothing ever sets back.                                              *)
(*                                                                         *)
(* External: mktime and localtime_r, as the number of a day: a date that is *)
(* past the end of its month names a day of the next one.                   *)
(***************************************************************************)
EXTENDS Integers, FiniteSets

CONSTANTS
  AskedDates,    \* dates clients ask about
  Clocks,        \* times of day, hhmmss
  Longest        \* bound: turns of the loop over days

VARIABLES
  february,      \* MONTH_DAY[2]
  calAsked,      \* the call: method, date, and february before it
  calAnswer      \* what it returned

calVars == <<february, calAsked, calAnswer>>

Year(date)  == date \div 10000
Month(date) == (date \div 100) % 100
Day(date)   == date % 100
DateOf(year, mon, day) == (year * 100 + mon) * 100 + day

Holidays ==
  20160609 .. 20160610 \cup 20160915 .. 20160916 \cup 20161001 .. 20161007
  \cup 20170101 .. 20170102 \cup 20170127 .. 20170131 \cup 20170201 .. 20170202
  \cup 20170402 .. 20170404 \cup {20170429, 20170501} \cup 20170528 .. 20170530
  \cup 20171001 .. 20171008

leap_year(year) == (year % 4 = 0 /\ year % 100 # 0) \/ year % 400 = 0

(* MONTH_DAY, December first.                                              *)
MONTH_DAY(feb) ==
  [i \in 0 .. 11 |-> IF i = 2 THEN feb
                     ELSE IF i \in {4, 6, 9, 11} THEN 30 ELSE 31]

(* Days since the beginning of March of the year 0, and days since then a   *)
(* Wednesday.                                                              *)
DayNumber(date) ==
  LET y == IF Month(date) <= 2 THEN Year(date) - 1 ELSE Year(date)
      m == (Month(date) + 9) % 12
  IN  365 * y + y \div 4 - y \div 100 + y \div 400 + (153 * m + 2) \div 5
      + Day(date) - 1

Weekday(n) == (n + 3) % 7      \* 0 is Sunday

HolidayNumbers == {DayNumber(h) : h \in Holidays}

TradingDay(n) == Weekday(n) \notin {0, 6} /\ n \notin HolidayNumbers

trade_date(date) == TradingDay(DayNumber(date))

February(year, feb) == IF leap_year(year) THEN 29 ELSE feb

PreDate(date, feb) ==
  LET y == Year(date - 1)
      m == Month(date - 1)
      d == Day(date - 1)
      mon == IF d = 0 THEN m - 1 ELSE m
      day == IF d = 0 THEN MONTH_DAY(February(y, feb))[mon % 12] ELSE d
  IN  IF mon = 0 THEN DateOf(y - 1, 12, day) ELSE DateOf(y, mon, day)

(* Variant: the table is used whatever the year is.                         *)
NextDateUnprepared(date, feb) ==
  LET y == Year(date + 1)
      m == Month(date + 1)
      d == Day(date + 1)
      over == d > MONTH_DAY(feb)[m % 12]
      mon == IF over THEN m + 1 ELSE m
      day == IF over THEN 1 ELSE d
  IN  IF mon > 12 THEN DateOf(y + 1, 1, day) ELSE DateOf(y, mon, day)

NextDate(date, feb) ==
  LET y == Year(date + 1)
      m == Month(date + 1)
      d == Day(date + 1)
      over == d > MONTH_DAY(February(y, feb))[m % 12]
      mon == IF over THEN m + 1 ELSE m
      day == IF over THEN 1 ELSE d
  IN  IF mon > 12 THEN DateOf(y + 1, 1, day) ELSE DateOf(y, mon, day)

(* One turn of the loop of NextTradeDate or PreTradeDate.  PreDate looks at  *)
(* the year of date - 1, NextDate at that of date + 1.                      *)
Turn(by, p) ==
  [date |-> IF by = 1 THEN NextDate(p.date, p.feb) ELSE PreDate(p.date, p.feb),
   feb  |-> February(Year(p.date + by), p.feb)]

(* The dates and the table after k turns.                                   *)
Turns(by, date, feb) ==
  LET after[k \in 0 .. Longest] ==
        IF k = 0 THEN [date |-> date, feb |-> feb] ELSE Turn(by, after[k - 1])
  IN  after

Walk(by, date, feb) ==
  LET after == Turns(by, date, feb)
      stop  == CHOOSE k \in 1 .. Longest :
                 /\ trade_date(after[k].date)
                 /\ \A j \in 1 .. k - 1 : ~trade_date(after[j].date)
  IN  after[stop]

NextTradeDate(date, feb) == Walk(1, date, feb)
PreTradeDate(date, feb)  == Walk(-1, date, feb)

(* A date of the calendar.                                                  *)
RealDate(date) ==
  /\ date \in Int /\ Month(date) \in 1 .. 12
  /\ Day(date) \in 1 .. MONTH_DAY(February(Year(date), 28))[Month(date) % 12]

(* Bound: the loops, which have none, end.  A walk may stand still for a    *)
(* turn, at a 29th of February that the year does not have.                 *)
TradingNear(date) ==
  LET near == 1 .. Longest \div 2 IN
  /\ \E m \in near : TradingDay(DayNumber(date) + m)
  /\ \E m \in near : TradingDay(DayNumber(date) - m)

ASSUME TradeCalendarAssumption ==
  /\ Longest \in Nat
  /\ \A date \in AskedDates : date \in Nat /\ RealDate(date) /\ TradingNear(date)

(* The answers for the current time: `now' is today's date and the time.    *)
is_trading_day(now) == trade_date(now.date)

TradingHours == 92500 .. 113000 \cup 130000 .. 150000

is_trading_time(now) ==
  /\ Weekday(DayNumber(now.date)) \notin {0, 6}
  /\ now.time \in TradingHours
  /\ DayNumber(now.date) \notin HolidayNumbers

(* Times of a day as hhmmss, -1 for none.  The test is the wrong way round: *)
(* it is on trading days that there is no time of opening.                 *)
market_open_time(now) == IF is_trading_day(now) THEN -1 ELSE 92500
market_close_time(now) == 150000

(* The Monday of this week; of a Sunday the Sunday before it.               *)
get_first_day_of_week(now) ==
  LET n == DayNumber(now.date)
      w == Weekday(n)
  IN  IF w = 0 THEN n - 7 ELSE n - (w - 1)

-----------------------------------------------------------------------------
NoCall == [method |-> "none"]

CalInit == february = 28 /\ calAsked = NoCall /\ calAnswer = 0

AskNext(date) ==
  LET p == NextTradeDate(date, february) IN
  /\ calAsked = NoCall
  /\ calAsked' = [method |-> "NextTradeDate", date |-> date, feb |-> february]
  /\ calAnswer' = p.date
  /\ february' = p.feb

AskPre(date) ==
  LET p == PreTradeDate(date, february) IN
  /\ calAsked = NoCall
  /\ calAsked' = [method |-> "PreTradeDate", date |-> date, feb |-> february]
  /\ calAnswer' = p.date
  /\ february' = p.feb

AskNow(date, time) ==
  LET now == [date |-> date, time |-> time] IN
  /\ calAsked = NoCall
  /\ calAsked' = [method |-> "now", date |-> date, time |-> time]
  /\ calAnswer' = [trading |-> is_trading_time(now), day |-> is_trading_day(now),
                   open |-> market_open_time(now), close |-> market_close_time(now),
                   week |-> get_first_day_of_week(now)]
  /\ UNCHANGED february

(* The caller has its answer.                                              *)
Answered ==
  /\ calAsked # NoCall
  /\ calAsked' = NoCall /\ calAnswer' = 0
  /\ UNCHANGED february

CalNext ==
  \/ \E date \in AskedDates :
       AskNext(date) \/ AskPre(date) \/ \E time \in Clocks : AskNow(date, time)
  \/ Answered

CalSpec == CalInit /\ [][CalNext]_calVars

-----------------------------------------------------------------------------
CalTypeOK ==
  /\ february \in {28, 29}
  /\ calAsked.method \in {"none", "NextTradeDate", "PreTradeDate", "now"}

(* A 29th of February that the year does not have, in an answer given while *)
(* the table had 29 days for every February.                               *)
NoSuchDay(date) ==
  /\ february = 29 /\ ~leap_year(Year(date))
  /\ date = DateOf(Year(date), 2, 29)

(* The day before a first of March that is a trading day, asked while the   *)
(* table has 29 days for February although the year does not: PreDate       *)
(* names a 29th, which trade_date takes for that first of March again.      *)
StaleMarch ==
  /\ calAsked.feb = 29 /\ ~leap_year(Year(calAsked.date))
  /\ calAsked.date = DateOf(Year(calAsked.date), 3, 1)
  /\ trade_date(calAsked.date)

(* The two walks and the calendar agree, over the ends of months, years and *)
(* holidays and over the questions asked before: NextTradeDate answers the  *)
(* first trading day after a date and PreTradeDate the last one before it,  *)
(* and the answer is a date of the calendar.  What the code does not keep,  *)
(* because a leap year sets MONTH_DAY[2] to 29 for good, is excepted by     *)
(* name: NextTradeDate may write the first of March of a common year as a   *)
(* 29th of February (NoSuchDay), and PreTradeDate of a first of March may   *)
(* answer that same day so written (StaleMarch).  Trading hours fall on     *)
(* trading days although is_trading_time and is_trading_day each have a     *)
(* test of their own.                                                      *)
TradeDaysInOrder ==
  LET asked == DayNumber(calAsked.date)
      found == DayNumber(calAnswer)
  IN
  CASE calAsked.method = "NextTradeDate" ->
         /\ RealDate(calAnswer) \/ NoSuchDay(calAnswer)
         /\ found > asked /\ TradingDay(found)
         /\ \A n \in asked + 1 .. found - 1 : ~TradingDay(n)
    [] calAsked.method = "PreTradeDate" ->
         \/ StaleMarch /\ NoSuchDay(calAnswer) /\ found = asked
         \/ /\ RealDate(calAnswer)
            /\ found < asked /\ TradingDay(found)
            /\ \A n \in found + 1 .. asked - 1 : ~TradingDay(n)
    [] calAsked.method = "now" ->
         calAnswer.trading => calAnswer.day /\ calAsked.time <= calAnswer.close
    [] OTHER -> TRUE
=============================================================================
