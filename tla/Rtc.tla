---------------------------------- MODULE Rtc ----------------------------------
(* The real-time clock and driver/rtc.c.  A register is read in one step: the      *)
(* driver waits for the end of an update first, and the clock announces the next   *)
(* one early enough.  Between two registers the clock may go on.  C does not say   *)
(* in which order the registers of one expression are read, so any order is        *)
(* possible; only in rtc_get_epoch the date is a statement before the time.        *)
EXTENDS Integers

CONSTANTS
  HOURS, MINUTES, SECONDS,   \* of a day, an hour, a minute: 24, 60, 60
  WORD,                      \* numbers of type uint32_t: 2^32
  LastYear,                  \* the calendar is followed up to this year of the century
  BootDates,                 \* dates on which the machine is switched on
  TimesOfDay,                \* times at which it is
  MaxTicks                   \* bound: seconds that pass during a behaviour

DaySeconds == HOURS * MINUTES * SECONDS

\* The seconds from 1970 to the end of the century, 47483 days, fit a word.
ASSUME ClockAssumption ==
  /\ {HOURS, MINUTES, SECONDS} \subseteq Nat \ {0} /\ LastYear \in 0 .. 99 /\ MaxTicks \in Nat
  /\ WORD \in Nat /\ 47483 * DaySeconds <= WORD
  /\ TimesOfDay \subseteq (0 .. HOURS - 1) \X (0 .. MINUTES - 1) \X (0 .. SECONDS - 1)

VARIABLES
  on,      \* the machine is on
  now,     \* what the clock shows
  day,     \* history: days since 1 January 1970, counted
  ticks,   \* seconds passed since the machine was switched on
  call,    \* the call of rtc.c under way or finished
  boot     \* boot_epoch, or Unset; with what the clock showed (history)

rtcVars == <<on, now, day, ticks, call, boot>>

--------------------------------------------------------------------------------
(* The clock (external): two digits of the year, BCD, 24 hours. *)

Fields == {"year", "month", "day", "hour", "minute", "second"}
Date == {"year", "month", "day"}
Time == {"hour", "minute", "second"}

LeapYear(y) == (y % 4 = 0 /\ y % 100 # 0) \/ y % 400 = 0
DaysIn(y, m) ==
  CASE m = 2 -> IF LeapYear(2000 + y) THEN 29 ELSE 28
    [] m \in {4, 6, 9, 11} -> 30
    [] OTHER -> 31

NextDay(t) ==
  IF t.day < DaysIn(t.year, t.month) THEN [t EXCEPT !.day = @ + 1]
  ELSE IF t.month < 12 THEN [t EXCEPT !.day = 1, !.month = @ + 1]
  ELSE [t EXCEPT !.day = 1, !.month = 1, !.year = @ + 1]

NextSecond(t) ==
  IF t.second < SECONDS - 1 THEN [t EXCEPT !.second = @ + 1]
  ELSE IF t.minute < MINUTES - 1 THEN [t EXCEPT !.second = 0, !.minute = @ + 1]
  ELSE IF t.hour < HOURS - 1 THEN [t EXCEPT !.second = 0, !.minute = 0, !.hour = @ + 1]
  ELSE NextDay([t EXCEPT !.second = 0, !.minute = 0, !.hour = 0])

InCalendar(t) == t.year <= LastYear

Bcd(v) == (v \div 10) * 16 + (v % 10)

--------------------------------------------------------------------------------
(* The driver. *)

\* Mutant of bcd_to_bin: the digits are taken for binary.
bcd_to_binRaw(v) == v
bcd_to_bin(v) == (v % 16) + (v \div 16) * 10

rtc_read_reg(f) == Bcd(now[f])

\* Mutant of days_from_civil: February counts as a month of the new year.
days_from_civilFebruary(y0, m, d) ==
  LET y == IF m < 2 THEN y0 - 1 ELSE y0
      era == y \div 400
      yoe == y - era * 400
      doy == (153 * (m + (IF m > 2 THEN -3 ELSE 9)) + 2) \div 5 + d - 1
      doe == yoe * 365 + yoe \div 4 - yoe \div 100 + doy
  IN  era * 146097 + doe - 719468

\* Integer division truncates; no year is negative here.
days_from_civil(y0, m, d) ==
  LET y == IF m <= 2 THEN y0 - 1 ELSE y0
      era == y \div 400
      yoe == y - era * 400
      doy == (153 * (m + (IF m > 2 THEN -3 ELSE 9)) + 2) \div 5 + d - 1
      doe == yoe * 365 + yoe \div 4 - yoe \div 100 + doy
  IN  era * 146097 + doe - 719468

epoch(r) ==
  days_from_civil(2000 + r.year, r.month, r.day) * DaySeconds
    + r.hour * MINUTES * SECONDS + r.minute * SECONDS + r.second

\* The registers that a call reads: rtc_init and rtc_get_uptime call rtc_get_epoch;
\* the packed time and date have three each.
Registers(c) == CASE c \in {"init", "uptime"} -> Fields [] c = "time" -> Time [] c = "date" -> Date

NoCall == [name |-> "none"]
Unset == [set |-> FALSE, epoch |-> 0, error |-> 0, true |-> {}]
Midnight2000 == [year |-> 0, month |-> 1, day |-> 1, hour |-> 0, minute |-> 0, second |-> 0]

\* rtc_init comes first, once; the others are system calls.
BeginCall(c) ==
  /\ on /\ call = NoCall /\ (c = "init" <=> ~ boot.set)
  /\ call' = [name |-> c, left |-> Registers(c), got |-> Midnight2000,
              shown |-> {now}, torn |-> 1]
  /\ UNCHANGED <<on, now, day, ticks, boot>>

ReadRegister(f) ==
  /\ call # NoCall /\ f \in call.left
  /\ f \in Time => call.left \cap Date = {}
  /\ call' = [call EXCEPT !.left = @ \ {f}, !.got[f] = bcd_to_bin(rtc_read_reg(f))]
  /\ UNCHANGED <<on, now, day, ticks, boot>>

ReturnCall ==
  /\ call # NoCall /\ call.left = {}
  /\ call' = NoCall
  /\ boot' = IF call.name = "init"
             THEN [set |-> TRUE, epoch |-> epoch(call.got), error |-> call.torn,
                   true |-> {epoch(t) : t \in call.shown}]
             ELSE boot
  /\ UNCHANGED <<on, now, day, ticks>>

ClockCall ==
  \/ \E c \in {"init", "uptime", "time", "date"} : BeginCall(c)
  \/ \E f \in Fields : ReadRegister(f)
  \/ ReturnCall

\* What a call returns; the packed values as the seconds they stand for.  The
\* difference of two numbers of type uint32_t wraps around.
Result(c) ==
  CASE c.name = "uptime" -> (epoch(c.got) - boot.epoch) % WORD
    [] OTHER -> epoch(c.got)

--------------------------------------------------------------------------------
(* The clock goes on. *)

\* Seconds in the largest unit into which a second carried.
Carried(t, u) ==
  IF u.year # t.year THEN 366 * DaySeconds
  ELSE IF u.month # t.month THEN 31 * DaySeconds
  ELSE IF u.day # t.day THEN DaySeconds
  ELSE IF u.hour # t.hour THEN MINUTES * SECONDS
  ELSE IF u.minute # t.minute THEN SECONDS
  ELSE 0

Larger(a, b) == IF a > b THEN a ELSE b

Tick ==
  /\ on /\ ticks < MaxTicks
  /\ InCalendar(NextSecond(now))
  /\ now' = NextSecond(now)
  /\ day' = IF now'.day = now.day THEN day ELSE day + 1
  /\ ticks' = ticks + 1
  /\ call' = IF call = NoCall THEN NoCall
             ELSE [call EXCEPT !.torn = Larger(@, Carried(now, now')), !.shown = @ \cup {now'}]
  /\ UNCHANGED <<on, boot>>

\* The clock runs while the machine is off.
DayPasses ==
  /\ ~ on /\ InCalendar(NextDay(now))
  /\ now' = NextDay(now) /\ day' = day + 1
  /\ UNCHANGED <<on, ticks, call, boot>>

PowerOn ==
  /\ ~ on
  /\ <<now.year, now.month, now.day>> \in BootDates
  /\ on' = TRUE
  /\ \E t \in TimesOfDay :
        now' = [now EXCEPT !.hour = t[1], !.minute = t[2], !.second = t[3]]
  /\ UNCHANGED <<day, ticks, call, boot>>

ClockGoesOn == Tick \/ DayPasses \/ PowerOn

\* 1 January 2000 is day 10957.
RtcInit ==
  /\ on = FALSE /\ now = Midnight2000 /\ day = 10957
  /\ ticks = 0 /\ call = NoCall /\ boot = Unset

--------------------------------------------------------------------------------
(* Properties. *)

\* days_from_civil counts the days of the calendar, over all leap years.
DaysExact == days_from_civil(2000 + now.year, now.month, now.day) = day

\* The part of a time that a call reads, in seconds.
Part(c, t) == epoch([f \in Fields |-> IF f \in Registers(c) THEN t[f] ELSE Midnight2000[f]])

Distance(a, b) == IF a > b THEN a - b ELSE b - a

\* A call returns a time that the clock showed meanwhile, or it is off by less than
\* the largest unit into which the clock carried between two registers: an hour at
\* most at the full hour, a day at midnight.  The uptime is off by less than the two
\* readings behind it, unless rtc_get_uptime reads a time before boot_epoch: then
\* what it returns is a word too large, and one of the two readings was torn.
Underflows == epoch(call.got) < boot.epoch
ErrorBelowCarry ==
  (call # NoCall /\ call.left = {}) =>
    \E t \in call.shown :
       IF call.name = "uptime"
       THEN /\ \E b \in boot.true :
                 Distance(Result(call), epoch(t) - b + (IF Underflows THEN WORD ELSE 0))
                   < boot.error + call.torn - 1
            /\ Underflows => call.torn > 1 \/ boot.error > 1
       ELSE Distance(Result(call), Part(call.name, t)) < call.torn

\* The uptime is off by less than the two readings behind it.
UptimeNear ==
  (call # NoCall /\ call.left = {} /\ call.name = "uptime") =>
    \E t \in call.shown, b \in boot.true :
      Distance(Result(call), epoch(t) - b) < boot.error + call.torn - 1
================================================================================
