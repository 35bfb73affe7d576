-------------------------------- MODULE Cmos --------------------------------
(***************************************************************************)
(* The CMOS clock and its alarm.  The chip counts seconds and raises line  *)
(* 8 when its time equals the alarm registers, while time_read, one port   *)
(* at a time, and the alarm handler run.  While the chip brings its time   *)
(* up to date what it puts out is undefined, and nobody asks it.           *)
(* kernel_init has time_init and rtc_init commented out, and rtc_init its  *)
(* two masks: this is the kernel with those lines in.                      *)
(***************************************************************************)
EXTENDS Integers, Sequences

CONSTANTS SecPerMin, MinPerHour, HoursPerDay,
          Delay,          \* seconds, the argument of set_alarm_sec
          HandlerSeconds, \* bound: ticks of the clock within one call
          Noise,          \* bound: the bytes an undefined output reads as
          Starts          \* bound: the dates of the first day

Day == SecPerMin * MinPerHour * HoursPerDay
Field == <<"sec", "min", "hour", "wday", "mday", "mon", "year">>

ASSUME UnitsAssumption ==
  /\ {SecPerMin, MinPerHour, HoursPerDay} \subseteq 2 .. 99
  /\ Delay \in 1 .. (Day - 1) /\ HandlerSeconds \in Nat

ASSUME NoiseAssumption == Noise \subseteq 0 .. 255 /\ Noise # {}

(* A date as the chip holds it, a century long.                            *)
Dates == [wday : 1 .. 7, mday : 1 .. 31, mon : 1 .. 12, year : 0 .. 99]
ASSUME StartsAssumption == Starts \subseteq Dates /\ Starts # {}

VARIABLES
  tod, date,   \* the chip: seconds since midnight, and the date
  updating,    \* the chip: bit 7 of register A, an update is in progress
  binary,      \* the chip: bit DM of register B
  aie,         \* the chip: bit AIE of register B
  alarm,       \* the chip: the alarm registers
  af,          \* the chip: the alarm flag, until register C is read
  irr,         \* IRQ8 is latched
  pc, caller,  \* the next step, and who called time_read
  time,        \* the tm structure of that call
  yday,        \* its tm_yday, or -1 while nobody has set it
  goal,        \* the alarm that set_alarm_sec has worked out
  late,        \* ticks since the call began
  before,      \* ghost: the instant before the last tick
  due,         \* ghost: when the next alarm has to ring
  torn         \* ghost: the last pass of time_read met an update

chip == <<tod, date, updating, binary, aie, alarm, af, irr>>
vars == <<chip, pc, caller, time, yday, goal, late, before, due, torn>>

BcdToBin(b) == (b % 16) + 10 * (b \div 16)
BinToBcd(b) == (b % 10) + 16 * (b \div 10)
Shown(x) == IF binary THEN x ELSE BinToBcd(x)

Leap(year) == year % 4 = 0
DaysIn(mon, year) ==
  CASE mon = 2 -> IF Leap(year) THEN 29 ELSE 28
    [] mon \in {4, 6, 9, 11} -> 30 [] OTHER -> 31

NextDate(d) ==
  IF d.mday < DaysIn(d.mon, d.year) THEN [d EXCEPT !.mday = @ + 1, !.wday = (@ % 7) + 1]
  ELSE IF d.mon < 12 THEN [d EXCEPT !.mday = 1, !.mon = @ + 1, !.wday = (@ % 7) + 1]
  ELSE [mday |-> 1, mon |-> 1, year |-> (d.year + 1) % 100, wday |-> (d.wday % 7) + 1]

Instant(t, d) ==
  [sec |-> t % SecPerMin, min |-> (t \div SecPerMin) % MinPerHour,
   hour |-> t \div (SecPerMin * MinPerHour),
   wday |-> d.wday, mday |-> d.mday, mon |-> d.mon, year |-> d.year]
TimeOfDay(i) == i.sec + SecPerMin * (i.min + MinPerHour * i.hour)
Now == Instant(tod, date)

(* The registers are as the firmware left them; an alarm may be set and a  *)
(* flag pending.                                                           *)
Init ==
  /\ tod = Day - 2 /\ date \in Starts
  /\ binary \in BOOLEAN /\ aie = FALSE /\ af \in BOOLEAN /\ irr = FALSE
  /\ alarm = [sec |-> BinToBcd(0), min |-> BinToBcd(0), hour |-> BinToBcd(0)]
  /\ pc = "sec" /\ caller = "time_init"
  /\ updating = FALSE /\ torn = FALSE
  /\ before = Now /\ due = 0
  /\ time = Now /\ yday = -1 /\ late = 0
  /\ goal = [sec |-> 0, min |-> 0, hour |-> 0]

-----------------------------------------------------------------------------
(* The chip; a bound on days lets the day after the first be followed by   *)
(* the first.  The line is edge triggered.                                 *)
Rings(i) ==
  /\ alarm.sec = Shown(i.sec) /\ alarm.min = Shown(i.min) /\ alarm.hour = Shown(i.hour)

InCall == pc # "idle" => late < HandlerSeconds

BeginUpdate ==
  /\ ~updating /\ InCall
  /\ updating' = TRUE
  /\ UNCHANGED <<tod, date, binary, aie, alarm, af, irr, pc, caller, time, yday, goal, late,
                 before, due, torn>>

Tick ==
  LET t == (tod + 1) % Day
      d == IF t # 0 THEN date ELSE IF date \in Starts THEN NextDate(date)
           ELSE CHOOSE s \in Starts : NextDate(s) = date
  IN  /\ updating /\ InCall
      /\ updating' = FALSE
      /\ tod' = t /\ date' = d
      /\ before' = Now
      /\ late' = IF pc = "idle" THEN late ELSE late + 1
      /\ af' = (af \/ Rings(Instant(t, d)))
      /\ irr' = (irr \/ (aie /\ af' /\ ~af))
      /\ UNCHANGED <<binary, aie, alarm, pc, caller, time, yday, goal, due, torn>>

-----------------------------------------------------------------------------
(* time_read_bcd: one port access a step, whatever register A says.        *)
CmosRead(field) == IF updating THEN Noise ELSE {Shown(Now[field])}

After(field) == IF field = 7 THEN "again" ELSE Field[field + 1]

ReadField ==
  \E f \in 1 .. 7 : \E value \in CmosRead(Field[f]) :
    /\ pc = Field[f]
    /\ time' = [time EXCEPT ![Field[f]] = value]
    /\ torn' = (updating \/ (torn /\ f # 1))
    /\ pc' = After(f)
    /\ UNCHANGED <<chip, caller, yday, goal, late, before, due>>

\* Mutant: the date is taken as it was read, without a second look.
RolledOverNever(second) == FALSE

RolledOver(second) == time.sec # second

ReadOver ==
  /\ pc = "again" /\ \E second \in CmosRead("sec") : RolledOver(second)
  /\ pc' = "sec"
  /\ UNCHANGED <<chip, caller, time, yday, goal, late, before, due, torn>>

(* Days before each month of a leap year.  A month that is none is read    *)
(* from behind the array.                                                  *)
Month == <<0, 31, 60, 91, 121, 152, 182, 213, 244, 274, 305, 335>>

DaysBefore(mon) ==
  IF mon \in DOMAIN Month THEN {Month[mon]} ELSE IF mon = 0 THEN {0} ELSE Noise

GetYday(t) ==
  LET year == IF t.year >= 70 THEN t.year - 70 ELSE t.year - 70 + 100
  IN  {days + t.mday - (IF year % 4 # 0 /\ t.mon > 2 THEN 1 ELSE 0) : days \in DaysBefore(t.mon)}

(* The rest of time_read, then the carries of set_alarm_sec, in which      *)
(* nothing touches the chip.                                               *)
Converted == [f \in DOMAIN time |-> IF binary THEN time[f] ELSE BcdToBin(time[f])]

\* Mutant: a minute of exactly as many seconds as it has is not carried.
CarriedLate(value, unit) == IF value > unit THEN value - unit ELSE value

Carried(value, unit) == IF value >= unit THEN value - unit ELSE value

Carry(value, unit) == IF value >= unit THEN 1 ELSE 0

AlarmAfter(t) ==
  LET sec == t.sec + (Delay % SecPerMin)
      min == t.min + ((Delay \div SecPerMin) % MinPerHour) + Carry(sec, SecPerMin)
      hour == t.hour + (Delay \div (SecPerMin * MinPerHour)) + Carry(min, MinPerHour)
  IN  [sec |-> Carried(sec, SecPerMin), min |-> Carried(min, MinPerHour),
       hour |-> Carried(hour, HoursPerDay)]

ReadDone ==
  /\ pc = "again" /\ \E second \in CmosRead("sec") : ~RolledOver(second)
  /\ time' = Converted /\ torn' = (torn \/ updating)
  /\ yday' \in IF binary THEN {yday} ELSE GetYday(Converted)
  /\ pc' = IF caller = "time_init" THEN "regb" ELSE "alarm_sec"
  /\ IF caller = "time_init" THEN UNCHANGED <<goal, due>>
     ELSE goal' = AlarmAfter(Converted) /\ due' = (TimeOfDay(Converted) + Delay) % Day
  /\ UNCHANGED <<chip, caller, late, before>>

-----------------------------------------------------------------------------
(* rtc_init: AIE and 24 hours, so BCD; then set_alarm_sec.                 *)
RtcInit ==
  /\ pc = "regb"
  /\ aie' = TRUE /\ binary' = FALSE /\ irr' = (irr \/ af)
  /\ pc' = "sec" /\ caller' = "rtc_init" /\ late' = 0
  /\ UNCHANGED <<tod, date, updating, alarm, af, time, yday, goal, before, due, torn>>

(* The locals of a call are gone when it returns.                          *)
GoTo(next) ==
  /\ pc' = next
  /\ IF next # "idle" THEN UNCHANGED <<time, yday, goal, late>>
     ELSE /\ time' = Instant(0, CHOOSE d \in Starts : TRUE) /\ yday' = -1 /\ late' = 0
          /\ goal' = [sec |-> 0, min |-> 0, hour |-> 0]

Write(now, register, next) ==
  /\ pc = now /\ GoTo(next)
  /\ alarm' = [alarm EXCEPT ![register] = BinToBcd(goal[register])]
  /\ UNCHANGED <<tod, date, updating, binary, aie, af, irr, caller, before, due, torn>>

WriteAlarm ==
  \/ Write("alarm_sec", "sec", "alarm_min") \/ Write("alarm_min", "min", "alarm_hour")
  \/ Write("alarm_hour", "hour", IF caller = "handler" THEN "clear" ELSE "idle")

(* IRQ8 is delivered: rtc_handler begins with set_alarm_sec.               *)
RtcHandler ==
  /\ pc = "idle" /\ irr
  /\ irr' = FALSE /\ pc' = "sec" /\ caller' = "handler"
  /\ UNCHANGED <<tod, date, updating, binary, aie, alarm, af, time, yday, goal, late, before, due,
                 torn>>

\* Mutant: register C is not read.
FlagAfterClearKept == af

FlagAfterClear == FALSE

(* rtc_interrupt_flag_clear, then send_eoi.                                *)
FlagClear ==
  /\ pc = "clear" /\ GoTo("idle")
  /\ af' = FlagAfterClear
  /\ UNCHANGED <<tod, date, updating, binary, aie, alarm, irr, caller, before, due, torn>>

Step == ReadField \/ ReadOver \/ ReadDone \/ RtcInit \/ WriteAlarm \/ RtcHandler \/ FlagClear
Clock == BeginUpdate \/ Tick
Next == Clock \/ Step

(* The oscillator never stops, and neither does the code.                  *)
Spec == Init /\ [][Next]_vars /\ WF_vars(Clock) /\ WF_vars(Step)

-----------------------------------------------------------------------------
AlarmTime == TimeOfDay([f \in DOMAIN alarm |-> BcdToBin(alarm[f])])

(* A reading that met no update of the chip is a date the clock showed     *)
(* during the call, however the second, the day or the year turn between   *)
(* two port accesses.                                                      *)
ReadIsAnInstant ==
  pc \in {"alarm_sec", "regb"} /\ ~torn => time \in {Now, before}

(* The comment of the loop (l_time.c:39) says this of every reading, the   *)
(* ones that an update spoils included.                                    *)
ErrorWithinASecond ==
  pc \in {"alarm_sec", "regb"} => time \in {Now, before}

(* Outside the handler the next alarm, if it was worked out from a reading *)
(* that met no update, is always ahead and can ring: it is Delay seconds   *)
(* after the reading, its edge is not hidden by a flag left set, or the    *)
(* request is already latched.                                             *)
AlarmArmed ==
  pc = "idle" /\ ~irr /\ ~torn =>
    ~af /\ AlarmTime = due /\ (due - tod) % Day \in 1 .. Delay

(* The handler, which sets the alarm anew before it clears the flag of the *)
(* last one, runs again and again, unless a reading meets an update.       *)
AlarmRingsAgain == []<>(pc = "idle" /\ irr) \/ <>torn

(* tm_yday is the day of the year (l_time.c:57 and 63).                    *)
YdayIsDayOfYear ==
  yday # -1 /\ pc = "alarm_sec" /\ ~torn =>
    yday = Month[time.mon] + time.mday
             - (IF time.mon > 2 /\ ~Leap(time.year) THEN 1 ELSE 0)

=============================================================================
