----------------------------- MODULE CmosProofs -----------------------------
(***************************************************************************)
(* For every length of a minute, an hour and a day, every delay and every  *)
(* night, and whatever an undefined output reads as: what time_read        *)
(* returns of a pass that met no update of the chip is a date that the     *)
(* clock shows at that moment, and the alarm that is worked out from it is *)
(* ahead of the clock.  A call must be shorter than a minute, and than the *)
(* delay of the alarm.                                                     *)
(***************************************************************************)
EXTENDS Cmos, TLAPS

Names == {"sec", "min", "hour", "wday", "mday", "mon", "year"}
Registers == {"sec", "min", "hour"}
Reading == {Field[f] : f \in 1 .. 7} \cup {"again"}
Setting == {"alarm_sec", "alarm_min", "alarm_hour", "clear"}

TypeOK ==
  /\ tod \in 0 .. (Day - 1)
  /\ date \in Starts \/ \E s \in Starts : date = NextDate(s)
  /\ updating \in BOOLEAN /\ torn \in BOOLEAN
  /\ binary \in BOOLEAN /\ aie \in BOOLEAN /\ af \in BOOLEAN /\ irr \in BOOLEAN
  /\ alarm \in [Registers -> Int] /\ goal \in [Registers -> Int]
  /\ pc \in Reading \cup Setting \cup {"regb", "idle"}
  /\ caller \in {"time_init", "rtc_init", "handler"}
  /\ time \in [Names -> Int] /\ late \in 0 .. HandlerSeconds

(* The second was read "ago" ticks before; without a tick since then all   *)
(* that was read still shows.  A pass that met an update promises nothing. *)
ReadAt(n, s, ago) ==
  /\ time.sec = Shown(s) /\ (s + ago) % SecPerMin = Now.sec
  /\ ago = 0 => \A g \in 1 .. n : time[Field[g]] = Shown(Now[Field[g]])

ReadSoFar(n) ==
  n >= 1 => \E s \in 0 .. (SecPerMin - 1), ago \in 0 .. late : ReadAt(n, s, ago)

PassInv ==
  ~torn =>
  /\ \A f \in 1 .. 7 : pc = Field[f] => ReadSoFar(f - 1)
  /\ pc = "again" => ReadSoFar(7)

Digits(t) ==
  [sec |-> t % SecPerMin, min |-> (t \div SecPerMin) % MinPerHour,
   hour |-> t \div (SecPerMin * MinPerHour)]

(* How long it is until the alarm is due, and what has been written of it. *)
Ahead == (due - tod) % Day
Written(register) == alarm[register] = BinToBcd(Digits(due)[register])

AlarmInv ==
  /\ aie <=> caller # "time_init"
  /\ aie => ~binary /\ pc # "regb"
  /\ pc \in Setting \cup {"idle"} => aie
  /\ pc = "clear" => caller = "handler"
  /\ aie /\ af => irr \/ (caller = "handler" /\ pc # "idle")

(* What the alarm registers hold, if the reading they come from was clean. *)
GoalInv ==
  ~torn =>
  /\ pc \in Setting \cup {"idle"} => due \in 0 .. (Day - 1)
  /\ pc \in Setting => goal = Digits(due) /\ Ahead \in (Delay - late) .. Delay
  /\ pc \in {"alarm_min", "alarm_hour", "clear", "idle"} => Written("sec")
  /\ pc \in {"alarm_hour", "clear", "idle"} => Written("min")
  /\ pc \in {"clear", "idle"} => Written("hour")
  /\ pc = "idle" /\ ~irr => Ahead \in 1 .. Delay

CmosInv == TypeOK /\ PassInv /\ AlarmInv /\ GoalInv

-----------------------------------------------------------------------------
(* Numbers.                                                                *)

LEMMA BcdRoundTrip == \A x \in 0 .. 99 : BcdToBin(BinToBcd(x)) = x
BY DEF BcdToBin, BinToBcd

LEMMA BcdNat == \A x \in Nat : BinToBcd(x) \in Nat
BY DEF BinToBcd

LEMMA SuccessorMod ==
  ASSUME NEW u \in Nat \ {0}, NEW x \in Nat
  PROVE  (x + 1) % u = IF (x % u) + 1 = u THEN 0 ELSE (x % u) + 1
<1> DEFINE q == x \div u
           r == x % u
<1>1. q \in Nat /\ r \in 0 .. (u - 1) /\ x = q * u + r OBVIOUS
<1> HIDE DEF q, r
<1>2. CASE r + 1 = u
  <2>1. x + 1 = u * (q + 1) BY <1>1, <1>2
  <2>2. (u * (q + 1)) % u = 0 BY <1>1
  <2> QED BY <1>2, <2>1, <2>2 DEF r
<1>3. CASE r + 1 # u
  <2>1. x + 1 = u * q + (r + 1) /\ r + 1 \in 0 .. (u - 1) BY <1>1, <1>3
  <2>2. \A w \in 0 .. (u - 1) : (u * q + w) % u = w BY <1>1
  <2>3. (x + 1) % u = r + 1 BY <2>1, <2>2
  <2> QED BY <1>3, <2>3 DEF r
<1> QED BY <1>2, <1>3

LEMMA ModIn ==
  ASSUME NEW u \in Nat \ {0}, NEW a \in (1 - u) .. (u - 1)
  PROVE  a % u = IF a >= 0 THEN a ELSE a + u
OBVIOUS

(* One tick nearer.                                                        *)
LEMMA Nearer ==
  ASSUME NEW u \in Nat \ {0}, NEW t \in 0 .. (u - 1), NEW d \in 0 .. (u - 1)
  PROVE  /\ (d - t) % u \in 0 .. (u - 1)
         /\ (d - ((t + 1) % u)) % u = IF (d - t) % u = 0 THEN u - 1 ELSE ((d - t) % u) - 1
         /\ (d - t) % u = 0 <=> d = t
<1>1. (t + 1) % u = IF t + 1 = u THEN 0 ELSE t + 1 OBVIOUS
<1>2. \A a \in (1 - u) .. (u - 1) : a % u = IF a >= 0 THEN a ELSE a + u BY ModIn
<1>3. (d - t) % u = IF d >= t THEN d - t ELSE d - t + u BY <1>2
<1>4. CASE t + 1 = u
  <2>1. (d - 0) % u = d BY <1>2
  <2> QED BY <1>1, <1>3, <1>4, <2>1
<1>5. CASE t + 1 # u
  <2>1. (d - (t + 1)) % u = IF d >= t + 1 THEN d - (t + 1) ELSE d - (t + 1) + u BY <1>2
  <2> QED BY <1>1, <1>3, <1>5, <2>1
<1> QED BY <1>4, <1>5

LEMMA Units ==
  /\ SecPerMin \in 2 .. 99 /\ MinPerHour \in 2 .. 99 /\ HoursPerDay \in 2 .. 99
  /\ SecPerMin * MinPerHour \in Nat \ {0}
  /\ Day = (SecPerMin * MinPerHour) * HoursPerDay /\ Day \in Nat /\ Day >= 8
  /\ Delay \in 1 .. (Day - 1) /\ HandlerSeconds \in Nat
<1>1. SecPerMin \in 2 .. 99 /\ MinPerHour \in 2 .. 99 /\ HoursPerDay \in 2 .. 99
  BY UnitsAssumption
<1>2. \A a, b \in Nat : a >= 2 /\ b >= 2 => a * b \in Nat /\ a * b >= 4 /\ a * b >= 2 * b OBVIOUS
<1>3. SecPerMin * MinPerHour \in Nat /\ SecPerMin * MinPerHour >= 4 BY <1>1, <1>2
<1>4. \A a, b \in Nat : a >= 4 /\ b >= 2 => a * b \in Nat /\ a * b >= 8 OBVIOUS
<1>5. Day \in Nat /\ Day >= 8 BY <1>1, <1>3, <1>4 DEF Day
<1> QED BY <1>1, <1>3, <1>5, UnitsAssumption DEF Day

(* A number of a day as its digits, and back.                              *)
LEMMA DigitsOf ==
  ASSUME NEW s \in 0 .. (SecPerMin - 1), NEW m \in 0 .. (MinPerHour - 1), NEW h \in Nat
  PROVE  LET x == s + SecPerMin * (m + MinPerHour * h)
         IN  /\ x \in Nat /\ x % SecPerMin = s /\ (x \div SecPerMin) % MinPerHour = m
             /\ x \div (SecPerMin * MinPerHour) = h
             /\ h < HoursPerDay => x < Day
<1> DEFINE a == SecPerMin
           b == MinPerHour
           k == m + b * h
           x == s + a * k
<1>1. a \in Nat \ {0} /\ b \in Nat \ {0} /\ HoursPerDay \in Nat \ {0} BY Units
<1> HIDE DEF a, b
<1>2. k \in Nat /\ k % b = m /\ k \div b = h BY <1>1 DEF b
<1>3. h < HoursPerDay => k < b * HoursPerDay
  <2> SUFFICES ASSUME h < HoursPerDay PROVE k < b * HoursPerDay OBVIOUS
  <2>1. h + 1 <= HoursPerDay BY <1>1
  <2>2. b * (h + 1) <= b * HoursPerDay BY <1>1, <2>1
  <2>3. b * (h + 1) = b * h + b /\ b * h \in Nat BY <1>1
  <2>4. b * HoursPerDay \in Nat /\ m \in Nat /\ m < b BY <1>1 DEF b
  <2> QED BY <2>2, <2>3, <2>4, <1>1
<1> HIDE DEF k
<1>4. x \in Nat /\ x % a = s /\ x \div a = k BY <1>1, <1>2 DEF a
<1>5. k < b * HoursPerDay => x < a * (b * HoursPerDay)
  <2> SUFFICES ASSUME k < b * HoursPerDay PROVE x < a * (b * HoursPerDay) OBVIOUS
  <2> DEFINE n == b * HoursPerDay
  <2>1. n \in Nat BY <1>1
  <2>2. k < n OBVIOUS
  <2> HIDE DEF n
  <2>3. k + 1 <= n BY <1>2, <2>1, <2>2
  <2>4. a * (k + 1) <= a * n BY <1>1, <1>2, <2>1, <2>3
  <2>5. a * (k + 1) = a * k + a /\ a * k \in Nat /\ a * n \in Nat BY <1>1, <1>2, <2>1
  <2>6. s \in Nat /\ s < a BY <1>1 DEF a
  <2>7. x < a * n BY <1>1, <2>4, <2>5, <2>6
  <2> QED BY <2>7 DEF n
<1>6. a * (b * HoursPerDay) = (a * b) * HoursPerDay BY <1>1
<1>7. x \div (a * b) = h
  <2>1. (x \div a) \div b = x \div (a * b)
    <3> HIDE DEF x
    <3> QED BY <1>1, <1>4
  <2> QED BY <1>2, <1>4, <2>1
<1>8. h < HoursPerDay => x < Day BY <1>3, <1>5, <1>6, Units DEF a, b
<1> QED BY <1>2, <1>4, <1>7, <1>8 DEF a, b, k

LEMMA DigitsIn ==
  ASSUME NEW x \in 0 .. (Day - 1)
  PROVE  /\ x % SecPerMin \in 0 .. (SecPerMin - 1)
         /\ (x \div SecPerMin) % MinPerHour \in 0 .. (MinPerHour - 1)
         /\ x \div (SecPerMin * MinPerHour) \in 0 .. (HoursPerDay - 1)
         /\ (x % SecPerMin) + SecPerMin * (((x \div SecPerMin) % MinPerHour)
              + MinPerHour * (x \div (SecPerMin * MinPerHour))) = x
<1> DEFINE a == SecPerMin
           b == MinPerHour
           c == HoursPerDay
           k == x \div a
           h == k \div b
<1>1. a \in Nat \ {0} /\ b \in Nat \ {0} /\ c \in Nat \ {0} /\ x \in Nat /\ x < (a * b) * c
  BY Units
<1> HIDE DEF a, b, c
<1>2. k \in Nat /\ x % a \in 0 .. (a - 1) /\ x = (x % a) + a * k BY <1>1
<1>3. (x \div a) \div b = x \div (a * b) BY <1>1
<1> HIDE DEF k
<1>4. h \in Nat /\ k % b \in 0 .. (b - 1) /\ k = (k % b) + b * h BY <1>1, <1>2
<1>5. h = x \div (a * b) BY <1>3 DEF k
<1>6. h <= c - 1
  <2> DEFINE n == a * b
  <2>1. n \in Nat \ {0} BY <1>1
  <2>2. x < n * c BY <1>1
  <2> HIDE DEF n
  <2>3. x \div n < c BY <1>1, <2>1, <2>2
  <2>4. h < c BY <1>5, <2>3 DEF n
  <2> QED BY <1>1, <1>4, <2>4
<1>7. x = (x % a) + a * ((k % b) + b * h) BY <1>2, <1>4
<1>8. h \in 0 .. (c - 1) BY <1>1, <1>4, <1>6
<1> HIDE DEF h
<1>9. /\ x % a \in 0 .. (a - 1) /\ (x \div a) % b \in 0 .. (b - 1)
      /\ x \div (a * b) \in 0 .. (c - 1)
      /\ (x % a) + a * (((x \div a) % b) + b * (x \div (a * b))) = x
  BY <1>2, <1>4, <1>5, <1>7, <1>8 DEF k
<1> QED BY <1>9 DEF a, b, c

(* What set_alarm_sec works out.                                           *)
LEMMA AlarmDigits ==
  ASSUME NEW x \in 0 .. (Day - 1), NEW t,
         t.sec = x % SecPerMin, t.min = (x \div SecPerMin) % MinPerHour,
         t.hour = x \div (SecPerMin * MinPerHour)
  PROVE  /\ TimeOfDay(t) = x
         /\ AlarmAfter(t) = Digits((x + Delay) % Day)
<1> DEFINE a == SecPerMin
           b == MinPerHour
           c == HoursPerDay
           p == a * b
           s == t.sec
           m == t.min
           h == t.hour
           ds == Delay % SecPerMin
           dm == (Delay \div SecPerMin) % MinPerHour
           dh == Delay \div (SecPerMin * MinPerHour)
           c1 == Carry(s + ds, a)
           s1 == Carried(s + ds, a)
           c2 == Carry(m + dm + c1, b)
           m1 == Carried(m + dm + c1, b)
           c3 == Carry(h + dh + c2, c)
           h1 == Carried(h + dh + c2, c)
           y == s1 + a * (m1 + b * h1)
<1>1. a \in Nat \ {0} /\ b \in Nat \ {0} /\ c \in Nat \ {0} /\ p \in Nat \ {0} /\ Day = p * c
  BY Units
<1>2. /\ s \in 0 .. (a - 1) /\ m \in 0 .. (b - 1) /\ h \in 0 .. (c - 1)
      /\ s + a * (m + b * h) = x
  BY DigitsIn
<1>3. /\ ds \in 0 .. (a - 1) /\ dm \in 0 .. (b - 1) /\ dh \in 0 .. (c - 1)
      /\ ds + a * (dm + b * dh) = Delay
  <2>1. Delay \in 0 .. (Day - 1) BY Units
  <2> QED BY <2>1, DigitsIn
<1>4. AlarmAfter(t) = [sec |-> s1, min |-> m1, hour |-> h1] BY DEF AlarmAfter
<1>5. x \in Nat /\ Delay \in Nat /\ Day \in Nat /\ x + Delay < 2 * Day BY Units
<1> HIDE DEF a, b, c, s, m, h, ds, dm, dh
<1>6. c1 \in 0 .. 1 /\ s1 \in 0 .. (a - 1) /\ s + ds = s1 + a * c1
  BY <1>1, <1>2, <1>3 DEF Carry, Carried
<1> HIDE DEF c1, s1
<1>7. c2 \in 0 .. 1 /\ m1 \in 0 .. (b - 1) /\ m + dm + c1 = m1 + b * c2
  BY <1>1, <1>2, <1>3, <1>6 DEF Carry, Carried
<1> HIDE DEF c2, m1
<1>8. c3 \in 0 .. 1 /\ h1 \in 0 .. (c - 1) /\ h + dh + c2 = h1 + c * c3
  BY <1>1, <1>2, <1>3, <1>7 DEF Carry, Carried
<1> HIDE DEF c3, h1
<1>9. x + Delay = y + Day * c3
  <2>1. \A u, v \in Nat : a * (u + b * v) = a * u + p * v /\ a * u \in Nat /\ p * v \in Nat
    BY <1>1
  <2>2. \A u, v \in Nat : a * (u + v) = a * u + a * v /\ p * (u + v) = p * u + p * v BY <1>1
  <2>3. p * (c * c3) = Day * c3 /\ Day * c3 \in Nat /\ c * c3 \in Nat BY <1>1, <1>8
  <2>4. a * (b * c2) = p * c2 /\ b * c2 \in Nat BY <1>1, <1>7
  <2> HIDE DEF p, y
  <2>14. /\ s \in Nat /\ m \in Nat /\ h \in Nat /\ ds \in Nat /\ dm \in Nat /\ dh \in Nat
         /\ s1 \in Nat /\ m1 \in Nat /\ h1 \in Nat
    BY <1>1, <1>2, <1>3, <1>6, <1>7, <1>8
  <2>15. /\ a * (m + b * h) = a * m + p * h /\ a * (dm + b * dh) = a * dm + p * dh
         /\ a * (m1 + b * h1) = a * m1 + p * h1
         /\ a * m \in Nat /\ p * h \in Nat /\ a * dm \in Nat /\ p * dh \in Nat
         /\ a * m1 \in Nat /\ p * h1 \in Nat
    BY <2>1, <2>14
  <2>5. x = s + a * m + p * h /\ Delay = ds + a * dm + p * dh BY <1>2, <1>3, <2>14, <2>15
  <2>6. y = s1 + a * m1 + p * h1 BY <2>14, <2>15 DEF y
  <2>7. a * (m + dm + c1) = a * m + a * dm + a * c1
    <3>1. m + dm \in Nat /\ c1 \in Nat /\ m \in Nat /\ dm \in Nat BY <1>2, <1>3, <1>6, <1>1
    <3> QED BY <2>2, <3>1
  <2>8. a * (m1 + b * c2) = a * m1 + p * c2
    <3>1. m1 \in Nat BY <1>1, <1>7
    <3> QED BY <2>2, <2>4, <3>1
  <2>9. p * (h + dh + c2) = p * h + p * dh + p * c2
    <3>1. h + dh \in Nat /\ c2 \in Nat /\ h \in Nat /\ dh \in Nat BY <1>2, <1>3, <1>7, <1>1
    <3> QED BY <2>2, <3>1
  <2>10. p * (h1 + c * c3) = p * h1 + Day * c3
    <3>1. h1 \in Nat BY <1>1, <1>8
    <3> QED BY <2>2, <2>3, <3>1
  <2>11. a * m + a * dm + a * c1 = a * m1 + p * c2 BY <1>7, <2>7, <2>8
  <2>12. p * h + p * dh + p * c2 = p * h1 + Day * c3 BY <1>8, <2>9, <2>10
  <2>13. /\ a * m \in Nat /\ a * dm \in Nat /\ a * c1 \in Nat /\ a * m1 \in Nat
         /\ p * c2 \in Nat /\ p * h \in Nat /\ p * dh \in Nat /\ p * h1 \in Nat
         /\ s \in Nat /\ ds \in Nat /\ s1 \in Nat
    BY <1>1, <1>2, <1>3, <1>6, <1>7, <1>8, <2>1
  <2> QED BY <1>6, <2>3, <2>5, <2>6, <2>11, <2>12, <2>13
<1>10. y \in Nat /\ y < Day /\ Digits(y) = [sec |-> s1, min |-> m1, hour |-> h1]
  <2>1. h1 \in Nat /\ h1 < c BY <1>1, <1>8
  <2> QED BY <1>6, <1>7, <2>1, DigitsOf DEF Digits, a, b, c
<1>11. (x + Delay) % Day = y
  <2> HIDE DEF y
  <2>1. CASE c3 = 0
    <3>1. x + Delay = y BY <1>5, <1>9, <1>10, <2>1
    <3> QED BY <1>5, <1>10, <3>1
  <2>2. CASE c3 = 1
    <3>1. x + Delay = y + Day BY <1>5, <1>9, <1>10, <2>2
    <3>2. (y + Day) % Day = y BY <1>5, <1>10
    <3> QED BY <3>1, <3>2
  <2> QED BY <1>8, <2>1, <2>2
<1>12. TimeOfDay(t) = x BY <1>2 DEF TimeOfDay, a, b, s, m, h
<1> QED BY <1>4, <1>10, <1>11, <1>12

LEMMA StillAhead ==
  ASSUME NEW u \in Nat, NEW x \in 0 .. (u - 1), NEW d \in 0 .. (u - 1)
  PROVE  (x + d) % u \in 0 .. (u - 1) /\ (((x + d) % u) - x) % u = d
<1>1. u \in Nat \ {0} OBVIOUS
<1>2. (x + d) % u = IF x + d < u THEN x + d ELSE x + d - u
  <2>1. CASE x + d < u BY <2>1
  <2>2. CASE ~(x + d < u)
    <3> DEFINE e == x + d - u
    <3>1. e \in 0 .. (u - 1) BY <2>2
    <3>2. x + d = e + u BY <2>2
    <3> HIDE DEF e
    <3>3. (e + u) % u = e BY <1>1, <3>1
    <3>4. e = x + d - u BY DEF e
    <3> QED BY <2>2, <3>2, <3>3, <3>4
  <2> QED BY <2>1, <2>2
<1>3. \A a \in (1 - u) .. (u - 1) : a % u = IF a >= 0 THEN a ELSE a + u BY <1>1, ModIn
<1>4. CASE x + d < u
  <2>1. (x + d) - x = d OBVIOUS
  <2>2. d % u = d BY <1>3
  <2> QED BY <1>2, <1>4, <2>1, <2>2
<1>5. CASE ~(x + d < u)
  <2>1. d - u \in (1 - u) .. (u - 1) \/ d = 0 BY <1>5
  <2>2. d # 0 BY <1>5
  <2>3. (d - u) % u = d BY <1>3, <2>1, <2>2
  <2>4. (x + d - u) - x = d - u OBVIOUS
  <2> QED BY <1>2, <1>5, <2>3, <2>4
<1> QED BY <1>4, <1>5

-----------------------------------------------------------------------------
(* Types.                                                                  *)

LEMMA FieldNames ==
  /\ Field[1] = "sec" /\ Field[2] = "min" /\ Field[3] = "hour" /\ Field[4] = "wday"
  /\ Field[5] = "mday" /\ Field[6] = "mon" /\ Field[7] = "year"
BY DEF Field

LEMMA EachField ==
  ASSUME NEW f \in 1 .. 7
  PROVE  Field[f] \in Names /\ Field[f] \in Reading /\ After(f) \in Reading
<1>1. f < 7 => f + 1 \in 1 .. 7 OBVIOUS
<1>2. Field[f] \in Names BY FieldNames DEF Names
<1> QED BY <1>1, <1>2 DEF Reading, After

LEMMA Readings == Reading = Names \cup {"again"}
<1>1. \A f \in 1 .. 7 : Field[f] \in Names BY EachField
<1>2. \A n \in Names : \E f \in 1 .. 7 : n = Field[f] BY FieldNames DEF Names
<1> QED BY <1>1, <1>2 DEF Reading

LEMMA NextDateIn == \A d \in Dates : NextDate(d) \in Dates
<1> SUFFICES ASSUME NEW d \in Dates PROVE NextDate(d) \in Dates OBVIOUS
<1>1. DaysIn(d.mon, d.year) \in 28 .. 31 BY DEF DaysIn, Leap
<1>2. d.wday \in 1 .. 7 /\ d.mday \in 1 .. 31 /\ d.mon \in 1 .. 12 /\ d.year \in 0 .. 99
  BY DEF Dates
<1>3. (d.wday % 7) + 1 \in 1 .. 7 /\ (d.year + 1) % 100 \in 0 .. 99 BY <1>2
<1>4. CASE d.mday < DaysIn(d.mon, d.year)
  <2> DEFINE w == (d.wday % 7) + 1
             e == [d EXCEPT !.mday = d.mday + 1]
  <2>1. NextDate(d) = [e EXCEPT !.wday = w]
    <3>1. NextDate(d) = [d EXCEPT !.mday = d.mday + 1, !.wday = w]
      BY <1>4 DEF NextDate
    <3> QED BY <3>1
  <2>2. d.mday + 1 \in 1 .. 31 BY <1>1, <1>2, <1>4
  <2>3. e \in Dates BY <2>2 DEF Dates
  <2> HIDE DEF e
  <2>4. w \in 1 .. 7 BY <1>3
  <2> HIDE DEF w
  <2>5. [e EXCEPT !.wday = w] \in Dates BY <2>3, <2>4 DEF Dates
  <2> QED BY <2>1, <2>5
<1>5. CASE ~(d.mday < DaysIn(d.mon, d.year)) /\ d.mon < 12
  <2> DEFINE w == (d.wday % 7) + 1
             e == [d EXCEPT !.mday = 1]
             g == [e EXCEPT !.mon = d.mon + 1]
  <2>1. NextDate(d) = [g EXCEPT !.wday = w]
    <3>1. NextDate(d) = [d EXCEPT !.mday = 1, !.mon = d.mon + 1, !.wday = w]
      BY <1>5 DEF NextDate
    <3> QED BY <3>1
  <2>2. d.mon + 1 \in 1 .. 12 BY <1>2, <1>5
  <2>3. e \in Dates /\ e.mon = d.mon BY DEF Dates
  <2> HIDE DEF e, w
  <2>4. g \in Dates BY <2>2, <2>3 DEF Dates
  <2> HIDE DEF g
  <2>5. w \in 1 .. 7 BY <1>3 DEF w
  <2>6. [g EXCEPT !.wday = w] \in Dates BY <2>4, <2>5 DEF Dates
  <2> QED BY <2>1, <2>6
<1>6. CASE ~(d.mday < DaysIn(d.mon, d.year)) /\ ~(d.mon < 12)
  BY <1>3, <1>6 DEF NextDate, Dates
<1> QED BY <1>4, <1>5, <1>6

LEMMA InstantIn ==
  ASSUME NEW t \in 0 .. (Day - 1), NEW d \in Dates
  PROVE  /\ Instant(t, d) \in [Names -> 0 .. 99]
         /\ Instant(t, d).sec = t % SecPerMin
         /\ Instant(t, d).min = (t \div SecPerMin) % MinPerHour
         /\ Instant(t, d).hour = t \div (SecPerMin * MinPerHour)
<1>1. /\ t % SecPerMin \in 0 .. 99 /\ (t \div SecPerMin) % MinPerHour \in 0 .. 99
      /\ t \div (SecPerMin * MinPerHour) \in 0 .. 99
  <2>1. \A u \in 2 .. 99 : \A v \in 0 .. (u - 1) : v \in 0 .. 99 OBVIOUS
  <2> QED BY <2>1, DigitsIn, Units
<1>2. d.wday \in 0 .. 99 /\ d.mday \in 0 .. 99 /\ d.mon \in 0 .. 99 /\ d.year \in 0 .. 99
  BY DEF Dates
<1> HIDE DEF Dates
<1> QED BY <1>1, <1>2 DEF Instant, Names

LEMMA DatesTyped == TypeOK => date \in Dates
BY StartsAssumption, NextDateIn DEF TypeOK

LEMMA NowIn ==
  ASSUME TypeOK
  PROVE  /\ Now \in [Names -> 0 .. 99] /\ Now.sec = tod % SecPerMin
         /\ Now.min = (tod \div SecPerMin) % MinPerHour
         /\ Now.hour = tod \div (SecPerMin * MinPerHour)
BY InstantIn, DatesTyped DEF Now, TypeOK

LEMMA ShownIn ==
  /\ \A x \in 0 .. 99 : Shown(x) \in Nat
  /\ \A x \in 0 .. 99 : (IF binary THEN Shown(x) ELSE BcdToBin(Shown(x))) = x
  /\ \A x, y \in 0 .. 99 : Shown(x) = Shown(y) => x = y
<1>1. \A x \in 0 .. 99 : x \in Nat OBVIOUS
<1> QED BY <1>1, BcdRoundTrip, BcdNat DEF Shown

(* The steps of the code leave the chip's time alone.                      *)
LEMMA SameNow == UNCHANGED <<tod, date>> => Now' = Now
BY DEF Now

LEMMA TypeStart == Init => TypeOK
<1> SUFFICES ASSUME Init PROVE TypeOK OBVIOUS
<1>1. tod \in 0 .. (Day - 1) /\ date \in Starts /\ late \in 0 .. HandlerSeconds
  BY Units DEF Init
<1>2. Now \in [Names -> 0 .. 99] BY <1>1, InstantIn, StartsAssumption DEF Now
<1>3. time \in [Names -> Int]
  <2>1. time = Now BY DEF Init
  <2>2. \A f \in [Names -> 0 .. 99] : f \in [Names -> Int] OBVIOUS
  <2> QED BY <1>2, <2>1, <2>2
<1>4. BinToBcd(0) \in Nat BY BcdNat
<1>5. alarm \in [Registers -> Int] /\ goal \in [Registers -> Int] BY <1>4 DEF Init, Registers
<1>6. pc \in Reading BY Readings DEF Init, Names
<1> QED BY <1>1, <1>3, <1>5, <1>6 DEF Init, TypeOK

LEMMA TypeBegin == TypeOK /\ BeginUpdate => TypeOK'
BY DEF TypeOK, BeginUpdate

LEMMA TypeTick == TypeOK /\ Tick => TypeOK'
<1> SUFFICES ASSUME TypeOK, Tick PROVE TypeOK' OBVIOUS
<1> DEFINE t == (tod + 1) % Day
<1>1. /\ tod' = t /\ (pc # "idle" => late < HandlerSeconds)
      /\ late' = (IF pc = "idle" THEN late ELSE late + 1)
      /\ UNCHANGED <<binary, aie, alarm, pc, caller, time, goal, torn>> /\ updating' = FALSE
  BY DEF Tick, InCall
<1>2. date' = IF t # 0 THEN date ELSE IF date \in Starts THEN NextDate(date)
              ELSE CHOOSE s \in Starts : NextDate(s) = date
  BY DEF Tick
<1>3. af' \in BOOLEAN /\ irr' \in BOOLEAN
  <2>1. \E d : af' = (af \/ Rings(Instant(t, d))) BY DEF Tick
  <2>2. irr' = (irr \/ (aie /\ af' /\ ~af)) BY DEF Tick
  <2> QED BY <2>1, <2>2 DEF TypeOK, Rings
<1>4. t \in 0 .. (Day - 1)
  <2>1. \A a \in Nat, u \in Nat \ {0} : a % u \in 0 .. (u - 1) OBVIOUS
  <2>2. tod + 1 \in Nat /\ Day \in Nat \ {0} BY Units DEF TypeOK
  <2> QED BY <2>1, <2>2
<1>5. date' \in Starts \/ \E s \in Starts : date' = NextDate(s) BY <1>2 DEF TypeOK
<1>6. late' \in 0 .. HandlerSeconds BY <1>1, Units DEF TypeOK
<1> HIDE DEF t
<1>7. tod' \in 0 .. (Day - 1) BY <1>1, <1>4
<1> QED BY <1>1, <1>3, <1>5, <1>6, <1>7 DEF TypeOK

LEMMA GoToTyped ==
  ASSUME TypeOK, NEW next, GoTo(next)
  PROVE  /\ time' \in [Names -> Int] /\ late' \in 0 .. HandlerSeconds /\ pc' = next
         /\ goal' \in [Registers -> Int]
<1>1. CASE next # "idle" BY <1>1 DEF GoTo, TypeOK
<1>2. CASE next = "idle"
  <2> DEFINE d == CHOOSE s \in Starts : TRUE
  <2>1. d \in Dates BY StartsAssumption
  <2>2. time' = Instant(0, d) /\ late' = 0 BY <1>2 DEF GoTo
  <2> HIDE DEF d
  <2>3. 0 \in 0 .. (Day - 1) BY Units
  <2>4. Instant(0, d) \in [Names -> 0 .. 99] BY <2>1, <2>3, InstantIn
  <2>5. \A f \in [Names -> 0 .. 99] : f \in [Names -> Int] OBVIOUS
  <2>6. goal' \in [Registers -> Int] BY <1>2 DEF GoTo, Registers
  <2> QED BY <2>2, <2>4, <2>5, <2>6, Units DEF GoTo
<1> QED BY <1>1, <1>2

LEMMA TypeStep == TypeOK /\ Step => TypeOK'
<1> SUFFICES ASSUME TypeOK, Step PROVE TypeOK' OBVIOUS
<1>1. CASE ReadField
  <2>1. PICK f \in 1 .. 7 : \E value \in CmosRead(Field[f]) :
          /\ time' = [time EXCEPT ![Field[f]] = value] /\ pc' = After(f)
          /\ torn' = (updating \/ (torn /\ f # 1))
          /\ UNCHANGED <<chip, caller, late, goal>>
    BY <1>1 DEF ReadField
  <2>2. Field[f] \in Names /\ After(f) \in Reading BY EachField
  <2>3. CmosRead(Field[f]) \subseteq Int
    <3>1. Now \in [Names -> 0 .. 99] BY NowIn
    <3>2. Now[Field[f]] \in 0 .. 99 BY <2>2, <3>1
    <3>3. Shown(Now[Field[f]]) \in Nat BY <3>2, ShownIn
    <3>4. Noise \subseteq Int BY NoiseAssumption
    <3> DEFINE x == Shown(Now[Field[f]])
    <3>5. CmosRead(Field[f]) = IF updating THEN Noise ELSE {x} BY DEF CmosRead
    <3>6. x \in Int BY <3>3
    <3> HIDE DEF x
    <3> QED BY <3>4, <3>5, <3>6
  <2>5. torn' \in BOOLEAN BY <2>1 DEF TypeOK
  <2>4. time' \in [Names -> Int] BY <2>1, <2>2, <2>3 DEF TypeOK
  <2> QED BY <2>1, <2>2, <2>4, <2>5 DEF TypeOK, chip
<1>2. CASE ReadOver
  <2>1. "sec" \in Reading BY Readings DEF Names
  <2> QED BY <1>2, <2>1 DEF ReadOver, TypeOK, chip
<1>3. CASE ReadDone
  <2>1. /\ time' = Converted /\ UNCHANGED <<chip, caller, late>> /\ pc' \in {"regb", "alarm_sec"}
        /\ torn' = (torn \/ updating)
    BY <1>3 DEF ReadDone
  <2>2. Converted \in [Names -> Int]
    <3>1. \A b \in Int : BcdToBin(b) \in Int BY DEF BcdToBin
    <3> QED BY <3>1 DEF Converted, TypeOK
  <2>3. goal' \in [Registers -> Int]
    <3> HIDE DEF Converted
    <3>1. /\ Delay % SecPerMin \in Int /\ (Delay \div SecPerMin) % MinPerHour \in Int
          /\ Delay \div (SecPerMin * MinPerHour) \in Int
      BY Units, DigitsIn
    <3>2. Converted.sec \in Int /\ Converted.min \in Int /\ Converted.hour \in Int
      BY <2>2 DEF Names
    <3>3. AlarmAfter(Converted) \in [Registers -> Int]
      BY <3>1, <3>2, Units DEF AlarmAfter, Carry, Carried, Registers
    <3> QED BY <1>3, <3>3 DEF ReadDone, TypeOK
  <2> QED BY <2>1, <2>2, <2>3 DEF TypeOK, chip, Setting
<1>4. CASE RtcInit
  <2>1. "sec" \in Reading BY Readings DEF Names
  <2>2. irr' \in BOOLEAN BY <1>4 DEF RtcInit, TypeOK
  <2>3. late' \in 0 .. HandlerSeconds BY <1>4, Units DEF RtcInit
  <2> QED BY <1>4, <2>1, <2>2, <2>3 DEF RtcInit, TypeOK
<1>5. CASE WriteAlarm
  <2>1. PICK register \in {"sec", "min", "hour"},
             next \in {"alarm_min", "alarm_hour", "clear", "idle"}, now \in Setting :
          Write(now, register, next)
    BY <1>5 DEF WriteAlarm, Setting
  <2>2. /\ GoTo(next) /\ alarm' = [alarm EXCEPT ![register] = BinToBcd(goal[register])]
        /\ UNCHANGED <<tod, date, updating, binary, aie, af, irr, caller, torn>>
    BY <2>1 DEF Write
  <2>3. /\ time' \in [Names -> Int] /\ late' \in 0 .. HandlerSeconds /\ pc' = next
        /\ goal' \in [Registers -> Int]
    BY <2>2, GoToTyped
  <2>4. alarm' \in [Registers -> Int]
    <3>1. BinToBcd(goal[register]) \in Int BY DEF TypeOK, BinToBcd, Registers
    <3> QED BY <2>2, <3>1 DEF TypeOK
  <2> QED BY <2>2, <2>3, <2>4 DEF TypeOK, Setting
<1>6. CASE RtcHandler
  <2>1. "sec" \in Reading BY Readings DEF Names
  <2> QED BY <1>6, <2>1 DEF RtcHandler, TypeOK
<1>7. CASE FlagClear
  <2>1. /\ GoTo("idle") /\ af' = FALSE
        /\ UNCHANGED <<tod, date, updating, binary, aie, alarm, irr, caller, torn>>
    BY <1>7 DEF FlagClear, FlagAfterClear
  <2>2. /\ time' \in [Names -> Int] /\ late' \in 0 .. HandlerSeconds /\ pc' = "idle"
        /\ goal' \in [Registers -> Int]
    BY <2>1, GoToTyped
  <2> QED BY <2>1, <2>2 DEF TypeOK
<1> QED BY <1>1, <1>2, <1>3, <1>4, <1>5, <1>6, <1>7 DEF Step

-----------------------------------------------------------------------------
(* A reading of the clock.                                                 *)

LEMMA FieldsDiffer ==
  /\ \A f, g \in 1 .. 7 : Field[f] = Field[g] => f = g
  /\ \A f \in 1 .. 7 : Field[f] # "again" /\ Field[f] # "idle" /\ Field[f] # "regb"
  /\ \A f \in 1 .. 7 : Field[f] \notin Setting
  /\ "again" \notin Setting /\ "idle" \notin Setting /\ "regb" \notin Setting
BY DEF Field, Setting

LEMMA SecondsTurn == TypeOK => ((tod + 1) % Day) % SecPerMin = (tod + 1) % SecPerMin
<1> SUFFICES ASSUME TypeOK
             PROVE ((tod + 1) % Day) % SecPerMin = (tod + 1) % SecPerMin
  OBVIOUS
<1> DEFINE n == MinPerHour * HoursPerDay
<1>1. tod \in 0 .. (Day - 1) /\ Day \in Nat \ {0} /\ SecPerMin \in Nat \ {0}
  BY Units DEF TypeOK
<1>2. (tod + 1) % Day = IF tod + 1 = Day THEN 0 ELSE tod + 1 BY <1>1
<1>3. Day % SecPerMin = 0
  <2>1. n \in Nat /\ Day = SecPerMin * n
    <3>1. \A a, b, c \in Nat : (a * b) * c = a * (b * c) /\ b * c \in Nat OBVIOUS
    <3>2. SecPerMin \in Nat /\ MinPerHour \in Nat /\ HoursPerDay \in Nat BY Units
    <3> QED BY <3>1, <3>2, Units
  <2> HIDE DEF n
  <2>2. (SecPerMin * n) % SecPerMin = 0 BY <1>1, <2>1
  <2> QED BY <2>1, <2>2
<1>4. 0 % SecPerMin = 0 BY <1>1
<1> QED BY <1>2, <1>3, <1>4

LEMMA ReadingTicks ==
  ASSUME TypeOK, Tick, pc # "idle", NEW n, ReadSoFar(n)
  PROVE  ReadSoFar(n)'
<1> SUFFICES ASSUME n >= 1
             PROVE  (\E s \in 0 .. (SecPerMin - 1), ago \in 0 .. late : ReadAt(n, s, ago))'
  BY DEF ReadSoFar
<1>1. PICK s \in 0 .. (SecPerMin - 1), ago \in 0 .. late : ReadAt(n, s, ago) BY DEF ReadSoFar
<1>2. tod' = (tod + 1) % Day /\ late' = late + 1 /\ UNCHANGED <<binary, time>> BY DEF Tick
<1>3. TypeOK' BY TypeTick
<1>4. Now.sec = tod % SecPerMin /\ Now'.sec = tod' % SecPerMin
  <2>1. Now.sec = tod % SecPerMin BY NowIn
  <2>2. date' \in Dates /\ tod' \in 0 .. (Day - 1) BY <1>3, StartsAssumption, NextDateIn DEF TypeOK
  <2>3. Instant(tod', date').sec = tod' % SecPerMin BY <2>2, InstantIn
  <2> QED BY <2>1, <2>3 DEF Now
<1>5. (s + (ago + 1)) % SecPerMin = Now'.sec
  <2> DEFINE x == s + ago
  <2>1. x \in Nat /\ tod \in Nat /\ SecPerMin \in Nat \ {0} /\ s + (ago + 1) = x + 1
    BY Units DEF TypeOK
  <2>2. x % SecPerMin = tod % SecPerMin BY <1>1, <1>4 DEF ReadAt
  <2> HIDE DEF x
  <2>3. (x + 1) % SecPerMin = (tod + 1) % SecPerMin
    <3>1. (x + 1) % SecPerMin
            = IF (x % SecPerMin) + 1 = SecPerMin THEN 0 ELSE (x % SecPerMin) + 1
      BY <2>1, SuccessorMod
    <3>2. (tod + 1) % SecPerMin
            = IF (tod % SecPerMin) + 1 = SecPerMin THEN 0 ELSE (tod % SecPerMin) + 1
      BY <2>1, SuccessorMod
    <3> QED BY <2>2, <3>1, <3>2
  <2>4. tod' % SecPerMin = (tod + 1) % SecPerMin BY <1>2, SecondsTurn
  <2> QED BY <1>4, <2>1, <2>3, <2>4
<1>6. ago + 1 \in 0 .. late' /\ ago + 1 # 0 BY <1>2 DEF TypeOK
<1>7. ReadAt(n, s, ago + 1)'
  <2>1. time'.sec = Shown(s)' BY <1>1, <1>2 DEF ReadAt, Shown
  <2> QED BY <1>5, <1>6, <2>1 DEF ReadAt
<1> QED BY <1>6, <1>7

LEMMA ReadingGoesOn ==
  ASSUME TypeOK, NEW f \in 1 .. 7, ReadSoFar(f - 1),
         time' = [time EXCEPT ![Field[f]] = Shown(Now[Field[f]])],
         UNCHANGED <<tod, date, binary, late>>
  PROVE  ReadSoFar(f)'
<1>1. Now' = Now /\ late' = late /\ late \in Nat BY SameNow, Units DEF TypeOK
<1>2. \A x : Shown(x)' = Shown(x) BY DEF Shown
<1>3. /\ Field[f] \in Names /\ time'[Field[f]] = Shown(Now[Field[f]])
      /\ \A g \in Names : g # Field[f] => time'[g] = time[g]
  BY EachField DEF TypeOK
<1>4. CASE f = 1
  <2>1. time'.sec = Shown(Now.sec) BY <1>3, <1>4, FieldNames
  <2>2. Now.sec \in 0 .. (SecPerMin - 1)
    <3>1. tod \in Nat /\ SecPerMin \in Nat \ {0} BY Units DEF TypeOK
    <3> QED BY <3>1, NowIn
  <2>3. (Now.sec + 0) % SecPerMin = Now.sec
    <3>1. SecPerMin \in Nat \ {0} BY Units
    <3> QED BY <2>2, <3>1
  <2>4. \A g \in 1 .. f : g = f BY <1>4
  <2>5. ReadAt(f, Now.sec, 0)' BY <1>1, <1>2, <1>3, <2>1, <2>3, <2>4 DEF ReadAt, Shown
  <2>6. (\E s \in 0 .. (SecPerMin - 1), ago \in 0 .. late : ReadAt(f, s, ago))'
    <3> DEFINE z == Now.sec
    <3>1. z' = z BY <1>1
    <3>2. 0 \in 0 .. late' BY <1>1
    <3>3. ReadAt(f, z, 0)' BY <2>5
    <3>4. /\ time'.sec = Shown(z)' /\ (z + 0) % SecPerMin = Now'.sec
          /\ \A g \in 1 .. f : time'[Field[g]] = Shown(Now[Field[g]])'
      BY <2>5, <3>1 DEF ReadAt
    <3> HIDE DEF z
    <3>5. z \in 0 .. (SecPerMin - 1) BY <2>2 DEF z
    <3>6. time'.sec = Shown(z) /\ \A g \in 1 .. f : time'[Field[g]] = Shown(Now'[Field[g]])
      BY <1>1, <1>2, <1>3, <2>1, <2>4 DEF z
    <3> QED BY <3>2, <3>4, <3>5, <3>6 DEF ReadAt, Shown
  <2> QED BY <2>6 DEF ReadSoFar
<1>5. CASE f # 1
  <2>1. f - 1 >= 1 BY <1>5
  <2>2. PICK s \in 0 .. (SecPerMin - 1), ago \in 0 .. late : ReadAt(f - 1, s, ago)
    BY <2>1 DEF ReadSoFar
  <2>3. Field[f] # "sec"
    <3>1. Field[1] = "sec" BY FieldNames
    <3>2. 1 \in 1 .. 7 OBVIOUS
    <3> QED BY <1>5, <3>1, <3>2, FieldsDiffer
  <2>4. time'.sec = time.sec BY <1>3, <2>3 DEF Names
  <2>5. ASSUME ago = 0, NEW g \in 1 .. f
        PROVE  time'[Field[g]] = Shown(Now[Field[g]])
    <3>1. CASE g = f BY <1>3, <3>1
    <3>2. CASE g # f
      <4>1. g \in 1 .. (f - 1) /\ g \in 1 .. 7 BY <3>2
      <4>2. Field[g] # Field[f] /\ Field[g] \in Names BY <3>2, <4>1, FieldsDiffer, EachField
      <4> QED BY <1>3, <2>2, <2>5, <4>1, <4>2 DEF ReadAt
    <3> QED BY <3>1, <3>2
  <2>6. ReadAt(f, s, ago)' BY <1>1, <1>2, <2>2, <2>4, <2>5 DEF ReadAt, Shown
  <2> QED BY <1>1, <2>2, <2>6 DEF ReadSoFar
<1> QED BY <1>4, <1>5

LEMMA PassNext == TypeOK /\ PassInv /\ Next => PassInv'
<1> SUFFICES ASSUME TypeOK, PassInv, Next PROVE PassInv' OBVIOUS
<1> DEFINE Elsewhere == \A f \in 1 .. 7 : pc' # Field[f]
<1>0. ReadSoFar(0)' BY DEF ReadSoFar
<1>s. pc' = "sec" => PassInv'
  <2> SUFFICES ASSUME pc' = "sec" PROVE PassInv' OBVIOUS
  <2>1. \A f \in 1 .. 7 : pc' = Field[f] => f = 1
    <3>1. Field[1] = "sec" /\ 1 \in 1 .. 7 BY FieldNames
    <3> QED BY <3>1, FieldsDiffer
  <2>2. pc' # "again" OBVIOUS
  <2>3. \A f \in 1 .. 7 : pc' = Field[f] => ReadSoFar(f - 1)'
    <3> SUFFICES ASSUME NEW f \in 1 .. 7, pc' = Field[f] PROVE ReadSoFar(f - 1)' OBVIOUS
    <3>1. f = 1 BY <2>1
    <3>2. ~(f - 1 >= 1) BY <3>1
    <3> QED BY <3>2 DEF ReadSoFar
  <2> QED BY <2>2, <2>3 DEF PassInv
<1>e. pc' \in Setting \cup {"regb", "idle"} => PassInv'
  BY FieldsDiffer DEF PassInv, Setting
<1>1. CASE Tick
  <2> SUFFICES ASSUME ~torn PROVE PassInv' BY <1>1 DEF Tick, PassInv
  <2>1. pc' = pc BY <1>1 DEF Tick
  <2>2. \A f \in 1 .. 7 : pc = Field[f] => ReadSoFar(f - 1)'
    BY <1>1, ReadingTicks, FieldsDiffer DEF PassInv
  <2>3. pc = "again" => ReadSoFar(7)' BY <1>1, ReadingTicks DEF PassInv
  <2> QED BY <2>1, <2>2, <2>3 DEF PassInv
<1>9. CASE BeginUpdate
  BY <1>9 DEF BeginUpdate, PassInv, ReadSoFar, ReadAt, Shown, Now
<1>2. CASE ReadField
  <2> SUFFICES ASSUME ~torn' PROVE PassInv' BY DEF PassInv
  <2>1. PICK f \in 1 .. 7 : \E value \in CmosRead(Field[f]) :
          /\ pc = Field[f] /\ time' = [time EXCEPT ![Field[f]] = value]
          /\ torn' = (updating \/ (torn /\ f # 1))
          /\ pc' = After(f) /\ UNCHANGED <<chip, late>>
    BY <1>2 DEF ReadField
  <2>7. /\ ~updating /\ (~torn \/ f = 1)
        /\ time' = [time EXCEPT ![Field[f]] = Shown(Now[Field[f]])]
    BY <2>1 DEF CmosRead
  <2>2. UNCHANGED <<tod, date, binary, late>> BY <2>1 DEF chip
  <2>3. ReadSoFar(f - 1)
    <3>1. CASE f = 1 BY <3>1 DEF ReadSoFar
    <3>2. CASE f # 1 BY <2>1, <2>7, <3>2 DEF PassInv
    <3> QED BY <3>1, <3>2
  <2>4. ReadSoFar(f)' BY <2>2, <2>3, <2>7, ReadingGoesOn
  <2>5. CASE f = 7
    <3>1. pc' = "again" BY <2>1, <2>5 DEF After
    <3>2. ReadSoFar(7)' BY <2>4, <2>5
    <3> QED BY <3>1, <3>2, FieldsDiffer DEF PassInv
  <2>6. CASE f # 7
    <3>1. pc' = Field[f + 1] /\ f + 1 \in 1 .. 7 BY <2>1, <2>6 DEF After
    <3>2. \A g \in 1 .. 7 : pc' = Field[g] => g = f + 1 BY <3>1, FieldsDiffer
    <3>3. \A g \in 1 .. 7 : pc' = Field[g] => ReadSoFar(g - 1)'
      <4> SUFFICES ASSUME NEW g \in 1 .. 7, pc' = Field[g] PROVE ReadSoFar(g - 1)' OBVIOUS
      <4>1. g - 1 = f BY <3>2
      <4> QED BY <2>4, <4>1
    <3> QED BY <3>1, <3>3, FieldsDiffer DEF PassInv
  <2> QED BY <2>5, <2>6
<1>3. CASE ReadOver BY <1>3, <1>s DEF ReadOver
<1>4. CASE ReadDone BY <1>4, <1>e DEF ReadDone, Setting
<1>5. CASE RtcInit BY <1>5, <1>s DEF RtcInit
<1>6. CASE WriteAlarm BY <1>6, <1>e DEF WriteAlarm, Write, GoTo, Setting
<1>7. CASE RtcHandler BY <1>7, <1>s DEF RtcHandler
<1>8. CASE FlagClear BY <1>8, <1>e DEF FlagClear, GoTo
<1> QED BY <1>1, <1>2, <1>3, <1>4, <1>5, <1>6, <1>7, <1>8, <1>9 DEF Next, Clock, Step

LEMMA FieldsAre == \A n \in Names : \E f \in 1 .. 7 : n = Field[f]
BY FieldNames DEF Names

(* Less than a minute after the second was read, the second shows that     *)
(* nothing has ticked.                                                     *)
LEMMA ReadingShows ==
  ASSUME TypeOK, PassInv, HandlerSeconds < SecPerMin, ReadDone, ~torn'
  PROVE  Converted = Now
<1>0. /\ pc = "again" /\ ~torn /\ ~updating /\ time.sec = Shown(Now.sec)
  BY DEF ReadDone, CmosRead, RolledOver
<1>1. PICK s \in 0 .. (SecPerMin - 1), ago \in 0 .. late : ReadAt(7, s, ago)
  BY <1>0 DEF PassInv, ReadSoFar
<1>2. /\ Now \in [Names -> 0 .. 99] /\ Now.sec \in 0 .. 99 /\ s \in 0 .. 99
  <2>1. SecPerMin \in 2 .. 99 BY Units
  <2>2. Now.sec \in 0 .. 99 BY NowIn DEF Names
  <2> QED BY <2>1, <2>2, NowIn
<1>3. s = Now.sec
  <2>1. Shown(s) = Shown(Now.sec) BY <1>0, <1>1 DEF ReadAt
  <2> QED BY <1>2, <2>1, ShownIn
<1>4. ago = 0
  <2>1. (s + ago) % SecPerMin = s BY <1>1, <1>3 DEF ReadAt
  <2>2. ago \in 0 .. (SecPerMin - 1) /\ SecPerMin \in Nat \ {0} BY Units DEF TypeOK
  <2>3. CASE s + ago < SecPerMin
    <3>1. (s + ago) % SecPerMin = s + ago BY <2>2, <2>3
    <3> QED BY <2>1, <2>2, <3>1
  <2>4. CASE ~(s + ago < SecPerMin)
    <3> DEFINE e == s + ago - SecPerMin
    <3>1. e \in 0 .. (SecPerMin - 1) /\ s + ago = e + SecPerMin BY <2>2, <2>4
    <3> HIDE DEF e
    <3>2. (e + SecPerMin) % SecPerMin = e BY <2>2, <3>1
    <3>3. e = s BY <2>1, <3>1, <3>2
    <3> QED BY <2>2, <3>1, <3>3
  <2> QED BY <2>3, <2>4
<1>5. \A n \in Names : time[n] = Shown(Now[n])
  <2>1. \A g \in 1 .. 7 : time[Field[g]] = Shown(Now[Field[g]]) BY <1>1, <1>4 DEF ReadAt
  <2> QED BY <2>1, FieldsAre
<1>6. \A n \in Names : (IF binary THEN time[n] ELSE BcdToBin(time[n])) = Now[n]
  <2> SUFFICES ASSUME NEW n \in Names
               PROVE (IF binary THEN time[n] ELSE BcdToBin(time[n])) = Now[n]
    OBVIOUS
  <2>1. Now[n] \in 0 .. 99 BY <1>2
  <2> QED BY <1>5, <2>1, ShownIn
<1>7. DOMAIN time = Names BY DEF TypeOK
<1>8. Converted = [n \in Names |-> Now[n]]
  <2>1. Converted = [n \in Names |-> IF binary THEN time[n] ELSE BcdToBin(time[n])]
    BY <1>7 DEF Converted
  <2> QED BY <1>6, <2>1
<1> QED BY <1>2, <1>8

LEMMA PassStart == Init => PassInv
<1>1. Field[1] = "sec" /\ 1 \in 1 .. 7 BY FieldNames
<1>2. \A f \in 1 .. 7 : Field[f] = "sec" => ReadSoFar(f - 1)
  <2> SUFFICES ASSUME NEW f \in 1 .. 7, Field[f] = "sec" PROVE ReadSoFar(f - 1) OBVIOUS
  <2>1. f = 1 BY <1>1, FieldsDiffer
  <2>2. ~(f - 1 >= 1) BY <2>1
  <2> QED BY <2>2 DEF ReadSoFar
<1> QED BY <1>2 DEF Init, PassInv

LEMMA CallHolds == Spec => [](TypeOK /\ PassInv)
<1>1. TypeOK /\ PassInv /\ UNCHANGED vars => (TypeOK /\ PassInv)'
  BY DEF TypeOK, PassInv, ReadSoFar, ReadAt, Shown, Now, vars, chip
<1>2. TypeOK /\ PassInv /\ Next => (TypeOK /\ PassInv)'
  BY TypeBegin, TypeTick, TypeStep, PassNext DEF Next, Clock
<1> QED BY TypeStart, PassStart, <1>1, <1>2, PTL DEF Spec

(* What time_read gives of a pass that met no update is the date that the  *)
(* clock shows as it ends, if the call takes less than a minute.           *)
THEOREM ReadingIsCurrent ==
  ASSUME HandlerSeconds < SecPerMin
  PROVE  Spec => [][ReadDone /\ ~torn' => time' = Now]_vars
<1>1. TypeOK /\ PassInv /\ ReadDone /\ ~torn' => time' = Now
  BY ReadingShows DEF ReadDone
<1> QED BY <1>1, CallHolds, PTL DEF Spec

(* One tick at most since.                                                 *)
InstantInv ==
  pc \in {"alarm_sec", "regb"} /\ ~torn => time = Now \/ (late >= 1 /\ time = before)

(* With at most a tick of the clock in a call, what was read by a pass     *)
(* that met no update is what the clock shows or has just shown.           *)
THEOREM ReadingsAreInstants ==
  ASSUME HandlerSeconds <= 1
  PROVE  Spec => []ReadIsAnInstant
<1>1. HandlerSeconds < SecPerMin BY Units
<1>2. Init => InstantInv BY DEF Init, InstantInv
<1>3. TypeOK /\ PassInv /\ InstantInv /\ [Next]_vars => InstantInv'
  <2> SUFFICES ASSUME TypeOK, PassInv, InstantInv, [Next]_vars PROVE InstantInv' OBVIOUS
  <2>1. CASE UNCHANGED vars BY <2>1 DEF vars, chip, InstantInv, Now
  <2>2. CASE Tick
    <3> SUFFICES ASSUME pc \in {"alarm_sec", "regb"}, ~torn
                 PROVE  late' >= 1 /\ time' = before'
      BY <2>2 DEF Tick, InstantInv
    <3>1. late < HandlerSeconds /\ late' = late + 1 /\ before' = Now /\ time' = time
      BY <2>2 DEF Tick, InCall
    <3>2. late = 0 BY <3>1, Units DEF TypeOK
    <3>3. time = Now BY <3>2 DEF InstantInv
    <3> QED BY <3>1, <3>2, <3>3
  <2>6. CASE BeginUpdate BY <2>6 DEF BeginUpdate, InstantInv, Now
  <2>3. CASE ReadDone
    <3> SUFFICES ASSUME ~torn' PROVE InstantInv' BY DEF InstantInv
    <3>1. time' = Now BY <1>1, <2>3, ReadingShows DEF ReadDone
    <3>2. Now' = Now BY <2>3, SameNow DEF ReadDone, chip
    <3> QED BY <3>1, <3>2 DEF InstantInv
  <2>4. CASE ReadField
    <3>1. PICK f \in 1 .. 7 : pc' = After(f) BY <2>4 DEF ReadField
    <3>2. pc' \in Names \cup {"again"} BY <3>1, EachField, Readings
    <3> QED BY <3>2 DEF InstantInv, Names
  <2>5. CASE ReadOver \/ RtcInit \/ WriteAlarm \/ RtcHandler \/ FlagClear
    <3>1. pc' \notin {"alarm_sec", "regb"}
      BY <2>5 DEF ReadOver, RtcInit, WriteAlarm, Write, RtcHandler, FlagClear, GoTo
    <3> QED BY <3>1 DEF InstantInv
  <2> QED BY <2>1, <2>2, <2>3, <2>4, <2>5, <2>6 DEF Next, Clock, Step
<1>4. InstantInv => ReadIsAnInstant BY DEF InstantInv, ReadIsAnInstant
<1> QED BY <1>2, <1>3, <1>4, CallHolds, PTL DEF Spec

-----------------------------------------------------------------------------
(* The alarm.                                                              *)

LEMMA AlarmStart == Init => AlarmInv /\ GoalInv
BY DEF Init, AlarmInv, GoalInv, Setting

LEMMA NearerInDay ==
  \A t, d \in 0 .. (Day - 1) :
    /\ (d - t) % Day \in 0 .. (Day - 1)
    /\ (d - ((t + 1) % Day)) % Day = IF (d - t) % Day = 0 THEN Day - 1 ELSE ((d - t) % Day) - 1
    /\ (d - t) % Day = 0 <=> d = t
<1>1. Day \in Nat \ {0} BY Units
<1> DEFINE u == Day
<1>2. u \in Nat \ {0} BY <1>1
<1> HIDE DEF u
<1>3. \A t, d \in 0 .. (u - 1) :
        /\ (d - t) % u \in 0 .. (u - 1)
        /\ (d - ((t + 1) % u)) % u = IF (d - t) % u = 0 THEN u - 1 ELSE ((d - t) % u) - 1
        /\ (d - t) % u = 0 <=> d = t
  BY <1>2, Nearer, ZenonT(30)
<1> QED BY <1>3 DEF u

LEMMA AheadIn ==
  ASSUME TypeOK, due \in 0 .. (Day - 1)
  PROVE  Ahead \in 0 .. (Day - 1) /\ (Ahead = 0 <=> due = tod)
<1>1. tod \in 0 .. (Day - 1) BY DEF TypeOK
<1> QED BY <1>1, NearerInDay DEF Ahead

LEMMA AheadTicks ==
  ASSUME TypeOK, due \in 0 .. (Day - 1), Tick, Ahead # 0
  PROVE  Ahead' = Ahead - 1
<1>1. tod \in 0 .. (Day - 1) BY DEF TypeOK
<1>2. (due - tod) % Day # 0 BY DEF Ahead
<1>3. (due - ((tod + 1) % Day)) % Day = ((due - tod) % Day) - 1
  BY <1>1, <1>2, NearerInDay
<1>4. tod' = (tod + 1) % Day /\ due' = due BY DEF Tick
<1> QED BY <1>3, <1>4 DEF Ahead

LEMMA AlarmTick ==
  ASSUME TypeOK, AlarmInv, GoalInv, Tick, HandlerSeconds < Delay
  PROVE  AlarmInv' /\ GoalInv'
<1>1. /\ UNCHANGED <<binary, aie, alarm, pc, caller, goal, due, torn>>
      /\ (pc # "idle" => late < HandlerSeconds /\ late' = late + 1)
      /\ irr' = (irr \/ (aie /\ af' /\ ~af))
  BY DEF Tick, InCall
<1>2. TypeOK' BY TypeTick
<1>3. late \in Nat /\ Delay \in 1 .. (Day - 1) BY Units DEF TypeOK
<1>4. ~torn /\ pc \in Setting => Ahead' \in (Delay - late') .. Delay
  <2> SUFFICES ASSUME ~torn, pc \in Setting PROVE Ahead' \in (Delay - late') .. Delay OBVIOUS
  <2>1. pc # "idle" /\ due \in 0 .. (Day - 1) /\ Ahead \in (Delay - late) .. Delay
    BY FieldsDiffer DEF GoalInv
  <2>2. Ahead # 0 BY <1>1, <1>3, <2>1, Units
  <2>3. Ahead' = Ahead - 1 BY <2>1, <2>2, AheadTicks
  <2>4. Ahead \in Int BY <2>1, <1>3
  <2> QED BY <1>1, <1>3, <2>1, <2>2, <2>3, <2>4, Units
<1>5. ~torn /\ pc = "idle" /\ ~irr' => Ahead' \in 1 .. Delay
  <2> SUFFICES ASSUME ~torn, pc = "idle", ~irr' PROVE Ahead' \in 1 .. Delay OBVIOUS
  <2>1. ~irr BY <1>1
  <2>2. aie /\ due \in 0 .. (Day - 1) /\ Ahead \in 1 .. Delay /\ ~af /\ ~binary
    BY <2>1 DEF AlarmInv, GoalInv
  <2>3. ~af' BY <1>1, <2>2
  <2>4. Ahead' = Ahead - 1 BY <2>2, AheadTicks
  <2>5. Ahead # 1
    <3> SUFFICES ASSUME Ahead = 1 PROVE FALSE OBVIOUS
    <3>1. Ahead' = 0 BY <2>4
    <3>2. due = tod' /\ tod' \in 0 .. (Day - 1)
      <4>1. tod' \in 0 .. (Day - 1) /\ due' \in 0 .. (Day - 1) BY <1>1, <1>2, <2>2 DEF TypeOK
      <4>2. (due' - tod') % Day = 0 => due' = tod' BY <4>1, NearerInDay
      <4> QED BY <1>1, <3>1, <4>1, <4>2 DEF Ahead
    <3>3. PICK d : af' = (af \/ Rings(Instant(tod', d))) BY DEF Tick
    <3>4. Written("sec") /\ Written("min") /\ Written("hour") BY DEF GoalInv
    <3>5. Rings(Instant(tod', d))
      BY <2>2, <3>2, <3>4 DEF Rings, Instant, Written, Digits, Shown
    <3> QED BY <2>3, <3>3, <3>5
  <2> QED BY <2>2, <2>4, <2>5, <1>3
<1>6. aie /\ af' => irr' \/ (caller = "handler" /\ pc # "idle")
  BY <1>1 DEF AlarmInv
<1>7. /\ Written("sec")' <=> Written("sec")
      /\ Written("min")' <=> Written("min")
      /\ Written("hour")' <=> Written("hour")
  BY <1>1 DEF Written, Digits
<1>8. AlarmInv' BY <1>1, <1>6 DEF AlarmInv, Setting
<1>9. (pc \in Setting => goal = Digits(due))' <=> (pc \in Setting => goal = Digits(due))
  BY <1>1 DEF Digits
<1>10. GoalInv' BY <1>1, <1>4, <1>5, <1>7, <1>9 DEF GoalInv, Setting
<1> QED BY <1>8, <1>10

LEMMA AlarmRead ==
  ASSUME TypeOK, PassInv, AlarmInv, ReadDone, HandlerSeconds < SecPerMin
  PROVE  AlarmInv' /\ GoalInv'
<1>1. /\ pc = "again" /\ UNCHANGED <<chip, caller, late>>
      /\ pc' = IF caller = "time_init" THEN "regb" ELSE "alarm_sec"
  BY DEF ReadDone
<1>2. AlarmInv' BY <1>1 DEF AlarmInv, chip, Setting
<1>3. ASSUME caller # "time_init", ~torn' PROVE GoalInv'
  <2>1. /\ pc' = "alarm_sec" /\ goal' = AlarmAfter(Now)
        /\ due' = (TimeOfDay(Now) + Delay) % Day
    BY <1>3, ReadingShows DEF ReadDone
  <2>2. tod \in 0 .. (Day - 1) /\ tod' = tod BY <1>1 DEF TypeOK, chip
  <2>3. TimeOfDay(Now) = tod /\ AlarmAfter(Now) = Digits((tod + Delay) % Day)
    BY <2>2, NowIn, AlarmDigits
  <2>4. due' \in 0 .. (Day - 1) /\ (due' - tod) % Day = Delay
    <3>1. Delay \in 0 .. (Day - 1) /\ Day \in Nat BY Units
    <3> QED BY <2>1, <2>2, <2>3, <3>1, StillAhead
  <2>5. goal' = Digits(due)' BY <2>1, <2>3 DEF Digits
  <2>6. Ahead' = Delay /\ Delay \in (Delay - late') .. Delay
    <3>1. late' \in Nat /\ Delay \in Nat BY <1>1, Units DEF TypeOK
    <3>2. Delay \in (Delay - late') .. Delay
      <4>1. \A x, y \in Nat : x \in (x - y) .. x OBVIOUS
      <4> QED BY <3>1, <4>1
    <3>3. Ahead' = (due' - tod') % Day BY DEF Ahead
    <3>4. (due' - tod') % Day = Delay BY <2>2, <2>4
    <3> QED BY <3>2, <3>3, <3>4
  <2> QED BY <2>1, <2>4, <2>5, <2>6 DEF GoalInv, Setting
<1>4. ASSUME caller = "time_init" PROVE GoalInv'
  BY <1>1, <1>4 DEF GoalInv, Setting
<1>5. torn' => GoalInv' BY DEF GoalInv
<1> QED BY <1>2, <1>3, <1>4, <1>5

LEMMA AlarmWrite ==
  ASSUME TypeOK, AlarmInv, GoalInv, WriteAlarm, HandlerSeconds < Delay
  PROVE  AlarmInv' /\ GoalInv'
<1>1. PICK register \in Registers,
           next \in {"alarm_min", "alarm_hour", "clear", "idle"}, now \in Setting :
        /\ Write(now, register, next)
        /\ \/ now = "alarm_sec" /\ register = "sec" /\ next = "alarm_min"
           \/ now = "alarm_min" /\ register = "min" /\ next = "alarm_hour"
           \/ /\ now = "alarm_hour" /\ register = "hour"
              /\ next = (IF caller = "handler" THEN "clear" ELSE "idle")
  BY DEF WriteAlarm, Setting, Registers
<1>2. /\ pc = now /\ pc' = next
      /\ alarm' = [alarm EXCEPT ![register] = BinToBcd(goal[register])]
      /\ UNCHANGED <<tod, date, binary, aie, af, irr, caller, due, torn>>
      /\ (next # "idle" => UNCHANGED <<goal, late>>)
  BY <1>1 DEF Write, GoTo
<1>10. AlarmInv'
  <2>1. aie /\ ~binary /\ (af => irr \/ caller = "handler") BY <1>1, <1>2 DEF AlarmInv
  <2> QED BY <1>1, <1>2, <2>1 DEF AlarmInv, Setting
<1>11. torn => GoalInv' BY <1>2 DEF GoalInv
<1> SUFFICES ASSUME ~torn PROVE GoalInv' BY <1>10, <1>11
<1>3. due \in 0 .. (Day - 1) /\ goal = Digits(due) /\ Ahead \in (Delay - late) .. Delay
  BY <1>1, <1>2 DEF GoalInv
<1>4. Ahead' = Ahead /\ Ahead \in 1 .. Delay
  <2>1. late \in 0 .. HandlerSeconds /\ Delay \in Nat /\ HandlerSeconds \in Nat
    BY Units DEF TypeOK
  <2>2. Ahead' = Ahead BY <1>2 DEF Ahead
  <2> QED BY <1>3, <2>1, <2>2
<1>5. /\ alarm'[register] = BinToBcd(Digits(due)[register])
      /\ \A r \in Registers : r # register => alarm'[r] = alarm[r]
  BY <1>2, <1>3 DEF TypeOK
<1>6. Written(register)' /\ \A r \in Registers : Written(r) => Written(r)'
  <2>1. \A r \in Registers : Written(r)' <=> alarm'[r] = BinToBcd(Digits(due)[r])
    BY <1>2 DEF Written, Digits
  <2> QED BY <1>5, <2>1 DEF Written
<1>7. CASE now = "alarm_sec"
  <2>1. Written("sec")' /\ next = "alarm_min" /\ next # "idle" BY <1>1, <1>6, <1>7
  <2> QED BY <1>2, <1>3, <1>4, <2>1 DEF GoalInv, Setting, Digits
<1>8. CASE now = "alarm_min"
  <2>1. Written("sec") BY <1>2, <1>8 DEF GoalInv
  <2>2. Written("sec")' /\ Written("min")' /\ next = "alarm_hour"
    BY <1>1, <1>6, <1>8, <2>1 DEF Registers
  <2> QED BY <1>2, <1>3, <1>4, <2>2 DEF GoalInv, Setting, Digits
<1>9. CASE now = "alarm_hour"
  <2>1. Written("sec") /\ Written("min") BY <1>2, <1>9 DEF GoalInv
  <2>2. Written("sec")' /\ Written("min")' /\ Written("hour")'
    BY <1>1, <1>6, <1>9, <2>1 DEF Registers
  <2>3. next = (IF caller = "handler" THEN "clear" ELSE "idle") BY <1>1, <1>9
  <2> QED BY <1>2, <1>3, <1>4, <2>2, <2>3 DEF GoalInv, Setting, Digits
<1> QED BY <1>1, <1>7, <1>8, <1>9

LEMMA AlarmNext ==
  ASSUME TypeOK, PassInv, AlarmInv, GoalInv, Next,
         HandlerSeconds < SecPerMin, HandlerSeconds < Delay
  PROVE  AlarmInv' /\ GoalInv'
<1>1. CASE Tick BY <1>1, AlarmTick
<1>9. CASE BeginUpdate
  BY <1>9 DEF BeginUpdate, AlarmInv, GoalInv, Setting, Ahead, Written, Digits
<1>2. CASE ReadField
  <2>1. PICK f \in 1 .. 7 : pc = Field[f] /\ pc' = After(f) /\ UNCHANGED <<chip, caller>>
    BY <1>2 DEF ReadField
  <2>2. pc' \in Names \cup {"again"} /\ pc \in Names BY <2>1, EachField, Readings
  <2> QED BY <2>1, <2>2 DEF AlarmInv, GoalInv, Setting, Names, chip
<1>3. CASE ReadOver BY <1>3 DEF ReadOver, AlarmInv, GoalInv, Setting, chip
<1>4. CASE ReadDone BY <1>4, AlarmRead
<1>5. CASE RtcInit
  <2>1. aie' /\ ~binary' /\ (irr' <=> irr \/ af) /\ pc' = "sec" /\ caller' = "rtc_init"
        /\ af' = af
    BY <1>5 DEF RtcInit
  <2> QED BY <2>1 DEF AlarmInv, GoalInv, Setting
<1>6. CASE WriteAlarm BY <1>6, AlarmWrite
<1>7. CASE RtcHandler BY <1>7 DEF RtcHandler, AlarmInv, GoalInv, Setting
<1>8. CASE FlagClear
  <2>1. pc = "clear" /\ pc' = "idle" /\ ~af'
        /\ UNCHANGED <<tod, date, binary, aie, alarm, irr, caller, due, torn>>
    BY <1>8 DEF FlagClear, FlagAfterClear, GoTo
  <2>4. AlarmInv' BY <2>1 DEF AlarmInv, Setting
  <2>5. torn => GoalInv' BY <2>1 DEF GoalInv
  <2> SUFFICES ASSUME ~torn PROVE GoalInv' BY <2>4, <2>5
  <2>2. Ahead \in 1 .. Delay
    <3>1. late \in 0 .. HandlerSeconds /\ Delay \in Nat /\ HandlerSeconds \in Nat
      BY Units DEF TypeOK
    <3>2. Ahead \in (Delay - late) .. Delay BY <2>1 DEF GoalInv, Setting
    <3> QED BY <3>1, <3>2
  <2>3. Ahead' = Ahead BY <2>1 DEF Ahead
  <2> QED BY <2>1, <2>2, <2>3 DEF GoalInv, Setting, Written, Digits
<1> QED BY <1>1, <1>2, <1>3, <1>4, <1>5, <1>6, <1>7, <1>8, <1>9 DEF Next, Clock, Step

LEMMA AlarmUnchanged == AlarmInv /\ GoalInv /\ UNCHANGED vars => AlarmInv' /\ GoalInv'
BY DEF AlarmInv, GoalInv, vars, chip, Ahead, Written, Digits

LEMMA AlarmIsArmed == TypeOK /\ AlarmInv /\ GoalInv => AlarmArmed
<1> SUFFICES ASSUME TypeOK, AlarmInv, GoalInv, pc = "idle", ~irr, ~torn
             PROVE  ~af /\ AlarmTime = due /\ (due - tod) % Day \in 1 .. Delay
  BY DEF AlarmArmed
<1>1. ~af /\ due \in 0 .. (Day - 1) /\ Ahead \in 1 .. Delay BY DEF AlarmInv, GoalInv
<1>2. \A r \in Registers : alarm[r] = BinToBcd(Digits(due)[r])
  BY DEF GoalInv, Written, Registers
<1>3. /\ Digits(due).sec \in 0 .. (SecPerMin - 1) /\ Digits(due).min \in 0 .. (MinPerHour - 1)
      /\ Digits(due).hour \in 0 .. (HoursPerDay - 1)
      /\ TimeOfDay(Digits(due)) = due
  BY <1>1, DigitsIn DEF Digits, TimeOfDay
<1>4. \A r \in Registers : BcdToBin(alarm[r]) = Digits(due)[r]
  <2>1. \A u \in 2 .. 99 : \A v \in 0 .. (u - 1) : v \in 0 .. 99 OBVIOUS
  <2>2. \A r \in Registers : Digits(due)[r] \in 0 .. 99
    BY <1>3, <2>1, Units DEF Registers
  <2> QED BY <1>2, <2>2, BcdRoundTrip
<1>5. AlarmTime = TimeOfDay(Digits(due))
  BY <1>4 DEF AlarmTime, TimeOfDay, TypeOK, Registers
<1> QED BY <1>1, <1>3, <1>5 DEF Ahead

(* Whenever the kernel waits for an alarm that a clean reading has set, it *)
(* is ahead of the clock by no more than the delay, and nothing hides its  *)
(* edge, if a call is shorter than the delay.                              *)
THEOREM AlarmStaysArmed ==
  ASSUME HandlerSeconds < SecPerMin, HandlerSeconds < Delay
  PROVE  Spec => []AlarmArmed
<1>1. TypeOK /\ PassInv /\ AlarmInv /\ GoalInv /\ [Next]_vars => (AlarmInv /\ GoalInv)'
  BY AlarmNext, AlarmUnchanged
<1> QED BY AlarmStart, <1>1, AlarmIsArmed, CallHolds, PTL DEF Spec
=============================================================================
