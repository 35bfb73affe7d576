---------------------------- MODULE TrapsProofs ----------------------------
(***************************************************************************)
(* For every number of threads, every set of request lines, exceptions and *)
(* calls: what is in service at the 8259s is what the handler that runs    *)
(* will acknowledge, and what lies on a stack is what its context will     *)
(* find there when it is resumed, word by word.                            *)
(***************************************************************************)
EXTENDS Traps, SequenceTheorems, TLAPS

-----------------------------------------------------------------------------
(* Stacks are sequences, whatever is on them.                              *)
IsStack(s) == \E S : s \in Seq(S)

LEMMA Joined ==
  ASSUME NEW s, NEW t, IsStack(s), IsStack(t)
  PROVE  /\ IsStack(s \o t)
         /\ Len(s) \in Nat /\ Len(t) \in Nat
         /\ Len(s \o t) = Len(s) + Len(t)
         /\ \A i \in 1 .. (Len(s) + Len(t)) :
              (s \o t)[i] = IF i <= Len(s) THEN s[i] ELSE t[i - Len(s)]
<1>1. PICK S : s \in Seq(S) BY DEF IsStack
<1>2. PICK T : t \in Seq(T) BY DEF IsStack
<1>3. s \in Seq(S \cup T) /\ t \in Seq(S \cup T) BY <1>1, <1>2, SeqMonotonic
<1>4. s \o t \in Seq(S \cup T) BY <1>3, ConcatProperties
<1>5. IsStack(s \o t) BY <1>4 DEF IsStack
<1>6. Len(s) \in Nat /\ Len(t) \in Nat BY <1>3, LenProperties
<1> QED BY <1>3, <1>5, <1>6, ConcatProperties

LEMMA Dropped ==
  ASSUME NEW s, IsStack(s), NEW n \in Nat
  PROVE  IsStack(Drop(s, n))
<1>1. PICK S : s \in Seq(S) BY DEF IsStack
<1>2. Len(s) \in Nat BY <1>1, LenProperties
<1>3. \A i \in 1 .. (Len(s) - n) : s[i] \in S BY <1>1, <1>2, ElementOfSeq
<1>4. SubSeq(s, 1, Len(s) - n) \in Seq(S) BY <1>2, <1>3, SubSeqProperties
<1> QED BY <1>4 DEF Drop, IsStack

LEMMA Replaced ==
  ASSUME NEW s, IsStack(s), NEW i, NEW e
  PROVE  IsStack([s EXCEPT ![i] = e])
<1>1. PICK S : s \in Seq(S) BY DEF IsStack
<1>2. s \in Seq(S \cup {e}) BY <1>1, SeqMonotonic
<1>3. s \in [1 .. Len(s) -> S \cup {e}] /\ Len(s) \in Nat BY <1>2, LenProperties
<1>4. [s EXCEPT ![i] = e] \in [1 .. Len(s) -> S \cup {e}] BY <1>3
<1>5. [s EXCEPT ![i] = e] \in Seq(S \cup {e}) BY <1>3, <1>4, SeqDef
<1> QED BY <1>5 DEF IsStack

(* Values pushed in the order of a list of registers.                      *)
LEMMA Pushed ==
  ASSUME NEW r, NEW names, Len(names) \in Nat
  PROVE  IsStack(Values(r, names)) /\ Len(Values(r, names)) = Len(names)
<1> DEFINE S == {r[names[i]] : i \in 1 .. Len(names)}
           v == Values(r, names)
<1>1. v \in [1 .. Len(names) -> S] BY DEF Values
<1>2. v \in Seq(S) BY <1>1, SeqDef
<1>3. Len(v) \in Nat /\ DOMAIN v = 1 .. Len(v) BY <1>2, LenProperties
<1>4. DOMAIN v = 1 .. Len(names) BY DEF Values
<1> HIDE DEF v, S
<1>5. Len(v) = Len(names) BY <1>3, <1>4
<1> QED BY <1>2, <1>5 DEF IsStack, v

LEMMA LengthIs ==
  ASSUME NEW n \in Nat, NEW m \in Nat, 1 .. n = 1 .. m
  PROVE  n = m
<1>1. n \in 1 .. m \/ n = 0 OBVIOUS
<1>2. m \in 1 .. n \/ m = 0 OBVIOUS
<1> QED BY <1>1, <1>2

LEMMA Tuples ==
  /\ IsStack(<< >>)
  /\ \A a : IsStack(<<a>>) /\ Len(<<a>>) = 1
  /\ \A a, b : IsStack(<<a, b>>) /\ Len(<<a, b>>) = 2
  /\ \A a, b, c : IsStack(<<a, b, c>>)
  /\ \A a, b, c, d, e : IsStack(<<a, b, c, d, e>>) /\ Len(<<a, b, c, d, e>>) = 5
<1>1. \A a : <<a>> \in Seq({a}) OBVIOUS
<1>2. \A a, b : <<a, b>> \in Seq({a, b}) OBVIOUS
<1>3. \A a, b, c, d, e : <<a, b, c, d, e>> \in Seq({a, b, c, d, e}) OBVIOUS
<1>6. \A a, b, c : <<a, b, c>> \in Seq({a, b, c}) OBVIOUS
<1>4. << >> \in Seq({}) OBVIOUS
<1>5. \A a, b, c, d, e : Len(<<a>>) = 1 /\ Len(<<a, b>>) = 2 /\ Len(<<a, b, c, d, e>>) = 5
  OBVIOUS
<1> QED BY <1>1, <1>2, <1>3, <1>4, <1>5, <1>6, Zenon DEF IsStack

LEMMA SegmentWords == IsStack(Segments) /\ Len(Segments) = 4
<1>1. Segments \in [1 .. 4 -> {Label("selector")}] BY DEF Segments
<1>2. Segments \in Seq({Label("selector")}) BY <1>1, SeqDef
<1>3. Len(Segments) \in Nat /\ DOMAIN Segments = 1 .. Len(Segments) BY <1>2, LenProperties
<1>4. DOMAIN Segments = 1 .. 4 BY DEF Segments
<1>5. Len(Segments) = 4 BY <1>3, <1>4, LengthIs
<1> QED BY <1>2, <1>5 DEF IsStack

(* interrupt_entry finds the number that the stub pushed, twelve words     *)
(* below the top, whatever was on the stack before.                        *)
LEMMA VectorFound ==
  ASSUME NEW s, IsStack(s), NEW r, NEW code, NEW number
  PROVE  /\ IsStack(Frame(s, r, code, number))
         /\ Word(Frame(s, r, code, number), VectorOffset) = Number(number)
<1> DEFINE gate == <<r["if"], Label("cs"), Label("program"), code, Number(number)>>
           one == s \o gate
           two == one \o Segments
           all == two \o Values(r, Pusha)
<1>1. Frame(s, r, code, number) = all BY DEF Frame
<1>2. IsStack(gate) /\ Len(gate) = 5 /\ gate[5] = Number(number) BY Tuples
<1>3. IsStack(Segments) /\ Len(Segments) = 4 BY SegmentWords
<1>4. Len(Pusha) = 8 BY DEF Pusha
<1>5. IsStack(Values(r, Pusha)) /\ Len(Values(r, Pusha)) = 8 BY <1>4, Pushed
<1> HIDE DEF gate
<1>6. /\ IsStack(one) /\ Len(s) \in Nat /\ Len(one) = Len(s) + Len(gate)
      /\ \A i \in 1 .. (Len(s) + Len(gate)) :
           one[i] = IF i <= Len(s) THEN s[i] ELSE gate[i - Len(s)]
  BY <1>2, Joined
<1> HIDE DEF one
<1>7. /\ IsStack(two) /\ Len(two) = Len(one) + Len(Segments)
      /\ \A i \in 1 .. (Len(one) + Len(Segments)) :
           two[i] = IF i <= Len(one) THEN one[i] ELSE Segments[i - Len(one)]
  BY <1>3, <1>6, Joined
<1> HIDE DEF two
<1> DEFINE v == Values(r, Pusha)
<1>8. IsStack(v) /\ Len(v) = 8 BY <1>5
<1> HIDE DEF v
<1>9. /\ IsStack(two \o v) /\ Len(two \o v) = Len(two) + Len(v)
      /\ \A i \in 1 .. (Len(two) + Len(v)) :
           (two \o v)[i] = IF i <= Len(two) THEN two[i] ELSE v[i - Len(two)]
  BY <1>7, <1>8, Joined
<1>10. one[Len(s) + 5] = Number(number)
  <2>1. Len(s) + 5 \in 1 .. (Len(s) + 5) /\ ~ (Len(s) + 5 <= Len(s)) /\ (Len(s) + 5) - Len(s) = 5
    BY <1>6
  <2> QED BY <1>2, <1>6, <2>1
<1>11. Len(one) = Len(s) + 5 /\ Len(two) = Len(s) + 9 /\ Len(two \o v) = Len(s) + 17
  BY <1>2, <1>3, <1>6, <1>7, <1>8, <1>9
<1>12. (two \o v)[Len(s) + 5] = Number(number)
  <2>1. two[Len(s) + 5] = Number(number) BY <1>3, <1>6, <1>7, <1>10, <1>11
  <2> QED BY <1>6, <1>8, <1>9, <1>11, <2>1
<1>13. (Len(s) + 17) - 12 = Len(s) + 5 BY <1>6
<1>14. all = two \o v BY DEF v
<1> QED BY <1>1, <1>9, <1>11, <1>12, <1>13, <1>14 DEF Word, VectorOffset

-----------------------------------------------------------------------------
(* The stacks of all contexts.                                             *)
Stacks(f) == f = [c \in Context |-> f[c]] /\ \A c \in Context : IsStack(f[c])

LEMMA StackSet ==
  ASSUME NEW f, Stacks(f), NEW c \in Context, NEW s, IsStack(s)
  PROVE  Stacks([f EXCEPT ![c] = s]) /\ [f EXCEPT ![c] = s][c] = s
<1> DEFINE g == [f EXCEPT ![c] = s]
<1>1. g = [d \in Context |-> IF d = c THEN s ELSE f[d]] BY DEF Stacks
<1>2. g[c] = s BY <1>1
<1>3. \A d \in Context : IsStack(g[d]) BY <1>1 DEF Stacks
<1>4. g = [d \in Context |-> g[d]] BY <1>1
<1> QED BY <1>2, <1>3, <1>4 DEF Stacks

LEMMA Put ==
  ASSUME Stacks(stack), cur \in Context, NEW s, IsStack(s), OnStack(s)
  PROVE  Stacks(stack') /\ stack'[cur] = s
BY StackSet DEF OnStack

-----------------------------------------------------------------------------
(* A request is in service only while the handler that acknowledges it     *)
(* runs, and then the vector that it was given is the one of the request.  *)
Serving ==
  \/ isr = {}
  \/ pc = "clock_handler" /\ isr = {Clock} /\ Argument(1) = Number(ExceptionSize + Clock)
  \/ pc = "rtc_handler" /\ isr = {Cascade, Rtc} /\ Argument(1) = Number(ExceptionSize + Rtc)

(* What kernel_init has set up so far: the lines that are open have the    *)
(* handlers of their devices.                                              *)
Installed ==
  /\ stage \in {"interrupt_init", "clock_init", "rtc_init", "task_init", "syscall_init", "run"}
  /\ opened \in {{Clock}, {Clock, Cascade, Rtc}}
  /\ stage # "interrupt_init" => handler_table = [v \in Vector |-> handler_table[v]]
  /\ stage = "clock_init" => imr = Irq
  /\ stage = "rtc_init" => imr = Irq \ {Clock}
  /\ stage \in {"task_init", "syscall_init", "run"} => imr = Irq \ opened
  /\ stage \in {"rtc_init", "task_init", "syscall_init", "run"} =>
       handler_table[ExceptionSize + Clock] = "clock_handler"
  /\ stage \in {"task_init", "syscall_init", "run"} =>
       handler_table[ExceptionSize + Rtc] = "rtc_handler"
  /\ stage # "run" => pc = "program"

Machine ==
  /\ irr \subseteq Irq \ {Cascade}
  /\ cur \in Context /\ Stacks(stack) /\ IsStack(spilled)

TInv == Installed /\ Machine /\ Serving

LEMMA Lines ==
  /\ {Clock, Cascade, Rtc} \subseteq Irq
  /\ Clock = 0 /\ Cascade = 2 /\ Rtc = 8 /\ ExceptionSize = 32
  /\ Irq \subseteq 0 .. 15
  /\ {ExceptionSize + Clock, ExceptionSize + Rtc} \subseteq Vector
BY LinesAssumption DEF Clock, Cascade, Rtc, ExceptionSize, Vector

LEMMA InitTInv == Init => TInv
<1> SUFFICES ASSUME Init PROVE TInv OBVIOUS
<1>1. Installed BY DEF Init, Installed
<1>2. Machine
  <2>1. irr \subseteq Irq \ {Cascade} BY Lines DEF Init
  <2>2. cur \in Context BY DEF Init, Context
  <2>3. Stacks(stack) BY Tuples DEF Init, Stacks
  <2>4. IsStack(spilled)
    <3>1. spilled = <<>> \/ spilled = <<"ebx">> \/ spilled = <<"ebx", "esi", "edi">>
      BY DEF Init
    <3> QED BY <3>1, Tuples, Zenon
  <2> QED BY <2>1, <2>2, <2>3, <2>4 DEF Machine
<1>3. Serving BY DEF Init, Serving
<1> QED BY <1>1, <1>2, <1>3 DEF TInv

(* A step that leaves the 8259s, the stacks and the place of the processor *)
(* alone.                                                                  *)
LEMMA QuietTInv ==
  ASSUME TInv, UNCHANGED <<tables, isr, stack, cur, pc, spilled>>,
         irr' \subseteq Irq \ {Cascade}
  PROVE  TInv'
<1>1. Installed' BY DEF TInv, Installed, tables
<1>2. Machine' BY DEF TInv, Machine
<1>3. Serving' BY DEF TInv, Serving, Argument
<1> QED BY <1>1, <1>2, <1>3 DEF TInv

(* A step of the running kernel after which nothing is in service.         *)
LEMMA ServedTInv ==
  ASSUME TInv, stage = "run", UNCHANGED <<tables, irr, spilled>>,
         isr' = {}, cur' \in Context, Stacks(stack')
  PROVE  TInv'
<1>1. Installed' BY DEF TInv, Installed, tables
<1>2. Machine' BY DEF TInv, Machine
<1>3. Serving' BY DEF Serving
<1> QED BY <1>1, <1>2, <1>3 DEF TInv

-----------------------------------------------------------------------------
(* kernel_init: every step but the last installs a handler before it opens *)
(* the lines of its device.                                                *)
LEMMA InstallTInv ==
  TInv /\ (InterruptInit \/ ClockInit \/ RtcInit \/ TaskInit \/ SyscallInit) => TInv'
<1>1. ASSUME TInv, InterruptInit PROVE TInv'
  <2>1. Installed' BY <1>1 DEF TInv, Installed, InterruptInit, machine
  <2>2. Machine' BY <1>1 DEF TInv, Machine, InterruptInit, machine
  <2>3. Serving' BY <1>1 DEF Serving, InterruptInit
  <2> QED BY <2>1, <2>2, <2>3 DEF TInv
<1>2. ASSUME TInv, ClockInit PROVE TInv'
  <2>1. Installed'
    BY <1>2, Lines DEF TInv, Installed, ClockInit, DeviceInit, SetHandler, Unmasked, machine
  <2>2. Machine' BY <1>2 DEF TInv, Machine, ClockInit, DeviceInit, machine
  <2>3. Serving' BY <1>2 DEF TInv, Serving, ClockInit, DeviceInit, machine, Argument
  <2> QED BY <2>1, <2>2, <2>3 DEF TInv
<1>3. ASSUME TInv, RtcInit PROVE TInv'
  <2>1. imr' = Irq \ opened
    BY <1>3 DEF TInv, Installed, RtcInit, DeviceInit, Unmasked
  <2>2. Installed'
    <3>1. stage = "rtc_init" /\ stage' = "task_init" /\ opened' = opened /\ pc' = pc
          /\ handler_table' = [handler_table EXCEPT ![ExceptionSize + Rtc] = "rtc_handler"]
      BY <1>3 DEF RtcInit, DeviceInit, SetHandler, machine
    <3>2. handler_table = [v \in Vector |-> handler_table[v]]
          /\ handler_table[ExceptionSize + Clock] = "clock_handler"
      BY <1>3, <3>1 DEF TInv, Installed
    <3>3. handler_table' = [v \in Vector |-> handler_table'[v]]
          /\ handler_table'[ExceptionSize + Rtc] = "rtc_handler"
          /\ handler_table'[ExceptionSize + Clock] = "clock_handler"
      <4>1. ExceptionSize + Clock # ExceptionSize + Rtc
        BY DEF ExceptionSize, Clock, Rtc
      <4> QED BY <3>1, <3>2, <4>1, Lines
    <3> QED BY <1>3, <2>1, <3>1, <3>3 DEF TInv, Installed
  <2>3. Machine' BY <1>3 DEF TInv, Machine, RtcInit, DeviceInit, machine
  <2>4. Serving' BY <1>3 DEF TInv, Serving, RtcInit, DeviceInit, machine, Argument
  <2> QED BY <2>2, <2>3, <2>4 DEF TInv
<1>4. ASSUME TInv, TaskInit PROVE TInv'
  <2>1. Installed' BY <1>4 DEF TInv, Installed, TaskInit
  <2>2. Machine'
    <3>1. \A c : IsStack(TaskFrame(c)) BY Tuples, Zenon DEF TaskFrame
    <3>2. Stacks(stack')
      <4>1. Stacks(stack) BY <1>4 DEF TInv, Machine
      <4> HIDE DEF TaskFrame
      <4>2. stack' = [c \in Context |-> IF c = Boot THEN stack[c] ELSE TaskFrame(c)]
        BY <1>4 DEF TaskInit
      <4> QED BY <3>1, <4>1, <4>2 DEF Stacks
    <3> QED BY <1>4, <3>2 DEF TInv, Machine, TaskInit
  <2>3. Serving'
    <3>1. isr = {} BY <1>4 DEF TInv, Installed, Serving, TaskInit
    <3> QED BY <1>4, <3>1 DEF TaskInit, Serving
  <2> QED BY <2>1, <2>2, <2>3 DEF TInv
<1>5. ASSUME TInv, SyscallInit PROVE TInv'
  <2>1. Installed' BY <1>5 DEF TInv, Installed, SyscallInit, machine
  <2>2. Machine' BY <1>5 DEF TInv, Machine, SyscallInit, machine
  <2>3. Serving' BY <1>5 DEF TInv, Serving, SyscallInit, machine, Argument
  <2> QED BY <2>1, <2>2, <2>3 DEF TInv
<1> QED BY <1>1, <1>2, <1>3, <1>4, <1>5

-----------------------------------------------------------------------------
(* The way in.                                                             *)

(* The handler that was installed for the vector gets it as its argument.  *)
LEMMA Entered ==
  ASSUME TInv, NEW vector \in Vector, NEW code, Enter(vector, code)
  PROVE  /\ cur' = cur /\ Stacks(stack') /\ pc' = handler_table[vector]
         /\ Argument(1)' = Number(vector)
<1> DEFINE s == Frame(stack[cur], regs, code, vector)
           eax == Word(s, VectorOffset)
           above == <<eax, Label("interrupt_exit")>>
<1>1. cur \in Context /\ Stacks(stack) /\ IsStack(stack[cur]) BY DEF TInv, Machine, Stacks
<1>2. IsStack(s) /\ eax = Number(vector) BY <1>1, VectorFound
<1>3. OnStack(s \o above) /\ cur' = cur
      /\ pc' = IF eax[3] \in Vector THEN handler_table[eax[3]] ELSE "wild"
  BY DEF Enter
<1>4. IsStack(above) /\ Len(above) = 2 /\ above[1] = eax BY Tuples
<1> HIDE DEF s, eax, above
<1>5. eax[3] = vector BY <1>2 DEF Number
<1>6. /\ IsStack(s \o above) /\ Len(s) \in Nat /\ Len(s \o above) = Len(s) + Len(above)
      /\ \A i \in 1 .. (Len(s) + Len(above)) :
           (s \o above)[i] = IF i <= Len(s) THEN s[i] ELSE above[i - Len(s)]
  BY <1>2, <1>4, Joined
<1> DEFINE w == s \o above
<1> HIDE DEF w
<1>7. Len(w) = Len(s) + 2 /\ w[Len(s) + 1] = eax /\ IsStack(w)
  <2>1. Len(s) + 1 \in 1 .. (Len(s) + 2) /\ ~ (Len(s) + 1 <= Len(s)) /\ (Len(s) + 1) - Len(s) = 1
    BY <1>6
  <2> QED BY <1>4, <1>6, <2>1 DEF w
<1>8. Stacks(stack') /\ stack'[cur] = w BY <1>1, <1>3, <1>7, Put DEF w
<1>9. Word(w, 1) = eax
  <2>1. (Len(s) + 2) - 1 = Len(s) + 1 BY <1>6
  <2> QED BY <1>7, <2>1 DEF Word
<1>10. Argument(1)' = Word(w, 1) BY <1>3, <1>8 DEF Argument
<1> QED BY <1>2, <1>3, <1>5, <1>8, <1>9, <1>10

LEMMA InterruptTInv ==
  ASSUME NEW i \in Irq PROVE TInv /\ Interrupt(i) => TInv'
<1> SUFFICES ASSUME TInv, Interrupt(i) PROVE TInv' OBVIOUS
<1>1. isr = {} /\ stage = "run" BY DEF Interrupt, InProgram, Running, TInv, Serving
<1>2. i = Clock \/ i = Rtc
  BY <1>1 DEF Interrupt, Deliverable, TInv, Installed, Machine
<1>3. ExceptionSize + i \in Vector BY DEF Vector
<1>4. /\ cur' = cur /\ Stacks(stack') /\ pc' = handler_table[ExceptionSize + i]
      /\ Argument(1)' = Number(ExceptionSize + i)
  BY <1>3, Entered DEF Interrupt
<1>5. Serving'
  <2>1. CASE i = Clock
    <3>1. isr' = {Clock} BY <1>1, <2>1, Lines DEF Interrupt
    <3>2. pc' = "clock_handler" BY <1>1, <1>4, <2>1 DEF TInv, Installed
    <3> QED BY <1>4, <2>1, <3>1, <3>2 DEF Serving
  <2>2. CASE i = Rtc
    <3>1. isr' = {Cascade, Rtc} BY <1>1, <2>2, Lines DEF Interrupt
    <3>2. pc' = "rtc_handler" BY <1>1, <1>4, <2>2 DEF TInv, Installed
    <3> QED BY <1>4, <2>2, <3>1, <3>2 DEF Serving
  <2> QED BY <1>2, <2>1, <2>2
<1>6. Installed' BY <1>1 DEF TInv, Installed, Interrupt, tables
<1>7. Machine' BY <1>4 DEF TInv, Machine, Interrupt
<1> QED BY <1>5, <1>6, <1>7 DEF TInv

LEMMA ExceptionTInv ==
  ASSUME NEW v \in Exceptions PROVE TInv /\ Exception(v) => TInv'
<1> SUFFICES ASSUME TInv, Exception(v) PROVE TInv' OBVIOUS
<1>1. isr = {} /\ stage = "run" BY DEF Exception, InProgram, Running, TInv, Serving
<1>2. cur' = cur /\ Stacks(stack') BY Entered DEF Exception, Vector
<1>3. cur \in Context BY DEF TInv, Machine
<1> QED BY <1>1, <1>2, <1>3, ServedTInv DEF Exception

LEMMA SyscallTInv ==
  ASSUME NEW n \in Calls PROVE TInv /\ Syscall(n) => TInv'
<1> SUFFICES ASSUME TInv, Syscall(n) PROVE TInv' OBVIOUS
<1> DEFINE checked == [r \in Reg |-> CASE r \in CheckClobbers -> Junk [] r = "eax" -> Number(n)
                                       [] OTHER -> regs[r]]
           s == Frame(stack[cur], checked, Label("dummy"), 128)
           below == s \o <<Number(128)>> \o Values(checked, Arguments)
           w == below \o <<Label("syscall_return")>>
<1>1. isr = {} /\ stage = "run" BY DEF Syscall, InProgram, Running, TInv, Serving
<1>2. cur \in Context /\ Stacks(stack) /\ IsStack(stack[cur]) BY DEF TInv, Machine, Stacks
<1>3. CASE n \in Known
  <2>1. OnStack(w) /\ cur' = cur /\ UNCHANGED <<tables, irr, isr, spilled>>
    BY <1>3 DEF Syscall
  <2> HIDE DEF checked
  <2>2. IsStack(s) BY <1>2, VectorFound
  <2> HIDE DEF s
  <2>3. IsStack(Values(checked, Arguments))
    <3>1. Len(Arguments) = 3 BY DEF Arguments
    <3> QED BY <3>1, Pushed
  <2>4. IsStack(<<Number(128)>>) /\ IsStack(<<Label("syscall_return")>>) BY Tuples, Zenon
  <2>5. IsStack(s \o <<Number(128)>>) BY <2>2, <2>4, Joined
  <2>6. IsStack(below) BY <2>3, <2>5, Joined
  <2> HIDE DEF below
  <2>7. IsStack(w) BY <2>4, <2>6, Joined
  <2> HIDE DEF w
  <2>8. Stacks(stack') BY <1>2, <2>1, <2>7, Put
  <2> QED BY <1>1, <1>2, <2>1, <2>8, ServedTInv
<1>4. CASE n \notin Known
  BY <1>1, <1>2, <1>4, ServedTInv DEF Syscall, machine
<1> QED BY <1>3, <1>4

-----------------------------------------------------------------------------
(* The C code and the way out.                                             *)

LEMMA SwitchStacks ==
  ASSUME TInv, NEW next \in Context, SwitchTo(next)
  PROVE  cur' \in Context /\ Stacks(stack')
<1> DEFINE inC == [r \in Reg |-> IF r \in CallerSaved \cup Spilled \cup {"ebp"}
                                   THEN Junk ELSE regs[r]]
           saved == SwitchSaved(inC)
           spills == Values(regs, spilled)
           calls == <<Label("next"), Label("schedule")>>
           left == stack[cur] \o <<regs["ebp"]>> \o spills \o calls \o saved
           s == stack[next]
<1>1. cur \in Context /\ Stacks(stack) /\ IsStack(stack[cur]) /\ IsStack(s)
  BY DEF TInv, Machine, Stacks
<1>2. cur' = next /\ stack' = [stack EXCEPT ![cur] = left, ![next] = Drop(s, 5)]
  BY DEF SwitchTo
<1>3. IsStack(saved)
  <2>1. Len(SwitchOrder) = 4 BY DEF SwitchOrder
  <2> QED BY <2>1, Pushed DEF SwitchSaved
<1>4. IsStack(spills)
  <2>1. IsStack(spilled) BY DEF TInv, Machine
  <2>2. Len(spilled) \in Nat BY <2>1, Tuples, Joined
  <2> QED BY <2>2, Pushed
<1>5. IsStack(calls) /\ IsStack(<<regs["ebp"]>>) BY Tuples, Zenon
<1> HIDE DEF inC, saved, spills, calls
<1>6. IsStack(stack[cur] \o <<regs["ebp"]>>) BY <1>1, <1>5, Joined
<1>7. IsStack(stack[cur] \o <<regs["ebp"]>> \o spills) BY <1>4, <1>6, Joined
<1>8. IsStack(stack[cur] \o <<regs["ebp"]>> \o spills \o calls) BY <1>5, <1>7, Joined
<1>9. IsStack(left) BY <1>3, <1>8, Joined
<1>10. IsStack(Drop(s, 5)) BY <1>1, Dropped
<1> HIDE DEF left, s
<1>11. Stacks([stack EXCEPT ![cur] = left]) BY <1>1, <1>9, StackSet
<1>12. Stacks([[stack EXCEPT ![cur] = left] EXCEPT ![next] = Drop(s, 5)])
  BY <1>10, <1>11, StackSet
<1> QED BY <1>2, <1>12

LEMMA RetStacks ==
  ASSUME TInv, NEW s, IsStack(s), NEW r, Ret(s, r)
  PROVE  cur' \in Context /\ Stacks(stack')
<1>1. IsStack(Drop(s, 1)) BY Dropped
<1> QED BY <1>1, Put DEF Ret, TInv, Machine

LEMMA CurrentStack ==
  ASSUME TInv
  PROVE  IsStack(stack[cur]) /\ IsStack(spilled) /\ Len(spilled) \in Nat
<1>1. IsStack(stack[cur]) /\ IsStack(spilled) BY DEF TInv, Machine, Stacks
<1> QED BY <1>1, Tuples, Joined

LEMMA ScheduleReturnsTInv == TInv /\ ScheduleReturns => TInv'
<1> SUFFICES ASSUME TInv, ScheduleReturns PROVE TInv' OBVIOUS
<1>1. isr = {} /\ stage = "run" BY DEF ScheduleReturns, Running, TInv, Serving
<1> DEFINE s == Drop(stack[cur], 1)
<1>2. IsStack(Drop(s, Len(spilled) + 1)) BY CurrentStack, Dropped
<1>3. \E r : Ret(Drop(s, Len(spilled) + 1), r) BY DEF ScheduleReturns
<1> HIDE DEF s
<1>4. cur' \in Context /\ Stacks(stack') BY <1>2, <1>3, RetStacks
<1> QED BY <1>1, <1>4, ServedTInv DEF ScheduleReturns

(* Acknowledging the request that is in service leaves nothing there.      *)
LEMMA Acknowledged ==
  /\ isr = {} => \A vector : SendEoi(vector) = {}
  /\ isr = {Clock} => SendEoi(ExceptionSize + Clock) = {}
  /\ isr = {Cascade, Rtc} => SendEoi(ExceptionSize + Rtc) = {}
<1>1. MasterEoi({}) = {} /\ SlaveEoi({}) = {} BY DEF MasterEoi, SlaveEoi
<1>2. \A i \in Int : Min({i}) = i BY DEF Min
<1>3. MasterEoi({0}) = {}
  <2>1. {i \in {0} : i < 8} = {0} OBVIOUS
  <2> QED BY <1>2, <2>1 DEF MasterEoi
<1>4. MasterEoi({2, 8}) = {8}
  <2>1. {i \in {2, 8} : i < 8} = {2} OBVIOUS
  <2> QED BY <1>2, <2>1 DEF MasterEoi
<1>5. SlaveEoi({8}) = {}
  <2>1. {i \in {8} : i >= 8} = {8} OBVIOUS
  <2> QED BY <1>2, <2>1 DEF SlaveEoi
<1>6. 32 + 0 \in 32 .. 39 /\ 32 + 8 \notin 32 .. 39 /\ 32 + 8 \in 40 .. 47 OBVIOUS
<1> QED BY <1>1, <1>3, <1>4, <1>5, <1>6 DEF SendEoi, Clock, Cascade, Rtc, ExceptionSize

LEMMA ClockHandlerTInv == TInv /\ ClockHandler => TInv'
<1> SUFFICES ASSUME TInv, ClockHandler PROVE TInv' OBVIOUS
<1>1. stage = "run" /\ pc = "clock_handler" BY DEF ClockHandler, Running
<1>2. isr' = SendEoi(Argument(1)[3]) BY DEF ClockHandler
<1>3. isr' = {}
  <2>1. \/ isr = {}
        \/ isr = {Clock} /\ Argument(1) = Number(ExceptionSize + Clock)
    BY <1>1 DEF TInv, Serving
  <2> QED BY <1>2, <2>1, Acknowledged DEF Number
<1>4. cur' \in Context /\ Stacks(stack')
  <2>1. CASE Ret(stack[cur], Clobbered(regs)) BY <2>1, CurrentStack, RetStacks
  <2>2. ASSUME NEW next \in Thread \ {cur}, SwitchTo(next)
        PROVE  cur' \in Context /\ Stacks(stack')
    BY <2>2, SwitchStacks DEF Context
  <2> QED BY <2>1, <2>2 DEF ClockHandler
<1> QED BY <1>1, <1>3, <1>4, ServedTInv DEF ClockHandler

LEMMA RtcHandlerTInv == TInv /\ RtcHandler => TInv'
<1> SUFFICES ASSUME TInv, RtcHandler PROVE TInv' OBVIOUS
<1>1. stage = "run" /\ pc = "rtc_handler" BY DEF RtcHandler, Running
<1>2. CASE Argument(1) = Number(40)
  <2>1. isr' = SendEoi(40) /\ Ret(stack[cur], Clobbered(regs)) BY <1>2 DEF RtcHandler
  <2>2. isr' = {}
    <3>1. isr = {} \/ isr = {Cascade, Rtc} BY <1>1 DEF TInv, Serving
    <3>2. ExceptionSize + Rtc = 40 BY DEF ExceptionSize, Rtc
    <3> QED BY <2>1, <3>1, <3>2, Acknowledged
  <2>3. cur' \in Context /\ Stacks(stack') BY <2>1, CurrentStack, RetStacks
  <2> QED BY <1>1, <2>2, <2>3, ServedTInv DEF RtcHandler
<1>3. CASE Argument(1) # Number(40)
  BY <1>3, QuietTInv DEF RtcHandler, machine, TInv, Machine
<1> QED BY <1>2, <1>3

LEMMA SyscallHandlerTInv == TInv /\ SyscallHandler => TInv'
<1> SUFFICES ASSUME TInv, SyscallHandler PROVE TInv' OBVIOUS
<1>1. isr = {} /\ stage = "run" BY DEF SyscallHandler, Running, TInv, Serving
<1>2. cur' \in Context /\ Stacks(stack')
  <2>1. ASSUME NEW r, Ret(stack[cur], r) PROVE cur' \in Context /\ Stacks(stack')
    BY <2>1, CurrentStack, RetStacks
  <2>2. ASSUME NEW next \in Thread \ {cur}, SwitchTo(next)
        PROVE  cur' \in Context /\ Stacks(stack')
    BY <2>2, SwitchStacks DEF Context
  <2>3. CASE UNCHANGED machine BY <2>3 DEF machine, TInv, Machine
  <2> QED BY <2>1, <2>2, <2>3 DEF SyscallHandler
<1> QED BY <1>1, <1>2, ServedTInv DEF SyscallHandler

LEMMA LeaveStacks ==
  ASSUME TInv, NEW s, IsStack(s), Leave(s)
  PROVE  cur' \in Context /\ Stacks(stack')
<1> DEFINE gate == Drop(s, 15)
<1>1. IsStack(Drop(gate, 3)) BY Dropped
<1>2. OnStack(Drop(gate, 3)) /\ cur' = cur BY DEF Leave
<1> HIDE DEF gate
<1> QED BY <1>1, <1>2, Put DEF TInv, Machine

LEMMA InterruptExitTInv == TInv /\ InterruptExit => TInv'
<1> SUFFICES ASSUME TInv, InterruptExit PROVE TInv' OBVIOUS
<1>1. isr = {} /\ stage = "run" BY DEF InterruptExit, Running, TInv, Serving
<1>2. cur' \in Context /\ Stacks(stack')
  <2>1. CASE Leave(stack[cur]) BY <2>1, CurrentStack, LeaveStacks
  <2>2. ASSUME NEW i, NEW e, Leave([Drop(stack[cur], ArgumentWords) EXCEPT ![i] = e])
        PROVE  cur' \in Context /\ Stacks(stack')
    <3>1. IsStack(Drop(stack[cur], ArgumentWords))
      BY CurrentStack, Dropped DEF ArgumentWords
    <3> QED BY <2>2, <3>1, Replaced, LeaveStacks
  <2> QED BY <2>1, <2>2 DEF InterruptExit
<1> QED BY <1>1, <1>2, ServedTInv DEF InterruptExit

-----------------------------------------------------------------------------
LEMMA StepTInv == TInv /\ [Next]_vars => TInv'
<1> SUFFICES ASSUME TInv, [Next]_vars PROVE TInv' OBVIOUS
<1>1. irr \subseteq Irq \ {Cascade} BY DEF TInv, Machine
<1>2. CASE UNCHANGED vars BY <1>1, <1>2, QuietTInv DEF vars, machine
<1>3. CASE Sti BY <1>1, <1>3, QuietTInv DEF Sti
<1>4. ASSUME NEW phase \in 0 .. 1, Compute(phase) PROVE TInv'
  BY <1>1, <1>4, QuietTInv DEF Compute
<1>5. ASSUME NEW i \in Irq, RaiseIrq(i) PROVE TInv'
  BY <1>1, <1>5, QuietTInv DEF RaiseIrq, machine
<1>6. CASE ExceptionHandler BY <1>1, <1>6, QuietTInv DEF ExceptionHandler, machine
<1> QED
  BY <1>2, <1>3, <1>4, <1>5, <1>6, InstallTInv, InterruptTInv, ExceptionTInv, SyscallTInv,
     ScheduleReturnsTInv, ClockHandlerTInv, RtcHandlerTInv, SyscallHandlerTInv,
     InterruptExitTInv
  DEF Next

(* What is in service is always what the handler that runs acknowledges:   *)
(* whatever the lines, the threads and the calls, and whichever of the two *)
(* kernels, with the clock of the CMOS or without.                         *)
THEOREM InvariantHolds == Spec => []TInv
BY InitTInv, StepTInv, PTL DEF Spec

(* No program runs while a request is in service at either controller, so  *)
(* none blocks a line for good, also when a handler switches tasks.        *)
THEOREM NothingStaysInService == Spec => []NothingLeftInService
<1>1. TInv => NothingLeftInService BY DEF TInv, Serving, NothingLeftInService
<1> QED BY <1>1, InvariantHolds, PTL

-----------------------------------------------------------------------------
(* What is on the stacks.  A program is interrupted with nothing on its    *)
(* stack, so the words are counted from the bottom: 17 of the gate, the    *)
(* stub and pusha, then those of the call of the C code.  Kept says that a *)
(* word is what program p believes of a register; CheckClobbers is exempt. *)

Kept(p, r, w) == r \in CheckClobbers \/ p[r] \in {Any, w}
Loaded(p, names, r) == \A n \in names : Kept(p, n, r[n])

Framed(p, s) ==
  /\ p["if"] \in {Any, s[1]} /\ s[3] = Label("program") /\ s[14] = Label("esp")
  /\ \A i \in 2 .. 8 : Kept(p, Pusha[i], s[9 + i])

AtInterrupt == 19
AtSyscall == 22
Trapped(p, s, b) ==
  /\ Framed(p, s)
  /\ \/ b = AtInterrupt /\ s[b] = Label("interrupt_exit") /\ Kept(p, "eax", s[10])
     \/ b = AtSyscall /\ s[b] = Label("syscall_return")

(* schedule has called task_switch: the prologue of the handler, as the    *)
(* compiler made it, and the argument.                                     *)
Scheduled(p, s, b, spills) ==
  /\ Trapped(p, s, b) /\ (b = AtSyscall => p["eax"] = Any)
  /\ Kept(p, "ebp", s[b + 1])
  /\ \A i \in 1 .. Len(spills) : Kept(p, spills[i], s[b + 1 + i])
  /\ s[b + Len(spills) + 2] = Label("next")

(* task_switch has left: the words it will find when it comes back.        *)
Away(p, s, spills) ==
  \E b \in {AtInterrupt, AtSyscall} :
    /\ Scheduled(p, s, b, spills) /\ Len(s) = b + Len(spills) + 7
    /\ s[b + Len(spills) + 3] = Label("schedule")
    /\ \A i \in 2 .. 4 : \/ \E j \in 1 .. Len(spills) : spills[j] = SwitchOrder[i]
                         \/ Kept(p, SwitchOrder[i], s[b + Len(spills) + 3 + i])

Fresh(c, p, s) ==
  /\ s = TaskFrame(c)
  /\ p = [r \in Reg |-> IF r \in CallerSaved \cup {"if"} THEN Any ELSE Own(c, 0)[r]]

(* Where the processor is, p and s being the program it runs for and the   *)
(* stack it is on.                                                         *)
Preserved == {"ebx", "ebp", "esi", "edi"}

Computing(p, s) == pc = "program" /\ s = << >> /\ (~halted => Loaded(p, Reg, regs))
Handling(p, s) ==
  /\ pc \in {"clock_handler", "rtc_handler", "exception_handler"}
  /\ Trapped(p, s, AtInterrupt) /\ Len(s) = AtInterrupt /\ Loaded(p, Preserved, regs)
  /\ raised.vector \in Vector /\ pc = handler_table[raised.vector]
  /\ s[18] = Number(raised.vector) /\ s[4] = raised.code
Calling(p, s) ==
  /\ \E n \in Known : pc = syscall_table[n]
  /\ Trapped(p, s, AtSyscall) /\ Len(s) = AtSyscall /\ Loaded(p, Preserved, regs)
  /\ \A i \in 1 .. 3 : Kept(p, Arguments[i], s[18 + i])
  /\ p["eax"] = Any \/ (pc = "syscall_test_handler" /\ p["eax"] = Number(10))
Switching(p, s) ==
  /\ pc = "schedule"
  /\ \E b \in {AtInterrupt, AtSyscall} :
       Scheduled(p, s, b, spilled) /\ Len(s) = b + Len(spilled) + 2
  /\ Loaded(p, Preserved \ (Spilled \cup {"ebp"}), regs)
Exiting(p, s) ==
  pc = "interrupt_exit" /\ Framed(p, s) /\ Kept(p, "eax", s[10]) /\ Len(s) = 18
Answering(p, s) ==
  pc = "syscall_return" /\ Framed(p, s) /\ p["eax"] \in {Any, regs["eax"]} /\ Len(s) = 21

Here(p, s) ==
  \/ Computing(p, s) \/ Handling(p, s) \/ Calling(p, s)
  \/ Switching(p, s) \/ Exiting(p, s) \/ Answering(p, s)

Elsewhere(c, p, s) == Fresh(c, p, s) \/ Away(p, s, spilled)

(* The tables, as far as kernel_init has filled them.                      *)
Handlers == [v \in Vector |->
  IF v = ExceptionSize + Clock /\ stage # "clock_init" THEN "clock_handler"
  ELSE IF v = ExceptionSize + Rtc /\ stage \notin {"clock_init", "rtc_init"}
       THEN "rtc_handler" ELSE DefaultHandler(v)]

CallHandlers == [n \in Known |->
  CASE n = 0 -> "syscall_test_handler" [] n = 1 -> "syscall_yield_handler"
    [] OTHER -> "syscall_default_handler"]

Ready ==
  /\ stage # "interrupt_init" => handler_table = Handlers
  /\ syscall_table = IF stage = "run" THEN CallHandlers ELSE [n \in Known |-> "null"]

Registers ==
  /\ regs = [r \in Reg |-> regs[r]] /\ regs["esp"] = Label("esp")
  /\ prog = [c \in Context |-> [r \in Reg |-> prog[c][r]]]
  /\ \A c \in Context : prog[c]["esp"] = Label("esp")
  /\ spilled \in {<<>>, <<"ebx">>, <<"ebx", "esi", "edi">>}

SInv ==
  /\ TInv /\ Registers
  /\ Here(prog[cur], stack[cur])
  /\ Ready
  /\ stage # "run" => cur = Boot
  /\ stage \in {"syscall_init", "run"} =>
       \A c \in Thread \ {cur} : Elsewhere(c, prog[c], stack[c])

-----------------------------------------------------------------------------
(* Words that stay where they are.                                         *)

LEMMA FrameWords ==
  ASSUME NEW r, NEW code, NEW number
  PROVE  LET s == Frame(<< >>, r, code, number)
         IN  /\ IsStack(s) /\ Len(s) = 17
             /\ s[1] = r["if"] /\ s[3] = Label("program") /\ s[4] = code
             /\ \A i \in 1 .. 8 : s[9 + i] = r[Pusha[i]]
<1> DEFINE gate == <<r["if"], Label("cs"), Label("program"), code, Number(number)>>
           v == Values(r, Pusha)
<1>1. IsStack(gate) /\ Len(gate) = 5 BY Tuples
<1>2. gate[1] = r["if"] /\ gate[3] = Label("program") /\ gate[4] = code OBVIOUS
<1>3. IsStack(Segments) /\ Len(Segments) = 4 BY SegmentWords
<1>4. Len(Pusha) = 8 BY DEF Pusha
<1>5. IsStack(v) /\ Len(v) = 8 /\ \A i \in 1 .. 8 : v[i] = r[Pusha[i]]
  <2>1. IsStack(v) /\ Len(v) = 8 BY <1>4, Pushed
  <2>2. v = [i \in 1 .. 8 |-> r[Pusha[i]]] BY <1>4 DEF Values
  <2> QED BY <2>1, <2>2
<1>6. Frame(<< >>, r, code, number) = << >> \o gate \o Segments \o v BY DEF Frame
<1> HIDE DEF gate, v
<1>7. IsStack(<< >>) /\ Len(<< >>) = 0 BY Tuples
<1> DEFINE a == << >> \o gate
           b == a \o Segments
<1>8. IsStack(a) /\ Len(a) = 5 /\ \A i \in 1 .. 5 : a[i] = gate[i]
  <2>1. /\ IsStack(a) /\ Len(a) = Len(<< >>) + Len(gate)
        /\ \A i \in 1 .. (Len(<< >>) + Len(gate)) :
             a[i] = IF i <= Len(<< >>) THEN << >>[i] ELSE gate[i - Len(<< >>)]
    BY <1>1, <1>7, Joined
  <2> HIDE DEF a
  <2>2. \A i \in 1 .. 5 : a[i] = gate[i - 0] BY <1>1, <1>7, <2>1
  <2> QED BY <1>1, <1>7, <2>1, <2>2
<1> HIDE DEF a
<1>9. IsStack(b) /\ Len(b) = 9 /\ \A i \in 1 .. 5 : b[i] = a[i]
  <2>1. /\ IsStack(b) /\ Len(b) = Len(a) + Len(Segments)
        /\ \A i \in 1 .. (Len(a) + Len(Segments)) :
             b[i] = IF i <= Len(a) THEN a[i] ELSE Segments[i - Len(a)]
    BY <1>3, <1>8, Joined
  <2> HIDE DEF b
  <2> QED BY <1>3, <1>8, <2>1
<1> HIDE DEF b
<1>10. /\ IsStack(b \o v) /\ Len(b \o v) = 17
       /\ \A i \in 1 .. 17 : (b \o v)[i] = IF i <= 9 THEN b[i] ELSE v[i - 9]
  <2> DEFINE w == b \o v
  <2>1. /\ IsStack(w) /\ Len(w) = Len(b) + Len(v)
        /\ \A i \in 1 .. (Len(b) + Len(v)) : w[i] = IF i <= Len(b) THEN b[i] ELSE v[i - Len(b)]
    BY <1>5, <1>9, Joined, ZenonT(30)
  <2> HIDE DEF w
  <2>2. IsStack(w) /\ Len(w) = 17
        /\ \A i \in 1 .. 17 : w[i] = IF i <= 9 THEN b[i] ELSE v[i - 9]
    BY <1>5, <1>9, <2>1
  <2> QED BY <2>2 DEF w
<1>11. \A i \in 1 .. 8 : (b \o v)[9 + i] = v[i]
  <2>1. \A i \in 1 .. 8 : 9 + i \in 1 .. 17 /\ ~ (9 + i <= 9) /\ (9 + i) - 9 = i OBVIOUS
  <2> QED BY <1>10, <2>1
<1> DEFINE w == b \o v
<1>12. /\ IsStack(w) /\ Len(w) = 17 /\ \A i \in 1 .. 5 : w[i] = gate[i]
       /\ \A i \in 1 .. 8 : w[9 + i] = r[Pusha[i]]
  <2>1. \A i \in 1 .. 5 : i \in 1 .. 17 /\ i <= 9 OBVIOUS
  <2>2. IsStack(w) /\ Len(w) = 17 /\ \A i \in 1 .. 5 : w[i] = b[i] BY <1>10, <2>1
  <2>3. \A i \in 1 .. 8 : w[9 + i] = v[i] BY <1>11
  <2> HIDE DEF w, b
  <2> QED BY <1>5, <1>8, <1>9, <2>2, <2>3
<1> HIDE DEF w
<1>13. w[1] = r["if"] /\ w[3] = Label("program") /\ w[4] = code BY <1>2, <1>12
<1> QED BY <1>6, <1>12, <1>13 DEF a, b, w

LEMMA DroppedWords ==
  ASSUME NEW s, IsStack(s), NEW n \in Nat, n <= Len(s)
  PROVE  /\ IsStack(Drop(s, n)) /\ Len(Drop(s, n)) = Len(s) - n /\ Len(s) \in Nat
         /\ \A i \in 1 .. (Len(s) - n) : Drop(s, n)[i] = s[i]
<1>1. PICK S : s \in Seq(S) BY DEF IsStack
<1>2. Len(s) \in Nat BY <1>1, LenProperties
<1>3. \A i \in 1 .. (Len(s) - n) : s[i] \in S BY <1>1, <1>2, ElementOfSeq
<1>4. /\ Len(SubSeq(s, 1, Len(s) - n)) = Len(s) - n
      /\ \A i \in 1 .. (Len(s) - n) : SubSeq(s, 1, Len(s) - n)[i] = s[i]
  <2>1. /\ Len(SubSeq(s, 1, Len(s) - n)) = IF 1 <= Len(s) - n THEN (Len(s) - n) - 1 + 1 ELSE 0
        /\ \A i \in 1 .. ((Len(s) - n) - 1 + 1) : SubSeq(s, 1, Len(s) - n)[i] = s[1 + i - 1]
    BY <1>2, <1>3, SubSeqProperties
  <2> QED BY <1>2, <2>1
<1> QED BY <1>2, <1>4, Dropped DEF Drop

LEMMA FramedStays ==
  ASSUME NEW p, NEW s, Framed(p, s), NEW t, \A i \in 1 .. 17 : t[i] = s[i]
  PROVE  Framed(p, t)
<1>1. \A i \in 2 .. 8 : 9 + i \in 1 .. 17 OBVIOUS
<1>2. {1, 3, 14} \subseteq 1 .. 17 OBVIOUS
<1> QED BY <1>1, <1>2 DEF Framed

LEMMA TrappedStays ==
  ASSUME NEW p, NEW s, NEW b, Trapped(p, s, b), NEW t, \A i \in 1 .. b : t[i] = s[i]
  PROVE  Trapped(p, t, b)
<1>1. b = 19 \/ b = 22 BY DEF Trapped, AtInterrupt, AtSyscall
<1>2. \A i \in 1 .. 17 : t[i] = s[i] BY <1>1
<1>3. b \in 1 .. b /\ 10 \in 1 .. b BY <1>1
<1> QED BY <1>2, <1>3, FramedStays DEF Trapped

LEMMA ScheduledStays ==
  ASSUME NEW p, NEW s, NEW b, NEW spills, Len(spills) \in Nat, Scheduled(p, s, b, spills),
         NEW t, \A i \in 1 .. (b + Len(spills) + 2) : t[i] = s[i]
  PROVE  Scheduled(p, t, b, spills)
<1>1. b = 19 \/ b = 22 BY DEF Scheduled, Trapped, AtInterrupt, AtSyscall
<1>2. Trapped(p, t, b)
  <2>1. \A i \in 1 .. b : t[i] = s[i] BY <1>1
  <2> QED BY <2>1, TrappedStays DEF Scheduled
<1>3. t[b + 1] = s[b + 1] BY <1>1
<1>4. \A i \in 1 .. Len(spills) : t[b + 1 + i] = s[b + 1 + i] BY <1>1
<1>5. t[b + Len(spills) + 2] = s[b + Len(spills) + 2] BY <1>1
<1> QED BY <1>2, <1>3, <1>4, <1>5 DEF Scheduled

(* The registers that an interrupted program had are in its frame.         *)
LEMMA FrameHolds ==
  ASSUME NEW p, NEW r, Loaded(p, Reg \ {"eax"}, r), r["esp"] = Label("esp"), NEW code, NEW number
  PROVE  Framed(p, Frame(<< >>, r, code, number))
<1> DEFINE s == Frame(<< >>, r, code, number)
<1>1. /\ s[1] = r["if"] /\ s[3] = Label("program")
      /\ \A i \in 1 .. 8 : s[9 + i] = r[Pusha[i]]
  BY FrameWords
<1>2. /\ Pusha[2] = "ecx" /\ Pusha[3] = "edx" /\ Pusha[4] = "ebx" /\ Pusha[5] = "esp"
      /\ Pusha[6] = "ebp" /\ Pusha[7] = "esi" /\ Pusha[8] = "edi"
  BY DEF Pusha
<1> HIDE DEF s
<1>3. \A i \in 2 .. 8 : Pusha[i] \in Reg \ {"eax"} BY <1>2 DEF Reg
<1>4. \A i \in 2 .. 8 : Kept(p, Pusha[i], s[9 + i]) BY <1>1, <1>3 DEF Loaded
<1>5. s[9 + 5] = Label("esp") BY <1>1, <1>2
<1>6. p["if"] \in {Any, s[1]}
  <2>1. "if" \in Reg \ {"eax"} BY DEF Reg
  <2>2. Kept(p, "if", r["if"]) BY <2>1 DEF Loaded
  <2> QED BY <1>1, <2>2, BuildAssumption DEF Kept
<1> QED BY <1>1, <1>4, <1>5, <1>6 DEF Framed, s

-----------------------------------------------------------------------------
(* What a step leaves alone.                                               *)

LEMMA Above ==
  ASSUME NEW s, NEW t, IsStack(s), IsStack(t)
  PROVE  /\ IsStack(s \o t) /\ Len(s) \in Nat /\ Len(t) \in Nat
         /\ Len(s \o t) = Len(s) + Len(t)
         /\ \A i \in 1 .. Len(s) : (s \o t)[i] = s[i]
         /\ \A j \in 1 .. Len(t) : (s \o t)[Len(s) + j] = t[j]
<1> DEFINE w == s \o t
<1>1. /\ IsStack(w) /\ Len(s) \in Nat /\ Len(t) \in Nat /\ Len(w) = Len(s) + Len(t)
      /\ \A i \in 1 .. (Len(s) + Len(t)) : w[i] = IF i <= Len(s) THEN s[i] ELSE t[i - Len(s)]
  BY Joined
<1> HIDE DEF w
<1>2. \A i \in 1 .. Len(s) : w[i] = s[i] BY <1>1
<1>3. \A j \in 1 .. Len(t) : w[Len(s) + j] = t[j]
  <2>1. \A j \in 1 .. Len(t) : /\ Len(s) + j \in 1 .. (Len(s) + Len(t))
                               /\ ~ (Len(s) + j <= Len(s)) /\ (Len(s) + j) - Len(s) = j
    BY <1>1
  <2> QED BY <1>1, <2>1
<1> QED BY <1>1, <1>2, <1>3 DEF w

LEMMA Spills ==
  ASSUME Registers
  PROVE  /\ Len(spilled) \in Nat /\ IsStack(spilled)
         /\ \A i \in 1 .. Len(spilled) : spilled[i] \in {"ebx", "esi", "edi"}
         /\ Spilled = {spilled[i] : i \in 1 .. Len(spilled)}
         /\ Spilled \subseteq {"ebx", "esi", "edi"}
<1>1. spilled = <<>> \/ spilled = <<"ebx">> \/ spilled = <<"ebx", "esi", "edi">>
  BY DEF Registers
<1>2. IsStack(spilled) BY <1>1, Tuples, Zenon
<1>3. /\ Len(spilled) \in Nat /\ DOMAIN spilled = 1 .. Len(spilled)
      /\ \A i \in 1 .. Len(spilled) : spilled[i] \in {"ebx", "esi", "edi"}
  <2>1. CASE spilled = <<>> BY <2>1
  <2>2. CASE spilled = <<"ebx">> BY <2>2
  <2>3. CASE spilled = <<"ebx", "esi", "edi">> BY <2>3
  <2> QED BY <1>1, <2>1, <2>2, <2>3
<1> QED BY <1>2, <1>3 DEF Spilled

(* What the place of the processor tells of the stack it is on.            *)
LEMMA InPlace ==
  ASSUME SInv, Running
  PROVE  /\ stage = "run" /\ syscall_table = CallHandlers /\ cur \in Context /\ Stacks(stack) /\ IsStack(stack[cur])
         /\ pc = "program" => stack[cur] = << >> /\ Loaded(prog[cur], Reg, regs)
         /\ pc \in {"clock_handler", "rtc_handler"} => Handling(prog[cur], stack[cur])
         /\ pc \in {"syscall_test_handler", "syscall_yield_handler"} =>
              Calling(prog[cur], stack[cur])
         /\ pc = "schedule" => Switching(prog[cur], stack[cur])
         /\ pc = "interrupt_exit" => Exiting(prog[cur], stack[cur])
         /\ pc = "syscall_return" => Answering(prog[cur], stack[cur])
<1>1. stage = "run" /\ ~halted /\ syscall_table = CallHandlers
  BY DEF Running, SInv, Ready
<1>2. cur \in Context /\ Stacks(stack) /\ IsStack(stack[cur]) BY DEF SInv, TInv, Machine, Stacks
<1>3. Calling(prog[cur], stack[cur]) => pc \in {"syscall_test_handler", "syscall_yield_handler",
                                                "syscall_default_handler"}
  BY <1>1 DEF Calling, CallHandlers
<1>4. Here(prog[cur], stack[cur]) BY DEF SInv
<1> QED BY <1>1, <1>2, <1>3, <1>4
        DEF Here, Computing, Handling, Switching, Exiting, Answering

LEMMA Others ==
  ASSUME Stacks(stack), cur \in Context, NEW s, OnStack(s)
  PROVE  stack'[cur] = s /\ \A c \in Thread \ {cur} : stack'[c] = stack[c]
<1>1. stack = [c \in Context |-> stack[c]] BY DEF Stacks
<1> QED BY <1>1 DEF OnStack, Context

(* A step of the running kernel on the stack it is on.                     *)
LEMMA CurrentStep ==
  ASSUME SInv, stage = "run", TInv', UNCHANGED <<tables, spilled>>, cur' = cur,
         Registers', Here(prog[cur], stack[cur])',
         \A c \in Thread \ {cur} : prog'[c] = prog[c] /\ stack'[c] = stack[c]
  PROVE  SInv'
<1>1. Ready' BY DEF SInv, Ready, Handlers, tables
<1>2. \A c \in Thread \ {cur} : Elsewhere(c, prog[c], stack[c])' BY DEF SInv, Elsewhere
<1> QED BY <1>1, <1>2 DEF SInv, tables

LEMMA QuietStep ==
  ASSUME SInv, TInv', UNCHANGED <<tables, machine, spilled, prog, raised>>,
         halted' = halted \/ halted'
  PROVE  SInv'
<1>1. Registers' BY DEF SInv, Registers, machine
<1>2. Here(prog[cur], stack[cur])'
  BY DEF SInv, Here, Computing, Handling, Calling, Switching, Exiting, Answering, machine,
         tables, Spilled
<1>3. /\ stage' = stage /\ cur' = cur /\ handler_table' = handler_table
      /\ syscall_table' = syscall_table /\ stack' = stack
  BY DEF tables, machine
<1>4. stage \in {"syscall_init", "run"} =>
        \A c \in Thread \ {cur} : Elsewhere(c, prog[c], stack[c])'
  BY <1>3 DEF SInv, Elsewhere
<1>5. Ready' BY <1>3 DEF SInv, Ready, Handlers
<1> QED BY <1>1, <1>2, <1>3, <1>4, <1>5 DEF SInv

LEMMA InitSInv == Init => SInv
<1> SUFFICES ASSUME Init PROVE SInv OBVIOUS
<1>1. cur = Boot /\ Boot \in Context BY DEF Init, Context
<1>2. \A c \in Context : prog[c] = [Own(c, 0) EXCEPT !["if"] = Any] BY DEF Init
<1>3. Registers
  <2>1. regs = [r \in Reg |-> IF r = "if" THEN Flag(FALSE) ELSE Own(Boot, 0)[r]]
    BY DEF Init, Own
  <2>2. "esp" \in Reg BY DEF Reg
  <2>3. \A c \in Context : /\ prog[c] = [r \in Reg |-> IF r = "if" THEN Any ELSE Own(c, 0)[r]]
    BY <1>2 DEF Own
  <2>4. \A c : Own(c, 0)["esp"] = Label("esp") BY <2>2 DEF Own
  <2>5. \A c \in Context : prog[c] = [r \in Reg |-> prog[c][r]] /\ prog[c]["esp"] = Label("esp")
    BY <2>2, <2>3, <2>4, ZenonT(30)
  <2>6. prog = [c \in Context |-> prog[c]] BY DEF Init
  <2>7. prog = [c \in Context |-> [r \in Reg |-> prog[c][r]]] BY <2>5, <2>6
  <2>8. regs = [r \in Reg |-> regs[r]] /\ regs["esp"] = Label("esp") BY <2>1, <2>2, <2>4
  <2>9. spilled \in {<<>>, <<"ebx">>, <<"ebx", "esi", "edi">>} BY DEF Init
  <2> QED BY <2>5, <2>7, <2>8, <2>9 DEF Registers
<1>4. Here(prog[cur], stack[cur])
  <2>1. \A r \in Reg : Kept(prog[cur], r, regs[r]) BY <1>1, <1>2 DEF Init, Own, Kept
  <2> QED BY <1>1, <2>1 DEF Init, Here, Computing, Loaded
<1>5. Ready BY DEF Init, Ready
<1> QED BY <1>1, <1>3, <1>4, <1>5, InitTInv DEF Init, SInv

-----------------------------------------------------------------------------
(* kernel_init leaves the registers alone, and task_create the frames from *)
(* which the threads start.                                                *)

LEMMA BootHere ==
  ASSUME SInv, stage # "run"
  PROVE  cur = Boot /\ pc = "program" /\ Computing(prog[Boot], stack[Boot])
<1>1. cur = Boot /\ pc = "program" BY DEF SInv, TInv, Installed
<1>2. Here(prog[Boot], stack[Boot]) BY <1>1 DEF SInv
<1>3. ~ Calling(prog[Boot], stack[Boot])
  <2>1. \A n \in Known : syscall_table[n] = "null" BY DEF SInv, Ready
  <2> QED BY <1>1, <2>1 DEF Calling
<1> QED BY <1>1, <1>2, <1>3 DEF Here, Handling, Switching, Exiting, Answering

(* A call of kernel_init that fills a table.                               *)
LEMMA TableStep ==
  ASSUME SInv, TInv', stage # "run", UNCHANGED <<machine, spilled, halted, prog>>, Ready',
         stage' \in {"syscall_init", "run"} => stage = "syscall_init"
  PROVE  SInv'
<1>1. cur' = cur /\ pc' = pc /\ regs' = regs /\ stack' = stack /\ prog' = prog
      /\ halted' = halted /\ spilled' = spilled
  BY DEF machine
<1>2. Registers' BY <1>1 DEF SInv, Registers
<1>3. Here(prog[cur], stack[cur])' BY <1>1, BootHere DEF Here, Computing
<1>4. \A c \in Thread \ {cur} : Elsewhere(c, prog[c], stack[c]) => Elsewhere(c, prog[c], stack[c])'
  BY <1>1 DEF Elsewhere
<1> QED BY <1>1, <1>2, <1>3, <1>4, BootHere DEF SInv

LEMMA TablesSInv ==
  SInv /\ TInv' /\ (InterruptInit \/ ClockInit \/ RtcInit \/ SyscallInit) => SInv'
<1>1. ASSUME SInv, TInv', InterruptInit PROVE SInv'
  <2>1. Ready' BY <1>1 DEF SInv, Ready, InterruptInit, Handlers
  <2> QED BY <1>1, <2>1, TableStep DEF InterruptInit
<1>2. ASSUME SInv, TInv', ClockInit PROVE SInv'
  <2>1. handler_table' = Handlers'
    <3>1. handler_table = [v \in Vector |-> DefaultHandler(v)]
      BY <1>2 DEF SInv, Ready, Handlers, ClockInit, DeviceInit
    <3>2. handler_table' = [handler_table EXCEPT ![ExceptionSize + Clock] = "clock_handler"]
          /\ stage' = "rtc_init"
      BY <1>2 DEF ClockInit, DeviceInit, SetHandler
    <3> QED BY <3>1, <3>2 DEF Handlers
  <2>2. Ready' BY <1>2, <2>1 DEF SInv, Ready, ClockInit, DeviceInit
  <2> QED BY <1>2, <2>2, TableStep DEF ClockInit, DeviceInit
<1>3. ASSUME SInv, TInv', RtcInit PROVE SInv'
  <2>1. handler_table' = Handlers'
    <3>1. handler_table = [v \in Vector |->
            IF v = ExceptionSize + Clock THEN "clock_handler" ELSE DefaultHandler(v)]
      BY <1>3 DEF SInv, Ready, Handlers, RtcInit, DeviceInit
    <3>2. handler_table' = [handler_table EXCEPT ![ExceptionSize + Rtc] = "rtc_handler"]
          /\ stage' = "task_init"
      BY <1>3 DEF RtcInit, DeviceInit, SetHandler
    <3>3. ExceptionSize + Clock # ExceptionSize + Rtc BY DEF ExceptionSize, Clock, Rtc
    <3> QED BY <3>1, <3>2, <3>3 DEF Handlers
  <2>2. Ready' BY <1>3, <2>1 DEF SInv, Ready, RtcInit, DeviceInit
  <2> QED BY <1>3, <2>2, TableStep DEF RtcInit, DeviceInit
<1>4. ASSUME SInv, TInv', SyscallInit PROVE SInv'
  <2>1. Ready' BY <1>4 DEF SInv, Ready, Handlers, SyscallInit, CallHandlers
  <2> QED BY <1>4, <2>1, TableStep DEF SyscallInit
<1> QED BY <1>1, <1>2, <1>3, <1>4

LEMMA TaskInitSInv == SInv /\ TInv' /\ TaskInit => SInv'
<1> SUFFICES ASSUME SInv, TInv', TaskInit PROVE SInv' OBVIOUS
<1>1. /\ stage = "task_init" /\ stage' = "syscall_init" /\ cur' = cur /\ pc' = pc
      /\ regs' = regs /\ halted' = halted /\ spilled' = spilled
      /\ handler_table' = handler_table /\ syscall_table' = syscall_table
  BY DEF TaskInit
<1>2. cur = Boot /\ pc = "program" /\ Computing(prog[Boot], stack[Boot]) BY <1>1, BootHere
<1> DEFINE new(c) == [r \in Reg |-> IF r \in CallerSaved \cup {"if"} THEN Any ELSE Own(c, 0)[r]]
<1>3. /\ stack'[Boot] = stack[Boot] /\ prog'[Boot] = prog[Boot]
      /\ \A c \in Thread : stack'[c] = TaskFrame(c) /\ prog'[c] = new(c)
      /\ prog' = [c \in Context |-> prog'[c]]
  <2> HIDE DEF new
  <2>1. /\ stack' = [c \in Context |-> IF c = Boot THEN stack[c] ELSE TaskFrame(c)]
        /\ prog' = [c \in Context |-> IF c = Boot THEN prog[c] ELSE new(c)]
    BY DEF TaskInit, new
  <2>2. Boot \in Context /\ \A c \in Thread : c \in Context /\ c # Boot
    BY DEF Context, Thread, Boot
  <2> QED BY <2>1, <2>2
<1>4. \A c : new(c) = [r \in Reg |-> new(c)[r]] /\ new(c)["esp"] = Label("esp")
  BY DEF Reg, CallerSaved, Own
<1> HIDE DEF new
<1>5. \A c \in Context : prog'[c] = [r \in Reg |-> prog'[c][r]] /\ prog'[c]["esp"] = Label("esp")
  <2>1. \A c \in Context : prog[c] = [r \in Reg |-> prog[c][r]] /\ prog[c]["esp"] = Label("esp")
    <3>1. prog = [c \in Context |-> [r \in Reg |-> prog[c][r]]] BY DEF SInv, Registers
    <3> QED BY <3>1 DEF SInv, Registers
  <2>2. \A c \in Context : c = Boot \/ c \in Thread BY DEF Context
  <2>3. prog'[Boot] = [r \in Reg |-> prog'[Boot][r]] /\ prog'[Boot]["esp"] = Label("esp")
    BY <1>3, <2>1 DEF Context
  <2> QED BY <1>3, <1>4, <2>2, <2>3
<1>6. Registers'
  <2>1. prog' = [c \in Context |-> [r \in Reg |-> prog'[c][r]]] BY <1>3, <1>5
  <2> QED BY <1>1, <1>5, <2>1 DEF SInv, Registers
<1>7. Here(prog[cur], stack[cur])' BY <1>1, <1>2, <1>3 DEF Here, Computing
<1>8. \A c \in Thread : Elsewhere(c, prog[c], stack[c])' BY <1>3 DEF Elsewhere, Fresh, new
<1>9. Ready' BY <1>1 DEF SInv, Ready, Handlers
<1> QED BY <1>1, <1>2, <1>6, <1>7, <1>8, <1>9 DEF SInv

-----------------------------------------------------------------------------
(* A program computes.                                                     *)

LEMMA Believed ==
  ASSUME SInv, NEW p, p = [r \in Reg |-> p[r]], p["esp"] = Label("esp"),
         prog' = [prog EXCEPT ![cur] = p]
  PROVE  /\ prog'[cur] = p /\ \A c \in Thread \ {cur} : prog'[c] = prog[c]
         /\ prog' = [c \in Context |-> [r \in Reg |-> prog'[c][r]]]
         /\ \A c \in Context : prog'[c]["esp"] = Label("esp")
<1>1. cur \in Context BY DEF SInv, TInv, Machine
<1>2. prog = [c \in Context |-> [r \in Reg |-> prog[c][r]]] BY DEF SInv, Registers
<1>3. \A c \in Context : prog[c] = [r \in Reg |-> prog[c][r]] BY <1>2
<1>4. \A c \in Context : prog[c]["esp"] = Label("esp") BY DEF SInv, Registers
<1>5. prog' = [c \in Context |-> IF c = cur THEN p ELSE prog[c]] BY <1>2
<1>6. prog'[cur] = p /\ \A c \in Context : c # cur => prog'[c] = prog[c] BY <1>1, <1>5
<1>7. \A c \in Context : prog'[c] = [r \in Reg |-> prog'[c][r]] BY <1>3, <1>6
<1>8. prog' = [c \in Context |-> prog'[c]] BY <1>5
<1>9. \A c \in Context : prog'[c]["esp"] = Label("esp") BY <1>4, <1>6
<1> QED BY <1>6, <1>7, <1>8, <1>9 DEF Context

LEMMA ProgramStep ==
  ASSUME SInv, TInv', InProgram, UNCHANGED <<tables, stack, cur, pc, spilled, halted>>,
         NEW p, p = [r \in Reg |-> p[r]], p["esp"] = Label("esp"),
         prog' = [prog EXCEPT ![cur] = p],
         regs' = [r \in Reg |-> regs'[r]], regs'["esp"] = Label("esp"),
         Loaded(p, Reg, regs')
  PROVE  SInv'
<1>1. cur' = cur /\ stack' = stack /\ pc' = "program" /\ spilled' = spilled BY DEF InProgram
<1>2. stage = "run" /\ stack[cur] = << >> BY InPlace DEF InProgram
<1>3. /\ prog'[cur] = p /\ \A c \in Thread \ {cur} : prog'[c] = prog[c]
      /\ prog' = [c \in Context |-> [r \in Reg |-> prog'[c][r]]]
      /\ \A c \in Context : prog'[c]["esp"] = Label("esp")
  BY Believed
<1>4. Registers' BY <1>1, <1>3 DEF SInv, Registers
<1>5. Here(prog[cur], stack[cur])' BY <1>1, <1>2, <1>3 DEF Here, Computing
<1> QED BY <1>1, <1>2, <1>3, <1>4, <1>5, CurrentStep

LEMMA StiSInv == SInv /\ TInv' /\ Sti => SInv'
<1> SUFFICES ASSUME SInv, TInv', Sti PROVE SInv' OBVIOUS
<1> DEFINE p == [prog[cur] EXCEPT !["if"] = Flag(TRUE)]
<1>1. cur \in Context BY DEF SInv, TInv, Machine
<1>2. prog[cur] = [r \in Reg |-> prog[cur][r]] /\ prog[cur]["esp"] = Label("esp")
  <2>1. prog = [c \in Context |-> [r \in Reg |-> prog[c][r]]] BY DEF SInv, Registers
  <2> QED BY <1>1, <2>1 DEF SInv, Registers
<1>3. regs = [r \in Reg |-> regs[r]] /\ regs["esp"] = Label("esp") BY DEF SInv, Registers
<1>4. regs' = [regs EXCEPT !["if"] = Flag(TRUE)] /\ prog' = [prog EXCEPT ![cur] = p]
  BY DEF Sti
<1>5. /\ p = [r \in Reg |-> IF r = "if" THEN Flag(TRUE) ELSE prog[cur][r]]
      /\ regs' = [r \in Reg |-> IF r = "if" THEN Flag(TRUE) ELSE regs[r]]
  BY <1>2, <1>3, <1>4
<1> HIDE DEF p
<1>10. "if" \in Reg /\ "esp" \in Reg BY DEF Reg
<1>6. p = [r \in Reg |-> p[r]] /\ p["esp"] = Label("esp") /\ p["if"] = Flag(TRUE)
      /\ \A r \in Reg : r # "if" => p[r] = prog[cur][r]
  <2>1. p["if"] = Flag(TRUE) /\ \A r \in Reg : r # "if" => p[r] = prog[cur][r] BY <1>5, <1>10
  <2> QED BY <1>2, <1>5, <1>10, <2>1
<1>7. regs' = [r \in Reg |-> regs'[r]] /\ regs'["esp"] = Label("esp") /\ regs'["if"] = Flag(TRUE)
      /\ \A r \in Reg : r # "if" => regs'[r] = regs[r]
  <2>1. regs'["if"] = Flag(TRUE) /\ \A r \in Reg : r # "if" => regs'[r] = regs[r] BY <1>5, <1>10
  <2> QED BY <1>3, <1>5, <1>10, <2>1
<1>8. Loaded(prog[cur], Reg, regs) BY InPlace DEF Sti, InProgram
<1>9. Loaded(p, Reg, regs') BY <1>6, <1>7, <1>8 DEF Loaded, Kept
<1> QED BY <1>4, <1>6, <1>7, <1>9, ProgramStep DEF Sti

LEMMA ComputeSInv ==
  ASSUME NEW phase, SInv, TInv', Compute(phase)
  PROVE  SInv'
<1> DEFINE p == Own(cur, phase)
<1>1. regs' = p /\ prog' = [prog EXCEPT ![cur] = p] BY DEF Compute
<1>2. p = [r \in Reg |-> p[r]] /\ p["esp"] = Label("esp") BY DEF Own, Reg
<1> HIDE DEF p
<1>3. Loaded(p, Reg, regs') BY <1>1 DEF Loaded, Kept
<1> QED BY <1>1, <1>2, <1>3, ProgramStep DEF Compute

-----------------------------------------------------------------------------
(* The way in, from a program.                                             *)

(* Two words above the frame of the interrupt or exception.                *)
LEMMA EnterSInv ==
  ASSUME SInv, TInv', NEW vector \in Vector, NEW code, InProgram, Enter(vector, code),
         UNCHANGED <<tables, spilled, halted, prog>>,
         handler_table[vector] \in {"clock_handler", "rtc_handler", "exception_handler"}
  PROVE  SInv'
<1> DEFINE s == Frame(<< >>, regs, code, vector)
           eax == Word(s, VectorOffset)
           above == <<eax, Label("interrupt_exit")>>
           w == s \o above
<1>1. stage = "run" /\ stack[cur] = << >> /\ Loaded(prog[cur], Reg, regs) /\ cur \in Context
      /\ Stacks(stack)
  BY InPlace DEF InProgram
<1>2. regs = [r \in Reg |-> regs[r]] /\ regs["esp"] = Label("esp") BY DEF SInv, Registers
<1>3. IsStack(s) /\ eax = Number(vector) BY Tuples, VectorFound
<1>4. /\ OnStack(w) /\ cur' = cur /\ pc' = handler_table[vector]
      /\ regs' = [regs EXCEPT !["eax"] = eax, !["if"] = Flag(FALSE)]
      /\ raised' = [vector |-> vector, code |-> code]
  BY <1>1, Entered DEF Enter, SInv
<1>5. Len(s) = 17 /\ s[4] = code /\ \A i \in 1 .. 8 : s[9 + i] = regs[Pusha[i]] BY FrameWords
<1>6. Framed(prog[cur], s)
  <2>1. Loaded(prog[cur], Reg \ {"eax"}, regs) BY <1>1 DEF Loaded
  <2> QED BY <1>2, <2>1, FrameHolds
<1>7. Kept(prog[cur], "eax", s[10])
  <2>1. Pusha[1] = "eax" /\ "eax" \in Reg BY DEF Pusha, Reg
  <2>2. s[9 + 1] = regs["eax"] BY <1>5, <2>1
  <2> QED BY <1>1, <2>1, <2>2 DEF Loaded
<1>8. IsStack(above) /\ Len(above) = 2 /\ above[1] = eax /\ above[2] = Label("interrupt_exit")
  BY Tuples
<1> HIDE DEF s, eax, above
<1>9. /\ Len(w) = 19 /\ w[18] = eax /\ w[19] = Label("interrupt_exit")
      /\ \A i \in 1 .. 17 : w[i] = s[i]
  <2>0. IsStack(s) /\ IsStack(above) BY <1>3, <1>8
  <2>1. /\ Len(w) = Len(s) + Len(above)
        /\ \A i \in 1 .. Len(s) : w[i] = s[i]
        /\ \A j \in 1 .. Len(above) : w[Len(s) + j] = above[j]
    BY <2>0, Above
  <2> HIDE DEF w
  <2>2. \A i \in 1 .. 17 : w[i] = s[i] BY <1>5, <2>1
  <2>3. w[17 + 1] = above[1] /\ w[17 + 2] = above[2] BY <1>5, <1>8, <2>1
  <2> QED BY <1>5, <1>8, <2>1, <2>2, <2>3
<1>10. stack'[cur] = w /\ \A c \in Thread \ {cur} : stack'[c] = stack[c]
  BY <1>1, <1>4, Others
<1> HIDE DEF w
<1>11. prog' = prog /\ halted' = halted /\ handler_table' = handler_table /\ spilled' = spilled
  BY DEF tables
<1>12. Trapped(prog[cur], w, AtInterrupt)
  <2>1. Framed(prog[cur], w) BY <1>6, <1>9, FramedStays
  <2> QED BY <1>7, <1>9, <2>1 DEF Trapped, AtInterrupt
<1>13. regs' = [r \in Reg |-> regs'[r]] /\ regs'["esp"] = Label("esp")
       /\ \A r \in Preserved : regs'[r] = regs[r]
  BY <1>2, <1>4 DEF Reg, Preserved
<1>14. Loaded(prog[cur], Preserved, regs')
  <2>1. Preserved \subseteq Reg BY DEF Preserved, Reg
  <2> QED BY <1>1, <1>13, <2>1 DEF Loaded
<1>15. Handling(prog[cur], stack[cur])'
  <2>1. w[4] = code BY <1>5, <1>9
  <2>2. raised'.vector = vector /\ raised'.code = code BY <1>4
  <2>3. Vector' = Vector OBVIOUS
  <2> QED BY <1>3, <1>4, <1>9, <1>10, <1>11, <1>12, <1>14, <2>1, <2>2 DEF Handling, AtInterrupt
<1>16. Registers' BY <1>11, <1>13 DEF SInv, Registers
<1> QED BY <1>1, <1>4, <1>10, <1>11, <1>15, <1>16, CurrentStep DEF Here

LEMMA InterruptSInv ==
  ASSUME NEW i \in Irq, SInv, TInv', Interrupt(i)
  PROVE  SInv'
<1>1. isr = {} /\ stage = "run" BY DEF Interrupt, InProgram, Running, SInv, TInv, Serving
<1>2. i = Clock \/ i = Rtc
  BY <1>1 DEF Interrupt, Deliverable, SInv, TInv, Installed, Machine
<1>3. ExceptionSize + i \in Vector BY DEF Vector
<1>4. handler_table[ExceptionSize + i] \in {"clock_handler", "rtc_handler"}
  BY <1>1, <1>2 DEF SInv, TInv, Installed
<1> QED BY <1>3, <1>4, EnterSInv DEF Interrupt

LEMMA ExceptionSInv ==
  ASSUME NEW v \in Exceptions, SInv, TInv', Exception(v)
  PROVE  SInv'
<1>1. stage = "run" BY DEF Exception, InProgram, Running
<1>2. v \in Vector /\ v \in 0 .. 21 BY TrapsAssumption DEF Vector
<1>3. handler_table[v] = "exception_handler"
  <2>1. handler_table = Handlers BY <1>1 DEF SInv, Ready
  <2>2. v # ExceptionSize + Clock /\ v # ExceptionSize + Rtc /\ v < ExceptionSize
    BY <1>2 DEF ExceptionSize, Clock, Rtc
  <2> QED BY <1>2, <2>1, <2>2 DEF Handlers, DefaultHandler
<1> QED BY <1>2, <1>3, EnterSInv DEF Exception


(* The gate's frame and the call through syscall_table, five words above.  *)
CallWords(r) ==
  Frame(<< >>, r, Label("dummy"), 128) \o <<Number(128)>> \o Values(r, Arguments)
    \o <<Label("syscall_return")>>

LEMMA SyscallWords ==
  ASSUME NEW r, NEW w, w = CallWords(r)
  PROVE  /\ IsStack(w) /\ Len(w) = 22 /\ w[22] = Label("syscall_return")
         /\ w[19] = r["edx"] /\ w[20] = r["ecx"] /\ w[21] = r["ebx"]
         /\ \A i \in 1 .. 17 : w[i] = Frame(<< >>, r, Label("dummy"), 128)[i]
<1> DEFINE s == Frame(<< >>, r, Label("dummy"), 128)
           v == Values(r, Arguments)
           number == <<Number(128)>>
           back == <<Label("syscall_return")>>
           a == s \o number
           b == a \o v
           all == b \o back
<1>1. IsStack(s) /\ Len(s) = 17 BY FrameWords
<1>2. IsStack(v) /\ Len(v) = 3 /\ v[1] = r["edx"] /\ v[2] = r["ecx"] /\ v[3] = r["ebx"]
  <2>1. Len(Arguments) = 3 BY DEF Arguments
  <2>2. IsStack(v) /\ Len(v) = 3 BY <2>1, Pushed
  <2>3. v = [i \in 1 .. 3 |-> r[Arguments[i]]] BY <2>1 DEF Values
  <2>4. Arguments[1] = "edx" /\ Arguments[2] = "ecx" /\ Arguments[3] = "ebx" BY DEF Arguments
  <2> HIDE DEF v
  <2>5. v[1] = r[Arguments[1]] /\ v[2] = r[Arguments[2]] /\ v[3] = r[Arguments[3]] BY <2>3
  <2> QED BY <2>2, <2>4, <2>5
<1>3. /\ IsStack(number) /\ Len(number) = 1 /\ IsStack(back) /\ Len(back) = 1
      /\ back[1] = Label("syscall_return")
  BY Tuples, Zenon
<1>4. w = all BY DEF CallWords
<1> HIDE DEF s, v, number, back
<1>5. /\ IsStack(a) /\ Len(a) = 18 /\ \A i \in 1 .. 17 : a[i] = s[i]
  <2>0. IsStack(s) /\ IsStack(number) BY <1>1, <1>3
  <2>1. IsStack(a) /\ Len(a) = Len(s) + Len(number) /\ \A i \in 1 .. Len(s) : a[i] = s[i]
    BY <2>0, Above
  <2> HIDE DEF a
  <2> QED BY <1>1, <1>3, <2>1
<1> HIDE DEF a
<1>6. /\ IsStack(b) /\ Len(b) = 21 /\ \A i \in 1 .. 18 : b[i] = a[i]
      /\ b[19] = v[1] /\ b[20] = v[2] /\ b[21] = v[3]
  <2>0. IsStack(a) /\ IsStack(v) BY <1>2, <1>5
  <2>1. /\ IsStack(b) /\ Len(b) = Len(a) + Len(v) /\ \A i \in 1 .. Len(a) : b[i] = a[i]
        /\ \A j \in 1 .. Len(v) : b[Len(a) + j] = v[j]
    BY <2>0, Above
  <2> HIDE DEF b
  <2>2. b[18 + 1] = v[1] /\ b[18 + 2] = v[2] /\ b[18 + 3] = v[3] BY <1>2, <1>5, <2>1
  <2> QED BY <1>2, <1>5, <2>1, <2>2
<1> HIDE DEF b
<1>7. /\ IsStack(all) /\ Len(all) = 22 /\ \A i \in 1 .. 21 : all[i] = b[i]
      /\ all[22] = back[1]
  <2>0. IsStack(b) /\ IsStack(back) BY <1>3, <1>6
  <2>1. /\ IsStack(all) /\ Len(all) = Len(b) + Len(back) /\ \A i \in 1 .. Len(b) : all[i] = b[i]
        /\ \A j \in 1 .. Len(back) : all[Len(b) + j] = back[j]
    BY <2>0, Above
  <2> HIDE DEF all
  <2>2. all[21 + 1] = back[1] BY <1>3, <1>6, <2>1
  <2> QED BY <1>3, <1>6, <2>1, <2>2
<1> HIDE DEF all
<1>8. \A i \in 1 .. 17 : all[i] = s[i] BY <1>5, <1>6, <1>7
<1>9. /\ IsStack(all) /\ Len(all) = 22 /\ all[22] = Label("syscall_return")
      /\ all[19] = r["edx"] /\ all[20] = r["ecx"] /\ all[21] = r["ebx"]
  BY <1>2, <1>3, <1>6, <1>7
<1> QED BY <1>4, <1>8, <1>9 DEF s

(* What syscall_check may change is exempt; the rest is what the program   *)
(* has, and eax is the answer's.                                           *)
LEMMA SyscallSInv ==
  ASSUME NEW n \in Calls, SInv, TInv', Syscall(n)
  PROVE  SInv'
<1> DEFINE checked == [r \in Reg |-> CASE r \in CheckClobbers -> Junk [] r = "eax" -> Number(n)
                                       [] OTHER -> regs[r]]
           answer == IF n = 0 THEN Number(10) ELSE Any
           p == [prog[cur] EXCEPT !["eax"] = answer]
<1>1. stage = "run" /\ stack[cur] = << >> /\ Loaded(prog[cur], Reg, regs) /\ cur \in Context
      /\ Stacks(stack) /\ syscall_table = CallHandlers /\ pc = "program"
  BY InPlace DEF Syscall, InProgram
<1>2. prog[cur] = [r \in Reg |-> prog[cur][r]] /\ prog[cur]["esp"] = Label("esp")
  <2>1. prog = [c \in Context |-> [r \in Reg |-> prog[c][r]]] BY DEF SInv, Registers
  <2> QED BY <1>1, <2>1 DEF SInv, Registers
<1>3. p["eax"] = answer /\ p = [r \in Reg |-> p[r]] /\ p["esp"] = Label("esp")
      /\ \A r \in Reg \ {"eax"} : p[r] = prog[cur][r]
  <2>1. p = [r \in Reg |-> IF r = "eax" THEN answer ELSE prog[cur][r]] BY <1>2
  <2>2. "eax" \in Reg /\ "esp" \in Reg BY DEF Reg
  <2> HIDE DEF p
  <2>3. p["eax"] = answer /\ \A r \in Reg \ {"eax"} : p[r] = prog[cur][r] BY <2>1, <2>2
  <2> QED BY <1>2, <2>1, <2>2, <2>3
<1>4. /\ prog' = [prog EXCEPT ![cur] = p] /\ UNCHANGED <<tables, spilled>>
      /\ raised' = [vector |-> 128, code |-> Number(n)]
  BY DEF Syscall
<1>5. prog'[cur] = p /\ \A c \in Thread \ {cur} : prog'[c] = prog[c]
  BY <1>3, <1>4, Believed
<1>6. /\ prog' = [c \in Context |-> [r \in Reg |-> prog'[c][r]]]
      /\ \A c \in Context : prog'[c]["esp"] = Label("esp")
  BY <1>3, <1>4, Believed
<1>7. CASE n \notin Known
  <2>1. halted' /\ cur' = cur /\ stack' = stack /\ pc' = pc /\ regs' = regs /\ spilled' = spilled
    BY <1>7 DEF Syscall, machine
  <2>2. Registers' BY <1>6, <2>1 DEF SInv, Registers
  <2>3. Here(prog[cur], stack[cur])' BY <1>1, <2>1 DEF Here, Computing
  <2> QED BY <1>1, <1>4, <1>5, <2>1, <2>2, <2>3, CurrentStep
<1>8. CASE n \in Known
  <2> DEFINE s == Frame(<< >>, checked, Label("dummy"), 128)
             w == s \o <<Number(128)>> \o Values(checked, Arguments) \o <<Label("syscall_return")>>
  <2>1. /\ OnStack(w) /\ cur' = cur /\ halted' = halted /\ pc' = syscall_table[n]
        /\ regs' = [checked EXCEPT !["if"] = Flag(FALSE)]
    BY <1>1, <1>8 DEF Syscall
  <2>2. \A r \in Reg \ {"eax"} : r \in CheckClobbers \/ checked[r] = regs[r] OBVIOUS
  <2>3. checked["esp"] = Label("esp") /\ checked = [r \in Reg |-> checked[r]]
    <3>1. regs["esp"] = Label("esp") /\ "esp" \in Reg \ {"eax"} BY DEF SInv, Registers, Reg
    <3> QED BY <2>2, <3>1, BuildAssumption
  <2> HIDE DEF checked, p
  <2>4. /\ IsStack(w) /\ Len(w) = 22 /\ w[22] = Label("syscall_return")
        /\ w[19] = checked["edx"] /\ w[20] = checked["ecx"] /\ w[21] = checked["ebx"]
        /\ \A i \in 1 .. 17 : w[i] = s[i]
    <3>1. w = CallWords(checked) BY DEF CallWords
    <3> HIDE DEF w, s
    <3>2. /\ IsStack(w) /\ Len(w) = 22 /\ w[22] = Label("syscall_return")
          /\ w[19] = checked["edx"] /\ w[20] = checked["ecx"] /\ w[21] = checked["ebx"]
          /\ \A i \in 1 .. 17 : w[i] = Frame(<< >>, checked, Label("dummy"), 128)[i]
      BY <3>1, SyscallWords
    <3> QED BY <3>2 DEF s
  <2>5. Loaded(p, Reg \ {"eax"}, checked) BY <1>1, <1>3, <2>2 DEF Loaded, Kept
  <2>6. Framed(p, s) BY <2>3, <2>5, FrameHolds
  <2> HIDE DEF s, w
  <2>7. Trapped(p, w, AtSyscall)
    <3>1. Framed(p, w) BY <2>4, <2>6, FramedStays
    <3> QED BY <2>4, <3>1 DEF Trapped, AtSyscall
  <2>8. \A i \in 1 .. 3 : Kept(p, Arguments[i], w[18 + i])
    <3>1. Arguments[1] = "edx" /\ Arguments[2] = "ecx" /\ Arguments[3] = "ebx" BY DEF Arguments
    <3>2. {"edx", "ecx", "ebx"} \subseteq Reg \ {"eax"} BY DEF Reg
    <3>3. /\ Kept(p, "edx", w[18 + 1]) /\ Kept(p, "ecx", w[18 + 2])
          /\ Kept(p, "ebx", w[18 + 3])
      BY <2>4, <2>5, <3>2 DEF Loaded
    <3>4. \A i \in 1 .. 3 : i = 1 \/ i = 2 \/ i = 3 OBVIOUS
    <3> QED BY <3>1, <3>3, <3>4
  <2>9. /\ regs' = [r \in Reg |-> regs'[r]] /\ regs'["esp"] = Label("esp")
        /\ \A r \in Preserved : regs'[r] = checked[r]
    BY <2>1, <2>3 DEF Reg, Preserved
  <2>10. Loaded(p, Preserved, regs')
    <3>1. Preserved \subseteq Reg \ {"eax"} BY DEF Preserved, Reg
    <3> QED BY <2>5, <2>9, <3>1 DEF Loaded
  <2>11. p["eax"] = Any \/ (pc' = "syscall_test_handler" /\ p["eax"] = Number(10))
    BY <1>1, <1>3, <1>8, <2>1 DEF CallHandlers
  <2>12. stack'[cur] = w /\ \A c \in Thread \ {cur} : stack'[c] = stack[c]
    BY <1>1, <2>1, Others
  <2>13. Calling(prog[cur], stack[cur])'
    <3>1. syscall_table' = syscall_table /\ Known' = Known BY <1>4 DEF tables
    <3> QED BY <1>5, <1>8, <2>1, <2>4, <2>7, <2>8, <2>10, <2>11, <2>12, <3>1
            DEF Calling, AtSyscall
  <2>14. Registers' BY <1>4, <1>6, <2>9 DEF SInv, Registers
  <2> QED BY <1>1, <1>4, <1>5, <2>1, <2>12, <2>13, <2>14, CurrentStep DEF Here
<1> QED BY <1>7, <1>8


-----------------------------------------------------------------------------
(* From one stack to another.                                              *)

(* The words that schedule and task_switch leave on a stack s, r being the *)
(* registers of the handler and c those at the call of task_switch.        *)
Left(s, r, c) ==
  s \o <<r["ebp"]>> \o Values(r, spilled) \o <<Label("next"), Label("schedule")>>
    \o SwitchSaved(c)

Piled(w, s, r, c, b, n) ==
  /\ Len(w) = b + n + 7
  /\ \A i \in 1 .. b : w[i] = s[i]
  /\ w[b + 1] = r["ebp"]
  /\ \A i \in 1 .. n : w[b + 1 + i] = r[spilled[i]]
  /\ w[b + n + 2] = Label("next") /\ w[b + n + 3] = Label("schedule")
  /\ \A i \in 1 .. 4 : w[b + n + 3 + i] = c[SwitchOrder[i]]

LEMMA LeftWords ==
  ASSUME Registers, NEW s, IsStack(s), NEW r, NEW c,
         NEW b \in Nat, b = Len(s), NEW n \in Nat, n = Len(spilled)
  PROVE  Piled(Left(s, r, c), s, r, c, b, n)
<1> DEFINE ebp == <<r["ebp"]>>
           v == Values(r, spilled)
           calls == <<Label("next"), Label("schedule")>>
           q == SwitchSaved(c)
           one == s \o ebp
           two == one \o v
           three == two \o calls
           all == three \o q
<1>1. Left(s, r, c) = all BY DEF Left
<1>2. /\ IsStack(ebp) /\ Len(ebp) = 1 /\ ebp[1] = r["ebp"]
      /\ IsStack(calls) /\ Len(calls) = 2
      /\ calls[1] = Label("next") /\ calls[2] = Label("schedule")
  BY Tuples
<1>3. IsStack(v) /\ Len(v) = n /\ \A i \in 1 .. n : v[i] = r[spilled[i]]
  <2>1. IsStack(v) /\ Len(v) = n BY Pushed
  <2>2. v = [i \in 1 .. n |-> r[spilled[i]]] BY DEF Values
  <2> QED BY <2>1, <2>2
<1>4. IsStack(q) /\ Len(q) = 4 /\ \A i \in 1 .. 4 : q[i] = c[SwitchOrder[i]]
  <2>1. Len(SwitchOrder) = 4 BY DEF SwitchOrder
  <2>2. IsStack(q) /\ Len(q) = 4 BY <2>1, Pushed DEF SwitchSaved
  <2>3. q = [i \in 1 .. 4 |-> c[SwitchOrder[i]]] BY <2>1 DEF SwitchSaved, Values
  <2> QED BY <2>2, <2>3
<1> HIDE DEF ebp, v, calls, q
<1>5. IsStack(one) /\ Len(one) = b + 1 /\ one[b + 1] = r["ebp"] /\ \A i \in 1 .. b : one[i] = s[i]
  <2>0. IsStack(s) /\ IsStack(ebp) BY <1>2
  <2>1. /\ IsStack(one) /\ Len(one) = Len(s) + Len(ebp)
        /\ \A i \in 1 .. Len(s) : one[i] = s[i]
        /\ \A j \in 1 .. Len(ebp) : one[Len(s) + j] = ebp[j]
    BY <2>0, Above
  <2> HIDE DEF one
  <2> QED BY <1>2, <2>1
<1> HIDE DEF one
<1>6. /\ IsStack(two) /\ Len(two) = b + 1 + n /\ \A i \in 1 .. (b + 1) : two[i] = one[i]
      /\ \A i \in 1 .. n : two[b + 1 + i] = v[i]
  <2>0. IsStack(one) /\ IsStack(v) BY <1>3, <1>5
  <2>1. /\ IsStack(two) /\ Len(two) = Len(one) + Len(v)
        /\ \A i \in 1 .. Len(one) : two[i] = one[i]
        /\ \A j \in 1 .. Len(v) : two[Len(one) + j] = v[j]
    BY <2>0, Above
  <2> HIDE DEF two
  <2> QED BY <1>3, <1>5, <2>1
<1> HIDE DEF two
<1>7. /\ IsStack(three) /\ Len(three) = b + 1 + n + 2
      /\ \A i \in 1 .. (b + 1 + n) : three[i] = two[i]
      /\ three[b + n + 2] = calls[1] /\ three[b + n + 3] = calls[2]
  <2>0. IsStack(two) /\ IsStack(calls) BY <1>2, <1>6
  <2>1. /\ IsStack(three) /\ Len(three) = Len(two) + Len(calls)
        /\ \A i \in 1 .. Len(two) : three[i] = two[i]
        /\ \A j \in 1 .. Len(calls) : three[Len(two) + j] = calls[j]
    BY <2>0, Above
  <2> HIDE DEF three
  <2>2. three[b + 1 + n + 1] = calls[1] /\ three[b + 1 + n + 2] = calls[2] BY <1>2, <1>6, <2>1
  <2>3. b + 1 + n + 1 = b + n + 2 /\ b + 1 + n + 2 = b + n + 3 OBVIOUS
  <2> QED BY <1>2, <1>6, <2>1, <2>2, <2>3
<1> HIDE DEF three
<1>8. /\ Len(all) = b + n + 7 /\ \A i \in 1 .. (b + n + 3) : all[i] = three[i]
      /\ \A i \in 1 .. 4 : all[b + n + 3 + i] = q[i]
  <2>0. IsStack(three) /\ IsStack(q) BY <1>4, <1>7
  <2>1. /\ IsStack(all) /\ Len(all) = Len(three) + Len(q)
        /\ \A i \in 1 .. Len(three) : all[i] = three[i]
        /\ \A j \in 1 .. Len(q) : all[Len(three) + j] = q[j]
    BY <2>0, Above
  <2> HIDE DEF all
  <2>2. Len(three) = b + n + 3 /\ Len(q) = 4 BY <1>4, <1>7
  <2> QED BY <2>1, <2>2
<1> HIDE DEF all
<1>9. /\ \A i \in 1 .. b : all[i] = s[i]
      /\ all[b + 1] = r["ebp"]
  BY <1>5, <1>6, <1>7, <1>8, SMTT(30)
<1>10. \A i \in 1 .. n : all[b + 1 + i] = v[i]
  <2>1. \A i \in 1 .. n : b + 1 + i \in 1 .. (b + 1 + n) /\ b + 1 + i \in 1 .. (b + n + 3) OBVIOUS
  <2> QED BY <1>6, <1>7, <1>8, <2>1
<1>11. all[b + n + 2] = calls[1] /\ all[b + n + 3] = calls[2]
  <2>1. b + n + 2 \in 1 .. (b + n + 3) /\ b + n + 3 \in 1 .. (b + n + 3) OBVIOUS
  <2> QED BY <1>7, <1>8, <2>1
<1>12. Piled(all, s, r, c, b, n)
  BY <1>2, <1>3, <1>4, <1>8, <1>9, <1>10, <1>11 DEF Piled
<1> QED BY <1>1, <1>12

(* The context that is left finds its way back.                            *)
LEMMA LeftAway ==
  ASSUME Registers, NEW p, NEW s, IsStack(s), NEW b \in {AtInterrupt, AtSyscall},
         Trapped(p, s, b), Len(s) = b, (b = AtSyscall => p["eax"] = Any),
         Loaded(p, Preserved, regs), NEW c,
         \A r \in {"ebx", "esi", "edi"} \ Spilled : c[r] = regs[r]
  PROVE  Away(p, Left(s, regs, c), spilled)
<1> DEFINE w == Left(s, regs, c)
           n == Len(spilled)
<1>1. b \in Nat BY DEF AtInterrupt, AtSyscall
<1>2. n \in Nat /\ (\A i \in 1 .. n : spilled[i] \in {"ebx", "esi", "edi"})
      /\ Spilled = {spilled[i] : i \in 1 .. n}
  BY Spills
<1>3. /\ Len(w) = b + n + 7
      /\ \A i \in 1 .. b : w[i] = s[i]
      /\ w[b + 1] = regs["ebp"]
      /\ \A i \in 1 .. n : w[b + 1 + i] = regs[spilled[i]]
      /\ w[b + n + 2] = Label("next") /\ w[b + n + 3] = Label("schedule")
      /\ \A i \in 1 .. 4 : w[b + n + 3 + i] = c[SwitchOrder[i]]
  <2>1. b = Len(s) /\ n = Len(spilled) OBVIOUS
  <2> HIDE DEF w, n
  <2>2. Piled(Left(s, regs, c), s, regs, c, b, n) BY <1>1, <1>2, <2>1, LeftWords
  <2> QED BY <2>2 DEF w, Piled
<1> HIDE DEF w
<1>4. Scheduled(p, w, b, spilled)
  <2>1. Trapped(p, w, b) BY <1>3, TrappedStays
  <2>2. Kept(p, "ebp", w[b + 1]) BY <1>3 DEF Loaded, Preserved
  <2>3. \A i \in 1 .. n : Kept(p, spilled[i], w[b + 1 + i])
    <3>1. \A r \in {"ebx", "esi", "edi"} : Kept(p, r, regs[r]) BY DEF Loaded, Preserved
    <3> QED BY <1>2, <1>3, <3>1
  <2> QED BY <1>3, <2>1, <2>2, <2>3 DEF Scheduled
<1>5. \A i \in 2 .. 4 : \/ \E j \in 1 .. n : spilled[j] = SwitchOrder[i]
                        \/ Kept(p, SwitchOrder[i], w[b + n + 3 + i])
  <2>1. \A i \in 2 .. 4 : SwitchOrder[i] \in {"ebx", "esi", "edi"} BY DEF SwitchOrder
  <2> SUFFICES ASSUME NEW i \in 2 .. 4, ~ \E j \in 1 .. n : spilled[j] = SwitchOrder[i]
               PROVE  Kept(p, SwitchOrder[i], w[b + n + 3 + i])
    OBVIOUS
  <2>2. SwitchOrder[i] \in {"ebx", "esi", "edi"} \ Spilled BY <1>2, <2>1
  <2>3. w[b + n + 3 + i] = c[SwitchOrder[i]]
    <3>1. i \in 1 .. 4 OBVIOUS
    <3> QED BY <1>3, <3>1
  <2> QED BY <2>2, <2>3 DEF Loaded, Preserved
<1> QED BY <1>3, <1>4, <1>5 DEF Away, w


(* The words that a task finds when it comes back, s being its stack.      *)
Back(s) ==
  /\ pc' = Word(s, 4)[2]
  /\ regs'["edi"] = Word(s, 0) /\ regs'["esi"] = Word(s, 1)
  /\ regs'["ebx"] = Word(s, 2) /\ regs'["ebp"] = Word(s, 3) /\ regs'["esp"] = Label("esp")

(* A new thread starts with the constants of its frame.                    *)
LEMMA BackFresh ==
  ASSUME NEW c \in Thread, NEW p, NEW s, IsStack(s), Fresh(c, p, s), Back(s)
  PROVE  pc' = "program" /\ Drop(s, 5) = << >> /\ Loaded(p, Reg, regs')
<1>1. /\ Len(s) = 5 /\ s[1] = Label("program") /\ s[2] = <<c, "ebp", 0>>
      /\ s[3] = <<c, "ebx", 0>> /\ s[4] = <<c, "esi", 0>> /\ s[5] = <<c, "edi", 0>>
  <2>1. s = TaskFrame(c) BY DEF Fresh
  <2> QED BY <2>1, Tuples DEF TaskFrame
<1>2. pc' = "program"
  <2>1. Word(s, 4) = s[1] BY <1>1 DEF Word
  <2> QED BY <1>1, <2>1 DEF Back, Label
<1>3. Drop(s, 5) = << >>
  <2>1. IsStack(Drop(s, 5)) /\ Len(Drop(s, 5)) = 0
    <3>1. 5 \in Nat /\ 5 <= Len(s) /\ Len(s) - 5 = 0 BY <1>1
    <3> QED BY <3>1, DroppedWords
  <2> HIDE DEF Drop
  <2>2. PICK S : Drop(s, 5) \in Seq(S) BY <2>1 DEF IsStack
  <2> QED BY <2>1, <2>2, EmptySeq
<1>4. Loaded(p, Reg, regs')
  <2>1. p = [r \in Reg |-> IF r \in CallerSaved \cup {"if"} THEN Any ELSE Own(c, 0)[r]]
    BY DEF Fresh
  <2>2. \A r \in Reg \ (CallerSaved \cup {"if"}) : r \in {"ebx", "esp", "ebp", "esi", "edi"}
    BY DEF Reg, CallerSaved
  <2>3. regs'["edi"] = s[5] /\ regs'["esi"] = s[4] /\ regs'["ebx"] = s[3] /\ regs'["ebp"] = s[2]
        /\ regs'["esp"] = Label("esp")
    BY <1>1 DEF Back, Word
  <2>4. \A r \in {"ebx", "esp", "ebp", "esi", "edi"} : regs'[r] = Own(c, 0)[r]
    BY <1>1, <2>3 DEF Own, Reg
  <2>5. \A r \in Reg : p[r] = Any \/ p[r] = regs'[r] BY <2>1, <2>2, <2>4
  <2> QED BY <2>5 DEF Loaded, Kept
<1> QED BY <1>2, <1>3, <1>4

(* A task that called schedule returns to it.                              *)
LEMMA BackAway ==
  ASSUME SInv, NEW p, NEW s, IsStack(s), Away(p, s, spilled), Back(s)
  PROVE  /\ pc' = "schedule"
         /\ \E b \in {AtInterrupt, AtSyscall} :
              Scheduled(p, Drop(s, 5), b, spilled) /\ Len(Drop(s, 5)) = b + Len(spilled) + 2
         /\ Loaded(p, Preserved \ (Spilled \cup {"ebp"}), regs')
<1> DEFINE n == Len(spilled)
           t == Drop(s, 5)
<1>1. PICK b \in {AtInterrupt, AtSyscall} :
        /\ Scheduled(p, s, b, spilled) /\ Len(s) = b + n + 7
        /\ s[b + n + 3] = Label("schedule")
        /\ \A i \in 2 .. 4 : \/ \E j \in 1 .. n : spilled[j] = SwitchOrder[i]
                             \/ Kept(p, SwitchOrder[i], s[b + n + 3 + i])
  BY DEF Away
<1>2. n \in Nat /\ b \in Nat /\ (Spilled = {spilled[i] : i \in 1 .. n})
  BY Spills DEF AtInterrupt, AtSyscall, SInv
<1> HIDE DEF n
<1>3. /\ Word(s, 4) = s[b + n + 3] /\ Word(s, 2) = s[b + n + 3 + 2]
      /\ Word(s, 1) = s[b + n + 3 + 3] /\ Word(s, 0) = s[b + n + 3 + 4]
  <2>1. /\ (b + n + 7) - 4 = b + n + 3 /\ (b + n + 7) - 2 = b + n + 3 + 2
        /\ (b + n + 7) - 1 = b + n + 3 + 3 /\ (b + n + 7) - 0 = b + n + 3 + 4
    BY <1>2
  <2> QED BY <1>1, <2>1 DEF Word
<1>4. pc' = "schedule" BY <1>1, <1>3 DEF Back, Label
<1>5. Len(t) = b + n + 2 /\ \A i \in 1 .. (b + n + 2) : t[i] = s[i]
  <2>1. 5 <= Len(s) /\ Len(s) - 5 = b + n + 2 BY <1>1, <1>2
  <2> QED BY <2>1, DroppedWords
<1> HIDE DEF t
<1>6. Scheduled(p, t, b, spilled) BY <1>1, <1>2, <1>5, ScheduledStays DEF n
<1>7. Loaded(p, Preserved \ (Spilled \cup {"ebp"}), regs')
  <2>1. SwitchOrder[2] = "ebx" /\ SwitchOrder[3] = "esi" /\ SwitchOrder[4] = "edi"
    BY DEF SwitchOrder
  <2>2. /\ "ebx" \in Spilled \/ Kept(p, "ebx", s[b + n + 3 + 2])
        /\ "esi" \in Spilled \/ Kept(p, "esi", s[b + n + 3 + 3])
        /\ "edi" \in Spilled \/ Kept(p, "edi", s[b + n + 3 + 4])
    BY <1>1, <1>2, <2>1
  <2>3. /\ "ebx" \in Spilled \/ Kept(p, "ebx", regs'["ebx"])
        /\ "esi" \in Spilled \/ Kept(p, "esi", regs'["esi"])
        /\ "edi" \in Spilled \/ Kept(p, "edi", regs'["edi"])
    BY <1>3, <2>2 DEF Back
  <2> QED BY <2>3 DEF Loaded, Preserved
<1> QED BY <1>1, <1>4, <1>5, <1>6, <1>7 DEF n, t

LEMMA SwitchSInv ==
  ASSUME SInv, TInv', Running, NEW next \in Thread \ {cur}, SwitchTo(next),
         NEW b \in {AtInterrupt, AtSyscall}, Trapped(prog[cur], stack[cur], b),
         Len(stack[cur]) = b, (b = AtSyscall => prog[cur]["eax"] = Any),
         Loaded(prog[cur], Preserved, regs),
         UNCHANGED <<tables, spilled, halted, prog, raised>>
  PROVE  SInv'
<1> DEFINE inC == [r \in Reg |-> IF r \in CallerSaved \cup Spilled \cup {"ebp"}
                                   THEN Junk ELSE regs[r]]
           left == Left(stack[cur], regs, inC)
           s == stack[next]
<1>1. /\ stack' = [stack EXCEPT ![cur] = left, ![next] = Drop(s, 5)]
      /\ regs' = [Clobbered(inC) EXCEPT !["edi"] = Word(s, 0), !["esi"] = Word(s, 1),
                    !["ebx"] = Word(s, 2), !["ebp"] = Word(s, 3)]
      /\ pc' = Word(s, 4)[2] /\ cur' = next
  BY DEF SwitchTo, Left
<1>2. /\ stage = "run" /\ cur \in Context /\ Stacks(stack) /\ IsStack(stack[cur]) /\ Registers
      /\ next \in Thread /\ next \in Context /\ next # cur
  BY InPlace DEF SInv, Context
<1>3. IsStack(s) BY <1>2 DEF Stacks
<1>4. \A r \in {"ebx", "esi", "edi"} \ Spilled : inC[r] = regs[r] BY DEF Reg, CallerSaved
<1>5. inC["esp"] = Label("esp")
  <2>1. Spilled \subseteq {"ebx", "esi", "edi"} BY <1>2, Spills
  <2> QED BY <1>2, <2>1 DEF Registers, Reg, CallerSaved
<1>6. Away(prog[cur], left, spilled)
  <2> HIDE DEF inC
  <2> QED BY <1>2, <1>4, LeftAway
<1>7. Back(s) /\ regs' = [r \in Reg |-> regs'[r]]
  <2> HIDE DEF inC, s
  <2>1. regs' = [r \in Reg |-> CASE r = "edi" -> Word(s, 0) [] r = "esi" -> Word(s, 1)
                                 [] r = "ebx" -> Word(s, 2) [] r = "ebp" -> Word(s, 3)
                                 [] OTHER -> Clobbered(inC)[r]]
    BY <1>1 DEF Clobbered, Reg
  <2>2. Clobbered(inC)["esp"] = Label("esp") BY <1>5 DEF Clobbered, Reg, CallerSaved
  <2>3. {"edi", "esi", "ebx", "ebp", "esp"} \subseteq Reg BY DEF Reg
  <2>4. /\ regs'["edi"] = Word(s, 0) /\ regs'["esi"] = Word(s, 1) /\ regs'["ebx"] = Word(s, 2)
        /\ regs'["ebp"] = Word(s, 3) /\ regs'["esp"] = Clobbered(inC)["esp"]
    BY <2>1, <2>3
  <2> QED BY <1>1, <2>1, <2>2, <2>4 DEF Back
<1>8. /\ stack'[next] = Drop(s, 5) /\ stack'[cur] = left
      /\ \A c \in Thread \ {cur, next} : stack'[c] = stack[c]
  <2> HIDE DEF left, s
  <2>1. stack = [c \in Context |-> stack[c]] BY <1>2 DEF Stacks
  <2> QED BY <1>1, <1>2, <2>1 DEF Context
<1> HIDE DEF left, s, inC
<1>9. Elsewhere(next, prog[next], s) BY <1>2 DEF SInv, s
<1>10. prog' = prog /\ spilled' = spilled /\ stage' = stage BY DEF tables
<1>11. Here(prog[cur], stack[cur])'
  <2>1. CASE Fresh(next, prog[next], s)
    <3>1. pc' = "program" /\ Drop(s, 5) = << >> /\ Loaded(prog[next], Reg, regs')
      BY <1>2, <1>3, <1>7, <2>1, BackFresh
    <3> QED BY <1>1, <1>8, <1>10, <3>1 DEF Here, Computing
  <2>2. CASE Away(prog[next], s, spilled)
    <3> DEFINE t == Drop(s, 5)
    <3>1. /\ pc' = "schedule"
          /\ \E a \in {AtInterrupt, AtSyscall} :
               Scheduled(prog[next], t, a, spilled) /\ Len(t) = a + Len(spilled) + 2
          /\ Loaded(prog[next], Preserved \ (Spilled \cup {"ebp"}), regs')
      BY <1>2, <1>3, <1>7, <2>2, BackAway
    <3>2. stack'[next] = t BY <1>8
    <3> HIDE DEF t
    <3>3. Spilled' = Spilled BY <1>10 DEF Spilled
    <3>4. Switching(prog[cur], stack[cur])' BY <1>1, <1>10, <3>1, <3>2, <3>3 DEF Switching
    <3> QED BY <3>4 DEF Here
  <2> QED BY <1>9, <2>1, <2>2 DEF Elsewhere
<1>12. \A c \in Thread \ {next} : Elsewhere(c, prog[c], stack[c])'
  <2>1. \A c \in Thread \ {cur, next} : Elsewhere(c, prog[c], stack[c])'
    BY <1>2, <1>8, <1>10 DEF SInv, Elsewhere
  <2>2. Elsewhere(cur, prog[cur], stack'[cur]) BY <1>6, <1>8 DEF Elsewhere
  <2>3. \A c : c = cur => Elsewhere(c, prog[c], stack[c])'
    BY <1>6, <1>8, <1>10 DEF Elsewhere
  <2> QED BY <2>1, <2>3
<1>13. Registers' BY <1>2, <1>7, <1>10 DEF Registers, Back
<1>14. Ready' BY <1>10 DEF SInv, Ready, Handlers, tables
<1> QED BY <1>1, <1>2, <1>10, <1>11, <1>12, <1>13, <1>14 DEF SInv, tables


-----------------------------------------------------------------------------
(* The C code returns.                                                     *)

LEMMA RetSInv ==
  ASSUME SInv, TInv', Running, NEW t, IsStack(t), NEW b \in {AtInterrupt, AtSyscall},
         Trapped(prog[cur], t, b), Len(t) = b, NEW r, Ret(t, r),
         r = [m \in Reg |-> r[m]], r["esp"] = Label("esp"),
         (b = AtSyscall => prog[cur]["eax"] \in {Any, r["eax"]}),
         UNCHANGED <<tables, spilled, halted, prog>>
  PROVE  SInv'
<1> DEFINE s == Drop(t, 1)
<1>1. /\ stage = "run" /\ cur \in Context /\ Stacks(stack) BY InPlace
<1>2. pc' = Word(t, 0)[2] /\ OnStack(s) /\ regs' = r /\ cur' = cur /\ prog' = prog /\ spilled' = spilled
  BY DEF Ret
<1>3. Len(s) = b - 1 /\ \A i \in 1 .. (b - 1) : s[i] = t[i]
  <2>1. 1 \in Nat /\ 1 <= Len(t) BY DEF AtInterrupt, AtSyscall
  <2> QED BY <2>1, DroppedWords
<1> HIDE DEF s
<1>4. Word(t, 0) = t[b] BY DEF Word, AtInterrupt, AtSyscall
<1>5. Framed(prog[cur], s)
  <2>1. b = 19 \/ b = 22 BY DEF AtInterrupt, AtSyscall
  <2>2. \A i \in 1 .. 17 : i \in 1 .. (b - 1) BY <2>1
  <2>3. \A i \in 1 .. 17 : s[i] = t[i] BY <1>3, <2>2
  <2>4. Framed(prog[cur], t) BY DEF Trapped
  <2> DEFINE p == prog[cur]
  <2>5. Framed(p, t) BY <2>4
  <2> HIDE DEF p
  <2>6. Framed(p, s) BY <2>3, <2>5, FramedStays
  <2> QED BY <2>6 DEF p
<1>6. stack'[cur] = s /\ \A c \in Thread \ {cur} : stack'[c] = stack[c] BY <1>1, <1>2, Others
<1>7. Registers' BY <1>2 DEF SInv, Registers
<1>8. Here(prog[cur], stack[cur])'
  <2>1. CASE b = AtInterrupt
    <3>1. t[b] = Label("interrupt_exit") /\ Kept(prog[cur], "eax", t[10])
      BY <2>1 DEF Trapped, AtInterrupt, AtSyscall
    <3>2. pc' = "interrupt_exit" BY <1>2, <1>4, <3>1 DEF Label
    <3>3. s[10] = t[10] /\ Len(s) = 18 BY <1>3, <2>1 DEF AtInterrupt
    <3>4. Exiting(prog[cur], stack[cur])' BY <1>2, <1>5, <1>6, <3>1, <3>2, <3>3 DEF Exiting
    <3> QED BY <3>4 DEF Here
  <2>2. CASE b = AtSyscall
    <3>1. t[b] = Label("syscall_return") BY <2>2 DEF Trapped, AtInterrupt, AtSyscall
    <3>2. pc' = "syscall_return" BY <1>2, <1>4, <3>1 DEF Label
    <3>3. Len(s) = 21 BY <1>3, <2>2 DEF AtSyscall
    <3>4. Answering(prog[cur], stack[cur])' BY <1>2, <1>5, <1>6, <2>2, <3>2, <3>3 DEF Answering
    <3> QED BY <3>4 DEF Here
  <2> QED BY <2>1, <2>2
<1> QED BY <1>1, <1>2, <1>6, <1>7, <1>8, CurrentStep

LEMMA ClobberedRegs ==
  ASSUME Registers, NEW e
  PROVE  /\ Clobbered(regs) = [m \in Reg |-> Clobbered(regs)[m]]
         /\ Clobbered(regs)["esp"] = Label("esp")
         /\ \A r : r = [Clobbered(regs) EXCEPT !["eax"] = e] =>
              r = [m \in Reg |-> r[m]] /\ r["esp"] = Label("esp") /\ r["eax"] = e
<1>1. "esp" \in Reg /\ "eax" \in Reg /\ "esp" \notin CallerSaved BY DEF Reg, CallerSaved
<1>2. regs["esp"] = Label("esp") BY DEF Registers
<1> QED BY <1>1, <1>2 DEF Clobbered

LEMMA ScheduleReturnsSInv == SInv /\ TInv' /\ ScheduleReturns => SInv'
<1> SUFFICES ASSUME SInv, TInv', ScheduleReturns PROVE SInv' OBVIOUS
<1> DEFINE n == Len(spilled)
           p == prog[cur]
           s == stack[cur]
           below == Drop(s, 1)
           t == Drop(below, n + 1)
           r == [m \in Reg |->
                   IF m = "ebp" THEN Word(below, n)
                   ELSE IF m \in Spilled
                        THEN Word(below, n - (CHOOSE i \in 1 .. n : spilled[i] = m))
                        ELSE Clobbered(regs)[m]]
<1>1. Running /\ pc = "schedule" /\ Ret(t, r) /\ UNCHANGED <<tables, spilled, halted, prog>>
  BY DEF ScheduleReturns
<1>2. IsStack(s) /\ Registers /\ Switching(p, s) BY <1>1, InPlace DEF SInv
<1>3. PICK b \in {AtInterrupt, AtSyscall} : Scheduled(p, s, b, spilled) /\ Len(s) = b + n + 2
  BY <1>2 DEF Switching
<1>4. n \in Nat /\ b \in Nat /\ Spilled \subseteq {"ebx", "esi", "edi"}
  BY <1>2, Spills DEF AtInterrupt, AtSyscall
<1>5. r = [m \in Reg |-> r[m]] /\ r["esp"] = Label("esp")
  <2>1. "esp" \notin Spilled /\ "esp" \in Reg BY <1>4 DEF Reg
  <2>2. Clobbered(regs)["esp"] = Label("esp") BY <1>2, ClobberedRegs
  <2> QED BY <2>1, <2>2
<1> HIDE DEF r, n
<1>6. IsStack(below) /\ Len(below) = b + n + 1 /\ \A i \in 1 .. (b + n + 1) : below[i] = s[i]
  <2>1. 1 \in Nat /\ 1 <= Len(s) /\ Len(s) - 1 = b + n + 1 BY <1>3, <1>4
  <2> QED BY <1>2, <2>1, DroppedWords
<1> HIDE DEF below
<1>7. IsStack(t) /\ Len(t) = b /\ \A i \in 1 .. b : t[i] = below[i]
  <2>1. n + 1 \in Nat /\ n + 1 <= Len(below) /\ Len(below) - (n + 1) = b BY <1>4, <1>6
  <2> QED BY <1>6, <2>1, DroppedWords
<1> HIDE DEF t
<1>8. Trapped(p, t, b)
  <2>1. \A i \in 1 .. b : t[i] = s[i] BY <1>4, <1>6, <1>7
  <2> QED BY <1>3, <2>1, TrappedStays DEF Scheduled
<1> QED BY <1>1, <1>3, <1>5, <1>7, <1>8, RetSInv DEF Scheduled

(* schedule is called by the clock handler and by the yield call.          *)
LEMMA ClockHandlerSInv == SInv /\ TInv' /\ ClockHandler => SInv'
<1> SUFFICES ASSUME SInv, TInv', ClockHandler PROVE SInv' OBVIOUS
<1>1. Running /\ pc = "clock_handler" /\ UNCHANGED <<tables, spilled, halted, prog, raised>>
  BY DEF ClockHandler
<1>2. Handling(prog[cur], stack[cur]) /\ IsStack(stack[cur]) /\ Registers
  BY <1>1, InPlace DEF SInv
<1>3. /\ AtInterrupt \in {AtInterrupt, AtSyscall} /\ AtInterrupt # AtSyscall
      /\ Trapped(prog[cur], stack[cur], AtInterrupt) /\ Len(stack[cur]) = AtInterrupt
      /\ Loaded(prog[cur], Preserved, regs)
  BY <1>2 DEF Handling, AtInterrupt, AtSyscall
<1>4. CASE Ret(stack[cur], Clobbered(regs))
  BY <1>1, <1>2, <1>3, <1>4, ClobberedRegs, RetSInv
<1>5. ASSUME NEW next \in Thread \ {cur}, SwitchTo(next) PROVE SInv'
  BY <1>1, <1>3, <1>5, SwitchSInv
<1> QED BY <1>4, <1>5 DEF ClockHandler

LEMMA HaltSInv ==
  ASSUME SInv, TInv', halted', UNCHANGED <<tables, machine, spilled, prog, raised>>
  PROVE  SInv'
BY QuietStep

LEMMA RtcHandlerSInv == SInv /\ TInv' /\ RtcHandler => SInv'
<1> SUFFICES ASSUME SInv, TInv', RtcHandler PROVE SInv' OBVIOUS
<1>1. Running /\ pc = "rtc_handler" /\ UNCHANGED <<tables, spilled, prog, raised>>
  BY DEF RtcHandler
<1>2. Handling(prog[cur], stack[cur]) /\ IsStack(stack[cur]) /\ Registers
  BY <1>1, InPlace DEF SInv
<1>3. /\ AtInterrupt \in {AtInterrupt, AtSyscall} /\ AtInterrupt # AtSyscall
      /\ Trapped(prog[cur], stack[cur], AtInterrupt) /\ Len(stack[cur]) = AtInterrupt
  BY <1>2 DEF Handling, AtInterrupt, AtSyscall
<1>4. CASE Argument(1) = Number(40)
  <2>1. Ret(stack[cur], Clobbered(regs)) /\ halted' = halted BY <1>4 DEF RtcHandler
  <2> QED BY <1>1, <1>2, <1>3, <2>1, ClobberedRegs, RetSInv
<1>5. CASE Argument(1) # Number(40)
  <2>1. halted' /\ UNCHANGED machine BY <1>5 DEF RtcHandler
  <2> QED BY <1>1, <2>1, HaltSInv
<1> QED BY <1>4, <1>5

LEMMA SyscallHandlerSInv == SInv /\ TInv' /\ SyscallHandler => SInv'
<1> SUFFICES ASSUME SInv, TInv', SyscallHandler PROVE SInv' OBVIOUS
<1>1. Running /\ UNCHANGED <<tables, spilled, prog, raised>> BY DEF SyscallHandler
<1>2. Registers /\ AtSyscall \in {AtInterrupt, AtSyscall} BY DEF SInv
<1>3. ASSUME pc \in {"syscall_test_handler", "syscall_yield_handler"}
      PROVE  /\ IsStack(stack[cur]) /\ Calling(prog[cur], stack[cur])
             /\ Trapped(prog[cur], stack[cur], AtSyscall) /\ Len(stack[cur]) = AtSyscall
             /\ Loaded(prog[cur], Preserved, regs)
  BY <1>1, <1>3, InPlace DEF Calling
<1>4. CASE pc = "syscall_test_handler" /\ halted' = halted
           /\ Ret(stack[cur], [Clobbered(regs) EXCEPT !["eax"] = Number(10)])
  <2> DEFINE r == [Clobbered(regs) EXCEPT !["eax"] = Number(10)]
  <2>1. r = [m \in Reg |-> r[m]] /\ r["esp"] = Label("esp") /\ r["eax"] = Number(10)
    BY <1>2, ClobberedRegs
  <2>2. prog[cur]["eax"] \in {Any, Number(10)} BY <1>3, <1>4 DEF Calling
  <2>3. Ret(stack[cur], r) BY <1>4
  <2> HIDE DEF r
  <2> QED BY <1>1, <1>2, <1>3, <1>4, <2>1, <2>2, <2>3, RetSInv
<1>5. ASSUME pc = "syscall_yield_handler", halted' = halted, NEW next \in Thread \ {cur},
             SwitchTo(next)
      PROVE  SInv'
  <2>1. prog[cur]["eax"] = Any BY <1>3, <1>5 DEF Calling
  <2> QED BY <1>1, <1>2, <1>3, <1>5, <2>1, SwitchSInv
<1>6. CASE halted' /\ UNCHANGED machine BY <1>1, <1>6, HaltSInv
<1> QED BY <1>4, <1>5, <1>6 DEF SyscallHandler


-----------------------------------------------------------------------------
(* The way out.                                                            *)

With(s, i, e) == [s EXCEPT ![i] = e]

LEMMA ReplacedWords ==
  ASSUME NEW s, IsStack(s), NEW i \in 1 .. Len(s), NEW e
  PROVE  /\ IsStack(With(s, i, e)) /\ Len(With(s, i, e)) = Len(s) /\ With(s, i, e)[i] = e
         /\ \A j \in 1 .. Len(s) : j # i => With(s, i, e)[j] = s[j]
<1> DEFINE w == [s EXCEPT ![i] = e]
           n == Len(s)
<1>1. PICK S : s \in Seq(S) BY DEF IsStack
<1>2. s \in Seq(S \cup {e}) BY <1>1, SeqMonotonic
<1>3. n \in Nat /\ s \in [1 .. n -> S \cup {e}] BY <1>2, LenProperties
<1>4. w \in [1 .. n -> S \cup {e}] BY <1>3
<1>5. w \in Seq(S \cup {e})
  <2> HIDE DEF w
  <2> QED BY <1>3, <1>4, SeqDef
<1>6. Len(w) = n
  <2>1. Len(w) \in Nat /\ DOMAIN w = 1 .. Len(w) BY <1>5, LenProperties
  <2>2. DOMAIN w = 1 .. n BY <1>4
  <2> HIDE DEF w
  <2> QED BY <2>1, <2>2, LengthIs
<1>7. w[i] = e /\ \A j \in 1 .. n : j # i => w[j] = s[j] BY <1>3
<1>8. IsStack(w) BY <1>5 DEF IsStack
<1> QED BY <1>6, <1>7, <1>8 DEF With

(* popa and iret: every register comes from its own word.                  *)
Restored(s, e) == [Popped(regs, Drop(s, 1)) EXCEPT !["if"] = e]

LEMMA PoppedWords ==
  ASSUME NEW s, IsStack(s), Len(s) = 18, NEW e
  PROVE  /\ Restored(s, e) = [m \in Reg |-> Restored(s, e)[m]] /\ Restored(s, e)["if"] = e
         /\ \A i \in 1 .. 8 : Restored(s, e)[Pusha[i]] = s[9 + i]
<1> DEFINE d == Drop(s, 1)
           place(m) == CHOOSE i \in 1 .. 8 : Pusha[i] = m
           q == Popped(regs, d)
<1>1. Len(d) = 17 /\ \A i \in 1 .. 17 : d[i] = s[i]
  <2>1. 1 \in Nat /\ 1 <= Len(s) /\ Len(s) - 1 = 17 OBVIOUS
  <2> QED BY <2>1, DroppedWords, ZenonT(30)
<1>2. \A i, j \in 1 .. 8 : Pusha[i] = Pusha[j] => i = j BY DEF Pusha
<1>3. \A i \in 1 .. 8 : place(Pusha[i]) = i
  <2> SUFFICES ASSUME NEW i \in 1 .. 8 PROVE place(Pusha[i]) = i OBVIOUS
  <2>1. place(Pusha[i]) \in 1 .. 8 /\ Pusha[place(Pusha[i])] = Pusha[i] OBVIOUS
  <2> QED BY <1>2, <2>1
<1>4. "if" \in Reg /\ \A i \in 1 .. 8 : Pusha[i] \in Reg /\ Pusha[i] # "if" BY DEF Pusha, Reg
<1>5. \A m \in Reg : q[m] = IF \E i \in 1 .. 8 : Pusha[i] = m THEN Word(d, 8 - place(m)) ELSE regs[m]
  BY DEF Popped
<1>6. q = [m \in Reg |-> q[m]] BY DEF Popped
<1> HIDE DEF q, place, d
<1>7. \A i \in 1 .. 8 : q[Pusha[i]] = Word(d, 8 - i) BY <1>3, <1>4, <1>5
<1>8. \A i \in 1 .. 8 : Word(d, 8 - i) = s[9 + i]
  <2>1. \A i \in 1 .. 8 : 17 - (8 - i) = 9 + i /\ 9 + i \in 1 .. 17 OBVIOUS
  <2> QED BY <1>1, <2>1 DEF Word
<1>9. \A r : r = [q EXCEPT !["if"] = e] =>
        /\ r = [m \in Reg |-> r[m]] /\ r["if"] = e
        /\ \A i \in 1 .. 8 : r[Pusha[i]] = s[9 + i]
  <2> SUFFICES ASSUME NEW r, r = [q EXCEPT !["if"] = e]
               PROVE  /\ r = [m \in Reg |-> r[m]] /\ r["if"] = e
                      /\ \A i \in 1 .. 8 : r[Pusha[i]] = s[9 + i]
    OBVIOUS
  <2>1. r = [m \in Reg |-> IF m = "if" THEN e ELSE q[m]] BY <1>6
  <2> QED BY <1>4, <1>7, <1>8, <2>1
<1> QED BY <1>9 DEF q, d, Restored

LEMMA LeaveSInv ==
  ASSUME SInv, TInv', Running, NEW s, IsStack(s), Len(s) = 18, Framed(prog[cur], s),
         Kept(prog[cur], "eax", s[10]), Leave(s),
         UNCHANGED <<tables, spilled, halted, prog>>
  PROVE  SInv'
<1> DEFINE gate == Drop(s, 15)
           e == Word(gate, 2)
           none == Drop(gate, 3)
<1>1. stage = "run" /\ cur \in Context /\ Stacks(stack) BY InPlace
<1>2. /\ pc' = Word(gate, 0)[2] /\ OnStack(none) /\ cur' = cur
      /\ regs' = Restored(s, e) /\ prog' = prog /\ spilled' = spilled
  BY DEF Leave, Restored
<1>3. IsStack(gate) /\ Len(gate) = 3 /\ gate[3] = s[3] /\ gate[1] = s[1]
  <2>1. 15 \in Nat /\ 15 <= Len(s) /\ Len(s) - 15 = 3 OBVIOUS
  <2>2. IsStack(gate) /\ Len(gate) = 3 /\ \A i \in 1 .. 3 : gate[i] = s[i]
    BY <2>1, DroppedWords, ZenonT(30)
  <2> HIDE DEF gate
  <2> QED BY <2>2
<1> HIDE DEF gate
<1>4. none = << >>
  <2>1. 3 \in Nat /\ 3 <= Len(gate) /\ Len(gate) - 3 = 0 BY <1>3
  <2>2. IsStack(none) /\ Len(none) = 0 BY <1>3, <2>1, DroppedWords
  <2> HIDE DEF none
  <2>3. PICK S : none \in Seq(S) BY <2>2 DEF IsStack
  <2> QED BY <2>2, <2>3, EmptySeq
<1> HIDE DEF none
<1>5. Word(gate, 0) = s[3] /\ e = s[1] BY <1>3 DEF Word
<1>6. pc' = "program" BY <1>2, <1>5 DEF Framed, Label
<1> HIDE DEF e
<1>7. /\ regs' = [m \in Reg |-> regs'[m]] /\ regs'["if"] = s[1]
      /\ \A i \in 1 .. 8 : regs'[Pusha[i]] = s[9 + i]
  BY <1>2, <1>5, PoppedWords
<1>8. /\ Pusha[1] = "eax" /\ Pusha[2] = "ecx" /\ Pusha[3] = "edx" /\ Pusha[4] = "ebx"
      /\ Pusha[5] = "esp" /\ Pusha[6] = "ebp" /\ Pusha[7] = "esi" /\ Pusha[8] = "edi"
  BY DEF Pusha
<1>9. regs'["esp"] = Label("esp")
  <2>1. regs'[Pusha[5]] = s[9 + 5] BY <1>7
  <2> QED BY <1>8, <2>1 DEF Framed
<1>10. Loaded(prog[cur], Reg, regs')
  <2>1. \A i \in 2 .. 8 : Kept(prog[cur], Pusha[i], regs'[Pusha[i]])
    <3>1. \A i \in 2 .. 8 : i \in 1 .. 8 OBVIOUS
    <3> QED BY <1>7, <3>1 DEF Framed
  <2>2. Kept(prog[cur], "eax", regs'["eax"])
    <3>1. regs'[Pusha[1]] = s[9 + 1] BY <1>7
    <3> QED BY <1>8, <3>1
  <2>3. Kept(prog[cur], "if", regs'["if"]) BY <1>7 DEF Framed, Kept
  <2>4. \A r \in Reg : r = "eax" \/ r = "if" \/ \E i \in 2 .. 8 : Pusha[i] = r
    <3>1. \A r \in Reg : r \in {"eax", "if", Pusha[2], Pusha[3], Pusha[4], Pusha[5], Pusha[6],
                                Pusha[7], Pusha[8]}
      BY <1>8 DEF Reg
    <3> QED BY <3>1
  <2> QED BY <2>1, <2>2, <2>3, <2>4 DEF Loaded
<1>11. stack'[cur] = << >> /\ \A c \in Thread \ {cur} : stack'[c] = stack[c]
  BY <1>1, <1>2, <1>4, Others
<1>12. Here(prog[cur], stack[cur])' BY <1>2, <1>6, <1>10, <1>11 DEF Here, Computing
<1>13. Registers' BY <1>2, <1>7, <1>9 DEF SInv, Registers
<1> QED BY <1>1, <1>2, <1>11, <1>12, <1>13, CurrentStep

(* syscall_return stores the answer where pusha has left eax.              *)
LEMMA InterruptExitSInv == SInv /\ TInv' /\ InterruptExit => SInv'
<1> SUFFICES ASSUME SInv, TInv', InterruptExit PROVE SInv' OBVIOUS
<1>1. Running /\ UNCHANGED <<tables, spilled, halted, prog>> BY DEF InterruptExit
<1>2. CASE pc = "interrupt_exit" /\ Leave(stack[cur])
  <2>1. IsStack(stack[cur]) /\ Exiting(prog[cur], stack[cur]) BY <1>1, <1>2, InPlace
  <2> QED BY <1>1, <1>2, <2>1, LeaveSInv DEF Exiting
<1>3. CASE pc = "syscall_return"
  <2> DEFINE d == Drop(stack[cur], 3)
             k == Len(d) - ResultWord
             w == With(d, k, regs["eax"])
  <2>1. IsStack(stack[cur]) /\ Answering(prog[cur], stack[cur]) BY <1>1, <1>3, InPlace
  <2>2. IsStack(d) /\ Len(d) = 18 /\ \A i \in 1 .. 18 : d[i] = stack[cur][i]
    <3>1. 3 \in Nat /\ 3 <= Len(stack[cur]) /\ Len(stack[cur]) - 3 = 18 BY <2>1 DEF Answering
    <3>2. IsStack(stack[cur]) BY <2>1
    <3>3. /\ IsStack(d) /\ Len(d) = Len(stack[cur]) - 3
          /\ \A i \in 1 .. (Len(stack[cur]) - 3) : d[i] = stack[cur][i]
      BY <3>1, <3>2, DroppedWords
    <3> HIDE DEF d
    <3> QED BY <3>1, <3>3
  <2>3. Leave(w)
    <3>1. Leave([d EXCEPT ![Len(d) - ResultWord] = regs["eax"]])
      BY <1>3 DEF InterruptExit, ArgumentWords
    <3> QED BY <3>1 DEF With
  <2>7. k = 10 /\ k \in 1 .. Len(d)
    <3> HIDE DEF d
    <3>1. k = 10 BY <2>2 DEF ResultWord
    <3> HIDE DEF k
    <3> QED BY <2>2, <3>1
  <2> HIDE DEF d, k
  <2>4. IsStack(w) /\ Len(w) = 18 /\ w[10] = regs["eax"] /\ \A j \in 1 .. 18 : j # 10 => w[j] = d[j]
    <3>1. IsStack(d) /\ k \in 1 .. Len(d) BY <2>2, <2>7
    <3>2. /\ IsStack(w) /\ Len(w) = Len(d) /\ w[k] = regs["eax"]
          /\ \A j \in 1 .. Len(d) : j # k => w[j] = d[j]
      BY <3>1, ReplacedWords
    <3> HIDE DEF w
    <3> QED BY <2>2, <2>7, <3>2
  <2> HIDE DEF w
  <2>5. Framed(prog[cur], w)
    <3>1. Framed(prog[cur], stack[cur]) BY <2>1 DEF Answering
    <3>2. \A j \in 1 .. 18 : j # 10 => w[j] = stack[cur][j] BY <2>2, <2>4
    <3>3. w[1] = stack[cur][1] /\ w[3] = stack[cur][3] /\ w[14] = stack[cur][14] BY <3>2
    <3>4. \A i \in 2 .. 8 : w[9 + i] = stack[cur][9 + i] BY <3>2
    <3> QED BY <3>1, <3>3, <3>4 DEF Framed
  <2>6. Kept(prog[cur], "eax", w[10]) BY <2>1, <2>4 DEF Answering, Kept
  <2> QED BY <1>1, <2>3, <2>4, <2>5, <2>6, LeaveSInv
<1> QED BY <1>2, <1>3 DEF InterruptExit

-----------------------------------------------------------------------------
LEMMA StepSInv == SInv /\ [Next]_vars => SInv'
<1> SUFFICES ASSUME SInv, [Next]_vars PROVE SInv' OBVIOUS
<1>1. TInv' BY StepTInv DEF SInv
<1>2. CASE UNCHANGED vars BY <1>1, <1>2, QuietStep DEF vars
<1>3. ASSUME NEW i \in Irq, RaiseIrq(i) PROVE SInv' BY <1>1, <1>3, QuietStep DEF RaiseIrq
<1>4. CASE ExceptionHandler BY <1>1, <1>4, QuietStep DEF ExceptionHandler
<1>5. CASE InterruptInit \/ ClockInit \/ RtcInit \/ SyscallInit BY <1>1, <1>5, TablesSInv
<1>6. CASE TaskInit BY <1>1, <1>6, TaskInitSInv
<1>7. CASE Sti BY <1>1, <1>7, StiSInv
<1>8. ASSUME NEW phase \in 0 .. 1, Compute(phase) PROVE SInv' BY <1>1, <1>8, ComputeSInv
<1>9. ASSUME NEW i \in Irq, Interrupt(i) PROVE SInv' BY <1>1, <1>9, InterruptSInv
<1>10. ASSUME NEW v \in Exceptions, Exception(v) PROVE SInv' BY <1>1, <1>10, ExceptionSInv
<1>11. ASSUME NEW n \in Calls, Syscall(n) PROVE SInv' BY <1>1, <1>11, SyscallSInv
<1>12. CASE ScheduleReturns BY <1>1, <1>12, ScheduleReturnsSInv
<1>13. CASE ClockHandler BY <1>1, <1>13, ClockHandlerSInv
<1>14. CASE RtcHandler BY <1>1, <1>14, RtcHandlerSInv
<1>15. CASE SyscallHandler BY <1>1, <1>15, SyscallHandlerSInv
<1>16. CASE InterruptExit BY <1>1, <1>16, InterruptExitSInv
<1> QED
  BY <1>2, <1>3, <1>4, <1>5, <1>6, <1>7, <1>8, <1>9, <1>10, <1>11, <1>12, <1>13, <1>14,
     <1>15, <1>16
  DEF Next

(* On every stack lie the words that its context will find when it is      *)
(* resumed, however interrupts, exceptions, calls and switches follow one  *)
(* another.                                                                *)
THEOREM StacksHold == Spec => []SInv
BY InitSInv, StepSInv, PTL DEF Spec


-----------------------------------------------------------------------------
(* What the programs and the handlers see.                                 *)

(* The same, also once the kernel has halted.                              *)
LEMMA WhereItIs ==
  ASSUME SInv
  PROVE  /\ Calling(prog[cur], stack[cur]) =>
              /\ stage = "run" /\ syscall_table = CallHandlers
              /\ pc \in {"syscall_test_handler", "syscall_yield_handler",
                         "syscall_default_handler"}
         /\ pc \in {"clock_handler", "rtc_handler", "exception_handler"} =>
              stage = "run" /\ handler_table = Handlers /\ Handling(prog[cur], stack[cur])
         /\ pc = "schedule" => Switching(prog[cur], stack[cur])
         /\ pc \in {syscall_table[n] : n \in Known} /\ pc # "null" =>
              Calling(prog[cur], stack[cur])
<1>1. stage # "run" => pc = "program" BY DEF SInv, TInv, Installed
<1>2. \A n \in Known : syscall_table[n] \in
        IF stage = "run"
        THEN {"syscall_test_handler", "syscall_yield_handler", "syscall_default_handler"}
        ELSE {"null"}
  BY DEF SInv, Ready, CallHandlers
<1>3. Calling(prog[cur], stack[cur]) =>
        /\ stage = "run" /\ syscall_table = CallHandlers
        /\ pc \in {"syscall_test_handler", "syscall_yield_handler", "syscall_default_handler"}
  BY <1>1, <1>2 DEF Calling, SInv, Ready
<1>4. Here(prog[cur], stack[cur]) BY DEF SInv
<1>5. pc \in {"clock_handler", "rtc_handler", "exception_handler"} =>
        Handling(prog[cur], stack[cur])
  BY <1>3, <1>4 DEF Here, Computing, Switching, Exiting, Answering
<1>6. pc = "schedule" => Switching(prog[cur], stack[cur])
  BY <1>3, <1>4 DEF Here, Computing, Handling, Exiting, Answering
<1>7. pc \in {"syscall_test_handler", "syscall_yield_handler", "syscall_default_handler"} =>
        Calling(prog[cur], stack[cur])
  BY <1>4 DEF Here, Computing, Handling, Switching, Exiting, Answering
<1>8. pc \in {"clock_handler", "rtc_handler", "exception_handler"} =>
        stage = "run" /\ handler_table = Handlers
  BY <1>1 DEF SInv, Ready
<1>9. pc \in {syscall_table[n] : n \in Known} /\ pc # "null" => Calling(prog[cur], stack[cur])
  BY <1>2, <1>7
<1> QED BY <1>3, <1>5, <1>6, <1>8, <1>9

LEMMA NoneExempt ==
  ASSUME CheckClobbers = {}, NEW p, NEW r, NEW w, Kept(p, r, w)
  PROVE  p[r] \in {Any, w}
BY DEF Kept

(* Where syscall_check changes nothing that the program keeps in a         *)
(* register, a program finds every register as it left it.                 *)
THEOREM RegistersStayIntact ==
  ASSUME CheckClobbers = {} PROVE Spec => []RegistersIntact
<1>1. SInv => RegistersIntact
  <2> SUFFICES ASSUME SInv, Running, pc = "program"
               PROVE  /\ \A r \in Reg : prog[cur][r] \in {Any, regs[r]}
                      /\ stack[cur] = << >>
    BY DEF RegistersIntact
  <2>1. stack[cur] = << >> /\ Loaded(prog[cur], Reg, regs) BY InPlace
  <2> QED BY <2>1, NoneExempt DEF Loaded
<1> QED BY <1>1, StacksHold, PTL

(* What a program has in the registers that syscall_check does not change. *)
OthersIntact ==
  Running /\ pc = "program" =>
    \A r \in Reg \ CheckClobbers : prog[cur][r] \in {Any, regs[r]}

(* Whatever syscall_check changes, no other register is lost.              *)
THEOREM OthersStayIntact == Spec => []OthersIntact
<1>1. SInv => OthersIntact
  <2> SUFFICES ASSUME SInv, Running, pc = "program", NEW r \in Reg \ CheckClobbers
               PROVE  prog[cur][r] \in {Any, regs[r]}
    BY DEF OthersIntact
  <2>1. Loaded(prog[cur], Reg, regs) BY InPlace
  <2> QED BY <2>1 DEF Loaded, Kept
<1> QED BY <1>1, StacksHold, PTL

(* To schedule, task_switch is a function like any other, however long the *)
(* other tasks run in between, and whatever the compiler spills.           *)
THEOREM SwitchKeepsRegisters == Spec => []CalleeSavedKept
<1>1. SInv => CalleeSavedKept
  <2> SUFFICES ASSUME SInv, pc = "schedule"
               PROVE  /\ \A r \in {"ebx", "esi", "edi"} \ Spilled : prog[cur][r] \in {Any, regs[r]}
                      /\ Word(stack[cur], 0) = Label("next")
    BY DEF CalleeSavedKept
  <2>1. Switching(prog[cur], stack[cur]) BY WhereItIs
  <2>2. \A r \in {"ebx", "esi", "edi"} \ Spilled : prog[cur][r] \in {Any, regs[r]}
    <3>1. Loaded(prog[cur], Preserved \ (Spilled \cup {"ebp"}), regs) BY <2>1 DEF Switching
    <3>2. \A r \in {"ebx", "esi", "edi"} \ Spilled :
            r \in Preserved \ (Spilled \cup {"ebp"}) /\ r \notin CheckClobbers
      BY BuildAssumption DEF Preserved
    <3> QED BY <3>1, <3>2 DEF Loaded, Kept
  <2>3. Word(stack[cur], 0) = Label("next")
    <3> DEFINE s == stack[cur]
               n == Len(spilled)
    <3>1. PICK b \in {AtInterrupt, AtSyscall} :
            Scheduled(prog[cur], s, b, spilled) /\ Len(s) = b + n + 2
      BY <2>1 DEF Switching
    <3>2. n \in Nat /\ b \in Nat BY Spills DEF SInv, AtInterrupt, AtSyscall
    <3>3. s[b + n + 2] = Label("next") BY <3>1 DEF Scheduled
    <3> HIDE DEF s, n
    <3>4. Len(s) - 0 = b + n + 2 BY <3>1, <3>2
    <3>5. Word(s, 0) = Label("next") BY <3>3, <3>4 DEF Word
    <3> QED BY <3>5 DEF s
  <2> QED BY <2>2, <2>3
<1> QED BY <1>1, StacksHold, PTL

(* Every handler is called with what was raised, and the calls get the     *)
(* arguments that the program put in its registers.                        *)
THEOREM HandlersAreInformed ==
  ASSUME CheckClobbers = {} PROVE Spec => []HandlersInformed
<1>1. SInv => HandlersInformed
  <2> SUFFICES ASSUME SInv PROVE HandlersInformed OBVIOUS
  <2> DEFINE p == prog[cur]
             s == stack[cur]
  <2>1. ASSUME pc \in {"clock_handler", "rtc_handler", "exception_handler"}
        PROVE  /\ Argument(1) = Number(raised.vector) /\ Argument(15) = raised.code
               /\ raised.vector \in Vector /\ pc = Handlers[raised.vector] /\ stage = "run"
    <3>1. stage = "run" /\ handler_table = Handlers /\ Handling(p, s) BY <2>1, WhereItIs
    <3>2. Len(s) = 19 /\ s[18] = Number(raised.vector) /\ s[4] = raised.code
      BY <3>1 DEF Handling, AtInterrupt
    <3>3. Len(s) - 1 = 18 /\ Len(s) - 15 = 4 BY <3>2
    <3> QED BY <3>1, <3>2, <3>3 DEF Handling, Argument, Word
  <2>2. \A v \in Vector : v \in Nat /\ (v < ExceptionSize <=> v \in Exceptions)
    BY TrapsAssumption, LinesAssumption DEF Vector, ExceptionSize
  <2>3. \A v \in Vector : stage = "run" =>
          /\ Handlers[v] = "clock_handler" => v = 32
          /\ Handlers[v] = "rtc_handler" => v = 40
          /\ Handlers[v] = "exception_handler" => v \in Exceptions
    <3>1. ExceptionSize + Clock = 32 /\ ExceptionSize + Rtc = 40
      BY DEF ExceptionSize, Clock, Rtc
    <3> QED BY <2>2, <3>1 DEF Handlers, DefaultHandler
  <2>4. Argued("clock_handler", {32}) /\ Argued("rtc_handler", {40})
    BY <2>1, <2>3 DEF Argued
  <2>5. Argued("exception_handler", Exceptions) BY <2>1, <2>3 DEF Argued
  <2>6. ASSUME pc \in {syscall_table[n] : n \in Known}, pc # "null"
        PROVE  \A i \in 1 .. 3 : p[<<"ebx", "ecx", "edx">>[i]] \in {Any, Argument(i)}
    <3>1. Calling(p, s) BY <2>6, WhereItIs
    <3>2. Len(s) = 22 /\ \A i \in 1 .. 3 : Kept(p, Arguments[i], s[18 + i])
      BY <3>1 DEF Calling, AtSyscall
    <3>3. \A i \in 1 .. 3 : p[Arguments[i]] \in {Any, s[18 + i]} BY <3>2, NoneExempt
    <3>4. /\ p["edx"] \in {Any, s[19]} /\ p["ecx"] \in {Any, s[20]} /\ p["ebx"] \in {Any, s[21]}
      <4>1. /\ p[Arguments[1]] \in {Any, s[18 + 1]} /\ p[Arguments[2]] \in {Any, s[18 + 2]}
            /\ p[Arguments[3]] \in {Any, s[18 + 3]}
        BY <3>3
      <4> QED BY <4>1 DEF Arguments
    <3>5. Argument(1) = s[21] /\ Argument(2) = s[20] /\ Argument(3) = s[19]
      <4>1. Len(s) - 1 = 21 /\ Len(s) - 2 = 20 /\ Len(s) - 3 = 19 BY <3>2
      <4> QED BY <4>1 DEF Argument, Word
    <3>6. \A i \in 1 .. 3 : i = 1 \/ i = 2 \/ i = 3 OBVIOUS
    <3> QED BY <3>4, <3>5, <3>6
  <2>7. /\ pc \in {"program", "schedule", "interrupt_exit", "syscall_return", "clock_handler",
                   "rtc_handler", "exception_handler"} \cup {syscall_table[n] : n \in Known}
        /\ pc # "null"
    <3>1. Here(p, s) BY DEF SInv
    <3>2. Calling(p, s) => pc \in {syscall_table[n] : n \in Known} /\ pc # "null"
      BY WhereItIs DEF Calling
    <3> QED BY <3>1, <3>2 DEF Here, Computing, Handling, Switching, Exiting, Answering
  <2> QED BY <2>1, <2>4, <2>5, <2>6, <2>7 DEF HandlersInformed
<1> QED BY <1>1, StacksHold, PTL

=============================================================================
