---------------------------- MODULE SchedProofs ----------------------------
(***************************************************************************)
(* What holds of module Sched for every number of slots and threads, every *)
(* priority, every workload and every word size.                           *)
(***************************************************************************)
EXTENDS SchedRefine, NatSets, TLAPS

-----------------------------------------------------------------------------
(* The scan of the task table.                                             *)

(* The recursive function inside TaskSearchInTable exists, so it obeys its *)
(* own equation: the scan holds NULL before slot 1, and slot i replaces    *)
(* what it holds when it is a candidate that is preferred.                 *)
Scan(task, st, tk, sp, me) ==
  \A i \in 0 .. NumSlots :
    task[i] = IF i = 0 THEN Null
              ELSE IF i \in Candidate(st, me) /\ Preferred(i, task[i - 1], tk, sp)
                   THEN i ELSE task[i - 1]

LEMMA SearchUnfolds ==
  ASSUME NEW st, NEW tk, NEW sp, NEW me
  PROVE  \E task : /\ Scan(task, st, tk, sp, me)
                   /\ TaskSearchInTable(st, tk, sp, me) = task[NumSlots]
<1> DEFINE Better(i, held) == Preferred(i, held, tk, sp)
           Step(held, i) == IF i \in Candidate(st, me) /\ Better(i, held)
                            THEN i ELSE held
           UpTo(g, n) == g = [i \in 0 .. n |-> IF i = 0 THEN Null ELSE Step(g[i - 1], i)]
           Exists == {n \in Nat : \E g : UpTo(g, n)}
<1>1. Nat \subseteq Exists
  <2>1. 0 \in Exists
    <3> DEFINE g == [i \in 0 .. 0 |-> Null]
    <3>1. UpTo(g, 0) OBVIOUS
    <3> QED BY <3>1
  <2>2. ASSUME NEW n \in Nat, n \in Exists PROVE n + 1 \in Exists
    <3>1. PICK g : UpTo(g, n) BY <2>2
    <3> HIDE DEF Step
    <3> DEFINE h == [i \in 0 .. (n + 1) |-> IF i = n + 1 THEN Step(g[n], i) ELSE g[i]]
    <3>2. ASSUME NEW i \in 0 .. (n + 1)
          PROVE  h[i] = IF i = 0 THEN Null ELSE Step(h[i - 1], i)
      <4>1. CASE i = n + 1 BY <4>1
      <4>2. CASE i # n + 1
        <5>1. i \in 0 .. n BY <4>2
        <5>2. h[i] = g[i] BY <4>2
        <5>3. g[i] = IF i = 0 THEN Null ELSE Step(g[i - 1], i) BY <3>1, <5>1
        <5>4. i # 0 => h[i - 1] = g[i - 1] BY <5>1
        <5> QED BY <5>2, <5>3, <5>4
      <4> QED BY <4>1, <4>2
    <3>3. UpTo(h, n + 1) BY <3>2
    <3> HIDE DEF h, UpTo
    <3> QED BY <3>3
  <2> HIDE DEF Exists
  <2> QED BY <2>1, <2>2, SetInduction
<1>2. PICK g : UpTo(g, NumSlots)
  BY <1>1, CountsAssumption
<1> DEFINE task == CHOOSE f : UpTo(f, NumSlots)
<1>3. Scan(task, st, tk, sp, me)
  <2>1. UpTo(task, NumSlots) BY <1>2
  <2> HIDE DEF task
  <2> QED BY <2>1 DEF Scan
<1>4. TaskSearchInTable(st, tk, sp, me) = task[NumSlots]
  BY DEF TaskSearchInTable
<1> QED BY <1>3, <1>4

(* What the scan holds after slot n is one of the candidates it has seen,  *)
(* and NULL only if it has seen none.                                      *)
LEMMA ScanHolds ==
  ASSUME NEW st, NEW tk, NEW sp, NEW me, NEW task, Scan(task, st, tk, sp, me)
  PROVE  \A n \in 0 .. NumSlots :
           LET Seen == Candidate(st, me) \cap (1 .. n)
           IN  task[n] \in Seen \cup {Null} /\ (task[n] = Null => Seen = {})
<1> DEFINE C == Candidate(st, me)
           Seen(n) == C \cap (1 .. n)
           Holds(n) == task[n] \in Seen(n) \cup {Null} /\ (task[n] = Null => Seen(n) = {})
           Good == {n \in Nat : n <= NumSlots => Holds(n)}
<1>1. 0 \in Good BY CountsAssumption DEF Scan
<1>2. ASSUME NEW n \in Nat, n \in Good, n + 1 <= NumSlots
      PROVE  Holds(n + 1)
  <2>1. task[n + 1] = IF n + 1 \in C /\ Preferred(n + 1, task[n], tk, sp)
                      THEN n + 1 ELSE task[n]
    BY <1>2, CountsAssumption DEF Scan
  <2>2. Holds(n) BY <1>2, CountsAssumption
  <2>3. Seen(n + 1) = IF n + 1 \in C THEN Seen(n) \cup {n + 1} ELSE Seen(n)
    OBVIOUS
  <2>4. task[n] = Null => Preferred(n + 1, task[n], tk, sp) BY DEF Preferred
  <2> HIDE DEF C
  <2> QED BY <2>1, <2>2, <2>3, <2>4 DEF Null
<1>3. ASSUME NEW n \in Nat, n \in Good PROVE n + 1 \in Good
  BY <1>2, <1>3
<1>4. Nat \subseteq Good
  <2> HIDE DEF Good
  <2> QED BY <1>1, <1>3, SetInduction
<1> QED BY <1>4, CountsAssumption

(* task_search_in_table returns a task of the state asked for that is not  *)
(* the current one, and returns NULL only if there is none.                *)
LEMMA SearchResult ==
  ASSUME NEW st, NEW tk, NEW sp, NEW me
  PROVE  LET found == TaskSearchInTable(st, tk, sp, me) IN
         /\ found \in Candidate(st, me) \cup {Null}
         /\ found = Null => Candidate(st, me) = {}
<1>1. PICK task : /\ Scan(task, st, tk, sp, me)
                  /\ TaskSearchInTable(st, tk, sp, me) = task[NumSlots]
  BY SearchUnfolds
<1>2. Candidate(st, me) \cap (1 .. NumSlots) = Candidate(st, me)
  BY DEF Candidate, Slot
<1> QED BY <1>1, <1>2, ScanHolds, CountsAssumption

-----------------------------------------------------------------------------
(* schedule().                                                             *)

(* The facts a handler establishes before it calls schedule(), and what    *)
(* schedule() and the switch leave of the invariant.                       *)
LEMMA ScheduleKeeps ==
  ASSUME IInv, ~halted, ifl,
         NEW tk \in [Context -> 0 .. (Word - 1)], NEW sp,
         \A s \in Slot \ {cur} : tk[s] = ticks[s],
         cur \in Slot => tk[cur] \in 0 .. prio[cur],
         Schedule(tk, sp),
         UNCHANGED <<prio, magic, created>>, isr' = FALSE,
         pc' \in [Context -> {"setup", "create", "idle",
                              "start", "format", "write", "yield"}],
         \A c \in Context \ {cur} : pc'[c] = pc[c],
         pc'[cur] \in {"idle", "format", "write", "yield"}
  PROVE  /\ cur' = Boot => cur = Boot
         /\ cur' \in Context /\ ifl' \in BOOLEAN /\ halted' \in BOOLEAN
         /\ state' \in [Context -> {"null", "ready", "running"}]
         /\ ticks' \in [Context -> 0 .. (Word - 1)]
         /\ saved' \in [Context -> {"fresh", "on", "off"}]
         /\ OneRunning' /\ SliceBounded' /\ NeverSpins' /\ Preemptible'
         /\ \A s \in Slot : state'[s] = "null" <=> state[s] = "null"
         /\ \A s \in Slot : state[s] = "null" => saved'[s] = saved[s]
<1> DEFINE next == TaskSearchInTable(state, tk, sp, cur)
           C == Candidate(state, cur)
<1> USE CountsAssumption DEF IInv, TypeOK
<1>1. next \in C \cup {Null} /\ (next = Null => C = {})
  BY SearchResult
<1>2. Boot \notin Slot /\ Null \notin Context
  BY DEF Boot, Slot, Null, Context
<1>3. pc[cur] \in {"idle", "format", "write", "yield"}
  BY DEF Preemptible
<1>4. NumThreads \in 2 .. NumSlots => C # {}
  <2> SUFFICES ASSUME NumThreads \in 2 .. NumSlots PROVE C # {}
    OBVIOUS
  <2>1. CASE cur = Boot
    <3>1. created = NumThreads BY <2>1, <1>3 DEF TableFilled
    <3>2. 1 \in Slot /\ state[1] # "null" BY <3>1 DEF TableFilled, Slot
    <3>3. state[1] = "ready" BY <3>2, <2>1, <1>2 DEF OneRunning, Context
    <3> QED BY <3>2, <3>3, <2>1, <1>2 DEF Candidate
  <2>2. CASE cur # Boot
    <3>1. created = NumThreads BY <2>2, <1>3 DEF TableFilled
    <3> DEFINE other == IF cur = 1 THEN 2 ELSE 1
    <3>2. other \in Slot /\ other # cur /\ state[other] # "null"
      BY <3>1 DEF TableFilled, Slot
    <3> HIDE DEF other
    <3>3. state[other] = "ready" BY <3>2 DEF OneRunning, Context
    <3> QED BY <3>2, <3>3 DEF Candidate
  <2> QED BY <2>1, <2>2
<1>5. next \in C => next \in Slot /\ next # cur /\ state[next] = "ready"
  BY DEF Candidate
<1>6. \A s \in Slot : state[s] # "null" => s \in magic /\ prio[s] > 0
  BY DEF TableFilled
<1>7. CASE next = Null \/ next \notin magic
  <2>1. next = Null BY <1>1, <1>5, <1>6, <1>7
  <2>2. halted' = TRUE /\ ifl' = FALSE /\ ticks' = tk
        /\ UNCHANGED <<cur, saved, state>>
    BY <1>7 DEF Schedule, Spin
  <2>3. OneRunning' BY <2>2 DEF OneRunning
  <2>4. SliceBounded' BY <2>2 DEF SliceBounded
  <2>5. NeverSpins' BY <2>1, <1>1, <1>4 DEF NeverSpins
  <2>6. Preemptible' BY <2>2 DEF Preemptible, Context
  <2> QED BY <2>2, <2>3, <2>4, <2>5, <2>6
<1>8. CASE ~(next = Null \/ next \notin magic)
  <2>1. next \in Slot /\ next # cur /\ state[next] = "ready"
    BY <1>1, <1>5, <1>8
  <2>2. /\ state' = Handover(next) /\ ticks' = Refilled(tk)
        /\ cur' = next /\ ifl' = (saved[next] = "on") /\ UNCHANGED halted
        /\ saved' = [saved EXCEPT ![cur] = "on"]
    BY <1>8 DEF Schedule, TaskSwitch, ResumedIf
  <2> HIDE DEF next, C
  <2>3. state' \in [Context -> {"null", "ready", "running"}]
    BY <2>2 DEF Handover
  <2>4. ticks' \in [Context -> 0 .. (Word - 1)]
    BY <2>2 DEF Refilled
  <2>5. saved' \in [Context -> {"fresh", "on", "off"}]
    BY <2>2
  <2>6. OneRunning'
    BY <2>1, <2>2 DEF OneRunning, Handover, Context
  <2>7. SliceBounded'
    <3> SUFFICES ASSUME NEW s \in Slot, state'[s] # "null"
                 PROVE  ticks'[s] \in 1 .. prio[s]
      BY DEF SliceBounded
    <3>1. state[s] # "null"
      BY <2>1, <2>2 DEF Handover, Context
    <3>2. CASE s = cur
      BY <3>1, <3>2, <2>2, <1>6 DEF Refilled, Context
    <3>3. CASE s # cur
      BY <3>1, <3>3, <2>2 DEF Refilled, SliceBounded, Context
    <3> QED BY <3>2, <3>3
  <2>8. NeverSpins' BY <2>2 DEF NeverSpins
  <2>9. Preemptible'
    <3>1. ifl' <=> pc'[cur'] # "start"
      BY <2>1, <2>2 DEF Preemptible, Context
    <3>2. pc'[cur'] \in {"start", "format", "write", "yield"}
      BY <2>1, <2>2 DEF TableFilled, Context
    <3>3. \A s \in Slot \ {cur'} :
             saved'[s] = IF pc'[s] = "start" THEN "fresh" ELSE "on"
      <4> SUFFICES ASSUME NEW s \in Slot, s # cur'
                   PROVE  saved'[s] = IF pc'[s] = "start" THEN "fresh" ELSE "on"
        OBVIOUS
      <4>1. CASE s = cur BY <4>1, <2>2 DEF Context
      <4>2. CASE s # cur BY <4>2, <2>2 DEF Preemptible, Context
      <4> QED BY <4>1, <4>2
    <3> QED BY <2>2, <3>1, <3>2, <3>3 DEF Preemptible
  <2>10. \A s \in Slot : state'[s] = "null" <=> state[s] = "null"
    BY <2>1, <2>2 DEF Handover, Context
  <2>11. \A s \in Slot : state[s] = "null" => saved'[s] = saved[s]
    BY <2>2, <1>2 DEF OneRunning, Context
  <2>12. cur' # Boot BY <2>1, <2>2, <1>2
  <2> QED BY <2>1, <2>2, <2>3, <2>4, <2>5, <2>6, <2>7, <2>8, <2>9, <2>10, <2>11,
             <2>12 DEF Context
<1> QED BY <1>7, <1>8

-----------------------------------------------------------------------------
(* The inductive invariant.                                                *)

LEMMA InitIInv == Init => IInv
<1> SUFFICES ASSUME Init PROVE IInv
  OBVIOUS
<1> USE CountsAssumption, WordAssumption, PriorityAssumption DEF Init
<1>1. Boot \notin Slot /\ Boot \in Context
  BY DEF Boot, Slot, Context
<1>2. TypeOK
  <2>1. state \in [Context -> {"null", "ready", "running"}]
    OBVIOUS
  <2>2. cur \in Context /\ buf = Null /\ created \in 0 .. NumThreads
    BY <1>1
  <2>3. 0 \in 0 .. (Word - 1)
    OBVIOUS
  <2>4. prio \in [Context -> 0 .. (Word - 1)]
    BY <2>3
  <2> QED BY <2>1, <2>2, <2>3, <2>4 DEF TypeOK
<1>3. OneRunning BY <1>1 DEF OneRunning, Context
<1>4. SliceBounded BY <1>1 DEF SliceBounded, Context
<1>5. NeverSpins BY DEF NeverSpins
<1>6. Preemptible BY <1>1 DEF Preemptible, Context
<1>7. TableFilled
  <2>1. \A s \in Slot : ~(s <= created) /\ state[s] = "null"
    BY <1>1 DEF Slot, Context
  <2> QED BY <1>1, <2>1 DEF TableFilled, Context
<1> QED BY <1>2, <1>3, <1>4, <1>5, <1>6, <1>7 DEF IInv

LEMMA SetupIInv == IInv /\ TaskTableSetup => IInv'
<1> SUFFICES ASSUME IInv, TaskTableSetup PROVE IInv'
  OBVIOUS
<1> USE CountsAssumption, WordAssumption
    DEF IInv, TypeOK, TaskTableSetup, cpu, pic
<1>1. Boot \notin Slot /\ Boot \in Context /\ cur = Boot /\ created = 0
  BY DEF Boot, Slot, Context, TableFilled
<1>2. TypeOK' BY <1>1
<1>3. \A s \in Slot : state'[s] = "null" /\ state[s] = "null"
  BY <1>1 DEF TableFilled, Slot, Context
<1>4. OneRunning' BY <1>1, <1>3 DEF OneRunning
<1>5. SliceBounded' BY <1>3 DEF SliceBounded
<1>6. NeverSpins' BY DEF NeverSpins
<1>7. Preemptible' BY <1>1 DEF Preemptible, Context
<1>8. TableFilled' BY <1>1, <1>3 DEF TableFilled, Context, Slot
<1> QED BY <1>2, <1>4, <1>5, <1>6, <1>7, <1>8

(* get_free_task returns the slot after the last one filled, and panics    *)
(* only when there are more threads than slots.                            *)
LEMMA FirstFreeSlot ==
  ASSUME TypeOK, TableFilled
  PROVE  IF FreeSlot = {} THEN created >= NumSlots
         ELSE GetFreeTask = created + 1 /\ created + 1 \in Slot
<1> USE CountsAssumption
<1>1. FreeSlot = {s \in Slot : s > created}
  BY DEF FreeSlot, TableFilled, TypeOK, Slot
<1>2. CASE created >= NumSlots
  BY <1>1, <1>2 DEF Slot, TypeOK
<1>3. CASE ~(created >= NumSlots)
  <2>1. created + 1 \in FreeSlot /\ \A r \in FreeSlot : created + 1 <= r
    BY <1>1, <1>3 DEF Slot, TypeOK
  <2>2. \A s \in FreeSlot : (\A r \in FreeSlot : s <= r) => s = created + 1
    BY <2>1, <1>1 DEF Slot, TypeOK
  <2>3. GetFreeTask = created + 1
    BY <2>1, <2>2 DEF GetFreeTask
  <2> QED BY <2>1, <2>3, <1>1
<1> QED BY <1>2, <1>3

LEMMA CreateIInv == IInv /\ TaskCreate => IInv'
<1> SUFFICES ASSUME IInv, TaskCreate PROVE IInv'
  OBVIOUS
<1> USE CountsAssumption, WordAssumption, PriorityAssumption
    DEF IInv, TypeOK, TaskCreate, cpu, pic, pcb
<1>1. Boot \notin Slot /\ Boot \in Context /\ cur = Boot /\ pc[Boot] = "create"
  BY DEF Boot, Slot, Context, TableFilled
<1>2. CASE FreeSlot = {}
  <2>1. /\ halted' /\ ifl' = FALSE
        /\ UNCHANGED <<cur, saved, pic, pcb, jiffies, pc, created, buf>>
    BY <1>2 DEF Spin
  <2>2. TypeOK' BY <2>1
  <2>3. OneRunning' BY <2>1 DEF OneRunning
  <2>4. SliceBounded' BY <2>1 DEF SliceBounded
  <2>5. NeverSpins' BY <1>2, FirstFreeSlot DEF NeverSpins
  <2>6. Preemptible' BY <2>1, <1>1 DEF Preemptible
  <2>7. TableFilled' BY <2>1 DEF TableFilled
  <2> QED BY <2>2, <2>3, <2>4, <2>5, <2>6, <2>7
<1>3. CASE FreeSlot # {}
  <2> DEFINE s == created + 1
             p == Priority[created + 1]
  <2>1. GetFreeTask = s /\ s \in Slot
    BY <1>3, FirstFreeSlot
  <2>2. s \in Context /\ s # Boot /\ p \in 1 .. (Word - 1) /\ created \in Nat
    BY <2>1, <1>1 DEF Context, Thread
  <2>3. /\ prio' = [prio EXCEPT ![s] = p] /\ ticks' = [ticks EXCEPT ![s] = p]
        /\ stamp' = [stamp EXCEPT ![s] = 0] /\ state' = [state EXCEPT ![s] = "ready"]
        /\ saved' = [saved EXCEPT ![s] = "fresh"] /\ pc' = [pc EXCEPT ![s] = "start"]
        /\ magic' = magic \cup {s} /\ created' = created + 1
        /\ UNCHANGED <<cur, ifl, halted, pic, jiffies, buf>>
        /\ created + 1 \in 0 .. NumThreads
    BY <1>3, <2>1
  <2> HIDE DEF p, TaskCreate
  <2>4. TypeOK' BY <2>2, <2>3
  <2>5. OneRunning' BY <2>2, <2>3, <1>1 DEF OneRunning, Context
  <2>6. SliceBounded' BY <2>2, <2>3 DEF SliceBounded, Context
  <2>7. NeverSpins' BY <2>3 DEF NeverSpins
  <2>8. Preemptible' BY <2>2, <2>3, <1>1 DEF Preemptible, Context
  <2>9. TableFilled'
    <3>1. pc'[Boot] = "create" BY <1>1, <2>2, <2>3
    <3>2. \A t \in Slot : t <= created + 1 <=> t <= created \/ t = s
      BY <2>2 DEF Slot
    <3> QED BY <3>1, <3>2, <1>1, <2>2, <2>3 DEF TableFilled, Context
  <2> QED BY <2>4, <2>5, <2>6, <2>7, <2>8, <2>9
<1> QED BY <1>2, <1>3

LEMMA BootDoneIInv == IInv /\ KernelInitDone => IInv'
<1> SUFFICES ASSUME IInv, KernelInitDone PROVE IInv'
  OBVIOUS
<1> USE CountsAssumption DEF IInv, TypeOK, KernelInitDone, pic, pcb
<1>1. Boot \notin Slot /\ Boot \in Context /\ cur = Boot
  BY DEF Boot, Slot, Context, TableFilled
<1>2. TypeOK' BY <1>1
<1>3. OneRunning' BY DEF OneRunning
<1>4. SliceBounded' BY DEF SliceBounded
<1>5. NeverSpins' BY DEF NeverSpins
<1>6. Preemptible' BY <1>1 DEF Preemptible, Context
<1>7. TableFilled' BY <1>1 DEF TableFilled, Context
<1> QED BY <1>2, <1>3, <1>4, <1>5, <1>6, <1>7

LEMMA PitIInv == IInv /\ PitTick => IInv'
<1> SUFFICES ASSUME IInv, PitTick PROVE IInv'
  OBVIOUS
<1> USE DEF IInv, TypeOK, PitTick, cpu, pcb
<1>1. TypeOK' OBVIOUS
<1>2. OneRunning' BY DEF OneRunning
<1>3. SliceBounded' BY DEF SliceBounded
<1>4. NeverSpins' BY DEF NeverSpins
<1>5. Preemptible' BY DEF Preemptible
<1>6. TableFilled' BY DEF TableFilled
<1> QED BY <1>1, <1>2, <1>3, <1>4, <1>5, <1>6

(* The steps of a thread that change nothing but its program counter, the  *)
(* buffer, or IF on its first step.                                        *)
LEMMA ThreadLocalIInv ==
  IInv /\ (ThreadStart \/ Vsprintf \/ ConsoleWrite) => IInv'
<1> SUFFICES ASSUME IInv, ThreadStart \/ Vsprintf \/ ConsoleWrite PROVE IInv'
  OBVIOUS
<1> USE CountsAssumption DEF IInv, TypeOK
<1>1. /\ cur \in Slot /\ ~halted /\ cur # Boot /\ cur \in Context
      /\ \E label \in {"format", "write", "yield"} : pc' = [pc EXCEPT ![cur] = label]
      /\ UNCHANGED <<cur, saved, halted, pic, pcb, jiffies, created>>
      /\ buf' \in Slot \cup {Null}
      /\ ifl' = TRUE
  <2>1. cur \in Slot /\ ~halted /\ pc[cur] \in {"start", "format", "write"}
    BY DEF ThreadStart, Vsprintf, ConsoleWrite, At
  <2>2. cur # Boot /\ cur \in Context
    BY <2>1 DEF Boot, Slot, Context
  <2>3. CASE ThreadStart
    BY <2>1, <2>2, <2>3 DEF ThreadStart
  <2>4. CASE Vsprintf
    BY <2>1, <2>2, <2>4 DEF Vsprintf, At, Preemptible, cpu
  <2>5. CASE ConsoleWrite
    BY <2>1, <2>2, <2>5 DEF ConsoleWrite, At, Preemptible, cpu
  <2> QED BY <2>3, <2>4, <2>5
<1>2. TypeOK' BY <1>1 DEF pic, pcb
<1>3. OneRunning' BY <1>1 DEF OneRunning, pcb
<1>4. SliceBounded' BY <1>1 DEF SliceBounded, pcb
<1>5. NeverSpins' BY <1>1 DEF NeverSpins
<1>6. Preemptible' BY <1>1 DEF Preemptible, Context, pic
<1>7. TableFilled'
  <2>1. created >= cur /\ pc'[Boot] = pc[Boot]
    BY <1>1 DEF TableFilled, OneRunning
  <2> QED BY <1>1, <2>1 DEF TableFilled, Context, pcb
<1> QED BY <1>2, <1>3, <1>4, <1>5, <1>6, <1>7

LEMMA YieldIInv == IInv /\ SyscallYield => IInv'
<1> SUFFICES ASSUME IInv, SyscallYield PROVE IInv'
  OBVIOUS
<1> USE CountsAssumption DEF IInv, TypeOK
<1>1. cur \in Slot /\ cur # Boot /\ cur \in Context /\ ~halted /\ ifl
      /\ pc[cur] = "yield"
  BY DEF SyscallYield, At, Slot, Context, Boot, Preemptible
<1>2. state[cur] # "null" /\ cur <= created
  BY <1>1 DEF OneRunning, TableFilled
<1>3. /\ pc' = [pc EXCEPT ![cur] = "format"] /\ Schedule(ticks, stamp)
      /\ UNCHANGED <<pic, stamp, prio, magic, jiffies, created, buf>>
  BY DEF SyscallYield
<1>4. ticks[cur] \in 0 .. prio[cur]
  BY <1>1, <1>2 DEF SliceBounded
<1>5. /\ pc' \in [Context -> {"setup", "create", "idle",
                              "start", "format", "write", "yield"}]
      /\ \A c \in Context \ {cur} : pc'[c] = pc[c]
      /\ pc'[cur] = "format" /\ isr' = FALSE
  BY <1>1, <1>3 DEF pic, Preemptible
<1>6. /\ cur' = Boot => cur = Boot
      /\ cur' \in Context /\ ifl' \in BOOLEAN /\ halted' \in BOOLEAN
      /\ state' \in [Context -> {"null", "ready", "running"}]
      /\ ticks' \in [Context -> 0 .. (Word - 1)]
      /\ saved' \in [Context -> {"fresh", "on", "off"}]
      /\ OneRunning' /\ SliceBounded' /\ NeverSpins' /\ Preemptible'
      /\ \A s \in Slot : state'[s] = "null" <=> state[s] = "null"
      /\ \A s \in Slot : state[s] = "null" => saved'[s] = saved[s]
  BY <1>1, <1>3, <1>4, <1>5, ScheduleKeeps
<1>7. TypeOK' BY <1>3, <1>5, <1>6 DEF pic
<1>8. TableFilled'
  BY <1>1, <1>2, <1>3, <1>5, <1>6 DEF TableFilled, Context
<1> QED BY <1>6, <1>7, <1>8

LEMMA ClockIInv == IInv /\ ClockInterrupt => IInv'
<1> SUFFICES ASSUME IInv, ClockInterrupt PROVE IInv'
  OBVIOUS
<1> USE CountsAssumption, WordAssumption DEF IInv, TypeOK
<1> DEFINE now == Advanced(jiffies)
           sp == [stamp EXCEPT ![cur] = now]
           left == Spent(ticks[cur])
           tk == [ticks EXCEPT ![cur] = left]
<1>1. ifl /\ ~halted /\ pc[cur] \in {"idle", "format", "write", "yield"}
  BY DEF ClockInterrupt, Preemptible
<1>2. cur \in magic
  <2>1. Boot \notin Slot BY DEF Boot, Slot
  <2>2. CASE cur = Boot BY <2>2, <1>1 DEF TableFilled
  <2>3. CASE cur \in Slot BY <2>3 DEF OneRunning, TableFilled
  <2> QED BY <2>2, <2>3 DEF Context
<1>3. /\ irr' = FALSE /\ isr' = FALSE /\ jiffies' = now /\ stamp' = sp
      /\ IF tk[cur] = 0 THEN Schedule(tk, sp)
                        ELSE ticks' = tk /\ UNCHANGED <<cpu, state>>
      /\ UNCHANGED <<prio, magic, pc, created, buf>>
  BY <1>2 DEF ClockInterrupt, SendEoi
<1>4. now \in 0 .. (Word - 1) /\ left \in 0 .. (Word - 1)
  BY DEF Advanced, Spent
<1>5. cur \in Slot => ticks[cur] \in 1 .. prio[cur] /\ left = ticks[cur] - 1
  <2> SUFFICES ASSUME cur \in Slot
               PROVE  ticks[cur] \in 1 .. prio[cur] /\ left = ticks[cur] - 1
    OBVIOUS
  <2>1. ticks[cur] \in 1 .. prio[cur]
    BY <1>1 DEF SliceBounded, OneRunning
  <2>2. ticks[cur] \in 1 .. (Word - 1)
    BY <2>1
  <2>3. \A x \in 1 .. (Word - 1) : (x + Word - 1) % Word = x - 1
    OBVIOUS
  <2> QED BY <2>1, <2>2, <2>3 DEF Spent
<1> HIDE DEF now, left
<1>6. /\ tk \in [Context -> 0 .. (Word - 1)]
      /\ \A s \in Slot \ {cur} : tk[s] = ticks[s]
      /\ tk[cur] = left
  BY <1>4
<1>7. cur \in Slot => left \in 0 .. prio[cur]
  BY <1>5
<1> HIDE DEF tk
<1>8. /\ cur' = Boot => cur = Boot
      /\ cur' \in Context /\ ifl' \in BOOLEAN /\ halted' \in BOOLEAN
      /\ state' \in [Context -> {"null", "ready", "running"}]
      /\ ticks' \in [Context -> 0 .. (Word - 1)]
      /\ saved' \in [Context -> {"fresh", "on", "off"}]
      /\ OneRunning' /\ SliceBounded' /\ NeverSpins' /\ Preemptible'
      /\ \A s \in Slot : state'[s] = "null" <=> state[s] = "null"
      /\ \A s \in Slot : state[s] = "null" => saved'[s] = saved[s]
  <2>1. CASE tk[cur] = 0
    BY <2>1, <1>1, <1>3, <1>6, <1>7, ScheduleKeeps
  <2>2. CASE tk[cur] # 0
    <3>1. ticks' = tk /\ UNCHANGED <<cpu, state, pc, prio, created>> /\ isr' = FALSE
      BY <2>2, <1>3
    <3>2. OneRunning' BY <3>1 DEF OneRunning, cpu
    <3>3. SliceBounded'
      BY <3>1, <2>2, <1>1, <1>5, <1>6 DEF SliceBounded, cpu, Context
    <3>4. NeverSpins' BY <3>1 DEF NeverSpins, cpu
    <3>5. Preemptible' BY <3>1 DEF Preemptible, cpu
    <3> QED BY <3>1, <3>2, <3>3, <3>4, <3>5, <1>6 DEF cpu
  <2> QED BY <2>1, <2>2
<1>9. TypeOK' BY <1>3, <1>4, <1>8
<1>10. TableFilled'
  <2>1. pc[Boot] # "idle" => cur = Boot BY DEF TableFilled
  <2>2. pc[Boot] = "idle"
    BY <2>1, <1>1 DEF TableFilled
  <2>3. cur' = Boot => \A s \in Slot : stamp'[s] = 0
    BY <1>3, <1>8 DEF TableFilled, Boot, Slot, Context
  <2> QED BY <2>2, <2>3, <1>3, <1>8 DEF TableFilled
<1> QED BY <1>8, <1>9, <1>10

LEMMA StepIInv == IInv /\ [Next]_vars => IInv'
<1> SUFFICES ASSUME IInv, [Next]_vars PROVE IInv'
  OBVIOUS
<1>1. CASE BootStep
  BY <1>1, SetupIInv, CreateIInv, BootDoneIInv DEF BootStep
<1>2. CASE PitTick BY <1>2, PitIInv
<1>3. CASE ClockInterrupt BY <1>3, ClockIInv
<1>4. CASE ThreadStep
  BY <1>4, ThreadLocalIInv, YieldIInv DEF ThreadStep
<1>5. CASE UNCHANGED vars
  BY <1>5 DEF IInv, TypeOK, OneRunning, SliceBounded, NeverSpins, Preemptible,
              TableFilled, At, vars, cpu, pic, pcb
<1> QED BY <1>1, <1>2, <1>3, <1>4, <1>5 DEF Next

-----------------------------------------------------------------------------
(* The theorems.                                                           *)

(* The inductive invariant holds for every instance of the scheduler.      *)
THEOREM InvariantHolds == Spec => []IInv
<1>1. Init => IInv BY InitIInv
<1>2. IInv /\ [Next]_vars => IInv' BY StepIInv
<1> QED BY <1>1, <1>2, PTL DEF Spec

(* Every PCB field keeps its type; unsigned arithmetic stays in its word.  *)
THEOREM TypeCorrect == Spec => []TypeOK
<1>1. IInv => TypeOK BY DEF IInv
<1> QED BY <1>1, InvariantHolds, PTL

(* A task is marked RUNNING exactly while it is on the processor.          *)
THEOREM ExactlyOneRunning == Spec => []OneRunning
<1>1. IInv => OneRunning BY DEF IInv
<1> QED BY <1>1, InvariantHolds, PTL

(* No time slice underflows or outgrows the priority of its task.          *)
THEOREM SlicesStayBounded == Spec => []SliceBounded
<1>1. IInv => SliceBounded BY DEF IInv
<1> QED BY <1>1, InvariantHolds, PTL

(* With at least two threads, and a slot for each, the scheduler never     *)
(* fails an assertion.                                                     *)
THEOREM SchedulerNeverSpins == Spec => []NeverSpins
<1>1. IInv => NeverSpins BY DEF IInv
<1> QED BY <1>1, InvariantHolds, PTL

(* The timer can preempt every thread between any two of its steps.        *)
THEOREM AlwaysPreemptible == Spec => []Preemptible
<1>1. IInv => Preemptible BY DEF IInv
<1> QED BY <1>1, InvariantHolds, PTL

-----------------------------------------------------------------------------
(* The refinement of the policy.                                           *)

(* What the PCBs remember while jiffies has not wrapped: no stamp is from  *)
(* the future, a created task keeps the priority it was given, the boot    *)
(* page has the one tick task_init gave it, and a thread is at its yield   *)
(* only if its loop has one.                                               *)
History ==
  /\ jiffies <= TickHorizon
  /\ \A c \in Context : stamp[c] <= jiffies
  /\ \A t \in Thread : t <= created => prio[t] = Priority[t]
  /\ cur = Boot /\ pc[Boot] # "setup" => ticks[Boot] = 1
  /\ \A s \in Slot : pc[s] = "yield" => s \in Yielding

(* Enough threads for the scheduler to run, and no more than fit.          *)
Populated == NumThreads \in 2 .. NumSlots

(* The scan of the policy obeys its own equation too.                      *)
LEMMA OrderUnfolds ==
  ASSUME NEW tk, NEW order, NEW me
  PROVE  \E task :
           /\ \A i \in 0 .. NumThreads :
                task[i] = IF i = 0 THEN Null
                          ELSE IF i # me /\ Order!Preferred(i, task[i - 1], tk, order)
                               THEN i ELSE task[i - 1]
           /\ Order!Search(tk, order, me) = task[NumThreads]
<1> DEFINE Better(i, held) == Order!Preferred(i, held, tk, order)
           Step(held, i) == IF i # me /\ Better(i, held) THEN i ELSE held
           UpTo(g, n) == g = [i \in 0 .. n |-> IF i = 0 THEN Null ELSE Step(g[i - 1], i)]
           Exists == {n \in Nat : \E g : UpTo(g, n)}
<1>1. Nat \subseteq Exists
  <2>1. 0 \in Exists
    <3> DEFINE g == [i \in 0 .. 0 |-> Null]
    <3>1. UpTo(g, 0) OBVIOUS
    <3> QED BY <3>1
  <2>2. ASSUME NEW n \in Nat, n \in Exists PROVE n + 1 \in Exists
    <3>1. PICK g : UpTo(g, n) BY <2>2
    <3> HIDE DEF Step
    <3> DEFINE h == [i \in 0 .. (n + 1) |-> IF i = n + 1 THEN Step(g[n], i) ELSE g[i]]
    <3>2. ASSUME NEW i \in 0 .. (n + 1)
          PROVE  h[i] = IF i = 0 THEN Null ELSE Step(h[i - 1], i)
      <4>1. CASE i = n + 1 BY <4>1
      <4>2. CASE i # n + 1
        <5>1. i \in 0 .. n BY <4>2
        <5>2. h[i] = g[i] BY <4>2
        <5>3. g[i] = IF i = 0 THEN Null ELSE Step(g[i - 1], i) BY <3>1, <5>1
        <5>4. i # 0 => h[i - 1] = g[i - 1] BY <5>1
        <5> QED BY <5>2, <5>3, <5>4
      <4> QED BY <4>1, <4>2
    <3>3. UpTo(h, n + 1) BY <3>2
    <3> HIDE DEF h, UpTo
    <3> QED BY <3>3
  <2> HIDE DEF Exists
  <2> QED BY <2>1, <2>2, SetInduction
<1>2. PICK g : UpTo(g, NumThreads)
  BY <1>1, CountsAssumption
<1> DEFINE task == CHOOSE f : UpTo(f, NumThreads)
<1>3. UpTo(task, NumThreads) BY <1>2
<1>4. Order!Search(tk, order, me) = task[NumThreads]
  BY DEF Order!Search, Order!Null, Null
<1> HIDE DEF task
<1> QED BY <1>3, <1>4

(* Once every thread exists the machine and the policy find the same one.  *)
LEMMA SearchAgrees ==
  ASSUME Populated, NEW st, NEW me, NEW other, NEW tk, NEW sp, NEW slices, NEW order,
         Candidate(st, me) = Thread \ {other},
         \A t \in Thread : slices[t] = tk[t],
         \A p, q \in Thread : <<p, q>> \in order <=> sp[p] < sp[q]
  PROVE  TaskSearchInTable(st, tk, sp, me) = Order!Search(slices, order, other)
<1> USE CountsAssumption DEF Populated
<1> DEFINE C == Candidate(st, me)
<1>1. PICK task : /\ Scan(task, st, tk, sp, me)
                  /\ TaskSearchInTable(st, tk, sp, me) = task[NumSlots]
  BY SearchUnfolds
<1>2. PICK turn :
        /\ \A i \in 0 .. NumThreads :
             turn[i] = IF i = 0 THEN Null
                       ELSE IF i # other /\ Order!Preferred(i, turn[i - 1], slices, order)
                            THEN i ELSE turn[i - 1]
        /\ Order!Search(slices, order, other) = turn[NumThreads]
  BY OrderUnfolds
<1>3. \A n \in 0 .. NumSlots : task[n] \in C \cup {Null}
  BY <1>1, ScanHolds
<1> DEFINE Upper(n) == IF n <= NumThreads THEN n ELSE NumThreads
           Good == {n \in Nat : n <= NumSlots => task[n] = turn[Upper(n)]}
<1>4. 0 \in Good BY <1>1, <1>2 DEF Scan
<1>5. ASSUME NEW n \in Nat, n \in Good, n + 1 <= NumSlots
      PROVE  task[n + 1] = turn[Upper(n + 1)]
  <2>1. task[n + 1] = IF n + 1 \in C /\ Preferred(n + 1, task[n], tk, sp)
                      THEN n + 1 ELSE task[n]
    BY <1>1, <1>5 DEF Scan
  <2>2. task[n] = turn[Upper(n)] BY <1>5
  <2>3. CASE n + 1 \in Thread
    <3>1. turn[n + 1] = IF n + 1 # other /\ Order!Preferred(n + 1, turn[n], slices, order)
                        THEN n + 1 ELSE turn[n]
      BY <1>2, <2>3 DEF Thread
    <3>2. turn[n] = task[n] /\ Upper(n + 1) = n + 1 BY <2>2, <2>3 DEF Thread
    <3>3. task[n] \in Thread \cup {Null} BY <1>3, <1>5
    <3>4. Order!Preferred(n + 1, task[n], slices, order) <=> Preferred(n + 1, task[n], tk, sp)
      <4>1. CASE task[n] = Null
        BY <4>1 DEF Order!Preferred, Preferred, Order!Null, Null
      <4>2. CASE task[n] \in Thread
        BY <4>2, <2>3 DEF Order!Preferred, Preferred, Order!Null, Null
      <4> QED BY <3>3, <4>1, <4>2
    <3>5. n + 1 \in C <=> n + 1 # other BY <2>3
    <3> HIDE DEF C
    <3> QED BY <2>1, <3>1, <3>2, <3>4, <3>5
  <2>4. CASE n + 1 \notin Thread
    <3>1. Upper(n + 1) = Upper(n) BY <2>4 DEF Thread
    <3>2. n + 1 \notin C BY <2>4
    <3> HIDE DEF C
    <3> QED BY <2>1, <2>2, <3>1, <3>2
  <2> QED BY <2>3, <2>4
<1>6. Nat \subseteq Good
  <2>1. \A n \in Nat : n \in Good => n + 1 \in Good BY <1>5
  <2> HIDE DEF Good
  <2> QED BY <1>4, <2>1, SetInduction
<1>7. task[NumSlots] = turn[NumThreads]
  <2>1. NumSlots \in Good BY <1>6
  <2>2. Upper(NumSlots) = NumThreads OBVIOUS
  <2> QED BY <2>1, <2>2
<1> QED BY <1>1, <1>2, <1>7

(* schedule() that does not end in an assertion hands the processor to     *)
(* the task it found.                                                      *)
LEMMA ScheduleSwitches ==
  ASSUME IInv, ~halted', NEW tk, NEW sp, Schedule(tk, sp)
  PROVE  /\ cur' = TaskSearchInTable(state, tk, sp, cur) /\ cur' \in Slot
         /\ state' = Handover(cur') /\ ticks' = Refilled(tk)
<1> DEFINE next == TaskSearchInTable(state, tk, sp, cur)
<1>1. ~(next = Null \/ next \notin magic) BY DEF Schedule, Spin
<1>2. next \in Slot BY <1>1, SearchResult DEF Candidate
<1> HIDE DEF next
<1>3. state' = Handover(next) /\ ticks' = Refilled(tk) /\ cur' = next
  BY <1>1 DEF Schedule, TaskSwitch, next
<1> QED BY <1>2, <1>3 DEF next

(* What a clock interrupt does when the magic of the current task is good, *)
(* as it always is.                                                        *)
LEMMA ClockEffect ==
  ASSUME IInv, ClockInterrupt
  PROVE  LET sp == [stamp EXCEPT ![cur] = Advanced(jiffies)]
             tk == [ticks EXCEPT ![cur] = Spent(@)]
         IN  /\ created = NumThreads /\ (cur = Boot => pc[Boot] = "idle")
             /\ stamp' = sp /\ jiffies' = Advanced(jiffies) /\ jiffies < TickHorizon
             /\ UNCHANGED <<prio, pc, created>>
             /\ IF tk[cur] = 0 THEN Schedule(tk, sp)
                               ELSE ticks' = tk /\ UNCHANGED <<cur, state>>
<1> USE CountsAssumption DEF IInv, TypeOK
<1>1. ifl /\ ~halted /\ pc[cur] \in {"idle", "format", "write", "yield"}
  BY DEF ClockInterrupt, Preemptible
<1>2. cur \in magic /\ created = NumThreads /\ (cur = Boot => pc[Boot] = "idle")
  <2>1. Boot \notin Slot BY DEF Boot, Slot
  <2>2. CASE cur = Boot BY <2>2, <1>1 DEF TableFilled
  <2>3. CASE cur \in Slot BY <2>1, <2>3 DEF OneRunning, TableFilled
  <2> QED BY <2>2, <2>3 DEF Context
<1> QED BY <1>2 DEF ClockInterrupt, cpu

(* Below the horizon the tick counter does not wrap.                       *)
LEMMA NoWrap ==
  ASSUME TickHorizon < Word, NEW n \in Nat, n < TickHorizon
  PROVE  Advanced(n) = n + 1
<1>1. n + 1 \in 0 .. (Word - 1) BY WordAssumption, HorizonAssumption
<1>2. \A m \in 0 .. (Word - 1) : m % Word = m BY WordAssumption
<1> QED BY <1>1, <1>2 DEF Advanced

LEMMA InitHistory == Init => History
<1> SUFFICES ASSUME Init PROVE History
  OBVIOUS
<1> USE CountsAssumption, HorizonAssumption DEF Init
<1>1. \A t \in Thread : ~ (t <= created) BY DEF Thread
<1>2. \A s \in Slot : pc[s] = "start" BY DEF Slot, Context, Boot
<1>3. \A c \in Context : stamp[c] <= jiffies OBVIOUS
<1>4. pc[Boot] = "setup" BY DEF Context
<1> QED BY <1>1, <1>2, <1>3, <1>4 DEF History

LEMMA StepHistory ==
  ASSUME TickHorizon < Word, Populated, IInv, IInv', History, [Next]_vars
  PROVE  History'
<1> USE CountsAssumption, WordAssumption, HorizonAssumption DEF Populated
<1>t. TypeOK /\ TableFilled BY DEF IInv
<1>0. Boot \notin Slot /\ Boot \in Context /\ Thread \subseteq Slot
  BY DEF Boot, Slot, Context, Thread
<1>n. ~halted' BY DEF IInv, NeverSpins
<1>1. CASE TaskTableSetup
  BY <1>t, <1>0, <1>1 DEF TypeOK, TaskTableSetup, History, cpu, pic, Context
<1>2. CASE TaskCreate
  <2>1. cur' = cur /\ jiffies' = jiffies /\ pc[Boot] = "create"
    BY <1>2 DEF TaskCreate, Spin
  <2>2. FreeSlot # {} BY <1>2, <1>n DEF TaskCreate, Spin
  <2>3. GetFreeTask = created + 1 /\ created + 1 \in Slot
    BY <1>t, <2>2, FirstFreeSlot
  <2>4. /\ prio' = [prio EXCEPT ![created + 1] = Priority[created + 1]]
        /\ ticks' = [ticks EXCEPT ![created + 1] = Priority[created + 1]]
        /\ stamp' = [stamp EXCEPT ![created + 1] = 0]
        /\ pc' = [pc EXCEPT ![created + 1] = "start"]
        /\ created' = created + 1
    BY <1>2, <2>2, <2>3 DEF TaskCreate
  <2>5. \A c \in Context : stamp'[c] <= jiffies'
    BY <1>t, <2>1, <2>4 DEF History, TypeOK
  <2>6. \A t \in Thread : t <= created' => prio'[t] = Priority[t]
    <3> SUFFICES ASSUME NEW t \in Thread, t <= created + 1
                 PROVE  prio'[t] = Priority[t]
      BY <2>4
    <3>1. CASE t = created + 1 BY <1>t, <3>1, <2>3, <2>4 DEF Context, TypeOK
    <3>2. CASE t # created + 1
      <4>1. t <= created BY <1>t, <3>2 DEF TypeOK, Thread
      <4> QED BY <1>t, <4>1, <3>2, <2>4, <1>0 DEF History, Context, TypeOK
    <3> QED BY <3>1, <3>2
  <2>7. ticks'[Boot] = ticks[Boot] BY <1>t, <2>3, <2>4, <1>0 DEF TypeOK
  <2>8. \A s \in Slot : pc'[s] = "yield" => s \in Yielding
    BY <1>t, <2>3, <2>4 DEF History, Context, TypeOK
  <2>9. pc'[Boot] = pc[Boot] BY <1>t, <2>3, <2>4, <1>0 DEF TypeOK
  <2> QED BY <2>1, <2>5, <2>6, <2>7, <2>8, <2>9 DEF History
<1>3. CASE KernelInitDone
  BY <1>t, <1>0, <1>3 DEF KernelInitDone, History, pcb, Context, TypeOK
<1>4. CASE PitTick
  BY <1>4 DEF PitTick, History, cpu, pcb
<1>5. CASE ClockInterrupt
  <2> DEFINE sp == [stamp EXCEPT ![cur] = Advanced(jiffies)]
             tk == [ticks EXCEPT ![cur] = Spent(@)]
  <2>1. /\ created = NumThreads /\ (cur = Boot => pc[Boot] = "idle")
        /\ stamp' = sp /\ jiffies' = Advanced(jiffies) /\ jiffies < TickHorizon
        /\ UNCHANGED <<prio, pc, created>>
        /\ IF tk[cur] = 0 THEN Schedule(tk, sp)
                          ELSE ticks' = tk /\ UNCHANGED <<cur, state>>
    BY <1>5, ClockEffect
  <2>2. jiffies' = jiffies + 1 BY <1>t, <2>1, NoWrap DEF TypeOK
  <2>3. \A c \in Context : stamp'[c] <= jiffies'
    BY <1>t, <2>1, <2>2 DEF History, TypeOK
  <2>4. cur' # Boot
    <3>1. CASE cur = Boot
      <4>1. ticks[Boot] = 1 BY <2>1, <3>1 DEF History
      <4>2. tk[cur] = 0 BY <1>t, <1>0, <3>1, <4>1 DEF Spent, TypeOK
      <4> HIDE DEF sp, tk
      <4> QED BY <2>1, <4>2, <1>0, <1>n, ScheduleSwitches
    <3>2. CASE cur # Boot
      <4> HIDE DEF sp, tk
      <4> QED BY <2>1, <3>2, <1>0, <1>n, ScheduleSwitches
    <3> QED BY <3>1, <3>2
  <2> HIDE DEF sp, tk
  <2> QED BY <1>t, <2>1, <2>2, <2>3, <2>4 DEF History, TypeOK
<1>6. CASE ThreadStart \/ Vsprintf \/ ConsoleWrite
  <2>1. /\ cur \in Slot /\ cur # Boot
        /\ UNCHANGED <<cur, jiffies, stamp, prio, ticks, created>>
    BY <1>0, <1>6 DEF ThreadStart, Vsprintf, ConsoleWrite, At, cpu, pcb
  <2>2. \E label \in {"format", "write", "yield"} :
          pc' = [pc EXCEPT ![cur] = label] /\ (label = "yield" => cur \in Yielding)
    BY <1>6 DEF ThreadStart, Vsprintf, ConsoleWrite
  <2> QED BY <1>t, <2>1, <2>2 DEF History, TypeOK
<1>7. CASE SyscallYield
  <2>1. /\ pc' = [pc EXCEPT ![cur] = "format"] /\ Schedule(ticks, stamp)
        /\ UNCHANGED <<stamp, prio, created, jiffies>>
    BY <1>7 DEF SyscallYield
  <2>2. cur' # Boot BY <2>1, <1>0, <1>n, ScheduleSwitches
  <2> QED BY <1>t, <2>1, <2>2 DEF History, TypeOK
<1>8. CASE UNCHANGED vars
  BY <1>8 DEF History, vars, cpu, pcb
<1> QED BY <1>1, <1>2, <1>3, <1>4, <1>5, <1>6, <1>7, <1>8
    DEF Next, BootStep, ThreadStep

(* Where the machine is, as the policy sees it.                            *)
OnCpu == IF cur = Boot THEN NumThreads + 1 ELSE cur

(* A dispatch by the machine is a switch of the policy.                    *)
LEMMA SwitchRefines ==
  ASSUME Populated, IInv, ~halted', created = NumThreads,
         NEW tk \in [Context -> Nat], NEW sp, Schedule(tk, sp),
         \A s \in Slot \ {cur} : tk[s] = ticks[s],
         prio' = prio, \A t \in Thread : prio[t] = Priority[t],
         NEW slices, slices = [t \in Thread |-> tk[t]],
         NEW order, \A p, q \in Thread : <<p, q>> \in order <=> sp[p] < sp[q]
  PROVE  /\ OnCpu' = Order!Search(slices, order, OnCpu) /\ OnCpu' # Null
         /\ SliceLeft' = Order!Refilled(slices)
<1> USE CountsAssumption DEF Populated, IInv, TypeOK
<1>0. Boot \notin Slot /\ Boot \in Context /\ Thread \subseteq Slot /\ Slot \subseteq Context
  BY DEF Boot, Slot, Context, Thread
<1>1. /\ cur' = TaskSearchInTable(state, tk, sp, cur) /\ cur' \in Slot
      /\ state' = Handover(cur') /\ ticks' = Refilled(tk)
  BY ScheduleSwitches
<1>2. Candidate(state, cur) = Thread \ {OnCpu}
  <2>1. \A s \in Slot : s \in Thread <=> state[s] # "null"
    BY DEF TableFilled, Slot, Thread
  <2>2. \A s \in Slot \ {cur} : state[s] # "null" => state[s] = "ready"
    BY <1>0 DEF OneRunning
  <2>3. \A s \in Thread : s = OnCpu <=> s = cur
    <3>1. CASE cur = Boot BY <1>0, <3>1 DEF OnCpu, Thread
    <3>2. CASE cur # Boot BY <3>2 DEF OnCpu
    <3> QED BY <3>1, <3>2
  <2> QED BY <1>0, <2>1, <2>2, <2>3 DEF Candidate
<1>3. cur' = Order!Search(slices, order, OnCpu)
  BY <1>1, <1>2, SearchAgrees
<1>4. OnCpu' = cur' /\ cur' # Null BY <1>0, <1>1 DEF OnCpu, Slot, Null
<1>5. SliceLeft' = Order!Refilled(slices)
  <2>1. \A t \in Thread : state'[t] # "null"
    <3> SUFFICES ASSUME NEW t \in Thread PROVE state'[t] # "null"
      OBVIOUS
    <3>1. state[t] # "null" BY <1>0 DEF TableFilled, Thread
    <3> QED BY <1>0, <1>1, <3>1 DEF Handover
  <2>2. \A t \in Thread : ticks'[t] = IF tk[t] = 0 THEN Priority[t] ELSE tk[t]
    <3> SUFFICES ASSUME NEW t \in Thread
                 PROVE  ticks'[t] = IF tk[t] = 0 THEN Priority[t] ELSE tk[t]
      OBVIOUS
    <3>1. CASE t = cur BY <1>0, <1>1, <3>1 DEF Refilled
    <3>2. CASE t # cur
      <4>1. tk[t] = ticks[t] /\ state[t] # "null" /\ prio[t] > 0
        BY <1>0, <3>2 DEF TableFilled, Thread
      <4>2. ~halted BY DEF NeverSpins
      <4>3. tk[t] # 0 BY <1>0, <4>1, <4>2 DEF SliceBounded
      <4> QED BY <1>0, <1>1, <3>2, <4>3 DEF Refilled
    <3> QED BY <3>1, <3>2
  <2>3. SliceLeft' = [t \in Thread |-> ticks'[t]]
    BY <2>1 DEF SliceLeft
  <2> QED BY <2>2, <2>3 DEF Order!Refilled, Order!Thread, Thread
<1> QED BY <1>3, <1>4, <1>5

(* While the threads run, the policy's slices are those of the PCBs.       *)
LEMMA SliceOfPcb ==
  ASSUME Populated, IInv, created = NumThreads
  PROVE  /\ SliceLeft = [t \in Thread |-> ticks[t]]
         /\ \A t \in Thread : state[t] # "null"
<1>1. \A t \in Thread : state[t] # "null"
  BY CountsAssumption DEF Populated, IInv, TableFilled, Thread, Slot
<1> QED BY <1>1 DEF SliceLeft

LEMMA InitRefines ==
  ASSUME Populated, Init
  PROVE  Order!Init
<1>0. Thread = Order!Thread BY DEF Thread, Order!Thread
<1>i. \A t \in Thread : stamp[t] = 0 /\ state[t] = "null"
  BY CountsAssumption DEF Populated, Init, Thread, Slot, Context, Boot
<1>1. OlderStamps = {}
  BY <1>i DEF OlderStamps
<1>2. SliceLeft = Priority
  <2>1. SliceLeft = [t \in Thread |-> Priority[t]] BY <1>i DEF SliceLeft
  <2> QED BY <2>1, PriorityAssumption
<1> QED BY <1>0, <1>1, <1>2 DEF Init, Order!Init, Order!Boot

(* A clock interrupt is a tick of the policy, the first one its departure  *)
(* from the boot context.                                                  *)
LEMMA ClockRefines ==
  ASSUME TickHorizon < Word, Populated, IInv, IInv', History, ClockInterrupt
  PROVE  Order!Next
<1> USE CountsAssumption, WordAssumption, HorizonAssumption
<1>0. Boot \notin Slot /\ Boot \in Context /\ Thread \subseteq Slot /\ Slot \subseteq Context
      /\ Thread = Order!Thread /\ Slot \subseteq Nat
  BY DEF Populated, Boot, Slot, Context, Thread, Order!Thread
<1>t. TypeOK /\ ~halted' BY DEF IInv, NeverSpins, Populated
<1> DEFINE sp == [stamp EXCEPT ![cur] = Advanced(jiffies)]
           tk == [ticks EXCEPT ![cur] = Spent(@)]
<1>1. /\ created = NumThreads /\ (cur = Boot => pc[Boot] = "idle")
      /\ stamp' = sp /\ jiffies' = Advanced(jiffies) /\ jiffies < TickHorizon
      /\ UNCHANGED <<prio, pc, created>>
      /\ IF tk[cur] = 0 THEN Schedule(tk, sp)
                        ELSE ticks' = tk /\ UNCHANGED <<cur, state>>
  BY ClockEffect
<1>2. Advanced(jiffies) = jiffies + 1 BY <1>t, <1>1, NoWrap DEF TypeOK
<1>3. tk \in [Context -> Nat] /\ \A s \in Slot \ {cur} : tk[s] = ticks[s]
  <2>1. \A n \in Nat : Spent(n) \in Nat BY DEF Spent
  <2> QED BY <1>0, <1>t, <2>1 DEF TypeOK
<1>4. \A t \in Thread : prio[t] = Priority[t]
  BY <1>1 DEF History, Thread
<1>5. \A p, q \in Thread : <<p, q>> \in OlderStamps' <=> sp[p] < sp[q]
  BY <1>1 DEF OlderStamps
<1>6. /\ SliceLeft = [t \in Thread |-> ticks[t]]
      /\ \A t \in Thread : state[t] # "null"
  BY <1>1, SliceOfPcb
<1>7. UNCHANGED (Yielding \cap Thread) OBVIOUS
<1>8. PICK now : now = OlderStamps' OBVIOUS
<1>9. CASE cur = Boot
  <2>1. tk[cur] = 0
    <3>1. ticks[Boot] = 1 BY <1>1, <1>9 DEF History
    <3> QED BY <1>t, <1>0, <1>9, <3>1 DEF Spent, TypeOK
  <2>2. OlderStamps' = OlderStamps
    <3>1. \A t \in Thread : sp[t] = stamp[t] BY <1>0, <1>t, <1>9 DEF TypeOK
    <3> HIDE DEF sp
    <3> QED BY <1>1, <3>1 DEF OlderStamps
  <2>3. SliceLeft = [t \in Thread |-> tk[t]]
    BY <1>0, <1>3, <1>6, <1>9
  <2> HIDE DEF sp, tk
  <2>4. \A p, q \in Thread : <<p, q>> \in OlderStamps <=> sp[p] < sp[q]
    BY <1>5, <2>2
  <2>5. /\ OnCpu' = Order!Search(SliceLeft, OlderStamps, OnCpu) /\ OnCpu' # Null
        /\ SliceLeft' = Order!Refilled(SliceLeft)
    BY <1>t, <1>1, <1>3, <1>4, <2>1, <2>3, <2>4, SwitchRefines
  <2>6. OnCpu = Order!Boot BY <1>9 DEF OnCpu, Order!Boot
  <2> QED BY <1>7, <2>2, <2>5, <2>6
        DEF Order!Next, Order!LeaveBoot, Order!Switch, Order!Null, Null, OnCpu
<1>10. CASE cur # Boot
  <2>1. cur \in Thread /\ OnCpu = cur /\ OnCpu # Order!Boot
    <3>1. cur \in Slot BY <1>10, <1>t DEF TypeOK, Context
    <3>2. cur <= created BY <3>1 DEF IInv, OneRunning, TableFilled
    <3> QED BY <1>1, <1>10, <3>1, <3>2 DEF OnCpu, Thread, Slot, Order!Boot
  <2>2. Spent(ticks[cur]) = ticks[cur] - 1
    <3>1. ticks[cur] \in 1 .. (Word - 1)
      <4>1. state[cur] # "null" BY <1>0, <2>1 DEF IInv, OneRunning
      <4>2. ~halted BY DEF IInv, NeverSpins, Populated
      <4>3. ticks[cur] \in 1 .. prio[cur]
        BY <1>0, <2>1, <4>1, <4>2 DEF IInv, SliceBounded
      <4> QED BY <1>0, <1>t, <2>1, <4>3 DEF TypeOK
    <3>2. \A x \in 1 .. (Word - 1) : (x + Word - 1) % Word = x - 1
      OBVIOUS
    <3> QED BY <3>1, <3>2 DEF Spent
  <2> DEFINE less == [SliceLeft EXCEPT ![cur] = @ - 1]
  <2>3. less = [t \in Thread |-> tk[t]]
    <3>1. tk = [ticks EXCEPT ![cur] = ticks[cur] - 1]
      BY <2>2
    <3> QED BY <1>0, <1>t, <1>6, <2>1, <3>1 DEF TypeOK
  <2>4. OlderStamps' = Order!Stamped(OlderStamps, cur)
    <3>1. \A t \in Thread : sp[t] = IF t = cur THEN jiffies + 1 ELSE stamp[t]
      BY <1>0, <1>2, <1>t DEF TypeOK
    <3>2. \A t \in Thread : stamp[t] \in Nat /\ stamp[t] < jiffies + 1
      BY <1>0, <1>t DEF History, TypeOK
    <3>3. OlderStamps' = {p \in Thread \X Thread : sp[p[1]] < sp[p[2]]}
      BY <1>1 DEF OlderStamps
    <3> HIDE DEF sp
    <3>4. ASSUME NEW p \in Thread, NEW q \in Thread
          PROVE  <<p, q>> \in OlderStamps' <=> <<p, q>> \in Order!Stamped(OlderStamps, cur)
      <4>1. <<p, q>> \in OlderStamps' <=> sp[p] < sp[q] BY <3>3
      <4>2. <<p, q>> \in OlderStamps <=> stamp[p] < stamp[q] BY DEF OlderStamps
      <4>3. <<p, q>> \in Order!Stamped(OlderStamps, cur)
              <=> \/ <<p, q>> \in OlderStamps /\ cur # p /\ cur # q
                  \/ q = cur /\ p # cur
        BY <1>0 DEF Order!Stamped
      <4>4. jiffies \in Nat BY <1>t DEF TypeOK
      <4> QED BY <2>1, <3>1, <3>2, <4>1, <4>2, <4>3, <4>4
    <3>5. OlderStamps' \subseteq Thread \X Thread BY <3>3
    <3>6. Order!Stamped(OlderStamps, cur) \subseteq Thread \X Thread
      BY <1>0, <2>1 DEF OlderStamps, Order!Stamped
    <3> QED BY <3>4, <3>5, <3>6
  <2>5. less[cur] = tk[cur] BY <2>1, <2>3
  <2>6. IF less[cur] = 0
        THEN /\ OnCpu' = Order!Search(less, OlderStamps', OnCpu) /\ OnCpu' # Null
             /\ SliceLeft' = Order!Refilled(less)
        ELSE SliceLeft' = less /\ UNCHANGED OnCpu
    <3> HIDE DEF sp, less
    <3>1. CASE tk[cur] = 0
      <4> HIDE DEF tk
      <4>1. /\ OnCpu' = Order!Search(less, now, OnCpu) /\ OnCpu' # Null
            /\ SliceLeft' = Order!Refilled(less)
        BY <1>t, <1>1, <1>3, <1>4, <1>5, <1>8, <2>3, <3>1, SwitchRefines
      <4> QED BY <1>8, <2>5, <3>1, <4>1
    <3>2. CASE tk[cur] # 0
      <4>1. ticks' = tk /\ UNCHANGED <<cur, state>> /\ created' = NumThreads
        BY <1>1, <3>2
      <4>2. SliceLeft' = [t \in Thread |-> ticks'[t]] BY <1>6, <4>1 DEF SliceLeft
      <4> QED BY <2>3, <2>5, <3>2, <4>1, <4>2 DEF OnCpu
    <3> QED BY <3>1, <3>2
  <2> HIDE DEF sp, tk
  <2>7. OlderStamps' = Order!Stamped(OlderStamps, OnCpu) BY <2>1, <2>4
  <2>8. less = [SliceLeft EXCEPT ![OnCpu] = @ - 1] /\ less[OnCpu] = less[cur]
    BY <2>1
  <2> HIDE DEF less
  <2> QED BY <1>7, <2>1, <2>6, <2>7, <2>8
        DEF Order!Next, Order!Tick, Order!Switch, Order!Null, Null, OnCpu
<1> QED BY <1>9, <1>10

(* A yield that enters the kernel is a yield of the policy.                *)
LEMMA YieldRefines ==
  ASSUME Populated, IInv, IInv', History, SyscallYield
  PROVE  Order!Next
<1> USE CountsAssumption
<1>0. Boot \notin Slot /\ Boot \in Context /\ Thread \subseteq Slot /\ Slot \subseteq Context
  BY DEF Populated, Boot, Slot, Context, Thread
<1>t. TypeOK /\ ~halted' BY DEF IInv, NeverSpins, Populated
<1>1. /\ cur \in Slot /\ pc[cur] = "yield" /\ Schedule(ticks, stamp)
      /\ UNCHANGED <<stamp, prio, created>>
  BY DEF SyscallYield, At
<1>2. created = NumThreads /\ cur <= created
  BY <1>0, <1>1 DEF IInv, OneRunning, TableFilled
<1>3. cur \in Thread /\ OnCpu = cur /\ cur \in Yielding
  BY <1>0, <1>1, <1>2 DEF OnCpu, Thread, Slot, History
<1>4. SliceLeft = [t \in Thread |-> ticks[t]] BY <1>2, SliceOfPcb
<1>5. ticks \in [Context -> Nat] BY <1>t, WordAssumption DEF TypeOK
<1>6. \A t \in Thread : prio[t] = Priority[t] BY <1>2 DEF History, Thread
<1>7. \A p, q \in Thread : <<p, q>> \in OlderStamps <=> stamp[p] < stamp[q]
  BY DEF OlderStamps
<1>8. /\ OnCpu' = Order!Search(SliceLeft, OlderStamps, OnCpu) /\ OnCpu' # Null
      /\ SliceLeft' = Order!Refilled(SliceLeft)
  BY <1>t, <1>1, <1>2, <1>4, <1>5, <1>6, <1>7, SwitchRefines
<1>9. OlderStamps' = OlderStamps BY <1>1 DEF OlderStamps
<1>10. UNCHANGED (Yielding \cap Thread) OBVIOUS
<1> QED BY <1>3, <1>8, <1>9, <1>10
      DEF Order!Next, Order!Yield, Order!Switch, Order!Null, Null, OnCpu

(* Everything else leaves the policy's state alone: a thread that is       *)
(* created had its whole slice before it already.                          *)
LEMMA OthersRefine ==
  ASSUME Populated, IInv, IInv', History, [Next]_vars,
         ~ ClockInterrupt, ~ SyscallYield
  PROVE  UNCHANGED Order!vars
<1> USE CountsAssumption
<1>0. Boot \notin Slot /\ Boot \in Context /\ Thread \subseteq Slot /\ Slot \subseteq Context
  BY DEF Populated, Boot, Slot, Context, Thread
<1>t. TypeOK /\ TableFilled /\ ~halted' BY DEF IInv, NeverSpins, Populated
<1>s. SUFFICES UNCHANGED <<cur, SliceLeft, OlderStamps>>
  BY DEF Order!vars
<1>1. CASE TaskTableSetup
  <2>1. /\ cur' = cur /\ stamp' = stamp /\ created = 0
        /\ \A s \in Slot : state'[s] = "null"
    BY <1>0, <1>1, <1>t DEF TaskTableSetup, cpu, TableFilled
  <2>2. \A s \in Slot : state[s] = "null"
    BY <1>t, <2>1 DEF TableFilled, Slot
  <2> QED BY <1>0, <2>1, <2>2 DEF SliceLeft, OlderStamps
<1>2. CASE TaskCreate
  <2>1. FreeSlot # {} BY <1>2, <1>t DEF TaskCreate, Spin
  <2>2. GetFreeTask = created + 1 /\ created + 1 \in Slot
    BY <1>t, <2>1, FirstFreeSlot
  <2>3. /\ ticks' = [ticks EXCEPT ![created + 1] = Priority[created + 1]]
        /\ stamp' = [stamp EXCEPT ![created + 1] = 0]
        /\ state' = [state EXCEPT ![created + 1] = "ready"]
        /\ cur' = cur /\ pc[Boot] = "create"
    BY <1>2, <2>1, <2>2 DEF TaskCreate
  <2>4. stamp[created + 1] = 0 /\ state[created + 1] = "null"
    BY <1>t, <2>2, <2>3 DEF TableFilled, TypeOK
  <2>5. stamp' = stamp BY <1>t, <1>0, <2>2, <2>3, <2>4 DEF TypeOK
  <2>6. \A t \in Thread :
          (IF state'[t] = "null" THEN Priority[t] ELSE ticks'[t])
            = (IF state[t] = "null" THEN Priority[t] ELSE ticks[t])
    BY <1>t, <1>0, <2>2, <2>3, <2>4 DEF TypeOK
  <2> QED BY <2>3, <2>5, <2>6 DEF SliceLeft, OlderStamps
<1>3. CASE KernelInitDone
  BY <1>3 DEF KernelInitDone, SliceLeft, OlderStamps, pcb
<1>4. CASE PitTick
  BY <1>4 DEF PitTick, SliceLeft, OlderStamps, cpu, pcb
<1>5. CASE ThreadStart \/ Vsprintf \/ ConsoleWrite
  BY <1>5 DEF ThreadStart, Vsprintf, ConsoleWrite, SliceLeft, OlderStamps, cpu, pcb
<1>6. CASE UNCHANGED vars
  BY <1>6 DEF vars, SliceLeft, OlderStamps, cpu, pcb
<1> QED BY <1>1, <1>2, <1>3, <1>4, <1>5, <1>6 DEF Next, BootStep, ThreadStep

(* With two threads or more the preemptive machine, whatever the           *)
(* interleaving of its ticks, yields, first entries and prints, carries    *)
(* out the policy of SchedOrder until the uint32_t tick counter wraps.     *)
THEOREM SchedImplementsOrder ==
  ASSUME NumThreads \in 2 .. NumSlots, TickHorizon < Word
  PROVE  Spec => ImplementsOrder
<1>p. Populated BY DEF Populated
<1>1. Init => IInv /\ History BY InitIInv, InitHistory
<1>2. IInv /\ History /\ [Next]_vars => IInv' /\ History'
  BY <1>p, StepIInv, StepHistory
<1>3. Init => Order!Init BY <1>p, InitRefines
<1>4. IInv /\ IInv' /\ History /\ [Next]_vars => [Order!Next]_(Order!vars)
  BY <1>p, ClockRefines, YieldRefines, OthersRefine
<1>5. Spec => [](IInv /\ History) BY <1>1, <1>2, PTL DEF Spec
<1>6. Spec => Order!Spec BY <1>3, <1>4, <1>5, PTL DEF Spec, Order!Spec
<1> QED BY <1>6 DEF ImplementsOrder
=============================================================================
