---------------------------- MODULE PagingProofs ----------------------------
(***************************************************************************)
(* What holds of module Paging for every size of a table, any number of    *)
(* kernel tables and any pages a caller maps.                              *)
(***************************************************************************)
EXTENDS Paging, SequenceTheorems, TLAPS

-----------------------------------------------------------------------------
(* The invariant.                                                          *)

Slot == 0 .. (Entries - 1)
FreeSlot == Len(Tables) .. (Entries - 2)
Remaining == {<<"clear", "present", "index">>, <<"present", "index">>, <<"index">>}

(* page_entry_init on an entry, what it has still to do, and what it has   *)
(* done: the index is written last, into an entry that is present.         *)
Entering(window, slot, index, entry) ==
  \E left \in Remaining :
    /\ call = [window |-> window, slot |-> slot, index |-> index, left |-> left]
    /\ left = <<"index">> => entry.present

PdeCall(s, t) == Entering(GetPde, s, t, mem[DirFrame][s])
PteCall(v, t) == Entering(GetPte(v), IdxTable(v), asked[v], mem[t][IdxTable(v)])

(* An entry of a page whose window may lead to a former table.             *)
StrayCall(v) ==
  \E f \in Nat, left \in Remaining :
    call = [window |-> GetPte(v), slot |-> IdxTable(v), index |-> f, left |-> left]

(* The table of a free slot, also while the slot is being given it.        *)
BeingGiven(s) == ~Idle /\ call.window = GetPde /\ call.slot = s
HasTable(s, t) ==
  t \in SpareTables /\ IF BeingGiven(s) THEN PdeCall(s, t) ELSE mem[DirFrame][s] = To(t)

Typed ==
  /\ paging \in BOOLEAN
  /\ mem \in [TableFrame -> [Slot -> Entry]]
  /\ ~halted

Off == tlb = << >> /\ Idle /\ asked = << >> /\ unflushed = {}

TablesKept ==
  /\ \A i \in Slot : i \notin FreeSlot => mem[DirFrame][i] = Directory(i)
  /\ \A d \in 1 .. Len(Tables), i \in Slot : mem[Tables[d]][i] = Identity(d * Entries - Entries + i)
  /\ \A s \in FreeSlot : mem[DirFrame][s] = Absent \/ BeingGiven(s) \/ \E t \in SpareTables : mem[DirFrame][s] = To(t)

Calling ==
  \/ Idle
  \/ \E s \in FreeSlot, t \in SpareTables : PdeCall(s, t)
  \/ \E v \in Targets \cap DOMAIN asked, t \in SpareTables : PteCall(v, t) /\ HasTable(IdxDir(v), t)
  \/ \E v \in Targets \ DOMAIN asked, t \in SpareTables : StrayCall(v) /\ HasTable(IdxDir(v), t)

(* A page that was given a frame has it in the table of its slot, and its  *)
(* window leads there.                                                     *)
Given(v) ==
  /\ asked[v] \in Data /\ GetPte(v) \notin unflushed
  /\ \E t \in SpareTables :
       HasTable(IdxDir(v), t) /\ (mem[t][IdxTable(v)] = To(asked[v]) \/ PteCall(v, t))

AskedKept ==
  /\ asked = [v \in DOMAIN asked |-> asked[v]]
  /\ KernelPage \ {0} \subseteq DOMAIN asked
  /\ DOMAIN asked \subseteq Targets \cup (KernelPage \ {0})
  /\ \A p \in KernelPage \ {0} : asked[p] = p
  /\ \A v \in Targets \cap DOMAIN asked : Given(v)
  /\ unflushed \subseteq Targets \cup {GetPte(v) : v \in Targets}

(* What may be cached, and what it then is.                                *)
CachedKernel(v) == v \in KernelPage \ {0} /\ tlb[v] = v
CachedDirectory(v) == v = GetPde /\ tlb[v] = DirFrame
CachedWindow(v) ==
  \E w \in Targets : /\ v = GetPte(w) /\ tlb[v] \in SpareTables
                     /\ v \notin unflushed => HasTable(IdxDir(w), tlb[v])
CachedTarget(v) ==
  /\ v \in Targets /\ tlb[v] \in Data
  /\ v \notin unflushed => v \in DOMAIN asked /\ tlb[v] = asked[v]

Cached ==
  \A v \in DOMAIN tlb : \/ CachedKernel(v) \/ CachedDirectory(v)
                        \/ CachedWindow(v) \/ CachedTarget(v)

On == TablesKept /\ Calling /\ AskedKept /\ Cached

PInv == Typed /\ IF paging THEN On ELSE Off

-----------------------------------------------------------------------------
(* Pages are made of a slot and an entry of its table.                     *)

LEMMA Sizes ==
  /\ Entries \in Nat \ {0} /\ Len(Tables) \in Nat /\ Len(Tables) < Entries
  /\ \A d \in 1 .. Len(Tables) : Tables[d] \in Nat
  /\ TableFrame \subseteq Nat /\ Data \subseteq Nat
  /\ DirFrame \in TableFrame /\ SpareTables \subseteq TableFrame /\ DirFrame \notin SpareTables
  /\ \A d \in 1 .. Len(Tables) : Tables[d] \in TableFrame
  /\ Entries - 1 \in Slot /\ Entries - 1 \notin FreeSlot /\ FreeSlot \subseteq Slot
BY FramesAssumption, TablesAssumption, LenProperties, ElementOfSeq
   DEF TableFrame, Frame, Slot, FreeSlot

LEMMA Quotient ==
  ASSUME NEW width \in Nat \ {0}, NEW rows \in Nat, NEW p \in 0 .. (rows * width - 1)
  PROVE  p \div width \in Nat /\ p \div width < rows
OBVIOUS

LEMMA Whole ==
  ASSUME NEW width \in Nat, NEW row \in Nat
  PROVE  (row + 1) * width - width = row * width
OBVIOUS

LEMMA PageSplit ==
  ASSUME NEW p \in Nat
  PROVE  /\ IdxDir(p) \in Nat /\ IdxTable(p) \in Slot
         /\ p = IdxDir(p) * Entries + IdxTable(p)
BY Sizes DEF IdxDir, IdxTable, Slot

LEMMA WindowSplit ==
  ASSUME NEW s \in Slot
  PROVE  IdxDir(Window(s)) = Entries - 1 /\ IdxTable(Window(s)) = s
BY Sizes DEF IdxDir, IdxTable, Slot, Window

LEMMA DirectoryPage ==
  /\ IdxDir(GetPde) = Entries - 1 /\ IdxTable(GetPde) = Entries - 1
  /\ GetPde = Window(Entries - 1)
<1>1. Entries * Entries - 1 = Entries * (Entries - 1) + (Entries - 1) BY Sizes
<1>2. GetPde = Window(Entries - 1) BY <1>1 DEF GetPde, Window
<1> QED BY <1>2, WindowSplit, Sizes

LEMMA KernelSlot ==
  ASSUME NEW p \in KernelPage
  PROVE  /\ p \in Nat /\ IdxDir(p) \in Slot \ FreeSlot /\ IdxDir(p) < Len(Tables)
         /\ IdxTable(p) \in Slot
         /\ (IdxDir(p) + 1) * Entries - Entries + IdxTable(p) = p
<1>1. p \in Nat BY DEF KernelPage
<1>2. IdxDir(p) \in Nat /\ IdxDir(p) < Len(Tables) BY Quotient, Sizes DEF KernelPage, IdxDir
<1>3. (IdxDir(p) + 1) * Entries - Entries = IdxDir(p) * Entries BY <1>2, Whole, Sizes
<1>4. IdxDir(p) \in Slot \ FreeSlot BY <1>2, Sizes DEF Slot, FreeSlot
<1> QED BY <1>1, <1>2, <1>3, <1>4, PageSplit

LEMMA TargetSlot ==
  ASSUME NEW v \in Targets
  PROVE  /\ v \in Nat /\ IdxDir(v) \in FreeSlot /\ IdxTable(v) \in Slot
         /\ IdxDir(GetPte(v)) = Entries - 1 /\ IdxTable(GetPte(v)) = IdxDir(v)
<1>1. v \in Nat /\ Len(Tables) <= IdxDir(v) /\ IdxDir(v) < Entries - 1
  BY PagesAssumption, Sizes DEF Page
<1>2. IdxDir(v) \in FreeSlot BY <1>1, PageSplit, Sizes DEF FreeSlot
<1> QED BY <1>1, <1>2, PageSplit, WindowSplit, Sizes DEF GetPte

(* Kernel pages, targets, the page of the directory and those of the       *)
(* tables of targets are four kinds.                                       *)
LEMMA Kinds ==
  /\ GetPde \notin KernelPage \cup Targets
  /\ KernelPage \cap Targets = {}
  /\ \A w \in Targets : GetPte(w) \notin KernelPage \cup Targets \cup {GetPde}
<1>1. \A p \in KernelPage : IdxDir(p) \in Nat /\ IdxDir(p) < Len(Tables)
  BY KernelSlot, PageSplit
<1>2. IdxDir(GetPde) = Entries - 1 /\ IdxTable(GetPde) = Entries - 1 BY DirectoryPage
<1>3. \A w \in Targets : /\ IdxDir(w) \in FreeSlot
                         /\ IdxDir(GetPte(w)) = Entries - 1 /\ IdxTable(GetPte(w)) \in FreeSlot
  BY TargetSlot
<1>4. \A s \in FreeSlot : s \in Nat /\ ~ (s < Len(Tables)) /\ s # Entries - 1
  BY Sizes DEF FreeSlot
<1>5. ~ (Entries - 1 < Len(Tables)) BY Sizes
<1> QED BY <1>1, <1>2, <1>3, <1>4, <1>5

-----------------------------------------------------------------------------
(* What the tables say.                                                    *)

LEMMA Entering3 ==
  ASSUME NEW window, NEW slot, NEW index, NEW entry, Entering(window, slot, index, entry)
  PROVE  /\ ~Idle /\ call.window = window /\ call.slot = slot /\ call.index = index
         /\ call.left \in Remaining
         /\ call.left = <<"index">> => entry.present
BY DEF Entering, Remaining, Idle, NoCall

LEMMA WalkKernel ==
  ASSUME Typed, TablesKept, NEW p \in KernelPage
  PROVE  Walk(p) = IF p = 0 THEN Fault ELSE p
<1> DEFINE d == IdxDir(p) + 1
<1>1. d \in 1 .. Len(Tables) /\ IdxTable(p) \in Slot /\ IdxDir(p) \in Slot \ FreeSlot
  <2>1. IdxDir(p) \in Nat /\ IdxDir(p) < Len(Tables) BY KernelSlot, PageSplit
  <2> QED BY <2>1, KernelSlot, Sizes
<1>2. mem[DirFrame][IdxDir(p)] = To(Tables[d])
  BY <1>1, KernelSlot DEF TablesKept, Directory
<1>3. mem[Tables[d]][IdxTable(p)] = Identity(p) BY <1>1, KernelSlot DEF TablesKept
<1> QED BY <1>1, <1>2, <1>3, Sizes DEF Walk, To, Identity, Absent

LEMMA WalkDirectory ==
  ASSUME Typed, TablesKept
  PROVE  /\ mem[DirFrame][Entries - 1] = To(DirFrame)
         /\ Walk(GetPde) = DirFrame
<1>1. mem[DirFrame][Entries - 1] = To(DirFrame) BY Sizes DEF TablesKept, Directory
<1> QED BY <1>1, Sizes, DirectoryPage DEF Walk, To

LEMMA WalkWindow ==
  ASSUME Typed, TablesKept, NEW s \in Slot, mem[DirFrame][s].present
  PROVE  Walk(Window(s)) = mem[DirFrame][s].index
BY WalkDirectory, WindowSplit, Sizes DEF Walk, To

LEMMA WalkTarget ==
  ASSUME AskedKept, Idle, NEW v \in Targets \cap DOMAIN asked
  PROVE  Walk(v) = asked[v] /\ asked[v] \in Data
<1>1. PICK t \in SpareTables : /\ HasTable(IdxDir(v), t)
                               /\ mem[t][IdxTable(v)] = To(asked[v]) \/ PteCall(v, t)
  BY DEF AskedKept, Given
<1>2. mem[DirFrame][IdxDir(v)] = To(t) BY <1>1 DEF HasTable, BeingGiven
<1>3. mem[t][IdxTable(v)] = To(asked[v]) BY <1>1, Entering3 DEF PteCall
<1>4. t \in TableFrame /\ asked[v] \in Data BY Sizes DEF AskedKept, Given
<1> QED BY <1>2, <1>3, <1>4 DEF Walk, To

(* What the processor finds, cached or not.                                *)
LEMMA TranslateKernel ==
  ASSUME Typed, On, NEW p \in KernelPage
  PROVE  /\ Translate(p) = IF p = 0 THEN Fault ELSE p
         /\ p = 0 => p \notin DOMAIN tlb
<1>1. p \in DOMAIN tlb => CachedKernel(p)
  BY Kinds DEF On, Cached, CachedDirectory, CachedWindow, CachedTarget, CachedKernel
<1> QED BY <1>1, WalkKernel DEF Translate, CachedKernel, On

LEMMA TranslateDirectory ==
  ASSUME Typed, On
  PROVE  Translate(GetPde) = DirFrame
<1>1. GetPde \in DOMAIN tlb => CachedDirectory(GetPde)
  BY Kinds DEF On, Cached, CachedDirectory, CachedWindow, CachedTarget, CachedKernel
<1> QED BY <1>1, WalkDirectory DEF Translate, CachedDirectory, On

LEMMA TranslateWindow ==
  ASSUME Typed, On, NEW v \in Targets, NEW t \in SpareTables, HasTable(IdxDir(v), t),
         ~BeingGiven(IdxDir(v))
  PROVE  /\ Translate(GetPte(v)) \in SpareTables
         /\ GetPte(v) \notin unflushed => Translate(GetPte(v)) = t
<1>1. mem[DirFrame][IdxDir(v)] = To(t) BY DEF HasTable
<1>2. GetPte(v) \in DOMAIN tlb =>
        /\ tlb[GetPte(v)] \in SpareTables
        /\ GetPte(v) \notin unflushed => tlb[GetPte(v)] = t
  <2>1. SUFFICES ASSUME GetPte(v) \in DOMAIN tlb
                 PROVE  /\ tlb[GetPte(v)] \in SpareTables
                        /\ GetPte(v) \notin unflushed => tlb[GetPte(v)] = t
    OBVIOUS
  <2>2. CachedWindow(GetPte(v))
    BY <2>1, Kinds DEF On, Cached, CachedKernel, CachedDirectory, CachedTarget
  <2>3. PICK w \in Targets :
          /\ GetPte(v) = GetPte(w) /\ tlb[GetPte(v)] \in SpareTables
          /\ GetPte(v) \notin unflushed => HasTable(IdxDir(w), tlb[GetPte(v)])
    BY <2>2 DEF CachedWindow
  <2>4. IdxDir(w) = IdxDir(v) BY <2>3, TargetSlot
  <2> QED BY <1>1, <2>3, <2>4 DEF HasTable, To
<1>3. Walk(GetPte(v)) = t BY <1>1, TargetSlot, WalkWindow, Sizes DEF On, GetPte, To
<1> QED BY <1>2, <1>3 DEF Translate

LEMMA TranslateTarget ==
  ASSUME Typed, On, Idle, NEW v \in Targets \cap DOMAIN asked
  PROVE  /\ Translate(v) \in Data
         /\ v \notin unflushed => Translate(v) = asked[v]
<1>1. v \in DOMAIN tlb => CachedTarget(v)
  BY Kinds DEF On, Cached, CachedDirectory, CachedWindow, CachedTarget, CachedKernel
<1>2. Walk(v) = asked[v] /\ asked[v] \in Data BY WalkTarget DEF On
<1> QED BY <1>1, <1>2 DEF Translate, CachedTarget

-----------------------------------------------------------------------------
(* Steps.                                                                  *)

LEMMA InitPInv == Init => PInv
<1> SUFFICES ASSUME Init PROVE PInv OBVIOUS
<1>1. Typed BY LeftoversAssumption DEF Init, Typed, Slot
<1> QED BY <1>1 DEF Init, PInv, Off, Idle

LEMMA TableNumber ==
  ASSUME NEW t \in TableFrame, t # DirFrame, t \notin SpareTables
  PROVE  LET d == CHOOSE d \in 1 .. Len(Tables) : Tables[d] = t
         IN  d \in 1 .. Len(Tables) /\ Tables[d] = t
BY DEF TableFrame

LEMMA Identities ==
  ASSUME NEW d \in 1 .. Len(Tables), NEW i \in Slot
  PROVE  Identity(d * Entries - Entries + i) \in Entry
<1>1. d \in Nat \ {0} /\ i \in Nat BY Sizes DEF Slot
<1>2. \A a, b \in Nat : a >= 1 => a * b \in Nat /\ a * b >= b OBVIOUS
<1>3. d * Entries \in Nat /\ d * Entries >= Entries BY <1>1, <1>2, Sizes
<1>4. \A m \in Nat : m >= Entries => m - Entries + i \in Nat BY <1>1, Sizes
<1>5. d * Entries - Entries + i \in Nat BY <1>3, <1>4
<1> QED BY <1>5 DEF Identity, Entry, Absent, To

LEMMA PagingInitPInv == PInv /\ PagingInit => PInv'
<1> SUFFICES ASSUME PInv, PagingInit PROVE PInv' OBVIOUS
<1>1. Typed /\ Off /\ paging' = TRUE BY DEF PInv, PagingInit
<1> DEFINE Number(t) == CHOOSE d \in 1 .. Len(Tables) : Tables[d] = t
<1>2. mem' = [t \in TableFrame |-> [i \in Slot |->
               IF t = DirFrame THEN Directory(i)
               ELSE IF t \in SpareTables THEN mem[t][i]
               ELSE Identity(Number(t) * Entries - Entries + i)]]
  BY DEF PagingInit, Slot
<1>3. \A t \in TableFrame : t # DirFrame /\ t \notin SpareTables =>
        Number(t) \in 1 .. Len(Tables) /\ Tables[Number(t)] = t
  BY TableNumber
<1> HIDE DEF Number
<1>4. \A i \in Slot : Directory(i) \in Entry
  BY Sizes DEF Directory, Entry, Absent, To, Slot
<1>5. Typed'
  <2>1. mem' \in [TableFrame -> [Slot -> Entry]]
    <3>1. ASSUME NEW t \in TableFrame, NEW i \in Slot
          PROVE  (IF t = DirFrame THEN Directory(i)
                  ELSE IF t \in SpareTables THEN mem[t][i]
                  ELSE Identity(Number(t) * Entries - Entries + i)) \in Entry
      BY <1>1, <1>3, <1>4, Identities DEF Typed
    <3> QED BY <1>2, <3>1
  <2> QED BY <1>1, <2>1 DEF PagingInit, Typed
<1>6. TablesKept'
  <2>1. \A i \in Slot : mem'[DirFrame][i] = Directory(i) BY <1>2, Sizes
  <2>2. \A i \in FreeSlot : mem'[DirFrame][i] = Absent
    BY <2>1, Sizes DEF FreeSlot, Directory
  <2>3. ASSUME NEW d \in 1 .. Len(Tables), NEW i \in Slot
        PROVE  mem'[Tables[d]][i] = Identity(d * Entries - Entries + i)
    <3>1. Tables[d] \in TableFrame /\ Tables[d] # DirFrame /\ Tables[d] \notin SpareTables
      BY Sizes, TablesAssumption
    <3>2. Number(Tables[d]) = d BY <1>3, <3>1, TablesAssumption
    <3> QED BY <1>2, <3>1, <3>2
  <2> QED BY <2>1, <2>2, <2>3 DEF TablesKept
<1>7. Calling' BY <1>1 DEF Off, PagingInit, Calling, Idle
<1>8. AskedKept'
  <2>1. DOMAIN asked' = KernelPage \ {0} BY DEF PagingInit
  <2>2. Targets \cap DOMAIN asked' = {} BY <2>1, Kinds
  <2>3. unflushed' = {} BY <1>1 DEF Off, PagingInit
  <2> QED BY <2>1, <2>2, <2>3 DEF PagingInit, AskedKept
<1>9. Cached' BY DEF PagingInit, Cached
<1> QED BY <1>1, <1>5, <1>6, <1>7, <1>8, <1>9 DEF PInv, On

(* The cache after an access that does not fault.                          *)
LEMMA FilledIs ==
  ASSUME NEW v, Translate(v) # Fault
  PROVE  /\ DOMAIN Filled(v) = DOMAIN tlb \cup {v}
         /\ \A x \in DOMAIN Filled(v) : Filled(v)[x] = IF x = v THEN Translate(v) ELSE tlb[x]
BY DEF Filled, With

LEMMA Fills ==
  ASSUME NEW v, Translate(v) # Fault, tlb' = Filled(v)
  PROVE  \A x \in DOMAIN tlb' : \/ x = v /\ tlb'[x] = Translate(v)
                                \/ x \in DOMAIN tlb /\ tlb'[x] = tlb[x]
<1>1. tlb' = [x \in DOMAIN tlb \cup {v} |-> IF x = v THEN Translate(v) ELSE tlb[x]]
  BY DEF Filled, With
<1> QED BY <1>1

(* Tables, call and promises stay: only the cache has to be looked at.     *)
LEMMA CacheStep ==
  ASSUME Typed, On, paging, UNCHANGED <<paging, mem, call, asked>>, ~halted',
         unflushed' \subseteq unflushed, Cached'
  PROVE  PInv'
<1>1. Typed' BY DEF Typed
<1>2. \A s, t : HasTable(s, t)' <=> HasTable(s, t)
  BY DEF HasTable, BeingGiven, Idle, PdeCall, Entering
<1>3. \A s : BeingGiven(s)' <=> BeingGiven(s) BY DEF BeingGiven, Idle
<1>4. \A v, t : PteCall(v, t)' <=> PteCall(v, t) BY DEF PteCall, Entering
<1>5. TablesKept' BY <1>3 DEF On, TablesKept
<1>6. Calling' BY <1>2, <1>4 DEF On, Calling, Idle, PdeCall, StrayCall, Entering
<1>7. AskedKept' BY <1>2, <1>4 DEF On, AskedKept, Given
<1> QED BY <1>1, <1>5, <1>6, <1>7 DEF PInv, On

(* What was cached and still is, after a step that keeps the tables and    *)
(* invalidates what it takes from unflushed.                               *)
LEMMA CachedStays ==
  ASSUME On, UNCHANGED <<mem, call, asked>>,
         NEW x \in DOMAIN tlb, tlb'[x] = tlb[x], x \in unflushed => x \in unflushed'
  PROVE  \/ CachedKernel(x)' \/ CachedDirectory(x)'
         \/ CachedWindow(x)' \/ CachedTarget(x)'
<1>1. \A s, t : HasTable(s, t) => HasTable(s, t)'
  BY DEF HasTable, BeingGiven, Idle, PdeCall, Entering
<1>2. CASE CachedKernel(x) BY <1>2 DEF CachedKernel
<1>3. CASE CachedDirectory(x) BY <1>3 DEF CachedDirectory
<1>4. CASE CachedWindow(x) BY <1>1, <1>4 DEF CachedWindow
<1>5. CASE CachedTarget(x) BY <1>5 DEF CachedTarget
<1> QED BY <1>2, <1>3, <1>4, <1>5 DEF On, Cached

LEMMA EvictPInv == PInv /\ Evict => PInv'
<1> SUFFICES ASSUME PInv, Evict PROVE PInv' OBVIOUS
<1>1. PICK v \in DOMAIN tlb : tlb' = Forgotten(v) BY DEF Evict
<1>2. CASE paging
  <2>1. \A x \in DOMAIN tlb' : x \in DOMAIN tlb /\ tlb'[x] = tlb[x] BY <1>1 DEF Forgotten
  <2>2. Typed /\ On BY <1>2 DEF PInv
  <2>3. Cached' BY <2>1, <2>2, CachedStays DEF Evict, Cached
  <2> QED BY <1>2, <2>2, <2>3, CacheStep DEF Evict, Typed
<1>3. CASE ~paging BY <1>1, <1>3 DEF PInv, Off
<1> QED BY <1>2, <1>3

LEMMA DisableTlbPInv ==
  ASSUME NEW v PROVE PInv /\ DisableTlb(v) => PInv'
<1> SUFFICES ASSUME PInv, DisableTlb(v) PROVE PInv' OBVIOUS
<1>1. Typed /\ On /\ paging BY DEF PInv, DisableTlb
<1>2. tlb' = Forgotten(v) /\ unflushed' = unflushed \ {v} BY DEF DisableTlb, Invalidated
<1>3. \A x \in DOMAIN tlb' :
        x \in DOMAIN tlb /\ tlb'[x] = tlb[x] /\ (x \in unflushed => x \in unflushed')
  BY <1>2 DEF Forgotten
<1>4. Cached' BY <1>1, <1>3, CachedStays DEF DisableTlb, Cached
<1> QED BY <1>1, <1>2, <1>4, CacheStep DEF DisableTlb, Typed

LEMMA AccessPInv ==
  ASSUME NEW v, \/ v \in Busy
                \/ v \in Targets \cap DOMAIN asked /\ Idle
  PROVE  PInv /\ Access(v) => PInv'
<1> SUFFICES ASSUME PInv, Access(v) PROVE PInv' OBVIOUS
<1>1. Typed /\ On /\ paging BY DEF PInv, Access
<1>2. CASE v \in Busy
  <2>1. v \in KernelPage \ {0} /\ Translate(v) = v
    BY <1>1, <1>2, PagesAssumption, TranslateKernel
  <2>2. Translate(v) # Fault BY <2>1, KernelSlot DEF Fault
  <2>3. CachedKernel(v)' BY <2>1, <2>2, FilledIs DEF Access, CachedKernel
  <2>4. Cached'
    <3>1. \A x \in DOMAIN tlb' : x = v \/ (x \in DOMAIN tlb /\ tlb'[x] = tlb[x])
      BY <2>2, Fills DEF Access
    <3> QED BY <1>1, <2>3, <3>1, CachedStays DEF Access, Cached
  <2> QED BY <1>1, <2>2, <2>4, CacheStep DEF Access, Typed
<1>3. CASE v \in Targets \cap DOMAIN asked /\ Idle
  <2>1. Translate(v) \in Data /\ (v \notin unflushed => Translate(v) = asked[v])
    BY <1>1, <1>3, TranslateTarget
  <2>2. Translate(v) # Fault BY <2>1, Sizes DEF Fault
  <2>3. CachedTarget(v)' BY <1>3, <2>1, <2>2, FilledIs DEF Access, CachedTarget
  <2>4. Cached'
    <3>1. \A x \in DOMAIN tlb' : x = v \/ (x \in DOMAIN tlb /\ tlb'[x] = tlb[x])
      BY <2>2, Fills DEF Access
    <3> QED BY <1>1, <2>3, <3>1, CachedStays DEF Access, Cached
  <2> QED BY <1>1, <2>2, <2>4, CacheStep DEF Access, Typed
<1> QED BY <1>2, <1>3

-----------------------------------------------------------------------------
(* page_entry_init.                                                        *)

(* Between calls no entry is being written.                                *)
LEMMA NoneGiven ==
  ASSUME Idle
  PROVE  /\ \A s : ~BeingGiven(s)
         /\ \A s, t : HasTable(s, t) <=> t \in SpareTables /\ mem[DirFrame][s] = To(t)
         /\ \A v, t : ~ PteCall(v, t)
<1>1. \A v, t : ~ PteCall(v, t) BY Entering3 DEF PteCall
<1> QED BY <1>1 DEF BeingGiven, HasTable

LEMMA SetVaddrPdePInv ==
  ASSUME NEW v \in Targets, NEW t \in SpareTables PROVE PInv /\ SetVaddrPde(v, t) => PInv'
<1> SUFFICES ASSUME PInv, SetVaddrPde(v, t) PROVE PInv' OBVIOUS
<1> DEFINE s == IdxDir(v)
<1>1. Typed /\ On /\ paging /\ Idle BY DEF PInv, SetVaddrPde
<1>2. PdeCall(s, t)'
  BY DEF SetVaddrPde, PageEntryInit, PdeCall, Entering, Remaining
<1>3. s \in FreeSlot BY TargetSlot
<1>4. UNCHANGED <<paging, mem, tlb, halted>> BY DEF SetVaddrPde
<1>5. BeingGiven(s)' /\ \A u : u # s => ~BeingGiven(u)'
  BY DEF SetVaddrPde, PageEntryInit, BeingGiven, Idle, NoCall
<1>6. HasTable(s, t)' BY <1>2, <1>5 DEF HasTable
<1>7. \A u, w : u # s /\ HasTable(u, w) => HasTable(u, w)'
  BY <1>1, <1>4, <1>5, NoneGiven DEF HasTable
<1>8. ASSUME NEW w \in SpareTables, HasTable(s, w), ~Moves(v, t) PROVE HasTable(s, w)'
  <2>1. mem[DirFrame][s] = To(w) BY <1>1, <1>8, NoneGiven
  <2>2. w = t BY <1>8, <2>1 DEF Moves, To, Absent
  <2> QED BY <1>6, <2>2
<1>9. /\ unflushed \subseteq unflushed' /\ unflushed' \subseteq unflushed \cup Targets \cup {GetPte(v)}
      /\ DOMAIN asked' \subseteq DOMAIN asked /\ DOMAIN asked \ Targets \subseteq DOMAIN asked'
      /\ \A x \in DOMAIN asked' : asked'[x] = asked[x]
      /\ asked' = [x \in DOMAIN asked' |-> asked'[x]]
      /\ Moves(v, t) => /\ GetPte(v) \in unflushed'
                        /\ AskedBeside(v) \subseteq unflushed'
                        /\ AskedBeside(v) \cap DOMAIN asked' = {}
      /\ \A x \in DOMAIN asked : x \in DOMAIN asked' \/ x \in unflushed'
      /\ \A x \in unflushed' \ unflushed : x = GetPte(v) \/ x \in Targets
      /\ ~Moves(v, t) => unflushed' = unflushed
  BY <1>1 DEF SetVaddrPde, AskedBeside, On, AskedKept
<1>10. Typed' BY <1>1, <1>4 DEF Typed
<1>11. TablesKept' BY <1>1, <1>4, <1>5, NoneGiven DEF On, TablesKept
<1>12. Calling' BY <1>2, <1>3 DEF Calling
<1>13. AskedKept'
  <2>1. ASSUME NEW w \in Targets \cap DOMAIN asked' PROVE Given(w)'
    <3>1. w \in DOMAIN asked /\ asked'[w] = asked[w] BY <1>9
    <3>2. PICK x \in SpareTables :
            HasTable(IdxDir(w), x) /\ (mem[x][IdxTable(w)] = To(asked[w]) \/ PteCall(w, x))
      BY <1>1, <3>1 DEF On, AskedKept, Given
    <3>3. mem'[x][IdxTable(w)] = To(asked'[w])
      BY <1>1, <1>4, <3>1, <3>2, NoneGiven
    <3>4. asked[w] \in Data /\ GetPte(w) \notin unflushed
      BY <1>1, <3>1 DEF On, AskedKept, Given
    <3>5. CASE IdxDir(w) # s
      <4>1. GetPte(w) # GetPte(v) BY <3>5, TargetSlot
      <4>2. GetPte(w) \notin unflushed' BY <1>9, <3>4, <4>1, Kinds
      <4> QED BY <1>7, <3>1, <3>2, <3>3, <3>4, <3>5, <4>2 DEF Given
    <3>6. CASE IdxDir(w) = s
      <4>1. ~Moves(v, t) BY <1>9, <2>1, <3>1, <3>6 DEF AskedBeside
      <4>2. HasTable(IdxDir(w), x)' BY <1>8, <3>2, <3>6, <4>1
      <4> QED BY <1>9, <3>1, <3>3, <3>4, <4>1, <4>2 DEF Given
    <3> QED BY <3>5, <3>6
  <2>2. KernelPage \ {0} \subseteq DOMAIN asked' BY <1>1, <1>9, Kinds DEF On, AskedKept
  <2>3. unflushed' \subseteq Targets \cup {GetPte(w) : w \in Targets}
    BY <1>1, <1>9 DEF On, AskedKept
  <2> QED BY <1>1, <1>9, <2>1, <2>2, <2>3 DEF On, AskedKept
<1>14. Cached'
  <2>1. ASSUME NEW x \in DOMAIN tlb, CachedTarget(x) PROVE CachedTarget(x)'
    BY <1>4, <1>9, <2>1 DEF CachedTarget
  <2>2. ASSUME NEW x \in DOMAIN tlb, CachedWindow(x) PROVE CachedWindow(x)'
    <3>1. ASSUME NEW w \in Targets, x = GetPte(w), tlb[x] \in SpareTables,
                 x \notin unflushed => HasTable(IdxDir(w), tlb[x])
          PROVE  CachedWindow(x)'
      <4>1. ASSUME x \notin unflushed' PROVE HasTable(IdxDir(w), tlb[x])'
        <5>1. x \notin unflushed BY <1>9, <4>1
        <5>2. HasTable(IdxDir(w), tlb[x]) BY <3>1, <5>1
        <5>3. CASE IdxDir(w) # s BY <1>4, <1>7, <5>2, <5>3
        <5>4. CASE IdxDir(w) = s
          <6>1. x = GetPte(v) BY <3>1, <5>4 DEF GetPte
          <6>2. ~Moves(v, t) BY <1>9, <4>1, <6>1
          <6> QED BY <1>4, <1>8, <3>1, <5>2, <5>4, <6>2
        <5> QED BY <5>3, <5>4
      <4> QED BY <1>4, <3>1, <4>1 DEF CachedWindow
    <3> QED BY <2>2, <3>1 DEF CachedWindow
  <2> QED
    BY <1>1, <1>4, <2>1, <2>2 DEF On, Cached, CachedKernel, CachedDirectory
<1> QED BY <1>1, <1>4, <1>10, <1>11, <1>12, <1>13, <1>14 DEF PInv, On

LEMMA SetVaddrPtePInv ==
  ASSUME NEW v \in Targets, NEW f \in Data PROVE PInv /\ SetVaddrPte(v, f) => PInv'
<1> SUFFICES ASSUME PInv, SetVaddrPte(v, f) PROVE PInv' OBVIOUS
<1>1. Typed /\ On /\ paging /\ Idle BY DEF PInv, SetVaddrPte
<1>2. UNCHANGED <<paging, mem, tlb, halted>> BY DEF SetVaddrPte
<1>3. \A s : ~BeingGiven(s)'
  BY Kinds DEF SetVaddrPte, PageEntryInit, BeingGiven
<1>4. \A s, t : HasTable(s, t) => HasTable(s, t)' BY <1>1, <1>2, <1>3, NoneGiven DEF HasTable
<1>5. PICK t \in SpareTables : mem[DirFrame][IdxDir(v)] = To(t)
  <2>1. mem[DirFrame][IdxDir(v)].present BY DEF SetVaddrPte
  <2>2. mem[DirFrame][IdxDir(v)] # Absent BY <2>1 DEF Absent
  <2> QED BY <1>1, <2>2, TargetSlot, NoneGiven DEF On, TablesKept
<1>6. HasTable(IdxDir(v), t)' BY <1>1, <1>4, <1>5, NoneGiven
<1>7. Typed' BY <1>1, <1>2 DEF Typed
<1>8. TablesKept' BY <1>1, <1>2, <1>3, NoneGiven DEF On, TablesKept
<1>9. call' = [window |-> GetPte(v), slot |-> IdxTable(v), index |-> f,
               left |-> <<"clear", "present", "index">>]
  BY DEF SetVaddrPte, PageEntryInit
<1>10. CASE GetPte(v) \in unflushed
  <2>1. UNCHANGED <<asked, unflushed>> BY <1>10 DEF SetVaddrPte
  <2>2. v \notin DOMAIN asked BY <1>1, <1>10 DEF On, AskedKept, Given
  <2>3. StrayCall(v)' BY <1>9, Sizes DEF StrayCall, Remaining
  <2>4. Calling' BY <1>6, <2>1, <2>2, <2>3 DEF Calling
  <2>5. AskedKept'
    <3>1. ASSUME NEW w \in Targets \cap DOMAIN asked PROVE Given(w)'
      <4>1. PICK x \in SpareTables :
              HasTable(IdxDir(w), x) /\ (mem[x][IdxTable(w)] = To(asked[w]) \/ PteCall(w, x))
        BY <1>1 DEF On, AskedKept, Given
      <4>2. mem[x][IdxTable(w)] = To(asked[w]) BY <1>1, <4>1, NoneGiven
      <4> QED BY <1>1, <1>2, <1>4, <2>1, <4>1, <4>2 DEF On, AskedKept, Given
    <3> QED BY <1>1, <2>1, <3>1 DEF On, AskedKept
  <2>6. Cached'
    <3>1. ASSUME NEW x \in DOMAIN tlb, CachedWindow(x) PROVE CachedWindow(x)'
      BY <1>2, <1>4, <2>1, <3>1 DEF CachedWindow
    <3> QED
      BY <1>1, <1>2, <2>1, <3>1 DEF On, Cached, CachedKernel, CachedDirectory, CachedTarget
  <2> QED BY <1>1, <1>2, <1>7, <1>8, <2>4, <2>5, <2>6 DEF PInv, On
<1>11. CASE GetPte(v) \notin unflushed
  <2>1. asked' = With(asked, v, f) /\ unflushed' = unflushed \cup (DOMAIN asked \cap {v})
    BY <1>11 DEF SetVaddrPte
  <2>2. /\ DOMAIN asked' = DOMAIN asked \cup {v} /\ asked'[v] = f
        /\ \A x \in DOMAIN asked : x # v => asked'[x] = asked[x]
        /\ asked' = [x \in DOMAIN asked' |-> asked'[x]]
    BY <2>1 DEF With
  <2>3. PteCall(v, t)' BY <1>9, <2>2 DEF PteCall, Entering, Remaining
  <2>4. Calling' BY <1>6, <2>2, <2>3 DEF Calling
  <2>5. AskedKept'
    <3>1. v \notin KernelPage BY Kinds
    <3>2. /\ KernelPage \ {0} \subseteq DOMAIN asked'
          /\ DOMAIN asked' \subseteq Targets \cup (KernelPage \ {0})
          /\ \A p \in KernelPage \ {0} : asked'[p] = p
          /\ unflushed' \subseteq Targets \cup {GetPte(w) : w \in Targets}
      BY <1>1, <2>1, <2>2, <3>1 DEF On, AskedKept
    <3>3. \A w \in Targets : GetPte(w) \notin unflushed => GetPte(w) \notin unflushed'
      BY <2>1, Kinds
    <3>4. ASSUME NEW w \in Targets \cap DOMAIN asked' PROVE Given(w)'
      <4>1. CASE w = v BY <1>6, <1>11, <2>2, <2>3, <3>3, <4>1 DEF Given
      <4>2. CASE w # v
        <5>1. w \in DOMAIN asked /\ asked'[w] = asked[w] BY <2>2, <4>2
        <5>2. PICK x \in SpareTables :
                HasTable(IdxDir(w), x) /\ (mem[x][IdxTable(w)] = To(asked[w]) \/ PteCall(w, x))
          BY <1>1, <5>1 DEF On, AskedKept, Given
        <5>3. mem'[x][IdxTable(w)] = To(asked'[w]) BY <1>1, <1>2, <5>1, <5>2, NoneGiven
        <5>4. asked[w] \in Data /\ GetPte(w) \notin unflushed
          BY <1>1, <5>1 DEF On, AskedKept, Given
        <5> QED BY <1>4, <3>3, <5>1, <5>2, <5>3, <5>4 DEF Given
      <4> QED BY <4>1, <4>2
    <3> QED BY <2>2, <3>2, <3>4 DEF AskedKept
  <2>6. Cached'
    <3>1. ASSUME NEW x \in DOMAIN tlb, CachedTarget(x) PROVE CachedTarget(x)'
      BY <1>2, <2>1, <2>2, <3>1 DEF CachedTarget
    <3>2. ASSUME NEW x \in DOMAIN tlb, CachedWindow(x) PROVE CachedWindow(x)'
      BY <1>2, <1>4, <2>1, <3>2 DEF CachedWindow
    <3> QED
      BY <1>1, <1>2, <3>1, <3>2 DEF On, Cached, CachedKernel, CachedDirectory
  <2> QED BY <1>1, <1>2, <1>7, <1>8, <2>4, <2>5, <2>6 DEF PInv, On
<1> QED BY <1>10, <1>11

LEMMA Lists ==
  /\ Head(<<"clear", "present", "index">>) = "clear"
  /\ Tail(<<"clear", "present", "index">>) = <<"present", "index">>
  /\ Len(<<"clear", "present", "index">>) = 3
  /\ Head(<<"present", "index">>) = "present" /\ Tail(<<"present", "index">>) = <<"index">>
  /\ Len(<<"present", "index">>) = 2
  /\ Head(<<"index">>) = "index" /\ Len(<<"index">>) = 1
  /\ <<"present", "index">> # <<"index">>
OBVIOUS

(* One store of page_entry_init, when its window leads to a table.         *)
LEMMA StoreWrites ==
  ASSUME Typed, StoreField, NEW window, NEW frame \in TableFrame, Translate(window) = frame,
         NEW slot \in Slot, NEW index \in Nat, call.left \in Remaining,
         call = [window |-> window, slot |-> slot, index |-> index, left |-> call.left]
  PROVE  /\ Typed'
         /\ \A t \in TableFrame, i \in Slot :
              t # frame \/ i # slot => mem'[t][i] = mem[t][i]
         /\ \/ /\ Idle' /\ call.left = <<"index">>
               /\ mem[frame][slot].present => mem'[frame][slot] = To(index)
            \/ Entering(window, slot, index, mem[frame][slot])'
<1>1. /\ mem' = [mem EXCEPT ![frame][slot] = Written(mem[frame][slot])]
      /\ paging' = paging /\ ~halted'
  <2>1. frame # Fault BY Sizes DEF Fault
  <2>2. call.window = window /\ call.slot = slot OBVIOUS
  <2> QED BY <2>1, <2>2 DEF StoreField
<1> DEFINE old == mem[frame][slot]
<1>2. old \in Entry BY DEF Typed
<1>3. mem'[frame][slot] = Written(old) BY <1>1 DEF Typed
<1>4. Written(old) \in Entry
      /\ \/ call.left = <<"index">> /\ Idle' /\ (old.present => Written(old) = To(index))
         \/ \E left \in Remaining :
              /\ call' = [window |-> window, slot |-> slot, index |-> index, left |-> left]
              /\ left = <<"index">> => Written(old).present
  <2>1. CASE call.left = <<"clear", "present", "index">>
    <3>1. Written(old) = Absent BY <2>1, Lists DEF Written
    <3>2. call' = [window |-> window, slot |-> slot, index |-> index, left |-> <<"present", "index">>]
      BY <2>1, Lists DEF StoreField
    <3> QED BY <3>1, <3>2, Lists DEF Absent, Entry, Remaining
  <2>2. CASE call.left = <<"present", "index">>
    <3>1. Written(old) = [old EXCEPT !.present = TRUE] BY <2>2, Lists DEF Written
    <3>2. call' = [window |-> window, slot |-> slot, index |-> index, left |-> <<"index">>]
      BY <2>2, Lists DEF StoreField
    <3> QED BY <1>2, <3>1, <3>2, Lists DEF Entry, Remaining
  <2>3. CASE call.left = <<"index">>
    <3>1. Written(old) = [old EXCEPT !.index = index] BY <2>3, Lists DEF Written
    <3>2. call' = NoCall BY <2>3, Lists DEF StoreField
    <3> QED BY <1>2, <2>3, <3>1, <3>2 DEF Entry, Idle, To
  <2> QED BY <2>1, <2>2, <2>3 DEF Remaining
<1> HIDE DEF old
<1>5. mem' \in [TableFrame -> [Slot -> Entry]]
  BY <1>1, <1>3, <1>4 DEF Typed, old
<1>6. Typed' BY <1>1, <1>5 DEF Typed
<1>7. \A t \in TableFrame, i \in Slot : t # frame \/ i # slot => mem'[t][i] = mem[t][i]
  BY <1>1 DEF Typed
<1>8. \/ /\ Idle' /\ call.left = <<"index">>
         /\ mem[frame][slot].present => mem'[frame][slot] = To(index)
      \/ Entering(window, slot, index, mem[frame][slot])'
  BY <1>3, <1>4 DEF Entering, old
<1> QED BY <1>6, <1>7, <1>8

(* After a store the cache holds one translation more, that of the window. *)
LEMMA StoreFills ==
  ASSUME StoreField, NEW window, call.window = window, Translate(window) # Fault
  PROVE  \A x \in DOMAIN tlb' : \/ x = window /\ tlb'[x] = Translate(window)
                                \/ x \in DOMAIN tlb /\ tlb'[x] = tlb[x]
<1>1. tlb' = Filled(window) BY DEF StoreField
<1> QED BY <1>1, Fills

(* A store in an entry of a spare table, whichever of them the window      *)
(* leads to, leaves the directory, the tables of the kernel and the        *)
(* entries of other pages alone.                                           *)
LEMMA StoreBeside ==
  ASSUME PInv, StoreField, NEW v \in Targets, NEW u \in SpareTables, NEW index \in Nat,
         paging, Typed, On, Translate(GetPte(v)) = u, call.left \in Remaining,
         call = [window |-> GetPte(v), slot |-> IdxTable(v), index |-> index, left |-> call.left]
  PROVE  /\ Typed' /\ TablesKept'
         /\ \A s, t : HasTable(s, t) => HasTable(s, t)'
         /\ \A w \in Targets, t \in SpareTables : w # v =>
              ~ PteCall(w, t) /\ mem'[t][IdxTable(w)] = mem[t][IdxTable(w)]
         /\ \A t \in SpareTables : t # u => mem'[t][IdxTable(v)] = mem[t][IdxTable(v)]
         /\ \/ /\ Idle' /\ call.left = <<"index">>
               /\ mem[u][IdxTable(v)].present => mem'[u][IdxTable(v)] = To(index)
            \/ Entering(GetPte(v), IdxTable(v), index, mem[u][IdxTable(v)])'
<1> DEFINE i == IdxTable(v)
<1>1. i \in Slot /\ u \in TableFrame BY TargetSlot, Sizes
<1>2. /\ Typed'
      /\ \A t \in TableFrame, j \in Slot : t # u \/ j # i => mem'[t][j] = mem[t][j]
      /\ \/ /\ Idle' /\ call.left = <<"index">>
            /\ mem[u][i].present => mem'[u][i] = To(index)
         \/ Entering(GetPte(v), i, index, mem[u][i])'
  BY <1>1, StoreWrites
<1>3. \A s \in Slot : mem'[DirFrame][s] = mem[DirFrame][s] BY <1>2, Sizes
<1>4. call.window = GetPte(v) /\ call.slot = i OBVIOUS
<1>5. \A s : ~BeingGiven(s) BY <1>4, Kinds DEF BeingGiven
<1>6. \A s : ~BeingGiven(s)'
  <2>1. Idle' \/ call'.window = GetPte(v) BY <1>2 DEF Entering
  <2> QED BY <2>1, Kinds DEF BeingGiven, Idle
<1>7. TablesKept'
  <2>1. \A d \in 1 .. Len(Tables), j \in Slot : mem'[Tables[d]][j] = mem[Tables[d]][j]
    BY <1>2, Sizes, TablesAssumption
  <2>2. TablesKept BY DEF On
  <2>3. \A j \in Slot : j \notin FreeSlot => mem'[DirFrame][j] = Directory(j)
    BY <1>3, <2>2 DEF TablesKept
  <2>4. \A d \in 1 .. Len(Tables), j \in Slot :
          mem'[Tables[d]][j] = Identity(d * Entries - Entries + j)
    BY <2>1, <2>2 DEF TablesKept
  <2>5. \A s \in FreeSlot : \/ mem'[DirFrame][s] = Absent \/ BeingGiven(s)'
                           \/ \E t \in SpareTables : mem'[DirFrame][s] = To(t)
    BY <1>3, <1>5, <2>2, Sizes DEF TablesKept
  <2> QED BY <2>3, <2>4, <2>5 DEF TablesKept
<1>8. ASSUME NEW s, NEW t, HasTable(s, t) PROVE HasTable(s, t)'
  <2>1. t \in SpareTables /\ mem[DirFrame][s] = To(t) BY <1>5, <1>8 DEF HasTable
  <2>2. mem'[DirFrame][s] = mem[DirFrame][s]
    <3>1. mem' = [mem EXCEPT ![u][i] = Written(mem[u][i])]
      BY <1>1, <1>4, Sizes DEF StoreField
    <3>2. u # DirFrame BY Sizes
    <3> QED BY <3>1, <3>2, Sizes DEF Typed
  <2> QED BY <1>6, <2>1, <2>2 DEF HasTable
<1>9. ASSUME NEW w \in Targets, NEW t \in SpareTables, w # v
      PROVE  ~ PteCall(w, t) /\ mem'[t][IdxTable(w)] = mem[t][IdxTable(w)]
  <2>1. IdxTable(w) # i /\ IdxTable(w) \in Slot
    BY <1>9, PagesAssumption, TargetSlot DEF IdxTable
  <2>2. PteCall(w, t) => call.slot = IdxTable(w) BY Entering3 DEF PteCall
  <2> QED BY <1>2, <1>4, <2>1, <2>2, Sizes
<1>10. \A t \in SpareTables : t # u => mem'[t][i] = mem[t][i] BY <1>1, <1>2, Sizes
<1> QED BY <1>2, <1>7, <1>8, <1>9, <1>10

(* What was cached before a store and stays so.                            *)
LEMMA CachedThrough ==
  ASSUME On, UNCHANGED <<asked, unflushed>>, \A s, t : HasTable(s, t) => HasTable(s, t)',
         NEW x \in DOMAIN tlb, tlb'[x] = tlb[x]
  PROVE  \/ CachedKernel(x)' \/ CachedDirectory(x)'
         \/ CachedWindow(x)' \/ CachedTarget(x)'
<1>1. CASE CachedKernel(x) BY <1>1 DEF CachedKernel
<1>2. CASE CachedDirectory(x) BY <1>2 DEF CachedDirectory
<1>3. CASE CachedWindow(x) BY <1>3 DEF CachedWindow
<1>4. CASE CachedTarget(x) BY <1>4 DEF CachedTarget
<1> QED BY <1>1, <1>2, <1>3, <1>4 DEF On, Cached

LEMMA StorePde ==
  ASSUME PInv, StoreField, NEW s \in FreeSlot, NEW t \in SpareTables, PdeCall(s, t)
  PROVE  PInv'
<1>1. /\ call = [window |-> GetPde, slot |-> s, index |-> t, left |-> call.left]
      /\ call.left \in Remaining /\ (call.left = <<"index">> => mem[DirFrame][s].present)
      /\ call.window = GetPde /\ call.slot = s /\ call.index = t
  BY DEF PdeCall, Entering
<1>2. paging /\ Typed /\ On
  BY <1>1 DEF PInv, Off, Idle, NoCall, StoreField, Remaining
<1>3. Translate(GetPde) = DirFrame /\ DirFrame # Fault
  BY <1>2, TranslateDirectory, Sizes DEF Fault
<1>4. s \in Slot /\ t \in Nat BY Sizes
<1>5. /\ Typed'
      /\ \A f \in TableFrame, i \in Slot :
           f # DirFrame \/ i # s => mem'[f][i] = mem[f][i]
      /\ \/ Idle' /\ mem'[DirFrame][s] = To(t)
         \/ PdeCall(s, t)'
  BY <1>1, <1>2, <1>3, <1>4, Sizes, StoreWrites DEF PdeCall
<1>6. UNCHANGED <<paging, asked, unflushed>> BY DEF StoreField
<1>7. /\ \A i : BeingGiven(i) => i = s
      /\ BeingGiven(s) /\ \A i : BeingGiven(i)' => i = s
  <2>1. ~Idle BY DEF StoreField
  <2>2. Idle' \/ call'.slot = s BY <1>5 DEF PdeCall, Entering
  <2> QED BY <1>1, <2>1, <2>2 DEF BeingGiven, Idle
<1>8. HasTable(s, t)'
  <2>1. CASE Idle' /\ mem'[DirFrame][s] = To(t)
    BY <2>1 DEF HasTable, BeingGiven
  <2>2. CASE PdeCall(s, t)'
    <3>1. BeingGiven(s)' BY <2>2 DEF PdeCall, Entering, Remaining, BeingGiven, Idle, NoCall
    <3> QED BY <2>2, <3>1 DEF HasTable
  <2> QED BY <1>5, <2>1, <2>2
<1>9. ASSUME NEW i, NEW u, HasTable(i, u) PROVE HasTable(i, u)'
  <2>1. CASE i = s
    <3>1. PdeCall(s, u) BY <1>7, <1>9, <2>1 DEF HasTable
    <3>2. u = t BY <1>1, <3>1, Entering3 DEF PdeCall
    <3> QED BY <1>8, <2>1, <3>2
  <2>2. CASE i # s
    <3>1. u \in SpareTables /\ mem[DirFrame][i] = To(u) BY <1>7, <1>9, <2>2 DEF HasTable
    <3>2. mem'[DirFrame][i] = mem[DirFrame][i]
      <4>1. mem' = [mem EXCEPT ![DirFrame][s] = Written(mem[DirFrame][s])]
        BY <1>1, <1>3, Sizes DEF StoreField
      <4> QED BY <1>2, <2>2, <4>1, Sizes DEF Typed
    <3> QED BY <1>7, <2>2, <3>1, <3>2 DEF HasTable
  <2> QED BY <2>1, <2>2
<1>10. \A w \in Targets : \A u : ~ PteCall(w, u)
  BY <1>1, Kinds DEF PteCall, Entering
<1>11. TablesKept'
  <2>1. \A i \in Slot : i \notin FreeSlot => mem'[DirFrame][i] = mem[DirFrame][i]
    BY <1>5, Sizes
  <2>2. \A d \in 1 .. Len(Tables), i \in Slot : mem'[Tables[d]][i] = mem[Tables[d]][i]
    BY <1>5, Sizes, TablesAssumption
  <2>3. ASSUME NEW i \in FreeSlot
        PROVE  \/ mem'[DirFrame][i] = Absent \/ BeingGiven(i)'
               \/ \E u \in SpareTables : mem'[DirFrame][i] = To(u)
    <3>1. CASE i = s BY <1>8, <3>1 DEF HasTable
    <3>2. CASE i # s
      <4>1. mem'[DirFrame][i] = mem[DirFrame][i] BY <1>5, <3>2, Sizes
      <4> QED BY <1>2, <1>7, <3>2, <4>1 DEF On, TablesKept
    <3> QED BY <3>1, <3>2
  <2> QED BY <1>2, <2>1, <2>2, <2>3 DEF On, TablesKept
<1>12. Calling' BY <1>5 DEF Calling
<1>13. AskedKept'
  <2>1. ASSUME NEW w \in Targets \cap DOMAIN asked PROVE Given(w)'
    <3>1. PICK u \in SpareTables :
            HasTable(IdxDir(w), u) /\ (mem[u][IdxTable(w)] = To(asked[w]) \/ PteCall(w, u))
      BY <1>2 DEF On, AskedKept, Given
    <3>2. mem'[u][IdxTable(w)] = To(asked[w])
      <4>1. mem'[u][IdxTable(w)] = mem[u][IdxTable(w)] BY <1>5, TargetSlot, Sizes
      <4> QED BY <1>10, <3>1, <4>1
    <3> QED BY <1>2, <1>6, <1>9, <3>1, <3>2 DEF On, AskedKept, Given
  <2> QED BY <1>2, <1>6, <2>1 DEF On, AskedKept
<1>14. Cached'
  <2>1. \A x \in DOMAIN tlb' : \/ x = GetPde /\ tlb'[x] = DirFrame
                               \/ x \in DOMAIN tlb /\ tlb'[x] = tlb[x]
    BY <1>1, <1>3, StoreFills
  <2> QED BY <1>2, <1>6, <1>9, <2>1, CachedThrough DEF Cached, CachedDirectory
<1> QED BY <1>2, <1>5, <1>6, <1>11, <1>12, <1>13, <1>14 DEF PInv, On

LEMMA StorePte ==
  ASSUME PInv, StoreField, NEW v \in Targets \cap DOMAIN asked, NEW t \in SpareTables,
         PteCall(v, t), HasTable(IdxDir(v), t)
  PROVE  PInv'
<1> DEFINE i == IdxTable(v)
<1>1. /\ call = [window |-> GetPte(v), slot |-> i, index |-> asked[v], left |-> call.left]
      /\ call.left \in Remaining /\ (call.left = <<"index">> => mem[t][i].present)
      /\ call.window = GetPte(v)
  BY DEF PteCall, Entering
<1>2. paging /\ Typed /\ On
  BY <1>1 DEF PInv, Off, Idle, NoCall, StoreField, Remaining
<1>3. ~BeingGiven(IdxDir(v)) BY <1>1, Kinds DEF BeingGiven
<1>4. Given(v) BY <1>2 DEF On, AskedKept
<1>5. Translate(GetPte(v)) = t /\ t # Fault
  BY <1>2, <1>3, <1>4, TranslateWindow, Sizes DEF Given, Fault
<1>6. UNCHANGED <<paging, asked, unflushed>> BY DEF StoreField
<1>7. /\ Typed' /\ TablesKept'
      /\ \A s, u : HasTable(s, u) => HasTable(s, u)'
      /\ \A w \in Targets, u \in SpareTables : w # v =>
           ~ PteCall(w, u) /\ mem'[u][IdxTable(w)] = mem[u][IdxTable(w)]
      /\ (Idle' /\ mem'[t][i] = To(asked[v])) \/ PteCall(v, t)'
  <2>1. asked[v] \in Nat BY <1>4, Sizes DEF Given
  <2>2. ASSUME NEW index \in Nat, index = asked[v]
        PROVE  /\ Typed' /\ TablesKept'
               /\ \A s, u : HasTable(s, u) => HasTable(s, u)'
               /\ \A w \in Targets, u \in SpareTables : w # v =>
                    ~ PteCall(w, u) /\ mem'[u][IdxTable(w)] = mem[u][IdxTable(w)]
               /\ \/ Idle' /\ mem'[t][i] = To(index)
                  \/ Entering(GetPte(v), i, index, mem[t][i])'
    BY <1>1, <1>2, <1>5, <2>2, StoreBeside
  <2> QED BY <1>6, <2>1, <2>2 DEF PteCall
<1>8. Calling' BY <1>6, <1>7 DEF Calling
<1>9. AskedKept'
  <2>1. ASSUME NEW w \in Targets \cap DOMAIN asked PROVE Given(w)'
    <3>1. CASE w = v BY <1>4, <1>6, <1>7, <3>1 DEF Given
    <3>2. CASE w # v
      <4>1. PICK u \in SpareTables :
              HasTable(IdxDir(w), u) /\ (mem[u][IdxTable(w)] = To(asked[w]) \/ PteCall(w, u))
        BY <1>2 DEF On, AskedKept, Given
      <4>2. mem'[u][IdxTable(w)] = To(asked[w]) BY <1>7, <3>2, <4>1
      <4> QED BY <1>2, <1>6, <1>7, <4>1, <4>2 DEF On, AskedKept, Given
    <3> QED BY <3>1, <3>2
  <2> QED BY <1>2, <1>6, <2>1 DEF On, AskedKept
<1>10. Cached'
  <2>1. \A x \in DOMAIN tlb' : \/ x = GetPte(v) /\ tlb'[x] = t
                               \/ x \in DOMAIN tlb /\ tlb'[x] = tlb[x]
    BY <1>1, <1>5, StoreFills
  <2>2. ASSUME NEW x, x = GetPte(v), tlb'[x] = t PROVE CachedWindow(x)'
    BY <1>7, <2>2 DEF CachedWindow
  <2> QED BY <1>2, <1>6, <1>7, <2>1, <2>2, CachedThrough DEF Cached
<1> QED BY <1>2, <1>6, <1>7, <1>8, <1>9, <1>10 DEF PInv, On

LEMMA StoreStray ==
  ASSUME PInv, StoreField, NEW v \in Targets \ DOMAIN asked, NEW t \in SpareTables,
         StrayCall(v), HasTable(IdxDir(v), t)
  PROVE  PInv'
<1>1. PICK f \in Nat : /\ call.left \in Remaining
                       /\ call = [window |-> GetPte(v), slot |-> IdxTable(v), index |-> f,
                                  left |-> call.left]
  BY DEF StrayCall
<1>2. call.window = GetPte(v) BY <1>1
<1>3. paging /\ Typed /\ On
  BY <1>1 DEF PInv, Off, Idle, NoCall, StoreField, Remaining
<1>4. ~BeingGiven(IdxDir(v)) BY <1>2, Kinds DEF BeingGiven
<1>5. PICK u \in SpareTables : /\ Translate(GetPte(v)) = u
                               /\ GetPte(v) \notin unflushed => u = t
  BY <1>3, <1>4, TranslateWindow
<1>6. UNCHANGED <<paging, asked, unflushed>> BY DEF StoreField
<1>7. /\ Typed' /\ TablesKept'
      /\ \A s, w : HasTable(s, w) => HasTable(s, w)'
      /\ \A w \in Targets, x \in SpareTables : w # v =>
           ~ PteCall(w, x) /\ mem'[x][IdxTable(w)] = mem[x][IdxTable(w)]
      /\ Idle' \/ Entering(GetPte(v), IdxTable(v), f, mem[u][IdxTable(v)])'
  BY <1>1, <1>3, <1>5, StoreBeside
<1>8. Calling'
  <2>1. Idle' \/ StrayCall(v)' BY <1>7 DEF Entering, StrayCall
  <2> QED BY <1>6, <1>7, <2>1 DEF Calling
<1>9. AskedKept'
  <2>1. ASSUME NEW w \in Targets \cap DOMAIN asked PROVE Given(w)'
    <3>1. PICK x \in SpareTables :
            HasTable(IdxDir(w), x) /\ (mem[x][IdxTable(w)] = To(asked[w]) \/ PteCall(w, x))
      BY <1>3 DEF On, AskedKept, Given
    <3>2. mem'[x][IdxTable(w)] = To(asked[w]) BY <1>7, <3>1
    <3> QED BY <1>3, <1>6, <1>7, <3>1, <3>2 DEF On, AskedKept, Given
  <2> QED BY <1>3, <1>6, <2>1 DEF On, AskedKept
<1>10. Cached'
  <2>1. \A x \in DOMAIN tlb' : \/ x = GetPte(v) /\ tlb'[x] = u
                               \/ x \in DOMAIN tlb /\ tlb'[x] = tlb[x]
    <3>1. u # Fault BY Sizes DEF Fault
    <3> QED BY <1>2, <1>5, <3>1, StoreFills
  <2>2. ASSUME NEW x, x = GetPte(v), tlb'[x] = u PROVE CachedWindow(x)'
    BY <1>5, <1>6, <1>7, <2>2 DEF CachedWindow
  <2> QED BY <1>3, <1>6, <1>7, <2>1, <2>2, CachedThrough DEF Cached
<1> QED BY <1>3, <1>6, <1>7, <1>8, <1>9, <1>10 DEF PInv, On

LEMMA StoreFieldPInv == PInv /\ StoreField => PInv'
<1> SUFFICES ASSUME PInv, StoreField PROVE PInv' OBVIOUS
<1>1. Calling /\ ~Idle BY DEF PInv, Off, On, StoreField
<1> QED BY <1>1, StorePde, StorePte, StoreStray DEF Calling

-----------------------------------------------------------------------------
LEMMA StepPInv == PInv /\ [Next]_vars => PInv'
<1> SUFFICES ASSUME PInv, [Next]_vars PROVE PInv' OBVIOUS
<1>1. CASE UNCHANGED vars
  <2>1. \A s, t : HasTable(s, t)' <=> HasTable(s, t)
    BY <1>1 DEF vars, HasTable, BeingGiven, Idle, PdeCall, Entering
  <2>2. CASE paging
    <3>1. Cached' BY <1>1, <2>2, CachedStays DEF vars, PInv, Cached
    <3> QED BY <1>1, <2>2, <3>1, CacheStep DEF vars, PInv, Typed
  <2>3. CASE ~paging BY <1>1, <2>3 DEF vars, PInv, Typed, Off, Idle
  <2> QED BY <2>2, <2>3
<1>2. CASE Next
  <2>1. ASSUME NEW v \in Targets, NEW f \in Wanted[v], SetVaddrPte(v, f) PROVE PInv'
    BY <2>1, SetVaddrPtePInv DEF Data
  <2> QED
    BY <1>2, <2>1, PagingInitPInv, StoreFieldPInv, EvictPInv, AccessPInv, SetVaddrPdePInv,
       DisableTlbPInv
    DEF Next
<1> QED BY <1>1, <1>2

(* The tables, the cache and the promises to the caller agree as PInv      *)
(* says, for every size of a table and whatever pages are mapped.          *)
THEOREM InvariantHolds == Spec => []PInv
BY InitPInv, StepPInv, PTL DEF Spec

-----------------------------------------------------------------------------
(* What the run checks.                                                    *)

LEMMA KernelMapped == PInv => KernelStaysMapped
BY TranslateKernel DEF PInv, Typed, KernelStaysMapped

LEMMA CacheAgrees == PInv => CachedAgrees
<1> SUFFICES ASSUME PInv, Idle, NEW v \in DOMAIN tlb \ unflushed PROVE tlb[v] = Walk(v)
  BY DEF CachedAgrees
<1>1. paging /\ Typed /\ On BY DEF PInv, Off
<1>2. CASE CachedKernel(v) BY <1>1, <1>2, WalkKernel DEF CachedKernel, On
<1>3. CASE CachedDirectory(v) BY <1>1, <1>3, WalkDirectory DEF CachedDirectory, On
<1>4. CASE CachedWindow(v)
  <2>1. PICK w \in Targets : v = GetPte(w) /\ HasTable(IdxDir(w), tlb[v])
    BY <1>4 DEF CachedWindow
  <2>2. mem[DirFrame][IdxDir(w)] = To(tlb[v]) BY <2>1, NoneGiven
  <2>3. IdxDir(w) \in Slot BY TargetSlot, Sizes
  <2> QED BY <1>1, <2>1, <2>2, <2>3, WalkWindow DEF On, GetPte, To
<1>5. CASE CachedTarget(v) BY <1>1, <1>5, WalkTarget DEF CachedTarget, On
<1> QED BY <1>1, <1>2, <1>3, <1>4, <1>5 DEF On, Cached

LEMMA WindowReaches == PInv => WindowReachesTables
<1> SUFFICES ASSUME PInv, paging, NEW slot \in Slot,
                    mem[DirFrame][slot].present, Window(slot) \notin unflushed, ~BeingGiven(slot)
             PROVE  Translate(Window(slot)) = mem[DirFrame][slot].index
  <2>1. PInv /\ paging => Translate(GetPde) = DirFrame BY TranslateDirectory DEF PInv
  <2> QED BY <2>1 DEF WindowReachesTables, Slot, BeingGiven
<1>1. Typed /\ On BY DEF PInv
<1>2. Walk(Window(slot)) = mem[DirFrame][slot].index BY <1>1, WalkWindow DEF On
<1>3. IdxDir(Window(slot)) = Entries - 1 /\ IdxTable(Window(slot)) = slot BY WindowSplit
<1>4. Window(slot) \notin KernelPage \cup Targets
  <2>1. \A p \in KernelPage : IdxDir(p) < Len(Tables) BY KernelSlot
  <2>2. \A w \in Targets : IdxDir(w) \in FreeSlot BY TargetSlot
  <2>3. ~ (Entries - 1 < Len(Tables)) /\ Entries - 1 \notin FreeSlot BY Sizes
  <2> QED BY <1>3, <2>1, <2>2, <2>3
<1>5. CASE Window(slot) \notin DOMAIN tlb BY <1>2, <1>5 DEF Translate
<1>6. CASE Window(slot) \in DOMAIN tlb
  <2>1. CASE CachedDirectory(Window(slot))
    <3>1. slot = Entries - 1 BY <1>3, <2>1, DirectoryPage DEF CachedDirectory
    <3> QED BY <1>1, <1>6, <2>1, <3>1, WalkDirectory DEF CachedDirectory, Translate, On, To
  <2>2. CASE CachedWindow(Window(slot))
    <3>1. PICK w \in Targets :
            Window(slot) = GetPte(w) /\ HasTable(IdxDir(w), tlb[Window(slot)])
      BY <2>2 DEF CachedWindow
    <3>2. IdxDir(w) = slot BY <1>3, <3>1, TargetSlot
    <3>3. mem[DirFrame][slot] = To(tlb[Window(slot)]) BY <3>1, <3>2 DEF HasTable
    <3> QED BY <1>6, <3>3 DEF Translate, To
  <2> QED
    BY <1>1, <1>4, <1>6, <2>1, <2>2 DEF On, Cached, CachedKernel, CachedTarget
<1> QED BY <1>5, <1>6

(* Page 0 faults, every other kernel page is the frame of its number, and  *)
(* no access faults, whatever is being mapped at the moment.               *)
THEOREM KernelAlwaysMapped == Spec => []KernelStaysMapped
BY InvariantHolds, KernelMapped, PTL

(* Between calls, the cache of the processor holds nothing the tables do   *)
(* not say, but for pages given another frame and not invalidated yet.     *)
THEOREM CacheAlwaysAgrees == Spec => []CachedAgrees
BY InvariantHolds, CacheAgrees, PTL

(* At every moment get_pde and get_pte lead to the directory and to the    *)
(* table of each slot that has one, unless the slot was given another      *)
(* table and its window page was not invalidated since.                    *)
THEOREM WindowAlwaysReaches == Spec => []WindowReachesTables
BY InvariantHolds, WindowReaches, PTL

-----------------------------------------------------------------------------
(* Paging implements AddressSpace.                                         *)

(* An access reads the promise: the frame is one the kernel or a caller    *)
(* has, and the one asked for unless an invalidation is outstanding.       *)
LEMMA AccessUses ==
  ASSUME PInv, NEW v, v \in Busy \/ (v \in Targets \cap DOMAIN asked /\ Idle), Access(v)
  PROVE  \E u \in DOMAIN asked, f \in Data \cup (KernelPage \ {0}) : Promise!Use(u, f)
<1>1. paging /\ Typed /\ On BY DEF PInv, Access
<1>2. reached' = <<v, Translate(v)>> /\ UNCHANGED <<asked, unflushed>> BY DEF Access
<1>3. v \in DOMAIN asked /\ Translate(v) \in Data \cup (KernelPage \ {0})
      /\ (v \notin unflushed \cap Targets => Translate(v) = asked[v])
  <2>1. CASE v \in Busy
    <3>1. v \in KernelPage \ {0} BY <2>1, PagesAssumption
    <3>2. Translate(v) = v BY <1>1, <3>1, TranslateKernel
    <3> QED BY <1>1, <3>1, <3>2 DEF On, AskedKept
  <2>2. CASE v \in Targets \cap DOMAIN asked /\ Idle BY <1>1, <2>2, TranslateTarget
  <2> QED BY <2>1, <2>2
<1> QED BY <1>2, <1>3 DEF Promise!Use

LEMMA StepImplements ==
  PInv /\ [Next]_vars => [Promise!Next]_(Promise!vars)
<1> SUFFICES ASSUME PInv, Next
             PROVE  Promise!Next \/ UNCHANGED Promise!vars
  BY DEF vars, Promise!vars
<1> USE DEF NoAccess, Nowhere, Fault, Promise!NoUse, Promise!Nowhere
<1>1. CASE PagingInit
  <2>1. asked = << >> BY <1>1 DEF PagingInit, PInv, Off
  <2> QED BY <1>1, <2>1 DEF PagingInit, Promise!Next, Promise!Enable
<1>2. CASE StoreField BY <1>2 DEF StoreField, Promise!Next, Promise!Rest
<1>3. CASE Evict BY <1>3 DEF Evict, Promise!Next, Promise!Rest
<1>4. ASSUME NEW v, v \in Busy \/ (v \in Targets \cap DOMAIN asked /\ Idle), Access(v)
      PROVE  Promise!Next
  BY <1>4, AccessUses DEF Promise!Next
<1>5. ASSUME NEW v \in Targets, NEW t \in SpareTables, SetVaddrPde(v, t)
      PROVE  Promise!Next
  <2>1. CASE Moves(v, t)
    <3>1. /\ asked' = [p \in DOMAIN asked \ AskedBeside(v) |-> asked[p]]
          /\ unflushed' = unflushed \cup AskedBeside(v) \cup {GetPte(v)}
          /\ reached' = Nowhere
      BY <1>5, <2>1 DEF SetVaddrPde
    <3>2. AskedBeside(v) \subseteq Targets /\ AskedBeside(v) \subseteq DOMAIN asked
      BY DEF AskedBeside
    <3>3. (unflushed \cap Targets)' = (unflushed \cap Targets) \cup (DOMAIN asked \cap AskedBeside(v))
      BY <3>1, <3>2, Kinds
    <3>4. Promise!Withdraw(AskedBeside(v)) BY <3>1, <3>3 DEF Promise!Withdraw
    <3> QED BY <3>2, <3>4 DEF Promise!Next
  <2>2. CASE ~Moves(v, t)
    BY <1>5, <2>2 DEF SetVaddrPde, Promise!Next, Promise!Rest
  <2> QED BY <2>1, <2>2
<1>6. ASSUME NEW v \in Targets, DisableTlb(v) PROVE Promise!Next
  BY <1>6 DEF DisableTlb, Promise!Next, Promise!Flush
<1>7. ASSUME NEW v \in Targets, DisableTlb(GetPte(v)) PROVE Promise!Next
  BY <1>7, Kinds DEF DisableTlb, Promise!Next, Promise!Rest
<1>8. ASSUME NEW v \in Targets, NEW f \in Wanted[v], SetVaddrPte(v, f) PROVE Promise!Next
  <2>1. CASE GetPte(v) \in unflushed
    BY <1>8, <2>1 DEF SetVaddrPte, Promise!Next, Promise!Rest
  <2>2. CASE GetPte(v) \notin unflushed
    <3>1. f \in Data BY DEF Data
    <3>2. Promise!Assign(v, f)
      BY <1>8, <2>2 DEF SetVaddrPte, With, Promise!Assign
    <3> QED BY <3>1, <3>2 DEF Promise!Next
  <2> QED BY <2>1, <2>2
<1> QED BY <1>1, <1>2, <1>3, <1>4, <1>5, <1>6, <1>7, <1>8 DEF Next

(* The paging code keeps the promise of AddressSpace: initial states map   *)
(* to initial states and every step to a step of it or to a stutter.       *)
THEOREM PagingImplementsAddressSpace == Spec => ImplementsAddressSpace
<1>1. Init => Promise!Init BY DEF Init, Promise!Init, Fault, Nowhere, Promise!Nowhere
<1> QED BY <1>1, InvariantHolds, StepImplements, PTL
        DEF Spec, ImplementsAddressSpace, Promise!Spec

=============================================================================
