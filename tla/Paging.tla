------------------------------- MODULE Paging -------------------------------
(***************************************************************************)
(* The page directory and the page tables, reached through the recursive   *)
(* slot once paging is on, and the translations the processor caches.      *)
(* Addresses are page numbers, frames are numbers of physical pages.  The  *)
(* caller uses set_vaddr_* and disable_tlb as paging_test does; the cache  *)
(* is filled by the accesses of the program, and loses entries at will.    *)
(***************************************************************************)
EXTENDS Integers, Sequences

CONSTANTS Entries,    \* INDEX_NUM_PER_PAGE
          DirFrame,   \* IDX(KERNEL_PAGE_DIR)
          Tables,     \* KERNEL_PAGE_TABLE, as page numbers
          SpareTables, \* frames a caller gives a slot as its table: pt of paging_test
          NumFrames,
          Leftovers,  \* bound: what the frames of tables hold before they are written
          Wanted,     \* bound: the pages a caller maps, with the frames of each
          Busy        \* bound: the kernel pages that running code touches

Targets == DOMAIN Wanted
Data == UNION {Wanted[v] : v \in Targets}

Page == 0 .. (Entries * Entries - 1)
Frame == 0 .. (NumFrames - 1)
KernelPage == 0 .. (Len(Tables) * Entries - 1)
TableFrame == {DirFrame} \cup SpareTables \cup {Tables[i] : i \in 1 .. Len(Tables)}
Fault == -1

\* Mutant: the directory part of the page number in place of the table part.
IdxTableWrong(v) == v \div Entries

IdxDir(v) == v \div Entries
IdxTable(v) == v % Entries

Entry == [present : BOOLEAN, index : Nat]
Absent == [present |-> FALSE, index |-> 0]
To(frame) == [present |-> TRUE, index |-> frame]

ASSUME LeftoversAssumption ==
  Leftovers # {} /\ Leftovers \subseteq [TableFrame -> [0 .. (Entries - 1) -> Entry]]
ASSUME FramesAssumption ==
  /\ Entries \in Nat \ {0} /\ NumFrames \in Nat
  /\ TableFrame \cup Data \cup KernelPage \subseteq Frame
  /\ Data \cap (TableFrame \cup KernelPage) = {} /\ SpareTables \cap KernelPage = {}
ASSUME TablesAssumption ==
  /\ Tables \in Seq(Nat) /\ Len(Tables) < Entries
  /\ \A d, e \in 1 .. Len(Tables) : Tables[d] = Tables[e] => d = e
  /\ DirFrame \notin SpareTables
  /\ \A d \in 1 .. Len(Tables) : Tables[d] \notin {DirFrame} \cup SpareTables

(* A spare table may serve the slots of several targets: they differ in    *)
(* it.                                                                     *)
ASSUME PagesAssumption ==
  /\ \A v, w \in Targets : v % Entries = w % Entries => v = w
  /\ Targets \subseteq {v \in Page : Len(Tables) <= IdxDir(v) /\ IdxDir(v) < Entries - 1}
  /\ Busy \subseteq KernelPage \ {0}

VARIABLES
  paging,    \* CR0.PG
  mem,       \* the contents of the frames that are tables
  tlb,       \* the cached translations, a partial function
  call,      \* the page_entry_init in progress, or NoCall
  halted,    \* a page fault: exception_handler spins
  asked,     \* ghost: the frame each page was last given
  unflushed, \* ghost: pages that led elsewhere and were not invalidated since
  reached    \* ghost: the page a step accessed and the frame it reached

vars == <<paging, mem, tlb, call, halted, asked, unflushed, reached>>

With(f, x, e) == [y \in DOMAIN f \cup {x} |-> IF y = x THEN e ELSE f[y]]

NoCall == [left |-> <<>>]
Nowhere == <<0, Fault>>
NoAccess == reached' = Nowhere
Idle == call = NoCall

(* Tables hold anything before they are written; paging_test does not      *)
(* clear the one it installs.                                              *)
Init ==
  /\ paging = FALSE /\ halted = FALSE
  /\ mem \in Leftovers
  /\ tlb = << >> /\ call = NoCall
  /\ asked = << >> /\ unflushed = {} /\ reached = Nowhere

-----------------------------------------------------------------------------
Directory(i) ==
  IF i < Len(Tables) THEN To(Tables[i + 1])
  ELSE IF i = Entries - 1 THEN To(DirFrame) ELSE Absent

(* Page 0 stays out: the null pointer faults.                              *)
Identity(page) == IF page = 0 THEN Absent ELSE To(page)

(* Runs with paging off; set_cr3 empties the cache.                        *)
PagingInit ==
  /\ ~paging
  /\ mem' = [t \in TableFrame |-> [i \in 0 .. (Entries - 1) |->
       IF t = DirFrame THEN Directory(i)
       ELSE IF t \in SpareTables THEN mem[t][i]
       ELSE Identity((CHOOSE d \in 1 .. Len(Tables) : Tables[d] = t) * Entries - Entries + i)]]
  /\ paging' = TRUE /\ tlb' = << >>
  /\ asked' = [p \in KernelPage \ {0} |-> p]
  /\ NoAccess /\ UNCHANGED <<call, halted, unflushed>>

-----------------------------------------------------------------------------
(* The processor: the tables from CR3 down, unless a translation is cached. *)
Walk(v) ==
  LET dir == mem[DirFrame][IdxDir(v)]
  IN  IF dir.present /\ dir.index \in TableFrame /\ mem[dir.index][IdxTable(v)].present
      THEN mem[dir.index][IdxTable(v)].index
      ELSE Fault

Translate(v) == IF v \in DOMAIN tlb THEN tlb[v] ELSE Walk(v)

Filled(v) == IF Translate(v) = Fault THEN tlb ELSE With(tlb, v, Translate(v))

Forgotten(v) == [p \in DOMAIN tlb \ {v} |-> tlb[p]]

Evict ==
  /\ \E v \in DOMAIN tlb : tlb' = Forgotten(v)
  /\ NoAccess /\ UNCHANGED <<paging, mem, call, halted, asked, unflushed>>

Access(v) ==
  /\ paging /\ ~halted
  /\ tlb' = Filled(v) /\ reached' = <<v, Translate(v)>>
  /\ halted' = (Translate(v) = Fault)
  /\ UNCHANGED <<paging, mem, call, asked, unflushed>>

-----------------------------------------------------------------------------
GetPde == Entries * Entries - 1

Window(slot) == Entries * (Entries - 1) + slot

\* Mutant: the window page of the table with the number of the entry.
GetPteWrong(v) == Window(IdxTable(v))

GetPte(v) == Window(IdxDir(v))

(* page_entry_init: memory_set, then the bit fields one store at a time    *)
(* (read_write and user_super, which nothing here tells apart, between).   *)
PageEntryInit(page, slot, index) ==
  call' = [window |-> page, slot |-> slot, index |-> index,
           left |-> <<"clear", "present", "index">>]

Written(entry) ==
  CASE Head(call.left) = "clear"   -> Absent
    [] Head(call.left) = "present" -> [entry EXCEPT !.present = TRUE]
    [] Head(call.left) = "index"   -> [entry EXCEPT !.index = call.index]

StoreField ==
  /\ ~Idle /\ ~halted
  /\ LET frame == Translate(call.window)
     IN  /\ mem' = IF frame \in TableFrame
                   THEN [mem EXCEPT ![frame][call.slot] = Written(@)] ELSE mem
         /\ halted' = (frame = Fault)
  /\ tlb' = Filled(call.window)
  /\ call' = IF Len(call.left) = 1 THEN NoCall ELSE [call EXCEPT !.left = Tail(@)]
  /\ NoAccess /\ UNCHANGED <<paging, asked, unflushed>>

(* The slot has another table: its pages and its window lead elsewhere.    *)
Moves(v, table) == mem[DirFrame][IdxDir(v)] \notin {Absent, To(table)}
AskedBeside(v) == {p \in Targets \cap DOMAIN asked : IdxDir(p) = IdxDir(v)}

(* set_vaddr_pde_entry_with_index.  With another table for the slot, what  *)
(* its pages were given is gone; neither they nor the window, through      *)
(* which the new table will be written, are invalidated here.              *)
SetVaddrPde(v, table) ==
  /\ paging /\ Idle /\ ~halted
  /\ PageEntryInit(GetPde, IdxDir(v), table)
  /\ IF Moves(v, table)
     THEN /\ asked' = [p \in DOMAIN asked \ AskedBeside(v) |-> asked[p]]
          /\ unflushed' = unflushed \cup AskedBeside(v) \cup {GetPte(v)}
     ELSE UNCHANGED <<asked, unflushed>>
  /\ NoAccess /\ UNCHANGED <<paging, mem, tlb, halted>>

(* set_vaddr_pte_entry_with_index, called once the slot has a table.  A    *)
(* page never used before needs no invalidation.  Through a window that    *)
(* was not invalidated the entry may go to the slot's former table, so     *)
(* that the page is given nothing.                                         *)
SetVaddrPte(v, frame) ==
  /\ paging /\ Idle /\ ~halted /\ mem[DirFrame][IdxDir(v)].present
  /\ PageEntryInit(GetPte(v), IdxTable(v), frame)
  /\ IF GetPte(v) \in unflushed
     THEN UNCHANGED <<asked, unflushed>>
     ELSE /\ asked' = With(asked, v, frame)
          /\ unflushed' = unflushed \cup (DOMAIN asked \cap {v})
  /\ NoAccess /\ UNCHANGED <<paging, mem, tlb, halted>>

\* Mutant: the window page is invalidated and not the page itself.
InvalidatedWindow(v) == Forgotten(GetPte(v))

Invalidated(v) == Forgotten(v)

DisableTlb(v) ==
  /\ paging /\ Idle /\ ~halted
  /\ tlb' = Invalidated(v) /\ unflushed' = unflushed \ {v}
  /\ NoAccess /\ UNCHANGED <<paging, mem, call, halted, asked>>

(* The caller is one program; the kernel pages its code, its stack and the *)
(* handlers live in are touched at any time, also within a call.           *)
Next ==
  \/ PagingInit \/ StoreField \/ Evict
  \/ \E v \in Busy : Access(v)
  \/ \E v \in Targets : \/ Idle /\ v \in DOMAIN asked /\ Access(v)
                        \/ \E t \in SpareTables : SetVaddrPde(v, t)
                        \/ DisableTlb(v) \/ DisableTlb(GetPte(v))
                        \/ \E f \in Wanted[v] : SetVaddrPte(v, f)

Spec == Init /\ [][Next]_vars

-----------------------------------------------------------------------------
(* A cached translation that disagrees with the tables belongs to a page   *)
(* that was remapped and not invalidated since, or whose slot was given    *)
(* another table: set_vaddr_* through the window, where each entry is      *)
(* written in pieces, leaves no other behind.                              *)
CachedAgrees ==
  Idle => \A v \in DOMAIN tlb \ unflushed : tlb[v] = Walk(v)

(* get_pde and get_pte reach the directory and, for each slot that has     *)
(* one, its table, at every moment, also between two stores of an entry of *)
(* the directory.  The only windows that may lead to a former table are    *)
(* those of slots that were given another and whose window page nobody     *)
(* invalidated: what is written through the others goes where it is meant. *)
WindowReachesTables ==
  paging =>
    /\ Translate(GetPde) = DirFrame
    /\ \A slot \in 0 .. (Entries - 1) :
         \/ ~ mem[DirFrame][slot].present \/ Window(slot) \in unflushed
         \/ ~Idle /\ call.window = GetPde /\ call.slot = slot
         \/ Translate(Window(slot)) = mem[DirFrame][slot].index

(* Whatever a caller maps, even half way through, page 0 faults, every     *)
(* other kernel page is the frame of its number, where the kernel runs,    *)
(* and no access of the kernel or of a caller faults.                      *)
KernelStaysMapped ==
  /\ ~halted
  /\ paging => \A p \in KernelPage : Translate(p) = IF p = 0 THEN Fault ELSE p

(* What a caller is promised: an access reaches the frame last asked for,  *)
(* once disable_tlb has been called if the page led elsewhere before.      *)
Promise == INSTANCE AddressSpace WITH
             KernelPages <- KernelPage \ {0}, map <- asked, unflushed <- unflushed \cap Targets
ImplementsAddressSpace == Promise!Spec

=============================================================================
