------------------------------- MODULE Memory -------------------------------
(***************************************************************************)
(* Physical memory: the frame table with get_page and put_page, the bitmap *)
(* of kernel pages, and the identity map that makes kernel page n the      *)
(* frame n.  Addresses are page numbers.  memory_map_init, paging_init and *)
(* every task_create run with interrupts off, and no thread calls the      *)
(* allocators, so each operation is one action.                            *)
(***************************************************************************)
EXTENDS Integers, FiniteSets

CONSTANTS TotalPages,   \* total_pages, found by ards_init
          BasePage,     \* IDX(MEMORY_BASE_ADDR)
          KernelPages,  \* IDX(KERNEL_MEMORY_SIZE)
          ItemsPerPage, \* PAGE_SIZE, one byte of the frame table per frame
          BitsPerByte,  \* 8, bits in a byte of the bitmap
          Counts        \* bound: the run lengths alloc_kernel_page is asked for

Frame == 0 .. (TotalPages - 1)
MapPages == (TotalPages - 1) \div ItemsPerPage + 1
StartPage == BasePage + MapPages

\* ards_init panics unless the memory above BasePage holds the kernel's.
ASSUME MemoryAssumption ==
  /\ {TotalPages, BasePage, KernelPages} \subseteq Nat
  /\ {ItemsPerPage, BitsPerByte} \subseteq Nat \ {0}
  /\ 0 < BasePage /\ StartPage < KernelPages /\ KernelPages < TotalPages
  /\ (KernelPages - BasePage) % BitsPerByte = 0
ASSUME RequestsAssumption == Counts \subseteq Nat \ {0}

B == INSTANCE Bitmap WITH
       Offset <- BasePage,
       Bits <- ((KernelPages - BasePage) \div BitsPerByte) * BitsPerByte

RefWord == 256   \* a uint8_t reference count

VARIABLES
  stage,      \* what kernel_init does next: "map", "paging", "run"
  frame,      \* memory_map_array, how often each frame is referenced
  free_pages,
  start_page,
  bitmap,     \* kernel_bitmap
  mapped,     \* the pages that page table entries map to the same frame
  owned,      \* the kernel pages handed out and not given back
  held,       \* the frames handed out and not given back
  halted      \* an assertion or a panic spins

memoryVars == <<stage, frame, free_pages, start_page, bitmap, mapped, owned, held, halted>>

(* After ards_init; the array is cleared by memory_map_init. *)
MemoryInit ==
  /\ stage = "map"
  /\ frame = [f \in Frame |-> 0]
  /\ free_pages = TotalPages - BasePage
  /\ start_page = 0
  /\ bitmap = {} /\ mapped = {}
  /\ owned = {} /\ held = {}
  /\ halted = FALSE

Spin == halted' = TRUE

(* The loop of memory_map_init: everything below the first usable frame.   *)
InitiallyUsed(f) == IF f < StartPage THEN 1 ELSE 0

MemoryMapInit ==
  /\ stage = "map" /\ ~halted
  /\ free_pages' = free_pages - MapPages
  /\ start_page' = StartPage
  /\ frame' = [f \in Frame |-> InitiallyUsed(f)]
  /\ bitmap' = B!ScanMarks({}, MapPages)
  /\ IF B!BitmapScan({}, MapPages) = BasePage
     THEN stage' = "paging" /\ UNCHANGED halted
     ELSE Spin /\ UNCHANGED stage
  /\ UNCHANGED <<mapped, owned, held>>

(* paging_init maps every kernel page but page 0. *)
IdentityMapped == 1 .. (KernelPages - 1)

\* Mutant: a frame is mapped without being counted.
MapCountNone(f) == frame[f]

MapCount(f) == IF f \in IdentityMapped THEN (frame[f] + 1) % RefWord ELSE frame[f]

PagingInit ==
  /\ stage = "paging"
  /\ mapped' = IdentityMapped
  /\ frame' = [f \in Frame |-> MapCount(f)]
  /\ stage' = "run"
  /\ UNCHANGED <<free_pages, start_page, bitmap, owned, held, halted>>

-----------------------------------------------------------------------------
Unreferenced == {f \in Frame : start_page <= f /\ frame[f] = 0}

(* The frame get_page finds. *)
FirstUnreferenced == CHOOSE f \in Unreferenced : \A g \in Unreferenced : f <= g

GetPage ==
  /\ stage = "run" /\ ~halted
  /\ IF Unreferenced = {}
     THEN Spin /\ UNCHANGED <<frame, free_pages, held>>
     ELSE LET f == FirstUnreferenced
          IN  /\ frame' = [frame EXCEPT ![f] = 1]
              /\ free_pages' = free_pages - 1
              /\ held' = held \cup {f}
              /\ UNCHANGED halted
  /\ UNCHANGED <<stage, start_page, bitmap, mapped, owned>>

\* Mutant: the free frames are not counted up again.
FreedByNone(refs) == 0

(* What put_page adds to free_pages when the count is now refs. *)
FreedBy(refs) == IF refs = 0 THEN 1 ELSE 0

PutPage(f) ==
  /\ stage = "run" /\ ~halted
  /\ IF f < start_page \/ f >= TotalPages \/ frame[f] = 0
     THEN Spin /\ UNCHANGED <<frame, free_pages, held>>
     ELSE /\ frame' = [frame EXCEPT ![f] = @ - 1]
          /\ free_pages' = free_pages + FreedBy(frame[f] - 1)
          /\ held' = held \ {f}
          /\ UNCHANGED halted
  /\ UNCHANGED <<stage, start_page, bitmap, mapped, owned>>

AllocKernelPage(count) ==
  /\ stage = "run" /\ ~halted
  /\ LET first == B!BitmapScan(bitmap, count)
     IN  IF first = B!EOF
         THEN Spin /\ UNCHANGED <<bitmap, owned>>
         ELSE /\ bitmap' = B!ScanMarks(bitmap, count)
              /\ owned' = owned \cup B!Run(first, count)
              /\ UNCHANGED halted
  /\ UNCHANGED <<stage, frame, free_pages, start_page, mapped, held>>

\* Mutant: the loop of reset_page ends one page early.
ResetPageShort(first, count) == bitmap \ B!Run(first, count - 1)

ResetPage(first, count) == bitmap \ B!Run(first, count)

FreeKernelPage(first, count) ==
  /\ stage = "run" /\ ~halted
  /\ IF B!Run(first, count) \subseteq bitmap
     THEN /\ bitmap' = ResetPage(first, count)
          /\ owned' = owned \ B!Run(first, count)
          /\ UNCHANGED halted
     ELSE Spin /\ UNCHANGED <<bitmap, owned>>
  /\ UNCHANGED <<stage, frame, free_pages, start_page, mapped, held>>

(* A caller gives back what it was given, in runs of its own choice.       *)
MemoryNext ==
  \/ MemoryMapInit \/ PagingInit \/ GetPage
  \/ \E f \in held : PutPage(f)
  \/ \E count \in Counts : AllocKernelPage(count)
  \/ \E first \in owned, count \in Counts :
       B!Run(first, count) \subseteq owned /\ FreeKernelPage(first, count)

MemorySpec == MemoryInit /\ [][MemoryNext]_memoryVars

-----------------------------------------------------------------------------
(* Kernel pages: alloc_kernel_page hands out runs of pages that nobody     *)
(* holds, all of them above the frame table and inside the memory that     *)
(* paging_init maps, and free_kernel_page gives them back.                 *)
KernelAllocator == INSTANCE PageAllocator WITH
                     Pages <- StartPage .. (KernelPages - 1), Counts <- Counts
KernelPagesImplement == KernelAllocator!Spec

(* Frames: get_page hands out frames nobody holds and none below the top   *)
(* of the identity map: a frame is never given out twice, once by get_page *)
(* and once as the kernel page of the same number.                         *)
FrameAllocator == INSTANCE PageAllocator WITH
                    Pages <- KernelPages .. (TotalPages - 1), Counts <- {1},
                    owned <- held
FramesImplement == FrameAllocator!Spec

(* The bitmap records exactly the frame table and what callers hold, so a  *)
(* page given back can be had again, and is mapped when it is.             *)
BitmapMatchesOwners ==
  stage = "run" => /\ bitmap = (BasePage .. (StartPage - 1)) \cup owned
                   /\ bitmap \subseteq mapped

(* bitmap_scan, which counts the clear bits it has just passed, is first   *)
(* fit: it fails only when no run is long enough, and returns the lowest.  *)
ScanIsFirstFit ==
  \A count \in Counts : B!BitmapScan(bitmap, count) = B!FirstFit(bitmap, count)

(* The two counters agree with what callers hold, however long frames are  *)
(* taken and given back.  A frame that is held is referenced once, so that *)
(* giving it back frees it, and no other above the identity map is;        *)
(* free_pages is off by the frames that paging_init took, and by nothing   *)
(* else.                                                                   *)
CountsMatchHeld ==
  stage = "run" =>
    /\ \A f \in KernelPages .. (TotalPages - 1) : frame[f] = IF f \in held THEN 1 ELSE 0
    /\ free_pages = TotalPages - KernelPages - Cardinality(held) + (KernelPages - StartPage)

=============================================================================
