-------------------------------- MODULE Boot --------------------------------
(***************************************************************************)
(* From the boot sector to the paged kernel: read_disk against the drive,  *)
(* the loader's memory detection against the BIOS, and the initialisation  *)
(* calls of start.asm and kernel_init that use what the loader left at     *)
(* 0x1000 before the page tables cover it.  Addresses count words of the   *)
(* disk; ranges of memory are counted in units of 1 KiB.                   *)
(***************************************************************************)
EXTENDS Integers, Sequences

CONSTANTS SectorWords,   \* 256, the words of a sector
          LoaderSectors, \* 4, read by the boot sector
          KernelSectors, \* 200, read by the loader
          TableWords,    \* the words that the page directory and tables take
          Ranges,        \* bound: the lists of memory ranges a BIOS reports
          Unit           \* a page in units of a range, 4

Word32 == 4194304        \* 2^32 bytes
MemoryBaseAddr == 1024   \* MEMORY_BASE_ADDR
KernelMemorySize == 8192 \* KERNEL_MEMORY_SIZE

LoaderLba == 2
KernelLba == 10
LoaderAt == 0            \* 0x1000, where the page directory will be
LoaderWords == LoaderSectors * SectorWords
LoaderGdt == LoaderWords - 1   \* the loader's last word stands for its table
KernelAt == LoaderWords + TableWords
KernelWords == KernelSectors * SectorWords
KernelGdt == KernelAt + KernelWords  \* gdt, behind the image in .bss
Place == 0 .. KernelGdt

ASSUME SizesAssumption ==
  /\ {SectorWords, LoaderSectors, KernelSectors, TableWords, Unit} \subseteq Nat \ {0}
  /\ MemoryBaseAddr % Unit = 0

(* A BIOS reports memory as usable from 1 MiB up to below the devices that *)
(* end at 4 GiB, once; in other pieces of any size under 4 GiB; and above, *)
(* where it does not leave out exactly another MiB.                        *)
Descriptor == [addr : Nat, size : Nat, valid : BOOLEAN]
IsMain(d) == d.valid /\ d.addr = MemoryBaseAddr
IsHigh(d) == d.valid /\ d.addr >= Word32

ASSUME RangesAssumption ==
  \A r \in Ranges :
    /\ r \in Seq(Descriptor)
    /\ \E i \in 1 .. Len(r) : IsMain(r[i])
    /\ \A i, j \in 1 .. Len(r) : IsMain(r[i]) /\ IsMain(r[j]) => r[i] = r[j]
    /\ \A i \in 1 .. Len(r) : r[i].valid =>
         \/ IsMain(r[i]) /\ r[i].addr + r[i].size < Word32
         \/ ~IsMain(r[i]) /\ r[i].addr + r[i].size <= Word32
         \/ IsHigh(r[i]) /\ r[i].addr % Word32 # MemoryBaseAddr

VARIABLES
  phase,       \* what runs next
  memory,      \* what each word holds
  rd,          \* read_disk: sectors left, words left in the sector, edi, status seen
  drive,       \* the drive: BSY and DRQ, its next sector and word, sectors left
  ranges,      \* what the BIOS reports
  carryEnds,   \* whether this BIOS ends the list with the carry flag
  ards,        \* memory_detect_ards_buffer
  scanned,     \* i in ards_init
  memory_base, memory_size, total_pages,
  free_found,  \* free_pages, as ards_init leaves it
  gdtr         \* where the processor finds its segment descriptors, -1 for none

disk == <<rd, drive>>
sizes == <<memory_base, memory_size, total_pages, free_found>>
bootVars == <<phase, memory, disk, ranges, carryEnds, ards, scanned, sizes, gdtr>>

Unset == <<-1, -1>>   \* a word that nothing was read to
Junk == <<-1, 0>>     \* what the data port gives while the drive is not ready
Zero == <<-1, 1>>     \* a word cleared for a table

BootInit ==
  /\ phase = "off" /\ memory = [a \in Place |-> Unset]
  /\ rd = [left |-> 0, words |-> 0, edi |-> 0, seen |-> FALSE]
  /\ drive = [bsy |-> FALSE, drq |-> FALSE, lba |-> 0, word |-> 0, left |-> 0]
  /\ ranges = <<>> /\ carryEnds = FALSE /\ ards = <<>> /\ scanned = 0
  /\ memory_base = 0 /\ memory_size = 0 /\ total_pages = 0 /\ free_found = 0
  /\ gdtr = -1

-----------------------------------------------------------------------------
(* While BSY is set the other bits of the status mean nothing.             *)
ReadDisk(lba, sectors, to) ==
  /\ rd' = [left |-> sectors, words |-> 0, edi |-> to, seen |-> FALSE]
  /\ \E stale \in BOOLEAN :
       drive' = [bsy |-> TRUE, drq |-> stale, lba |-> lba, word |-> 0, left |-> sectors]

DriveReady ==
  /\ drive.bsy
  /\ drive' = [drive EXCEPT !.bsy = FALSE, !.drq = TRUE]
  /\ UNCHANGED <<phase, memory, rd, ranges, carryEnds, ards, scanned, sizes, gdtr>>

\* Mutant: DRQ alone is tested.
DataReadyByDrq(d) == d.drq

DataReady(d) == ~d.bsy /\ d.drq

WaitSector ==
  /\ rd.left > 0 /\ ~rd.seen /\ DataReady(drive)
  /\ rd' = [rd EXCEPT !.seen = TRUE, !.words = SectorWords]
  /\ UNCHANGED <<phase, memory, drive, ranges, carryEnds, ards, scanned, sizes, gdtr>>

\* The data port: the drive's next word; the last of a sector makes it busy.
AfterWord(d, stale) ==
  IF d.bsy THEN d
  ELSE IF d.word + 1 < SectorWords THEN [d EXCEPT !.word = @ + 1]
  ELSE [d EXCEPT !.word = 0, !.lba = @ + 1, !.left = @ - 1, !.bsy = d.left > 1,
                 !.drq = d.left > 1 /\ stale]

ReadWord ==
  /\ rd.left > 0 /\ rd.seen
  /\ memory' = [memory EXCEPT ![rd.edi] = IF drive.bsy THEN Junk ELSE <<drive.lba, drive.word>>]
  /\ \E stale \in BOOLEAN : drive' = AfterWord(drive, stale)
  /\ rd' = [rd EXCEPT !.edi = @ + 1, !.words = @ - 1, !.seen = rd.words > 1,
                      !.left = IF rd.words > 1 THEN @ ELSE @ - 1]
  /\ UNCHANGED <<phase, ranges, carryEnds, ards, scanned, sizes, gdtr>>

-----------------------------------------------------------------------------
BootSector(r, carry) ==
  /\ ranges' = r /\ carryEnds' = carry
  /\ ReadDisk(LoaderLba, LoaderSectors, LoaderAt)
  /\ phase' = "loader"
  /\ UNCHANGED <<memory, ards, scanned, sizes, gdtr>>

CheckSignature ==
  /\ phase = "loader" /\ rd.left = 0
  /\ phase' = IF memory[LoaderAt] = <<LoaderLba, 0>> THEN "detect" ELSE "halted"
  /\ UNCHANGED <<memory, disk, ranges, carryEnds, ards, scanned, sizes, gdtr>>

(* int 0x15, eax = 0xe820: the next range, and ebx = 0 with the last one,  *)
(* or on a BIOS of the other kind the carry flag in place of another.      *)
CheckMemory ==
  /\ phase = "detect"
  /\ IF Len(ards) = Len(ranges)
     THEN ards' = ards /\ phase' = "halted"
     ELSE /\ ards' = Append(ards, ranges[Len(ards) + 1])
          /\ phase' = IF Len(ards') = Len(ranges) /\ ~carryEnds THEN "protect" ELSE "detect"
  /\ UNCHANGED <<memory, disk, ranges, carryEnds, scanned, sizes, gdtr>>

ProtectEnable ==
  /\ phase = "protect"
  /\ gdtr' = LoaderGdt
  /\ ReadDisk(KernelLba, KernelSectors, KernelAt)
  /\ phase' = "start"
  /\ UNCHANGED <<memory, ranges, carryEnds, ards, scanned, sizes>>

GdtBase == KernelGdt

(* sgdt, memory_copy, lgdt.  console_init, before it, touches the screen.  *)
GdtInit ==
  /\ phase = "start" /\ rd.left = 0
  /\ memory' = [memory EXCEPT ![KernelGdt] = memory[gdtr]]
  /\ gdtr' = GdtBase
  /\ phase' = "ards"
  /\ UNCHANGED <<disk, ranges, carryEnds, ards, scanned, sizes>>

-----------------------------------------------------------------------------
\* Mutant: the first range found is kept.
LargerThanNone(d, size) == d.valid /\ size = 0

\* 64 bits are compared with the 32 that were kept of the last maximum.
Larger(d, size) == d.valid /\ d.size > size

ArdsInitNext ==
  /\ phase = "ards" /\ scanned < Len(ards)
  /\ LET d == ards[scanned + 1]
     IN  IF Larger(d, memory_size)
         THEN memory_base' = d.addr % Word32 /\ memory_size' = d.size % Word32
         ELSE UNCHANGED <<memory_base, memory_size>>
  /\ scanned' = scanned + 1
  /\ UNCHANGED <<phase, memory, disk, ranges, carryEnds, ards, total_pages, free_found, gdtr>>

\* Mutant: a page that is only partly there is counted.
IdxRoundedUp(units) == ((units + Unit - 1) % Word32) \div Unit

Idx(units) == (units % Word32) \div Unit

\* The assertion of the base, then the page counts, then the panic.
ArdsInitDone ==
  /\ phase = "ards" /\ scanned = Len(ards)
  /\ IF memory_base # MemoryBaseAddr
     THEN phase' = "halted" /\ UNCHANGED <<total_pages, free_found>>
     ELSE /\ total_pages' = Idx(memory_size + memory_base)
          /\ free_found' = Idx(memory_size)
          /\ phase' = IF memory_size < KernelMemorySize THEN "halted" ELSE "map"
  /\ UNCHANGED <<memory, disk, ranges, carryEnds, ards, scanned, memory_base, memory_size, gdtr>>

\* memory_map_init and paging_init: the tables are cleared where the loader was.
KernelInit ==
  /\ phase = "map"
  /\ memory' = [a \in Place |-> IF a < TableWords THEN Zero ELSE memory[a]]
  /\ ards' = <<>> /\ phase' = "run"
  /\ UNCHANGED <<disk, ranges, carryEnds, scanned, sizes, gdtr>>

BootNext ==
  \/ phase = "off" /\ \E r \in Ranges, carry \in BOOLEAN : BootSector(r, carry)
  \/ DriveReady \/ WaitSector \/ ReadWord \/ CheckSignature \/ CheckMemory \/ ProtectEnable
  \/ GdtInit \/ ArdsInitNext \/ ArdsInitDone \/ KernelInit

BootSpec == BootInit /\ [][BootNext]_bootVars

-----------------------------------------------------------------------------
Holds(to, lba, words) ==
  \A i \in 0 .. (words - 1) : memory[to + i] = <<lba + i \div SectorWords, i % SectorWords>>

(* However long the drive takes over each sector, what the processor uses  *)
(* is what was read: the whole loader while the loader runs, the whole     *)
(* kernel from its first instruction on, the page tables notwithstanding,  *)
(* and always the loader's segment descriptors, which gdt_init has moved   *)
(* by the time that the page directory covers the loader (main.c:45).      *)
ImageIntact ==
  /\ phase \in {"detect", "protect"} => Holds(LoaderAt, LoaderLba, LoaderWords)
  /\ phase \in {"ards", "map", "run"} => Holds(KernelAt, KernelLba, KernelWords)
  /\ gdtr # -1 => memory[gdtr] = <<LoaderLba + LoaderSectors - 1, SectorWords - 1>>

\* The usable range that begins at 1 MiB, of which every list of Ranges has one.
Main == CHOOSE d \in {ranges[i] : i \in 1 .. Len(ranges)} : IsMain(d)

(* The kernel only starts with pages that exist: every page it counts from *)
(* 1 MiB up lies in the one usable range there, and they are enough for    *)
(* the identity map; Memory begins with this.                              *)
FoundMemoryUsable ==
  phase \in {"map", "run"} =>
    /\ total_pages * Unit <= Main.addr + Main.size
    /\ free_found = total_pages - MemoryBaseAddr \div Unit
    /\ free_found * Unit >= KernelMemorySize

(* A machine with enough memory above 1 MiB starts, in whatever order the  *)
(* BIOS lists its ranges.  Three kinds do not: one with another usable     *)
(* range at least as large, below 4 GiB or above; one whose memory at 1 MiB *)
(* is smaller than the identity map; one whose BIOS ends the list with the *)
(* carry flag.                                                             *)
HaltsAreExplained ==
  phase = "halted" =>
    \/ carryEnds \/ Main.size < KernelMemorySize
    \/ \E i \in 1 .. Len(ranges) :
         ranges[i].valid /\ ~IsMain(ranges[i]) /\ ranges[i].size >= Main.size
=============================================================================
