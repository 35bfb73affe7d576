--------------------------- MODULE SequentialProofs ---------------------------
(***************************************************************************)
(* The code that runs alone.  The start: for every size of a sector, of    *)
(* the loader and of the kernel, and every list of ranges of the form that *)
(* RangesAssumption names, what is read is what runs, and the memory that  *)
(* is found is there.  The strings: for every size of memory and all legal *)
(* arguments, no function writes outside its room, and each returns what   *)
(* its name promises.  vsprintf: for every size of a word and every set of *)
(* flags, widths, precisions, numbers and texts, an argument reads back    *)
(* from what is printed of it, fills its field, and the length returned is *)
(* that of the text.                                                       *)
(***************************************************************************)
EXTENDS Strings, Vsprintf, Boot, NatSets, SequenceTheorems, TLAPS

-----------------------------------------------------------------------------
(* The start.                                                              *)

(* How far read_disk is: what it has stored, and where the drive is.       *)
Stored(to, lba) == \A i \in 0 .. (rd.edi - to - 1) :
  memory[to + i] = <<lba + i \div SectorWords, i % SectorWords>>

(* Sectors from lba go to "to", and done of them are there.                *)
ReadingAt(to, lba, sectors, done) ==
  /\ rd.left = sectors - done /\ done \in 0 .. sectors
  /\ drive.lba = lba + done /\ drive.left = rd.left
  /\ IF rd.seen
     THEN /\ done < sectors /\ rd.words \in 1 .. SectorWords
          /\ ~drive.bsy /\ drive.word = SectorWords - rd.words
          /\ rd.edi = to + done * SectorWords + (SectorWords - rd.words)
     ELSE /\ drive.word = 0 /\ rd.edi = to + done * SectorWords
          /\ done = sectors => ~drive.bsy

Reading(to, lba, sectors) ==
  Stored(to, lba) /\ \E done \in 0 .. sectors : ReadingAt(to, lba, sectors, done)

LastWord == <<LoaderLba + LoaderSectors - 1, SectorWords - 1>>

DiskInv ==
  /\ phase \in {"off", "loader", "detect", "protect", "start", "ards", "map", "run", "halted"}
  /\ memory = [a \in Place |-> memory[a]]
  /\ rd = [left |-> rd.left, words |-> rd.words, edi |-> rd.edi, seen |-> rd.seen]
  /\ drive = [bsy |-> drive.bsy, drq |-> drive.drq, lba |-> drive.lba, word |-> drive.word,
              left |-> drive.left]
  /\ phase \notin {"loader", "start"} => rd.left = 0 /\ ~drive.bsy
  /\ phase = "loader" => Reading(LoaderAt, LoaderLba, LoaderSectors)
  /\ phase = "start" => Reading(KernelAt, KernelLba, KernelSectors)
  /\ phase \in {"detect", "protect", "start"} => Holds(LoaderAt, LoaderLba, LoaderWords)
  /\ phase \in {"ards", "map", "run"} => Holds(KernelAt, KernelLba, KernelWords)
  /\ phase \in {"off", "loader", "detect", "protect"} => gdtr = -1
  /\ phase = "start" => gdtr = LoaderGdt
  /\ phase \in {"ards", "map", "run"} => gdtr = KernelGdt
  /\ phase = "halted" => gdtr \in {-1, KernelGdt}
  /\ gdtr = KernelGdt => memory[KernelGdt] = LastWord

(* The list of ranges, and what ards_init keeps of it.                     *)
Listed ==
  /\ Len(ards) <= Len(ranges) /\ \A i \in 1 .. Len(ards) : ards[i] = ranges[i]
AllListed == Len(ards) = Len(ranges) /\ ~carryEnds

Excuse ==
  \/ carryEnds \/ Main.size < KernelMemorySize
  \/ \E i \in 1 .. Len(ranges) :
       ranges[i].valid /\ ~IsMain(ranges[i]) /\ ranges[i].size >= Main.size

Kept ==
  /\ memory_base = MemoryBaseAddr => memory_size = Main.size
  /\ \/ Excuse
     \/ /\ \A i \in 1 .. scanned : ~IsMain(ranges[i])
        /\ memory_size < Main.size
     \/ memory_base = MemoryBaseAddr /\ memory_size = Main.size

ListInv ==
  /\ phase # "off" => ranges \in Ranges
  /\ phase \in {"off", "loader", "detect", "protect", "start"} =>
       scanned = 0 /\ memory_base = 0 /\ memory_size = 0
  /\ phase \in {"off", "loader"} => ards = << >>
  /\ phase \in {"loader", "detect", "protect", "start", "ards"} => ards \in Seq(Descriptor) /\ Listed
  /\ phase = "detect" => carryEnds \/ Len(ards) < Len(ranges)
  /\ phase \in {"protect", "start", "ards"} => AllListed
  /\ phase = "ards" => scanned \in 0 .. Len(ranges) /\ memory_size \in Nat /\ Kept
  /\ phase \in {"map", "run"} =>
       /\ memory_base = MemoryBaseAddr /\ memory_size = Main.size
       /\ memory_size >= KernelMemorySize
       /\ total_pages = Idx(memory_size + memory_base) /\ free_found = Idx(memory_size)
  /\ phase = "halted" => Excuse

BootInv == DiskInv /\ ListInv

-----------------------------------------------------------------------------
(* Places.                                                                 *)

LEMMA WordPlace ==
  ASSUME NEW s \in Nat \ {0}, NEW k \in Nat, NEW w \in 0 .. (s - 1)
  PROVE  (k * s + w) \div s = k /\ (k * s + w) % s = w
OBVIOUS

LEMMA SectorBelow ==
  ASSUME NEW s \in Nat \ {0}, NEW b \in Nat, NEW k \in Nat, k < b, NEW w \in 0 .. (s - 1)
  PROVE  k * s + w \in 0 .. (b * s - 1) /\ k * s + s = (k + 1) * s
<1>1. k + 1 <= b OBVIOUS
<1>2. (k + 1) * s <= b * s BY <1>1
<1>3. (k + 1) * s = k * s + s OBVIOUS
<1>4. k * s \in Nat /\ b * s \in Nat OBVIOUS
<1> QED BY <1>2, <1>3, <1>4

LEMMA Sizes ==
  /\ SectorWords \in Nat \ {0} /\ LoaderSectors \in Nat \ {0} /\ KernelSectors \in Nat \ {0}
  /\ TableWords \in Nat \ {0}
  /\ LoaderWords \in Nat \ {0} /\ KernelWords \in Nat \ {0}
  /\ LoaderWords = LoaderSectors * SectorWords /\ KernelWords = KernelSectors * SectorWords
  /\ LoaderAt = 0 /\ KernelAt = LoaderWords + TableWords
  /\ KernelGdt = KernelAt + KernelWords /\ LoaderGdt = LoaderWords - 1
  /\ Place = 0 .. KernelGdt
<1>1. \A a, b \in Nat \ {0} : a * b \in Nat \ {0} OBVIOUS
<1> QED
  BY <1>1, SizesAssumption
  DEF LoaderWords, KernelWords, LoaderAt, KernelAt, KernelGdt, LoaderGdt, Place

(* The last word of the loader.                                            *)
LEMMA LoaderEnd ==
  Holds(LoaderAt, LoaderLba, LoaderWords) => memory[LoaderGdt] = LastWord
<1>1. LoaderWords - 1 \in 0 .. (LoaderWords - 1) BY Sizes
<1>2. LoaderWords - 1 = (LoaderSectors - 1) * SectorWords + (SectorWords - 1)
  <2>1. \A a, b \in Nat \ {0} : a * b - 1 = (a - 1) * b + (b - 1) OBVIOUS
  <2> QED BY <2>1, Sizes
<1>3. (LoaderWords - 1) \div SectorWords = LoaderSectors - 1
      /\ (LoaderWords - 1) % SectorWords = SectorWords - 1
  <2> DEFINE k == LoaderSectors - 1
             w == SectorWords - 1
  <2>1. w \in 0 .. (SectorWords - 1) /\ k \in Nat BY Sizes
  <2>2. LoaderWords - 1 = k * SectorWords + w BY <1>2
  <2> HIDE DEF k, w
  <2>3. (k * SectorWords + w) \div SectorWords = k /\ (k * SectorWords + w) % SectorWords = w
    BY <2>1, Sizes, WordPlace
  <2>4. (LoaderWords - 1) \div SectorWords = k /\ (LoaderWords - 1) % SectorWords = w
    BY <2>2, <2>3
  <2> QED BY <2>4 DEF k, w
<1>4. LoaderAt + (LoaderWords - 1) = LoaderGdt BY Sizes
<1>5. LoaderLba + (LoaderSectors - 1) = LoaderLba + LoaderSectors - 1
  BY Sizes DEF LoaderLba
<1> QED BY <1>1, <1>3, <1>4, <1>5 DEF Holds, LastWord

(* Words that are stored elsewhere.                                        *)
LEMMA HoldsStays ==
  ASSUME NEW to, NEW lba, NEW words, Holds(to, lba, words),
         \A i \in 0 .. (words - 1) : memory'[to + i] = memory[to + i]
  PROVE  \A i \in 0 .. (words - 1) :
           memory'[to + i] = <<lba + i \div SectorWords, i % SectorWords>>
BY DEF Holds

-----------------------------------------------------------------------------
(* read_disk.                                                              *)

LEMMA ReadStarts ==
  ASSUME NEW lba \in Nat, NEW sectors \in Nat \ {0}, NEW to \in Nat, ReadDisk(lba, sectors, to)
  PROVE  /\ Reading(to, lba, sectors)'
         /\ rd' = [left |-> rd'.left, words |-> rd'.words, edi |-> rd'.edi, seen |-> rd'.seen]
         /\ drive' = [bsy |-> drive'.bsy, drq |-> drive'.drq, lba |-> drive'.lba,
                      word |-> drive'.word, left |-> drive'.left]
<1>1. rd' = [left |-> sectors, words |-> 0, edi |-> to, seen |-> FALSE] BY DEF ReadDisk
<1>2. PICK stale \in BOOLEAN :
        drive' = [bsy |-> TRUE, drq |-> stale, lba |-> lba, word |-> 0, left |-> sectors]
  BY DEF ReadDisk
<1>3. /\ rd'.left = sectors /\ rd'.edi = to /\ ~rd'.seen
      /\ drive'.lba = lba /\ drive'.word = 0 /\ drive'.left = sectors
  BY <1>1, <1>2
<1>4. Stored(to, lba)'
  <2>1. 0 .. (to - to - 1) = {} OBVIOUS
  <2> QED BY <1>3, <2>1 DEF Stored
<1>5. ReadingAt(to, lba, sectors, 0)'
  <2>1. to + 0 * SectorWords = to BY Sizes
  <2> QED BY <1>3, <2>1 DEF ReadingAt
<1> QED BY <1>1, <1>2, <1>4, <1>5 DEF Reading

LEMMA ReadDone ==
  ASSUME NEW lba \in Nat, NEW sectors \in Nat \ {0}, NEW to \in Nat,
         Reading(to, lba, sectors), rd.left = 0
  PROVE  Holds(to, lba, sectors * SectorWords) /\ ~drive.bsy
<1>1. PICK done \in 0 .. sectors : ReadingAt(to, lba, sectors, done) BY DEF Reading
<1>2. done = sectors BY <1>1 DEF ReadingAt
<1>3. ~rd.seen BY <1>1, <1>2 DEF ReadingAt
<1>4. rd.edi = to + sectors * SectorWords /\ ~drive.bsy BY <1>1, <1>2, <1>3 DEF ReadingAt
<1>5. rd.edi - to = sectors * SectorWords
  <2>1. sectors * SectorWords \in Nat BY Sizes
  <2> QED BY <1>4, <2>1
<1> QED BY <1>4, <1>5 DEF Reading, Stored, Holds

LEMMA ReadyReads ==
  ASSUME NEW lba \in Nat, NEW sectors \in Nat \ {0}, NEW to \in Nat,
         Reading(to, lba, sectors), DriveReady, DiskInv
  PROVE  Reading(to, lba, sectors)'
<1>1. PICK done \in 0 .. sectors : ReadingAt(to, lba, sectors, done) BY DEF Reading
<1>2. drive' = [drive EXCEPT !.bsy = FALSE, !.drq = TRUE] /\ rd' = rd /\ memory' = memory
      /\ drive.bsy
  BY DEF DriveReady
<1>3. drive = [bsy |-> drive.bsy, drq |-> drive.drq, lba |-> drive.lba, word |-> drive.word,
               left |-> drive.left]
  BY DEF DiskInv
<1>4. drive'.lba = drive.lba /\ drive'.word = drive.word /\ drive'.left = drive.left
      /\ ~drive'.bsy
  BY <1>2, <1>3
<1>5. ReadingAt(to, lba, sectors, done)' BY <1>1, <1>2, <1>4 DEF ReadingAt
<1>6. Stored(to, lba)' BY <1>2 DEF Reading, Stored
<1> QED BY <1>5, <1>6 DEF Reading

LEMMA WaitReads ==
  ASSUME NEW lba \in Nat, NEW sectors \in Nat \ {0}, NEW to \in Nat,
         Reading(to, lba, sectors), WaitSector, DiskInv
  PROVE  Reading(to, lba, sectors)'
<1>1. PICK done \in 0 .. sectors : ReadingAt(to, lba, sectors, done) BY DEF Reading
<1>2. rd' = [rd EXCEPT !.seen = TRUE, !.words = SectorWords] /\ drive' = drive
      /\ memory' = memory /\ ~drive.bsy /\ rd.left > 0 /\ ~rd.seen
  BY DEF WaitSector, DataReady
<1>3. rd = [left |-> rd.left, words |-> rd.words, edi |-> rd.edi, seen |-> rd.seen]
  BY DEF DiskInv
<1>4. rd'.left = rd.left /\ rd'.edi = rd.edi /\ rd'.seen /\ rd'.words = SectorWords
  BY <1>2, <1>3
<1>5. ReadingAt(to, lba, sectors, done)'
  <2>1. done < sectors BY <1>1, <1>2 DEF ReadingAt
  <2>2. drive.word = 0 /\ rd.edi = to + done * SectorWords BY <1>1, <1>2 DEF ReadingAt
  <2>3. SectorWords - SectorWords = 0 /\ SectorWords \in 1 .. SectorWords BY Sizes
  <2>4. to + done * SectorWords + (SectorWords - SectorWords) = to + done * SectorWords
    BY <2>3, Sizes
  <2> QED BY <1>1, <1>2, <1>4, <2>1, <2>2, <2>3, <2>4 DEF ReadingAt
<1>6. Stored(to, lba)' BY <1>2, <1>4 DEF Reading, Stored
<1> QED BY <1>5, <1>6 DEF Reading

(* The next word, at a place of its own.                                   *)
LEMMA WordReads ==
  ASSUME NEW lba \in Nat, NEW sectors \in Nat \ {0}, NEW to \in Nat,
         Reading(to, lba, sectors), ReadWord, DiskInv,
         to + sectors * SectorWords - 1 \in Place
  PROVE  /\ Reading(to, lba, sectors)'
         /\ rd.edi \in to .. (to + sectors * SectorWords - 1)
         /\ \E e : memory' = [memory EXCEPT ![rd.edi] = e]
<1>1. PICK done \in 0 .. sectors : ReadingAt(to, lba, sectors, done) BY DEF Reading
<1> DEFINE s == SectorWords
           word == s - rd.words
           i == done * s + word
<1>2. s \in Nat \ {0} BY Sizes
<1>3. rd.left > 0 /\ rd.seen BY DEF ReadWord
<1>4. /\ rd.left = sectors - done /\ done < sectors /\ rd.words \in 1 .. s /\ ~drive.bsy
      /\ drive.lba = lba + done /\ drive.left = rd.left /\ drive.word = word
      /\ rd.edi = to + i
  <2>1. to + done * s + word = to + i
    <3>1. done * s \in Nat /\ word \in Int BY <1>1, <1>2, <1>3 DEF ReadingAt
    <3> QED BY <3>1
  <2> QED BY <1>1, <1>3, <2>1 DEF ReadingAt
<1>5. word \in 0 .. (s - 1) BY <1>2, <1>4
<1>6. done \in Nat /\ rd.words \in Nat BY <1>4
<1> HIDE DEF s
<1>7. i \in 0 .. (sectors * s - 1) /\ done * s + s = (done + 1) * s /\ done * s \in Nat
      /\ sectors * s \in Nat
  <2>1. sectors \in Nat /\ done < sectors BY <1>4
  <2> HIDE DEF word
  <2>2. done * s \in Nat /\ sectors * s \in Nat BY <1>2, <1>6
  <2> QED BY <1>2, <1>5, <1>6, <2>1, <2>2, SectorBelow
<1>8. i \div s = done /\ i % s = word
  <2> HIDE DEF word
  <2> QED BY <1>2, <1>5, <1>6, WordPlace
<1>9. PICK stale \in BOOLEAN :
        /\ drive' = AfterWord(drive, stale)
        /\ memory' = [memory EXCEPT ![rd.edi] = <<drive.lba, drive.word>>]
        /\ rd' = [rd EXCEPT !.edi = rd.edi + 1, !.words = rd.words - 1, !.seen = rd.words > 1,
                            !.left = IF rd.words > 1 THEN rd.left ELSE rd.left - 1]
  BY <1>4 DEF ReadWord
<1>10. rd = [left |-> rd.left, words |-> rd.words, edi |-> rd.edi, seen |-> rd.seen]
       /\ drive = [bsy |-> drive.bsy, drq |-> drive.drq, lba |-> drive.lba, word |-> drive.word,
                   left |-> drive.left]
       /\ memory = [a \in Place |-> memory[a]]
  BY DEF DiskInv
<1>11. /\ rd'.edi = rd.edi + 1 /\ rd'.words = rd.words - 1 /\ rd'.seen = (rd.words > 1)
       /\ rd'.left = IF rd.words > 1 THEN rd.left ELSE rd.left - 1
  BY <1>9, <1>10
<1>12. /\ drive'.lba = IF rd.words > 1 THEN drive.lba ELSE drive.lba + 1
       /\ drive'.word = IF rd.words > 1 THEN drive.word + 1 ELSE 0
       /\ drive'.left = IF rd.words > 1 THEN drive.left ELSE drive.left - 1
       /\ drive'.bsy = IF rd.words > 1 THEN drive.bsy ELSE drive.left > 1
  <2>1. drive.word + 1 < SectorWords <=> rd.words > 1 BY <1>2, <1>4, <1>6 DEF s
  <2> HIDE DEF word, i
  <2>2. drive' = IF rd.words > 1 THEN [drive EXCEPT !.word = drive.word + 1]
                 ELSE [drive EXCEPT !.word = 0, !.lba = drive.lba + 1, !.left = drive.left - 1,
                                    !.bsy = drive.left > 1, !.drq = drive.left > 1 /\ stale]
    BY <1>4, <1>9, <2>1 DEF AfterWord
  <2> QED BY <1>10, <2>2
<1> HIDE DEF word
<1>13. (\E d \in 0 .. sectors : ReadingAt(to, lba, sectors, d))'
  <2>1. CASE rd.words > 1
    <3>1. rd'.words \in 1 .. s /\ drive'.word = s - rd'.words
      BY <1>2, <1>4, <1>6, <1>11, <1>12, <2>1 DEF word
    <3>2. rd'.edi = to + done * s + (s - rd'.words)
      <4>1. s - rd'.words = word + 1 BY <1>2, <1>6, <1>11 DEF word
      <4>2. to + (done * s + word) + 1 = to + done * s + (word + 1) BY <1>5, <1>7, <1>2
      <4> QED BY <1>4, <1>11, <4>1, <4>2
    <3> HIDE DEF i
    <3>3. rd'.left = sectors - done /\ drive'.lba = lba + done /\ drive'.left = rd'.left
          /\ ~drive'.bsy /\ rd'.seen
      BY <1>4, <1>11, <1>12, <2>1
    <3>4. ReadingAt(to, lba, sectors, done)' BY <1>1, <1>4, <3>1, <3>2, <3>3 DEF ReadingAt, s
    <3> QED BY <1>1, <3>4
  <2>2. CASE ~(rd.words > 1)
    <3>1. rd.words = 1 /\ word = s - 1 BY <1>4, <2>2 DEF word
    <3>2. rd'.edi = to + (done + 1) * s
      <4>1. to + (done * s + (s - 1)) + 1 = to + (done * s + s) BY <1>2, <1>7
      <4> QED BY <1>4, <1>7, <1>11, <3>1, <4>1
    <3> HIDE DEF i
    <3>3. rd'.left = sectors - (done + 1) /\ drive'.lba = lba + (done + 1)
          /\ drive'.left = rd'.left /\ drive'.word = 0
      BY <1>4, <1>6, <1>11, <1>12, <2>2
    <3>4. ~rd'.seen BY <1>11, <2>2
    <3>5. done + 1 = sectors => ~drive'.bsy
      <4>1. done + 1 = sectors => ~(drive.left > 1) BY <1>4, <1>6
      <4> QED BY <1>12, <2>2, <4>1
    <3>6. done + 1 \in 0 .. sectors BY <1>4, <1>6
    <3>7. ReadingAt(to, lba, sectors, done + 1)'
      BY <3>2, <3>3, <3>4, <3>5, <3>6 DEF ReadingAt, s
    <3> QED BY <3>6, <3>7
  <2> QED BY <2>1, <2>2
<1>14. rd.edi \in to .. (to + sectors * s - 1) /\ rd.edi \in Place
  <2> HIDE DEF i
  <2>1. rd.edi \in to .. (to + sectors * s - 1) BY <1>4, <1>7
  <2>2. KernelGdt \in Nat BY Sizes
  <2> QED BY <1>7, <2>1, <2>2, Sizes DEF s
<1>15. Stored(to, lba)'
  <2>1. memory'[rd.edi] = <<lba + done, word>> BY <1>4, <1>9, <1>10, <1>14
  <2>2. \A a \in Place : a # rd.edi => memory'[a] = memory[a] BY <1>9, <1>10
  <2> HIDE DEF i
  <2>3. rd'.edi - to - 1 = i /\ rd.edi - to - 1 = i - 1 BY <1>4, <1>7, <1>11
  <2>4. \A j \in 0 .. i : j = i \/ j \in 0 .. (i - 1) BY <1>7
  <2>5. \A j \in 0 .. (i - 1) : to + j \in Place /\ to + j # rd.edi
    BY <1>4, <1>7, <1>14, Sizes
  <2>6. \A j \in 0 .. (i - 1) : memory[to + j] = <<lba + j \div s, j % s>>
    BY <2>3 DEF Reading, Stored, s
  <2>7. \A j \in 0 .. (i - 1) : memory'[to + j] = <<lba + j \div s, j % s>>
    BY <2>2, <2>5, <2>6
  <2>8. memory'[to + i] = <<lba + i \div s, i % s>> BY <1>4, <1>8, <2>1 DEF i
  <2>9. \A j \in 0 .. i : memory'[to + j] = <<lba + j \div s, j % s>> BY <2>4, <2>7, <2>8
  <2> QED BY <2>3, <2>9 DEF Stored, s
<1> QED BY <1>9, <1>13, <1>14, <1>15 DEF Reading, s

-----------------------------------------------------------------------------
(* DiskInv, step by step.                                                  *)

LEMMA Places ==
  /\ LoaderAt + LoaderSectors * SectorWords - 1 \in Place
  /\ KernelAt + KernelSectors * SectorWords - 1 \in Place
  /\ LoaderAt + LoaderSectors * SectorWords - 1 = LoaderGdt
  /\ KernelAt + KernelSectors * SectorWords - 1 = KernelGdt - 1
  /\ LoaderAt \in Nat /\ KernelAt \in Nat /\ LoaderGdt \in Nat /\ KernelGdt \in Nat
  /\ LoaderGdt < KernelAt /\ TableWords <= KernelAt /\ KernelAt < KernelGdt
  /\ LoaderLba \in Nat /\ KernelLba \in Nat
<1> DEFINE l == LoaderSectors * SectorWords
           k == KernelSectors * SectorWords
<1>1. l \in Nat \ {0} /\ k \in Nat \ {0} /\ TableWords \in Nat \ {0} BY Sizes
<1>2. LoaderAt = 0 /\ KernelAt = l + TableWords /\ KernelGdt = KernelAt + k
      /\ LoaderGdt = l - 1 /\ Place = 0 .. KernelGdt
  BY Sizes
<1> HIDE DEF l, k
<1>3. /\ LoaderAt + l - 1 \in Place /\ KernelAt + k - 1 \in Place
      /\ LoaderAt + l - 1 = LoaderGdt /\ KernelAt + k - 1 = KernelGdt - 1
      /\ LoaderAt \in Nat /\ KernelAt \in Nat /\ LoaderGdt \in Nat /\ KernelGdt \in Nat
      /\ LoaderGdt < KernelAt /\ TableWords <= KernelAt /\ KernelAt < KernelGdt
  BY <1>1, <1>2
<1> QED BY <1>3 DEF l, k, LoaderLba, KernelLba

LEMMA InitDisk == BootInit => DiskInv
<1> SUFFICES ASSUME BootInit PROVE DiskInv OBVIOUS
<1>1. KernelGdt # -1 BY Places
<1> QED BY <1>1 DEF BootInit, DiskInv

(* The three steps of a read, in either phase that reads.                  *)
LEMMA PhaseReads ==
  ASSUME DiskInv, rd.left # 0 \/ drive.bsy
  PROVE  \/ phase = "loader" /\ Reading(LoaderAt, LoaderLba, LoaderSectors)
         \/ phase = "start" /\ Reading(KernelAt, KernelLba, KernelSectors)
BY DEF DiskInv

LEMMA ReadyDisk == DiskInv /\ DriveReady => DiskInv'
<1> SUFFICES ASSUME DiskInv, DriveReady PROVE DiskInv' OBVIOUS
<1>1. drive' = [drive EXCEPT !.bsy = FALSE, !.drq = TRUE] /\ UNCHANGED <<phase, memory, rd, gdtr>>
      /\ drive.bsy
  BY DEF DriveReady
<1>2. phase \in {"loader", "start"} BY <1>1, PhaseReads
<1>3. phase = "loader" => Reading(LoaderAt, LoaderLba, LoaderSectors)'
  BY ReadyReads, Places, Sizes DEF DiskInv
<1>4. phase = "start" => Reading(KernelAt, KernelLba, KernelSectors)'
  BY ReadyReads, Places, Sizes DEF DiskInv
<1>5. drive' = [bsy |-> drive'.bsy, drq |-> drive'.drq, lba |-> drive'.lba, word |-> drive'.word,
                left |-> drive'.left]
  BY <1>1 DEF DiskInv
<1> QED BY <1>1, <1>2, <1>3, <1>4, <1>5 DEF DiskInv, Holds

LEMMA WaitDisk == DiskInv /\ WaitSector => DiskInv'
<1> SUFFICES ASSUME DiskInv, WaitSector PROVE DiskInv' OBVIOUS
<1>1. rd' = [rd EXCEPT !.seen = TRUE, !.words = SectorWords]
      /\ UNCHANGED <<phase, memory, drive, gdtr>> /\ rd.left > 0
  BY DEF WaitSector
<1>2. phase \in {"loader", "start"}
  <2>1. rd.left # 0 BY <1>1
  <2> QED BY <2>1, PhaseReads
<1>3. phase = "loader" => Reading(LoaderAt, LoaderLba, LoaderSectors)'
  BY WaitReads, Places, Sizes DEF DiskInv
<1>4. phase = "start" => Reading(KernelAt, KernelLba, KernelSectors)'
  BY WaitReads, Places, Sizes DEF DiskInv
<1>5. rd' = [left |-> rd'.left, words |-> rd'.words, edi |-> rd'.edi, seen |-> rd'.seen]
  BY <1>1 DEF DiskInv
<1> QED BY <1>1, <1>2, <1>3, <1>4, <1>5 DEF DiskInv, Holds

LEMMA WordDisk == DiskInv /\ ReadWord => DiskInv'
<1> SUFFICES ASSUME DiskInv, ReadWord PROVE DiskInv' OBVIOUS
<1>1. PICK stale \in BOOLEAN : drive' = AfterWord(drive, stale) BY DEF ReadWord
<1>2. rd' = [rd EXCEPT !.edi = @ + 1, !.words = @ - 1, !.seen = rd.words > 1,
                       !.left = IF rd.words > 1 THEN @ ELSE @ - 1]
      /\ UNCHANGED <<phase, gdtr>> /\ rd.left > 0
      /\ memory' = [memory EXCEPT ![rd.edi] = IF drive.bsy THEN Junk ELSE <<drive.lba, drive.word>>]
  BY DEF ReadWord
<1>3. rd' = [left |-> rd'.left, words |-> rd'.words, edi |-> rd'.edi, seen |-> rd'.seen]
  BY <1>2 DEF DiskInv
<1>4. drive' = [bsy |-> drive'.bsy, drq |-> drive'.drq, lba |-> drive'.lba, word |-> drive'.word,
                left |-> drive'.left]
  BY <1>1 DEF DiskInv, AfterWord
<1>5. memory' = [a \in Place |-> memory'[a]]
      /\ \A a \in Place : a # rd.edi => memory'[a] = memory[a]
  BY <1>2 DEF DiskInv
<1>6. \/ phase = "loader" /\ Reading(LoaderAt, LoaderLba, LoaderSectors)
      \/ phase = "start" /\ Reading(KernelAt, KernelLba, KernelSectors)
  <2>1. rd.left # 0 BY <1>2
  <2> QED BY <2>1, PhaseReads
<1>7. CASE phase = "loader"
  <2>1. Reading(LoaderAt, LoaderLba, LoaderSectors)' BY <1>6, <1>7, WordReads, Places, Sizes
  <2>2. gdtr = -1 /\ gdtr # KernelGdt BY <1>7, Places DEF DiskInv
  <2> QED BY <1>2, <1>3, <1>4, <1>5, <1>7, <2>1, <2>2 DEF DiskInv
<1>8. CASE phase = "start"
  <2>1. Reading(KernelAt, KernelLba, KernelSectors)'
        /\ rd.edi \in KernelAt .. (KernelAt + KernelSectors * SectorWords - 1)
    BY <1>6, <1>8, WordReads, Places, Sizes
  <2>2. rd.edi \in KernelAt .. (KernelGdt - 1) BY <2>1, Places
  <2>3. \A i \in 0 .. (LoaderWords - 1) : memory'[LoaderAt + i] = memory[LoaderAt + i]
    <3> SUFFICES ASSUME NEW i \in 0 .. (LoaderWords - 1)
                 PROVE memory'[LoaderAt + i] = memory[LoaderAt + i]
      OBVIOUS
    <3>1. LoaderAt + i \in Place /\ LoaderAt + i # rd.edi BY <2>2, Sizes
    <3> QED BY <1>5, <3>1
  <2>4. Holds(LoaderAt, LoaderLba, LoaderWords) BY <1>8 DEF DiskInv
  <2>5. Holds(LoaderAt, LoaderLba, LoaderWords)' BY <2>3, <2>4, HoldsStays DEF Holds
  <2>6. gdtr = LoaderGdt /\ gdtr # KernelGdt BY <1>8, Places DEF DiskInv
  <2> QED BY <1>2, <1>3, <1>4, <1>5, <1>8, <2>1, <2>5, <2>6 DEF DiskInv
<1> QED BY <1>6, <1>7, <1>8

LEMMA BootDisk ==
  ASSUME DiskInv, phase = "off", NEW r, NEW carry, BootSector(r, carry)
  PROVE  DiskInv'
<1>1. ReadDisk(LoaderLba, LoaderSectors, LoaderAt) /\ phase' = "loader" /\ UNCHANGED <<memory, gdtr>>
  BY DEF BootSector
<1>2. /\ Reading(LoaderAt, LoaderLba, LoaderSectors)'
      /\ rd' = [left |-> rd'.left, words |-> rd'.words, edi |-> rd'.edi, seen |-> rd'.seen]
      /\ drive' = [bsy |-> drive'.bsy, drq |-> drive'.drq, lba |-> drive'.lba,
                   word |-> drive'.word, left |-> drive'.left]
  BY <1>1, ReadStarts, Places, Sizes
<1> QED BY <1>1, <1>2 DEF DiskInv

LEMMA SignatureDisk == DiskInv /\ CheckSignature => DiskInv'
<1> SUFFICES ASSUME DiskInv, CheckSignature PROVE DiskInv' OBVIOUS
<1>1. phase = "loader" /\ rd.left = 0 /\ phase' \in {"detect", "halted"}
      /\ UNCHANGED <<memory, rd, drive, gdtr>>
  BY DEF CheckSignature, disk
<1>2. Holds(LoaderAt, LoaderLba, LoaderSectors * SectorWords) /\ ~drive.bsy
  BY <1>1, ReadDone, Places, Sizes DEF DiskInv
<1>3. Holds(LoaderAt, LoaderLba, LoaderWords) BY <1>2 DEF LoaderWords
<1> QED BY <1>1, <1>2, <1>3 DEF DiskInv, Holds

LEMMA MemoryDisk == DiskInv /\ CheckMemory => DiskInv'
<1> SUFFICES ASSUME DiskInv, CheckMemory PROVE DiskInv' OBVIOUS
<1>1. phase = "detect" /\ phase' \in {"detect", "protect", "halted"}
      /\ UNCHANGED <<memory, rd, drive, gdtr>>
  BY DEF CheckMemory, disk
<1> QED BY <1>1 DEF DiskInv, Holds

LEMMA ProtectDisk == DiskInv /\ ProtectEnable => DiskInv'
<1> SUFFICES ASSUME DiskInv, ProtectEnable PROVE DiskInv' OBVIOUS
<1>1. phase = "protect" /\ phase' = "start" /\ memory' = memory /\ gdtr' = LoaderGdt
      /\ ReadDisk(KernelLba, KernelSectors, KernelAt)
  BY DEF ProtectEnable
<1>2. /\ Reading(KernelAt, KernelLba, KernelSectors)'
      /\ rd' = [left |-> rd'.left, words |-> rd'.words, edi |-> rd'.edi, seen |-> rd'.seen]
      /\ drive' = [bsy |-> drive'.bsy, drq |-> drive'.drq, lba |-> drive'.lba,
                   word |-> drive'.word, left |-> drive'.left]
  BY <1>1, ReadStarts, Places, Sizes
<1>3. LoaderGdt # KernelGdt BY Places
<1> QED BY <1>1, <1>2, <1>3 DEF DiskInv, Holds

LEMMA GdtDisk == DiskInv /\ GdtInit => DiskInv'
<1> SUFFICES ASSUME DiskInv, GdtInit PROVE DiskInv' OBVIOUS
<1>1. phase = "start" /\ rd.left = 0 /\ phase' = "ards" /\ UNCHANGED <<rd, drive>>
      /\ memory' = [memory EXCEPT ![KernelGdt] = memory[gdtr]] /\ gdtr' = KernelGdt
  BY DEF GdtInit, GdtBase, disk
<1>2. Holds(KernelAt, KernelLba, KernelSectors * SectorWords) /\ ~drive.bsy
  BY <1>1, ReadDone, Places, Sizes DEF DiskInv
<1>3. Holds(KernelAt, KernelLba, KernelWords) BY <1>2 DEF KernelWords
<1>4. memory = [a \in Place |-> memory[a]] /\ KernelGdt \in Place BY Places, Sizes DEF DiskInv
<1>5. memory' = [a \in Place |-> memory'[a]] /\ memory'[KernelGdt] = memory[gdtr]
      /\ \A a \in Place : a # KernelGdt => memory'[a] = memory[a]
  BY <1>1, <1>4
<1>6. \A i \in 0 .. (KernelWords - 1) : KernelAt + i \in Place /\ KernelAt + i # KernelGdt
  BY Sizes, Places
<1>7. Holds(KernelAt, KernelLba, KernelWords)' BY <1>3, <1>5, <1>6, HoldsStays DEF Holds
<1>8. memory[gdtr] = LastWord BY <1>1, LoaderEnd DEF DiskInv
<1> QED BY <1>1, <1>2, <1>5, <1>7, <1>8 DEF DiskInv

LEMMA NextRangeDisk == DiskInv /\ ArdsInitNext => DiskInv'
<1> SUFFICES ASSUME DiskInv, ArdsInitNext PROVE DiskInv' OBVIOUS
<1>1. UNCHANGED <<phase, memory, rd, drive, gdtr>> BY DEF ArdsInitNext, disk
<1> QED BY <1>1 DEF DiskInv, Holds, Reading, Stored, ReadingAt

LEMMA RangesDoneDisk == DiskInv /\ ArdsInitDone => DiskInv'
<1> SUFFICES ASSUME DiskInv, ArdsInitDone PROVE DiskInv' OBVIOUS
<1>1. phase = "ards" /\ phase' \in {"map", "halted"} /\ UNCHANGED <<memory, rd, drive, gdtr>>
  BY DEF ArdsInitDone, disk
<1> QED BY <1>1 DEF DiskInv, Holds

LEMMA KernelDisk == DiskInv /\ KernelInit => DiskInv'
<1> SUFFICES ASSUME DiskInv, KernelInit PROVE DiskInv' OBVIOUS
<1>1. phase = "map" /\ phase' = "run" /\ UNCHANGED <<rd, drive, gdtr>>
      /\ memory' = [a \in Place |-> IF a < TableWords THEN Zero ELSE memory[a]]
  BY DEF KernelInit, disk
<1>2. \A a \in Place : a >= KernelAt => memory'[a] = memory[a]
  <2> SUFFICES ASSUME NEW a \in Place, a >= KernelAt PROVE memory'[a] = memory[a] OBVIOUS
  <2>1. ~(a < TableWords) BY Places, Sizes
  <2> QED BY <1>1, <2>1
<1>3. \A i \in 0 .. (KernelWords - 1) : KernelAt + i \in Place /\ KernelAt + i >= KernelAt
  BY Sizes, Places
<1>4. Holds(KernelAt, KernelLba, KernelWords)' BY <1>1, <1>2, <1>3 DEF DiskInv, Holds
<1>5. KernelGdt \in Place /\ KernelGdt >= KernelAt BY Sizes, Places
<1>6. memory'[KernelGdt] = LastWord BY <1>1, <1>2, <1>5 DEF DiskInv
<1>7. memory' = [a \in Place |-> memory'[a]] BY <1>1
<1> QED BY <1>1, <1>4, <1>6, <1>7 DEF DiskInv

LEMMA DiskStays == DiskInv /\ UNCHANGED bootVars => DiskInv'
BY DEF DiskInv, bootVars, disk, Reading, Stored, ReadingAt, Holds

LEMMA NextDisk == DiskInv /\ [BootNext]_bootVars => DiskInv'
<1> SUFFICES ASSUME DiskInv, [BootNext]_bootVars PROVE DiskInv' OBVIOUS
<1>1. CASE UNCHANGED bootVars BY <1>1, DiskStays
<1>2. CASE phase = "off" /\ \E r \in Ranges, carry \in BOOLEAN : BootSector(r, carry)
  BY <1>2, BootDisk
<1>3. CASE DriveReady \/ WaitSector \/ ReadWord BY <1>3, ReadyDisk, WaitDisk, WordDisk
<1>4. CASE CheckSignature \/ CheckMemory \/ ProtectEnable
  BY <1>4, SignatureDisk, MemoryDisk, ProtectDisk
<1>5. CASE GdtInit \/ ArdsInitNext \/ ArdsInitDone \/ KernelInit
  BY <1>5, GdtDisk, NextRangeDisk, RangesDoneDisk, KernelDisk
<1> QED BY <1>1, <1>2, <1>3, <1>4, <1>5 DEF BootNext

LEMMA DiskImage == DiskInv => ImageIntact
<1> SUFFICES ASSUME DiskInv PROVE ImageIntact OBVIOUS
<1>1. LoaderGdt # -1 /\ KernelGdt # -1 /\ LoaderGdt # KernelGdt BY Places
<1>2. gdtr # -1 => memory[gdtr] = LastWord BY <1>1, LoaderEnd DEF DiskInv
<1> QED BY <1>2 DEF DiskInv, ImageIntact, LastWord

(* However long the drive takes, the processor uses what was read: the     *)
(* whole loader, the whole kernel and the segment descriptors.             *)
THEOREM ImageStaysIntact == BootSpec => []ImageIntact
<1>1. BootSpec => []DiskInv
  BY InitDisk, NextDisk, PTL DEF BootSpec
<1> QED BY <1>1, DiskImage, PTL

-----------------------------------------------------------------------------
(* The ranges a BIOS reports.                                              *)

LEMMA MainRange ==
  ASSUME ranges \in Ranges
  PROVE  /\ \E i \in 1 .. Len(ranges) : ranges[i] = Main
         /\ \A i \in 1 .. Len(ranges) : IsMain(ranges[i]) => ranges[i] = Main
         /\ Main.valid /\ Main.addr = MemoryBaseAddr /\ Main.size \in Nat
         /\ MemoryBaseAddr + Main.size < Word32
         /\ Len(ranges) \in Nat \ {0}
<1> DEFINE S == {ranges[i] : i \in 1 .. Len(ranges)}
<1>1. ranges \in Seq(Descriptor) /\ Len(ranges) \in Nat BY RangesAssumption
<1>2. PICK k \in 1 .. Len(ranges) : IsMain(ranges[k]) BY RangesAssumption
<1>3. Main \in S /\ IsMain(Main)
  <2>1. ranges[k] \in S OBVIOUS
  <2> HIDE DEF S
  <2>2. \E d \in S : IsMain(d) BY <1>2, <2>1
  <2>3. Main = CHOOSE d \in S : IsMain(d) BY DEF Main, S
  <2> QED BY <2>2, <2>3
<1>4. PICK m \in 1 .. Len(ranges) : ranges[m] = Main BY <1>3
<1>5. \A i \in 1 .. Len(ranges) : IsMain(ranges[i]) => ranges[i] = Main
  BY <1>3, <1>4, RangesAssumption
<1>6. Main \in Descriptor BY <1>1, <1>4, ElementOfSeq
<1>7. Main.valid /\ Main.addr = MemoryBaseAddr BY <1>3 DEF IsMain
<1>8. Main.addr + Main.size < Word32
  <2>1. ~IsHigh(Main) BY <1>7 DEF IsHigh, MemoryBaseAddr, Word32
  <2> QED BY <1>3, <1>4, <1>7, <2>1, RangesAssumption
<1> QED BY <1>1, <1>2, <1>4, <1>5, <1>6, <1>7, <1>8 DEF Descriptor, MemoryBaseAddr

(* What one range can do to the base and the size that are kept.           *)
LEMMA OneRange ==
  ASSUME ranges \in Ranges, NEW i \in 1 .. Len(ranges), ranges[i].valid
  PROVE  /\ ranges[i].size \in Nat /\ ranges[i].addr \in Nat
         /\ IsMain(ranges[i]) => /\ ranges[i].addr % Word32 = MemoryBaseAddr
                                 /\ ranges[i].size % Word32 = Main.size /\ ranges[i].size = Main.size
         /\ ~IsMain(ranges[i]) /\ ranges[i].size > 0 =>
              /\ ranges[i].addr % Word32 # MemoryBaseAddr
              /\ Excuse \/ ranges[i].size < Main.size
         /\ ranges[i].size % Word32 \in Nat /\ ranges[i].size % Word32 <= ranges[i].size
<1> DEFINE d == ranges[i]
           a == d.addr
           z == d.size
<1>1. ranges \in Seq(Descriptor) BY RangesAssumption
<1>2. a \in Nat /\ z \in Nat
  <2>1. d \in Descriptor BY <1>1, ElementOfSeq
  <2> QED BY <2>1 DEF Descriptor
<1>3. \A x \in Nat : x % Word32 \in Nat /\ x % Word32 <= x /\ (x < Word32 => x % Word32 = x)
  BY DEF Word32
<1>4. ASSUME IsMain(d)
      PROVE  a % Word32 = MemoryBaseAddr /\ z % Word32 = Main.size /\ z = Main.size
  <2>1. d = Main BY <1>4, MainRange
  <2>2. a = MemoryBaseAddr /\ z < Word32 BY <1>2, <2>1, MainRange DEF MemoryBaseAddr, Word32
  <2>3. MemoryBaseAddr \in Nat /\ MemoryBaseAddr < Word32 BY DEF MemoryBaseAddr, Word32
  <2> HIDE DEF a
  <2> QED BY <1>2, <1>3, <2>1, <2>2, <2>3
<1>5. ASSUME ~IsMain(d), z > 0
      PROVE  a % Word32 # MemoryBaseAddr /\ (Excuse \/ z < Main.size)
  <2>1. a # MemoryBaseAddr BY <1>5 DEF IsMain
  <2>2. a % Word32 # MemoryBaseAddr
    <3>1. CASE a >= Word32
      <4>1. ~(a + z <= Word32) BY <1>2, <1>5, <3>1 DEF Word32
      <4> QED BY <1>5, <4>1, RangesAssumption
    <3>2. CASE ~(a >= Word32)
      <4>1. a < Word32 BY <1>2, <3>2 DEF Word32
      <4>2. a % Word32 = a BY <1>2, <1>3, <4>1
      <4> QED BY <2>1, <4>2
    <3> QED BY <3>1, <3>2
  <2>3. ~(z < Main.size) => z >= Main.size BY <1>2, MainRange
  <2> QED BY <1>5, <2>2, <2>3 DEF Excuse
<1>6. z % Word32 \in Nat /\ z % Word32 <= z BY <1>2, <1>3
<1> QED BY <1>2, <1>4, <1>5, <1>6

-----------------------------------------------------------------------------
(* ListInv, step by step.                                                  *)

LEMMA InitList == BootInit => ListInv
BY DEF BootInit, ListInv

LEMMA ExcuseStays == UNCHANGED <<ranges, carryEnds>> => (Excuse' <=> Excuse) /\ Main' = Main
BY DEF Excuse, Main

(* The steps of the drive and of the image leave the list alone.           *)
LEMMA SameList ==
  ASSUME ListInv, UNCHANGED <<phase, ranges, carryEnds, ards, scanned, sizes>>
  PROVE  ListInv'
<1>1. UNCHANGED <<memory_base, memory_size, total_pages, free_found>> BY DEF sizes
<1>2. (Excuse' <=> Excuse) /\ Main' = Main BY ExcuseStays
<1>3. Kept' <=> Kept BY <1>1, <1>2 DEF Kept
<1> QED BY <1>1, <1>2, <1>3 DEF ListInv, Listed, AllListed

LEMMA BootList ==
  ASSUME ListInv, phase = "off", NEW r \in Ranges, NEW carry \in BOOLEAN, BootSector(r, carry)
  PROVE  ListInv'
<1>1. ranges' = r /\ phase' = "loader" /\ UNCHANGED <<ards, scanned>>
      /\ UNCHANGED <<memory_base, memory_size>>
  BY DEF BootSector, sizes
<1>2. ards = << >> /\ scanned = 0 /\ memory_base = 0 /\ memory_size = 0 BY DEF ListInv
<1>3. Len(r) \in Nat BY RangesAssumption
<1>4. ards' \in Seq(Descriptor) /\ Listed' BY <1>1, <1>2, <1>3 DEF Listed
<1> QED BY <1>1, <1>2, <1>4 DEF ListInv

LEMMA SignatureList == DiskInv /\ ListInv /\ CheckSignature => ListInv'
<1> SUFFICES ASSUME DiskInv, ListInv, CheckSignature PROVE ListInv' OBVIOUS
<1>1. phase = "loader" /\ rd.left = 0
      /\ phase' = (IF memory[LoaderAt] = <<LoaderLba, 0>> THEN "detect" ELSE "halted")
      /\ UNCHANGED <<ranges, carryEnds, ards, scanned, memory_base, memory_size>>
  BY DEF CheckSignature, sizes
<1>2. Holds(LoaderAt, LoaderLba, LoaderSectors * SectorWords)
  BY <1>1, ReadDone, Places, Sizes DEF DiskInv
<1>3. memory[LoaderAt] = <<LoaderLba, 0>>
  <2>1. LoaderSectors * SectorWords \in Nat \ {0} BY Sizes
  <2>2. 0 \in 0 .. (LoaderSectors * SectorWords - 1) BY <2>1
  <2>3. 0 \div SectorWords = 0 /\ 0 % SectorWords = 0 BY Sizes
  <2>4. LoaderAt + 0 = LoaderAt /\ LoaderLba + 0 = LoaderLba BY Places
  <2>5. memory[LoaderAt + 0] = <<LoaderLba + 0 \div SectorWords, 0 % SectorWords>>
    BY <1>2, <2>2 DEF Holds
  <2> QED BY <2>3, <2>4, <2>5
<1>4. ranges \in Ranges /\ ards = << >> /\ scanned = 0 /\ memory_base = 0 /\ memory_size = 0
      /\ ards \in Seq(Descriptor) /\ Listed
  BY <1>1 DEF ListInv
<1>5. Len(ards) < Len(ranges) BY <1>4, MainRange
<1>6. Listed' BY <1>1, <1>4 DEF Listed
<1> QED BY <1>1, <1>3, <1>4, <1>5, <1>6 DEF ListInv

LEMMA MemoryList == ListInv /\ CheckMemory => ListInv'
<1> SUFFICES ASSUME ListInv, CheckMemory PROVE ListInv' OBVIOUS
<1>1. phase = "detect" /\ UNCHANGED <<ranges, carryEnds, scanned, memory_base, memory_size>>
  BY DEF CheckMemory, sizes
<1>2. /\ ranges \in Ranges /\ scanned = 0 /\ memory_base = 0 /\ memory_size = 0
      /\ ards \in Seq(Descriptor) /\ Listed /\ (carryEnds \/ Len(ards) < Len(ranges))
  BY <1>1 DEF ListInv
<1>3. CASE Len(ards) = Len(ranges)
  <2>1. ards' = ards /\ phase' = "halted" BY <1>3 DEF CheckMemory
  <2>2. carryEnds
    <3>1. ~(Len(ards) < Len(ranges)) BY <1>2, <1>3, MainRange
    <3> QED BY <1>2, <3>1
  <2>3. Excuse' BY <1>1, <2>2 DEF Excuse
  <2> QED BY <1>1, <1>2, <2>1, <2>3 DEF ListInv
<1>4. CASE Len(ards) # Len(ranges)
  <2> DEFINE d == ranges[Len(ards) + 1]
  <2>1. ards' = Append(ards, d)
        /\ phase' = (IF Len(ards') = Len(ranges) /\ ~carryEnds THEN "protect" ELSE "detect")
    BY <1>4 DEF CheckMemory
  <2>2. Len(ards) \in Nat /\ Len(ranges) \in Nat /\ Len(ards) < Len(ranges)
    BY <1>2, <1>4, MainRange, LenProperties DEF Listed
  <2>3. d \in Descriptor
    <3>1. ranges \in Seq(Descriptor) BY <1>2, RangesAssumption
    <3> QED BY <2>2, <3>1, ElementOfSeq
  <2> HIDE DEF d
  <2>4. /\ ards' \in Seq(Descriptor) /\ Len(ards') = Len(ards) + 1
        /\ \A i \in 1 .. Len(ards) : ards'[i] = ards[i]
        /\ ards'[Len(ards) + 1] = d
    BY <1>2, <2>1, <2>3, AppendProperties
  <2>5. Listed'
    <3> SUFFICES ASSUME NEW i \in 1 .. Len(ards') PROVE ards'[i] = ranges[i]
      BY <1>1, <2>2, <2>4 DEF Listed
    <3>1. i \in 1 .. Len(ards) \/ i = Len(ards) + 1 BY <2>2, <2>4
    <3> QED BY <1>2, <2>4, <3>1 DEF Listed, d
  <2>6. ~carryEnds /\ Len(ards') # Len(ranges) => Len(ards') < Len(ranges)
    BY <2>2, <2>4
  <2> QED BY <1>1, <1>2, <2>1, <2>4, <2>5, <2>6 DEF ListInv, AllListed
<1> QED BY <1>3, <1>4

LEMMA ProtectList == ListInv /\ ProtectEnable => ListInv'
<1> SUFFICES ASSUME ListInv, ProtectEnable PROVE ListInv' OBVIOUS
<1>1. phase = "protect" /\ phase' = "start"
      /\ UNCHANGED <<ranges, carryEnds, ards, scanned, memory_base, memory_size>>
  BY DEF ProtectEnable, sizes
<1> QED BY <1>1 DEF ListInv, Listed, AllListed

LEMMA GdtList == ListInv /\ GdtInit => ListInv'
<1> SUFFICES ASSUME ListInv, GdtInit PROVE ListInv' OBVIOUS
<1>1. phase = "start" /\ phase' = "ards"
      /\ UNCHANGED <<ranges, carryEnds, ards, scanned, memory_base, memory_size>>
  BY DEF GdtInit, sizes
<1>2. ranges \in Ranges /\ scanned = 0 /\ memory_base = 0 /\ memory_size = 0 BY <1>1 DEF ListInv
<1>3. Kept
  <2>1. memory_base # MemoryBaseAddr BY <1>2 DEF MemoryBaseAddr
  <2>2. Main.size < KernelMemorySize \/ memory_size < Main.size
    BY <1>2, MainRange DEF KernelMemorySize
  <2>3. \A i \in 1 .. scanned : ~IsMain(ranges[i]) BY <1>2
  <2> QED BY <2>1, <2>2, <2>3 DEF Kept, Excuse
<1>4. Kept' BY <1>1, <1>3, ExcuseStays DEF Kept
<1>5. scanned' \in 0 .. Len(ranges') /\ memory_size' \in Nat BY <1>1, <1>2, MainRange
<1> QED BY <1>1, <1>2, <1>4, <1>5 DEF ListInv, Listed, AllListed

LEMMA NextRangeList == ListInv /\ ArdsInitNext => ListInv'
<1> SUFFICES ASSUME ListInv, ArdsInitNext PROVE ListInv' OBVIOUS
<1> DEFINE i == scanned + 1
           d == ranges[i]
<1>1. phase = "ards" /\ scanned < Len(ards) /\ scanned' = i
      /\ UNCHANGED <<phase, ranges, carryEnds, ards, total_pages, free_found>>
  BY DEF ArdsInitNext
<1>2. /\ ranges \in Ranges /\ scanned \in 0 .. Len(ranges) /\ memory_size \in Nat /\ Kept
      /\ Len(ards) = Len(ranges) /\ Listed /\ AllListed
  BY <1>1 DEF ListInv, AllListed
<1>3. i \in 1 .. Len(ranges) /\ i \in 1 .. Len(ards) BY <1>1, <1>2, MainRange
<1>4. ards[i] = d BY <1>2, <1>3 DEF Listed
<1>5. \A j \in 1 .. i : j = i \/ j \in 1 .. scanned BY <1>2
<1>6. (Excuse' <=> Excuse) /\ Main' = Main BY <1>1, ExcuseStays
<1>7. memory_size' \in Nat /\ Kept'
  <2>1. CASE Larger(d, memory_size)
    <3>1. memory_base' = d.addr % Word32 /\ memory_size' = d.size % Word32
      BY <1>4, <2>1 DEF ArdsInitNext
    <3>2. d.valid /\ d.size > memory_size BY <2>1 DEF Larger
    <3> HIDE DEF i
    <3>3. /\ d.size \in Nat /\ d.size % Word32 \in Nat /\ d.size % Word32 <= d.size
          /\ IsMain(d) => d.addr % Word32 = MemoryBaseAddr /\ d.size % Word32 = Main.size
                          /\ d.size = Main.size
          /\ ~IsMain(d) /\ d.size > 0 =>
               d.addr % Word32 # MemoryBaseAddr /\ (Excuse \/ d.size < Main.size)
      BY <1>2, <1>3, <3>2, OneRange
    <3>4. d.size > 0 BY <1>2, <3>2, <3>3
    <3>5. CASE IsMain(d)
      BY <1>6, <3>1, <3>3, <3>5 DEF Kept
    <3>6. CASE ~IsMain(d)
      <4>1. memory_base' # MemoryBaseAddr BY <3>1, <3>3, <3>4, <3>6
      <4>2. CASE Excuse BY <1>6, <3>1, <3>3, <4>1, <4>2 DEF Kept
      <4>3. CASE ~Excuse
        <5>1. d.size < Main.size /\ Main.size \in Nat BY <1>2, <3>3, <3>4, <3>6, <4>3, MainRange
        <5>2. memory_size # Main.size BY <1>2, <3>2, <3>3, <5>1
        <5>3. \A j \in 1 .. scanned : ~IsMain(ranges[j]) BY <1>2, <4>3, <5>2 DEF Kept
        <5>4. \A j \in 1 .. scanned' : ~IsMain(ranges'[j]) BY <1>1, <1>5, <3>6, <5>3
        <5>5. memory_size' < Main.size BY <3>1, <3>3, <5>1
        <5> QED BY <1>6, <3>1, <3>3, <4>1, <5>4, <5>5 DEF Kept
      <4> QED BY <4>2, <4>3
    <3> QED BY <3>5, <3>6
  <2>2. CASE ~Larger(d, memory_size)
    <3>1. memory_base' = memory_base /\ memory_size' = memory_size
      BY <1>4, <2>2 DEF ArdsInitNext
    <3>2. CASE Excuse BY <1>2, <1>6, <3>1, <3>2 DEF Kept
    <3>3. CASE memory_base = MemoryBaseAddr /\ memory_size = Main.size
      BY <1>2, <1>6, <3>1, <3>3 DEF Kept
    <3>4. CASE (\A j \in 1 .. scanned : ~IsMain(ranges[j])) /\ memory_size < Main.size
      <4>1. ~IsMain(d)
        <5> SUFFICES ASSUME IsMain(d) PROVE FALSE OBVIOUS
        <5>1. d = Main /\ d.valid BY <1>2, <1>3, MainRange
        <5>2. d.size > memory_size BY <1>2, <3>4, <5>1, MainRange
        <5> QED BY <2>2, <5>1, <5>2 DEF Larger
      <4>2. \A j \in 1 .. scanned' : ~IsMain(ranges'[j]) BY <1>1, <1>5, <3>4, <4>1
      <4> QED BY <1>2, <1>6, <3>1, <3>4, <4>2 DEF Kept
    <3> QED BY <1>2, <3>2, <3>3, <3>4 DEF Kept
  <2> QED BY <2>1, <2>2
<1>8. scanned' \in 0 .. Len(ranges') BY <1>1, <1>3
<1> QED BY <1>1, <1>2, <1>7, <1>8 DEF ListInv, Listed, AllListed

LEMMA RangesDoneList == ListInv /\ ArdsInitDone => ListInv'
<1> SUFFICES ASSUME ListInv, ArdsInitDone PROVE ListInv' OBVIOUS
<1>1. phase = "ards" /\ scanned = Len(ards)
      /\ UNCHANGED <<ranges, carryEnds, memory_base, memory_size>>
  BY DEF ArdsInitDone
<1>2. /\ ranges \in Ranges /\ memory_size \in Nat /\ Kept /\ Len(ards) = Len(ranges)
      /\ ~carryEnds
  BY <1>1 DEF ListInv, AllListed
<1>3. (Excuse' <=> Excuse) /\ Main' = Main BY <1>1, ExcuseStays
<1>4. CASE memory_base # MemoryBaseAddr
  <2>1. phase' = "halted" BY <1>4 DEF ArdsInitDone
  <2>2. PICK k \in 1 .. Len(ranges) : ranges[k] = Main BY <1>2, MainRange
  <2>3. IsMain(ranges[k]) /\ k \in 1 .. scanned BY <1>1, <1>2, <2>2, MainRange DEF IsMain
  <2>4. Excuse BY <1>2, <1>4, <2>3 DEF Kept
  <2> QED BY <1>1, <1>2, <1>3, <2>1, <2>4 DEF ListInv
<1>5. CASE memory_base = MemoryBaseAddr
  <2>1. total_pages' = Idx(memory_size + memory_base) /\ free_found' = Idx(memory_size)
        /\ phase' = (IF memory_size < KernelMemorySize THEN "halted" ELSE "map")
    BY <1>5 DEF ArdsInitDone
  <2>2. memory_size = Main.size BY <1>2, <1>5 DEF Kept
  <2>3. CASE memory_size < KernelMemorySize
    <3>1. Excuse BY <2>2, <2>3 DEF Excuse
    <3> QED BY <1>1, <1>2, <1>3, <2>1, <2>3, <3>1 DEF ListInv
  <2>4. CASE ~(memory_size < KernelMemorySize)
    <3>1. memory_size >= KernelMemorySize BY <1>2, <2>4 DEF KernelMemorySize
    <3> QED BY <1>1, <1>2, <1>3, <1>5, <2>1, <2>2, <2>4, <3>1 DEF ListInv, Idx
  <2> QED BY <2>3, <2>4
<1> QED BY <1>4, <1>5

LEMMA KernelList == ListInv /\ KernelInit => ListInv'
<1> SUFFICES ASSUME ListInv, KernelInit PROVE ListInv' OBVIOUS
<1>1. phase = "map" /\ phase' = "run"
      /\ UNCHANGED <<ranges, carryEnds, memory_base, memory_size, total_pages, free_found>>
  BY DEF KernelInit, sizes
<1>2. Main' = Main BY <1>1, ExcuseStays
<1> QED BY <1>1, <1>2 DEF ListInv, Idx

LEMMA NextList == DiskInv /\ ListInv /\ [BootNext]_bootVars => ListInv'
<1> SUFFICES ASSUME DiskInv, ListInv, [BootNext]_bootVars PROVE ListInv' OBVIOUS
<1>1. CASE UNCHANGED bootVars BY <1>1, SameList DEF bootVars
<1>2. CASE phase = "off" /\ \E r \in Ranges, carry \in BOOLEAN : BootSector(r, carry)
  BY <1>2, BootList
<1>3. CASE DriveReady \/ WaitSector \/ ReadWord
  BY <1>3, SameList DEF DriveReady, WaitSector, ReadWord
<1>4. CASE CheckSignature \/ CheckMemory \/ ProtectEnable
  BY <1>4, SignatureList, MemoryList, ProtectList
<1>5. CASE GdtInit \/ ArdsInitNext \/ ArdsInitDone \/ KernelInit
  BY <1>5, GdtList, NextRangeList, RangesDoneList, KernelList
<1> QED BY <1>1, <1>2, <1>3, <1>4, <1>5 DEF BootNext

-----------------------------------------------------------------------------
LEMMA WholePages ==
  ASSUME NEW u \in Nat \ {0}, NEW c \in Nat, NEW m \in Nat
  PROVE  /\ (m \div u) * u <= m
         /\ (m + c * u) \div u = m \div u + c
         /\ m >= c * u => (m \div u) * u >= c * u
<1> DEFINE whole == m \div u
           r == m % u
<1>1. whole \in Nat /\ r \in 0 .. (u - 1) /\ m = whole * u + r OBVIOUS
<1>2. whole * u \in Nat /\ c * u \in Nat BY <1>1
<1> HIDE DEF whole, r
<1>3. whole * u <= m BY <1>1, <1>2
<1>4. (whole + c) * u = whole * u + c * u BY <1>1
<1>5. m + c * u = (whole + c) * u + r BY <1>1, <1>2, <1>4
<1>6. ((whole + c) * u + r) \div u = whole + c
  <2> DEFINE k == whole + c
  <2>1. k \in Nat BY <1>1
  <2> HIDE DEF k
  <2>2. (k * u + r) \div u = k BY <1>1, <2>1, WordPlace
  <2> QED BY <2>2 DEF k
<1>7. (m + c * u) \div u = whole + c BY <1>5, <1>6
<1>8. m >= c * u => whole * u >= c * u
  <2> SUFFICES ASSUME m >= c * u, ~(whole * u >= c * u) PROVE FALSE OBVIOUS
  <2>1. whole < c
    <3>1. \A x, y \in Nat : y <= x => y * u <= x * u OBVIOUS
    <3> QED BY <1>1, <1>2, <3>1
  <2>2. (whole + 1) * u <= c * u
    <3>1. \A x, y \in Nat : y <= x => y * u <= x * u OBVIOUS
    <3> QED BY <1>1, <2>1, <3>1
  <2>3. (whole + 1) * u = whole * u + u BY <1>1
  <2> QED BY <1>1, <1>2, <2>2, <2>3
<1> QED BY <1>3, <1>7, <1>8 DEF whole

LEMMA ListUsable == ListInv => FoundMemoryUsable
<1> SUFFICES ASSUME ListInv, phase \in {"map", "run"}
             PROVE  /\ total_pages * Unit <= Main.addr + Main.size
                    /\ free_found = total_pages - MemoryBaseAddr \div Unit
                    /\ free_found * Unit >= KernelMemorySize
  BY DEF FoundMemoryUsable
<1> DEFINE m == Main.size
           c == MemoryBaseAddr \div Unit
<1>1. Unit \in Nat \ {0} /\ MemoryBaseAddr % Unit = 0 BY SizesAssumption
<1>2. ranges \in Ranges BY DEF ListInv
<1>3. m \in Nat /\ MemoryBaseAddr + m < Word32 /\ Main.addr = MemoryBaseAddr
  BY <1>2, MainRange
<1>4. m >= KernelMemorySize /\ total_pages = Idx(m + MemoryBaseAddr) /\ free_found = Idx(m)
  BY DEF ListInv, Idx
<1>5. c \in Nat /\ MemoryBaseAddr = c * Unit
  <2>1. MemoryBaseAddr \in Nat BY DEF MemoryBaseAddr
  <2>2. \A x \in Nat, u \in Nat \ {0} : x \div u \in Nat /\ x = (x \div u) * u + (x % u) OBVIOUS
  <2>3. \A x \in Nat : x + 0 = x OBVIOUS
  <2>4. \A x, y \in Nat : x * y \in Nat OBVIOUS
  <2>5. c * Unit + 0 = c * Unit BY <1>1, <2>1, <2>2, <2>3, <2>4
  <2> QED BY <1>1, <2>1, <2>2, <2>5
<1> HIDE DEF m, c
<1>6. \A x \in Nat : x < Word32 => x % Word32 = x BY DEF Word32
<1>7. m + MemoryBaseAddr \in Nat /\ m + MemoryBaseAddr < Word32 /\ m < Word32
  BY <1>3 DEF MemoryBaseAddr, Word32
<1>8. total_pages = (m + MemoryBaseAddr) \div Unit /\ free_found = m \div Unit
  BY <1>3, <1>4, <1>6, <1>7 DEF Idx
<1>9. free_found \in Nat /\ total_pages = free_found + c
      /\ total_pages * Unit <= m + MemoryBaseAddr
  <2>1. (m + c * Unit) \div Unit = m \div Unit + c BY <1>1, <1>3, <1>5, WholePages
  <2>2. \A x \in Nat : (x \div Unit) * Unit <= x BY <1>1, WholePages
  <2>3. \A x \in Nat : x \div Unit \in Nat BY <1>1
  <2> QED BY <1>3, <1>5, <1>7, <1>8, <2>1, <2>2, <2>3
<1>10. free_found * Unit >= KernelMemorySize
  <2> DEFINE e == 8 * c
  <2>1. e \in Nat BY <1>5
  <2>2. KernelMemorySize = 8 * MemoryBaseAddr BY DEF KernelMemorySize, MemoryBaseAddr
  <2>3. 8 * (c * Unit) = (8 * c) * Unit BY <1>1, <1>5
  <2>4. KernelMemorySize = e * Unit BY <1>5, <2>2, <2>3
  <2> HIDE DEF e
  <2>5. m >= e * Unit => (m \div Unit) * Unit >= e * Unit BY <1>1, <1>3, <2>1, WholePages
  <2> QED BY <1>4, <1>8, <2>4, <2>5
<1>11. free_found = total_pages - c BY <1>5, <1>9
<1>12. total_pages * Unit <= Main.addr + Main.size
  <2>1. m + MemoryBaseAddr = MemoryBaseAddr + m BY <1>3 DEF MemoryBaseAddr
  <2> QED BY <1>3, <1>9, <2>1 DEF m
<1> QED BY <1>10, <1>11, <1>12 DEF c

LEMMA BootHolds == BootSpec => [](DiskInv /\ ListInv)
<1>1. DiskInv /\ ListInv /\ [BootNext]_bootVars => (DiskInv /\ ListInv)'
  BY NextDisk, NextList
<1> QED BY InitDisk, InitList, <1>1, PTL DEF BootSpec

(* The pages that the kernel counts are in the usable range, and they are  *)
(* enough for the identity map.                                            *)
THEOREM FoundMemoryIsUsable == BootSpec => []FoundMemoryUsable
BY BootHolds, ListUsable, PTL

(* A machine with enough memory at 1 MiB starts, unless another usable     *)
(* range of it is at least as large or its BIOS ends the list with the     *)
(* carry flag.                                                             *)
THEOREM HaltsAreExcused == BootSpec => []HaltsAreExplained
<1>1. ListInv => HaltsAreExplained BY DEF ListInv, HaltsAreExplained, Excuse
<1> QED BY BootHolds, <1>1, PTL

-----------------------------------------------------------------------------
(* Strings: the invariant of each loop.                                    *)

(* The first n bytes of the second area stand at "to".                     *)
Moved(to) == \A i \in 0 .. (n - 1) : mem[to + i] = Given[Second + i]

(* No byte is changed but the n from "to" on.                              *)
OnlyThese(to) == \A a \in Address : a < to \/ a >= to + n => mem[a] = Given[a]

Seen == \A i \in 0 .. (n - 1) : Given[i] \notin {called.ch, Eos}

FoundYet == {a \in 0 .. (n - 1) : Given[a] = called.ch}

LoopInv ==
  /\ function = "string_copy" =>
       /\ p = n /\ q = Second + n /\ n <= Source /\ Moved(0)
       /\ \A a \in Address : a > n => mem[a] = Given[a]
  /\ function = "string_n_copy" =>
       p = n /\ q = Second + n /\ n <= Source /\ n <= Count /\ Moved(0) /\ OnlyThese(0)
  /\ function = "strint_cat" =>
       /\ p = IF n = 0 THEN 0 ELSE StringEnd(Given, 0) + n
       /\ q = Second + n /\ n <= Source
       /\ Moved(StringEnd(Given, 0)) /\ OnlyThese(StringEnd(Given, 0))
  /\ function \in {"string_compare", "memory_compare"} =>
       /\ p = n /\ q = Second + n /\ n <= Source /\ mem = Given
       /\ \A i \in 0 .. (n - 1) : Given[i] = Given[Second + i] /\ Given[i] # Eos
  /\ function = "string_find_char_first" =>
       p = n /\ n <= StringEnd(Given, 0) /\ mem = Given /\ Seen
  /\ function = "string_find_char_last" =>
       /\ p = n /\ n <= StringEnd(Given, 0) /\ mem = Given
       /\ q = (IF FoundYet = {} THEN Second ELSE Rightmost(FoundYet)) /\ q \in Int
  /\ function = "string_len" => p = n /\ n <= StringEnd(Given, 0) /\ mem = Given
  /\ function = "memory_set" =>
       p = n /\ n <= Count /\ OnlyThese(0) /\ \A a \in 0 .. (n - 1) : mem[a] = called.ch
  /\ function = "memory_copy" =>
       p = n /\ q = Second + n /\ n <= Count /\ Moved(0) /\ OnlyThese(0)
  /\ function = "memory_find_char_first" =>
       p = n /\ n <= Count /\ mem = Given /\ Seen

Functions == Terminated \cup Counted

CallInv ==
  /\ mem \in [Address -> Byte] /\ n \in Nat
  /\ function \in {"none", "done"} \cup Functions
  /\ function = "none" =>
       p = 0 /\ q = Second /\ n = 0 /\ mem = Given /\ called.function = "none"
  /\ function # "none" =>
       /\ Given \in [Address -> Byte] /\ called.ch \in Byte /\ Count \in 0 .. Second
       /\ called.function \in Functions /\ Legal(called.function, Given, Count)
       /\ function \in {"done", called.function}

StringInv == CallInv /\ LoopInv /\ OnlyRoomWritten /\ ResultsMatch

(* Where a string ends.                                                    *)
LEMMA EndOf ==
  ASSUME NEW m \in [Address -> Byte], m[Bytes - 1] = Eos, NEW a \in Address
  PROVE  /\ StringEnd(m, a) \in a .. (Bytes - 1) /\ m[StringEnd(m, a)] = Eos
         /\ \A b \in a .. (StringEnd(m, a) - 1) : m[b] # Eos
<1> USE AreasAssumption
<1> DEFINE U == Ends(m, a)
<1>1. U \subseteq Nat /\ U \subseteq Address /\ U # {}
  BY DEF Ends, Address
<1> HIDE DEF U
<1>2. PICK x \in U : \A y \in U : x <= y BY <1>1, LeastExists
<1>3. \A y \in U : (\A z \in U : y <= z) => y = x BY <1>1, <1>2
<1>4. StringEnd(m, a) = x BY <1>2, <1>3 DEF StringEnd, U
<1>5. x \in a .. (Bytes - 1) /\ m[x] = Eos
  BY <1>1, <1>2 DEF U, Ends, Address
<1>6. ASSUME NEW b \in a .. (x - 1), m[b] = Eos PROVE FALSE
  <2>1. b \in U BY <1>5, <1>6 DEF U, Ends, Address
  <2> QED BY <1>1, <1>2, <2>1
<1> QED BY <1>4, <1>5, <1>6

(* What is known of the strings while a loop runs.                         *)
LEMMA Called ==
  ASSUME CallInv, function \in Functions
  PROVE  /\ called.function = function /\ Legal(function, Given, Count)
         /\ Given \in [Address -> Byte] /\ called.ch \in Byte /\ Count \in 0 .. Second
         /\ StringEnd(Given, 0) \in Address /\ Given[StringEnd(Given, 0)] = Eos
         /\ \A b \in 0 .. (StringEnd(Given, 0) - 1) : Given[b] # Eos
         /\ Source \in 0 .. (Bytes - 1 - Second) /\ Given[Second + Source] = Eos
         /\ \A i \in 0 .. (Source - 1) : Given[Second + i] # Eos
<1> USE AreasAssumption
<1>1. /\ called.function = function /\ Legal(function, Given, Count)
      /\ Given \in [Address -> Byte] /\ called.ch \in Byte /\ Count \in 0 .. Second
  BY DEF CallInv, Functions, Terminated, Counted
<1>2. Given[Bytes - 1] = Eos BY <1>1 DEF Legal
<1>3. 0 \in Address /\ Second \in Address BY DEF Address
<1>4. /\ StringEnd(Given, 0) \in 0 .. (Bytes - 1) /\ Given[StringEnd(Given, 0)] = Eos
      /\ \A b \in 0 .. (StringEnd(Given, 0) - 1) : Given[b] # Eos
  BY <1>1, <1>2, <1>3, EndOf
<1> DEFINE e == StringEnd(Given, Second)
<1>5. /\ e \in Second .. (Bytes - 1) /\ Given[e] = Eos
      /\ \A b \in Second .. (e - 1) : Given[b] # Eos
  BY <1>1, <1>2, <1>3, EndOf
<1> HIDE DEF e
<1>6. Source = e - Second BY DEF Source, StringLength, e
<1>7. Source \in 0 .. (Bytes - 1 - Second) /\ Second + Source = e BY <1>5, <1>6
<1>8. \A i \in 0 .. (Source - 1) : Second + i \in Second .. (e - 1) BY <1>7
<1> QED BY <1>1, <1>4, <1>5, <1>7, <1>8 DEF Address

(* What each iteration leaves of the call.                                 *)
LEMMA CallStays ==
  ASSUME CallInv, function \in Functions, called' = called,
         mem' \in [Address -> Byte], n' \in Nat, function' \in {function, "done"}
  PROVE  CallInv'
BY DEF CallInv, Functions, Terminated, Counted, Given, Count

(* A loop goes on, or it is done.                                          *)
LEMMA GoesOn ==
  ASSUME NEW stop \in BOOLEAN, NEW value, NEW dp, NEW dq, Otherwise(stop, value, dp, dq)
  PROVE  /\ called' = called
         /\ stop => function' = "done" /\ result' = value /\ UNCHANGED <<p, q, n>>
         /\ ~stop => /\ function' = function
                     /\ p' = p + dp /\ q' = q + dq /\ n' = n + 1
BY DEF Otherwise, Return, Loop

(* An iteration leaves the call as it was; if it ends the loop what is     *)
(* left to show is the result, else the invariant of the loop.             *)
LEMMA Iteration ==
  ASSUME StringInv, function \in Functions, mem' \in [Address -> Byte],
         NEW stop \in BOOLEAN, NEW value, NEW dp, NEW dq, Otherwise(stop, value, dp, dq)
  PROVE  /\ CallInv' /\ called' = called
         /\ Given' = Given /\ Count' = Count /\ Source' = Source
         /\ Room' = Room /\ Spill' = Spill
         /\ stop => function' = "done" /\ result' = value /\ LoopInv'
         /\ ~stop => /\ function' = function /\ ResultsMatch'
                     /\ p' = p + dp /\ q' = q + dq /\ n' = n + 1
<1>1. /\ called' = called
      /\ stop => function' = "done" /\ result' = value /\ UNCHANGED <<p, q, n>>
      /\ ~stop => function' = function /\ p' = p + dp /\ q' = q + dq /\ n' = n + 1
  BY GoesOn
<1>2. n' \in Nat /\ function' \in {function, "done"}
  BY <1>1 DEF StringInv, CallInv
<1>3. CallInv' BY <1>1, <1>2, CallStays DEF StringInv
<1>4. /\ Given' = Given /\ Count' = Count /\ Source' = Source
      /\ Room' = Room /\ Spill' = Spill
  BY <1>1 DEF Given, Count, Source, Room, Spill
<1>5. stop => LoopInv' BY <1>1 DEF LoopInv
<1>6. ~stop => ResultsMatch' BY <1>1 DEF ResultsMatch, Functions, Terminated, Counted
<1> QED BY <1>1, <1>3, <1>4, <1>5, <1>6

(* A function that only reads leaves every byte as it was.                 *)
LEMMA ReadOnly ==
  ASSUME StringInv, mem' = mem, Given' = Given, Room' = Room, Spill' = Spill
  PROVE  OnlyRoomWritten' /\ mem' \in [Address -> Byte]
BY DEF StringInv, CallInv, OnlyRoomWritten

LEMMA CopyStep == StringInv /\ StringCopy => StringInv'
<1> SUFFICES ASSUME StringInv, StringCopy PROVE StringInv'
  OBVIOUS
<1> USE AreasAssumption DEF Address
<1>1. function = "string_copy" /\ function \in Functions
  BY DEF StringCopy, Functions, Terminated
<1>2. CallInv /\ n \in Nat /\ mem \in [Address -> Byte] BY DEF StringInv, CallInv
<1>3. /\ called.function = function /\ Source < Second
      /\ Source \in 0 .. (Bytes - 1 - Second) /\ Given[Second + Source] = Eos
      /\ \A i \in 0 .. (Source - 1) : Given[Second + i] # Eos
  BY <1>1, <1>2, Called DEF Legal, Source
<1>4. /\ p = n /\ q = Second + n /\ n <= Source /\ Moved(0)
      /\ \A a \in Address : a > n => mem[a] = Given[a]
  BY <1>1 DEF StringInv, LoopInv
<1> DEFINE c == mem[q]
<1>5. c = Given[Second + n] /\ q \in Address
  BY <1>2, <1>3, <1>4
<1>6. mem' = [mem EXCEPT ![n] = c, ![n + 1] = c]
  BY <1>4 DEF StringCopy, StoredTwice
<1>7. c \in Byte BY <1>2, <1>5
<1>8. Otherwise(c = Eos, 0, 1, 1) BY DEF StringCopy
<1> HIDE DEF c
<1>9. mem' \in [Address -> Byte] BY <1>2, <1>6, <1>7
<1>10. /\ CallInv' /\ called' = called
       /\ Given' = Given /\ Source' = Source /\ Room' = Room /\ Spill' = Spill
       /\ c = Eos => function' = "done" /\ LoopInv'
       /\ c # Eos => /\ function' = function /\ ResultsMatch'
                     /\ p' = p + 1 /\ q' = q + 1 /\ n' = n + 1
  BY <1>1, <1>8, <1>9, Iteration
<1>11. /\ mem'[n] = c
       /\ \A a \in Address : a # n /\ a # n + 1 => mem'[a] = mem[a]
  BY <1>2, <1>3, <1>4, <1>6
<1>12. \A i \in 0 .. n : mem'[i] = Given[Second + i]
  BY <1>2, <1>3, <1>4, <1>5, <1>11 DEF Moved
<1>13. \A a \in Address : a > n + 1 => mem'[a] = Given[a]
  BY <1>2, <1>4, <1>11
<1>14. OnlyRoomWritten'
  <2>1. Room = Source + 1 /\ Spill = 1 BY <1>1, <1>3 DEF Room, Spill
  <2> QED BY <1>2, <1>3, <1>4, <1>10, <1>13, <2>1 DEF OnlyRoomWritten
<1>15. CASE c = Eos
  <2>1. n = Source
    <3>1. ~ (n \in 0 .. (Source - 1)) BY <1>2, <1>3, <1>4, <1>5, <1>15
    <3> QED BY <1>2, <1>3, <1>4, <3>1
  <2>2. Copied(0, Second, Source + 1)' BY <1>2, <1>10, <1>12, <2>1 DEF Copied
  <2>3. ResultsMatch' BY <1>1, <1>3, <1>10, <2>2 DEF ResultsMatch
  <2> QED BY <1>10, <1>14, <1>15, <2>3 DEF StringInv
<1>16. CASE c # Eos
  <2>1. n < Source BY <1>2, <1>3, <1>4, <1>5, <1>16
  <2>2. p' = n' /\ q' = Second + n' /\ n' <= Source'
    BY <1>2, <1>3, <1>4, <1>10, <1>16, <2>1
  <2>3. Moved(0)' BY <1>2, <1>10, <1>12, <1>16 DEF Moved
  <2>4. \A a \in Address : a > n' => mem'[a] = Given'[a] BY <1>10, <1>13, <1>16
  <2>5. LoopInv' BY <1>1, <1>10, <1>16, <2>2, <2>3, <2>4 DEF LoopInv
  <2> QED BY <1>10, <1>14, <1>16, <2>5 DEF StringInv
<1> QED BY <1>15, <1>16

LEMMA NCopyStep == StringInv /\ StringNCopy => StringInv'
<1> SUFFICES ASSUME StringInv, StringNCopy PROVE StringInv'
  OBVIOUS
<1> USE AreasAssumption DEF Address
<1>1. function = "string_n_copy" /\ function \in Functions
  BY DEF StringNCopy, Functions, Terminated
<1>2. CallInv /\ n \in Nat /\ mem \in [Address -> Byte] BY DEF StringInv, CallInv
<1>3. /\ called.function = function /\ Count \in 1 .. Second
      /\ Source \in 0 .. (Bytes - 1 - Second) /\ Given[Second + Source] = Eos
      /\ \A i \in 0 .. (Source - 1) : Given[Second + i] # Eos
  BY <1>1, <1>2, Called DEF Legal
<1>4. /\ p = n /\ q = Second + n /\ n <= Source /\ n <= Count /\ Moved(0) /\ OnlyThese(0)
  BY <1>1 DEF StringInv, LoopInv
<1>5. Room = Count /\ Spill = 0 BY <1>1, <1>3 DEF Room, Spill
<1>6. CASE n < Count
  <2> DEFINE c == mem[q]
  <2>1. c = Given[Second + n] /\ q \in Address
    BY <1>2, <1>3, <1>4, <1>6 DEF OnlyThese
  <2>2. mem' = [mem EXCEPT ![n] = c] /\ Otherwise(c = Eos, 0, 1, 1)
    BY <1>4, <1>6 DEF StringNCopy, Count
  <2>3. c \in Byte BY <1>2, <2>1
  <2> HIDE DEF c
  <2>4. mem' \in [Address -> Byte] BY <1>2, <2>2, <2>3
  <2>5. /\ CallInv' /\ called' = called
        /\ Given' = Given /\ Source' = Source /\ Count' = Count /\ Room' = Room /\ Spill' = Spill
        /\ c = Eos => function' = "done" /\ LoopInv'
        /\ c # Eos => /\ function' = function /\ ResultsMatch'
                      /\ p' = p + 1 /\ q' = q + 1 /\ n' = n + 1
    BY <1>1, <2>2, <2>4, Iteration
  <2>6. mem'[n] = c /\ \A a \in Address : a # n => mem'[a] = mem[a]
    BY <1>2, <1>3, <1>4, <1>6, <2>2
  <2>7. \A i \in 0 .. n : mem'[i] = Given[Second + i]
    BY <1>2, <1>3, <1>4, <2>1, <2>6, SMTT(30) DEF Moved
  <2>8. \A a \in Address : a >= n + 1 => mem'[a] = Given[a]
    BY <1>2, <1>4, <2>6 DEF OnlyThese
  <2>9. OnlyRoomWritten'
    BY <1>2, <1>3, <1>5, <1>6, <2>5, <2>8 DEF OnlyRoomWritten
  <2>10. CASE c = Eos
    <3>1. n = Source
      <4>1. ~ (n \in 0 .. (Source - 1)) BY <1>2, <1>3, <1>4, <2>1, <2>10
      <4> QED BY <1>2, <1>3, <1>4, <4>1
    <3>2. Copied(0, Second, Source + 1)' BY <1>2, <2>5, <2>7, <3>1 DEF Copied
    <3>3. ResultsMatch' BY <1>1, <1>3, <1>6, <2>5, <3>1, <3>2 DEF ResultsMatch
    <3> QED BY <2>5, <2>9, <2>10, <3>3 DEF StringInv
  <2>11. CASE c # Eos
    <3>1. n < Source BY <1>2, <1>3, <1>4, <2>1, <2>11
    <3>2. p' = n' /\ q' = Second + n' /\ n' <= Source' /\ n' <= Count'
      BY <1>2, <1>3, <1>4, <1>6, <2>5, <2>11, <3>1
    <3>3. Moved(0)' BY <1>2, <2>5, <2>7, <2>11 DEF Moved
    <3>4. OnlyThese(0)' BY <1>2, <2>5, <2>8, <2>11 DEF OnlyThese
    <3>5. LoopInv' BY <1>1, <2>5, <2>11, <3>2, <3>3, <3>4 DEF LoopInv
    <3> QED BY <2>5, <2>9, <2>11, <3>5 DEF StringInv
  <2> QED BY <2>10, <2>11
<1>7. CASE ~ (n < Count)
  <2>1. n = Count /\ Count <= Source BY <1>2, <1>3, <1>4, <1>7
  <2>2. mem' = [mem EXCEPT ![Count - 1] = Eos] /\ Otherwise(TRUE, 0, 0, 0)
    BY <1>7, <2>1 DEF StringNCopy, Count
  <2>3. mem' \in [Address -> Byte] BY <1>2, <2>2 DEF Byte
  <2>4. /\ CallInv' /\ called' = called
        /\ Given' = Given /\ Source' = Source /\ Count' = Count /\ Room' = Room /\ Spill' = Spill
        /\ function' = "done" /\ LoopInv'
    BY <1>1, <2>2, <2>3, Iteration
  <2>5. mem'[Count - 1] = Eos /\ \A a \in Address : a # Count - 1 => mem'[a] = mem[a]
    BY <1>2, <1>3, <2>2
  <2>6. OnlyRoomWritten'
    BY <1>2, <1>3, <1>4, <1>5, <2>1, <2>4, <2>5 DEF OnlyRoomWritten, OnlyThese
  <2>7. Copied(0, Second, Count - 1)'
    BY <1>2, <1>3, <1>4, <2>1, <2>4, <2>5 DEF Copied, Moved
  <2>8. ~ (Source' < Count') /\ mem'[Count' - 1] = Eos
    BY <1>3, <2>1, <2>4, <2>5
  <2>9. ResultsMatch' BY <1>1, <1>3, <2>4, <2>7, <2>8 DEF ResultsMatch
  <2> QED BY <2>4, <2>6, <2>9 DEF StringInv
<1> QED BY <1>6, <1>7

LEMMA CatStep == StringInv /\ StrintCat => StringInv'
<1> SUFFICES ASSUME StringInv, StrintCat PROVE StringInv'
  OBVIOUS
<1> USE AreasAssumption DEF Address
<1> DEFINE e == StringEnd(Given, 0)
<1>1. function = "strint_cat" /\ function \in Functions
  BY DEF StrintCat, Functions, Terminated
<1>2. CallInv /\ n \in Nat /\ mem \in [Address -> Byte] BY DEF StringInv, CallInv
<1>3. /\ called.function = function /\ e \in Address /\ e + Source < Second
      /\ Source \in 0 .. (Bytes - 1 - Second) /\ Given[Second + Source] = Eos
      /\ \A i \in 0 .. (Source - 1) : Given[Second + i] # Eos
      /\ StringLength(Given, 0) = e /\ Given \in [Address -> Byte]
  <2>1. /\ called.function = function /\ Legal(function, Given, Count)
        /\ e \in Address /\ Given \in [Address -> Byte]
        /\ Source \in 0 .. (Bytes - 1 - Second) /\ Given[Second + Source] = Eos
        /\ \A i \in 0 .. (Source - 1) : Given[Second + i] # Eos
    BY <1>1, <1>2, Called
  <2>2. StringLength(Given, 0) = e BY <2>1 DEF StringLength
  <2> QED BY <1>1, <2>1, <2>2 DEF Legal, Source
<1>4. /\ p = IF n = 0 THEN 0 ELSE e + n
      /\ q = Second + n /\ n <= Source /\ Moved(e) /\ OnlyThese(e)
  BY <1>1 DEF StringInv, LoopInv
<1> DEFINE c == mem[q]
           place == IF n = 0 THEN StringEnd(mem, 0) ELSE p
<1>5. n = 0 => mem = Given
  <2>1. n = 0 => \A a \in Address : mem[a] = Given[a]
    BY <1>3, <1>4 DEF OnlyThese
  <2> QED BY <1>2, <1>3, <2>1
<1>6. place = e + n BY <1>2, <1>3, <1>4, <1>5
<1>7. c = Given[Second + n] /\ q \in Address
  BY <1>2, <1>3, <1>4 DEF OnlyThese
<1>8. mem' = [mem EXCEPT ![place] = c] /\ Otherwise(c = Eos, 0, place + 1 - p, 1)
  BY DEF StrintCat
<1>9. c \in Byte BY <1>2, <1>7
<1> HIDE DEF c, place, e
<1>10. mem' \in [Address -> Byte] BY <1>2, <1>8, <1>9
<1>11. /\ CallInv' /\ called' = called
       /\ Given' = Given /\ Source' = Source /\ Room' = Room /\ Spill' = Spill
       /\ c = Eos => function' = "done" /\ LoopInv'
       /\ c # Eos => /\ function' = function /\ ResultsMatch'
                     /\ p' = p + (place + 1 - p) /\ q' = q + 1 /\ n' = n + 1
  BY <1>1, <1>8, <1>10, Iteration
<1>12. mem'[e + n] = c /\ \A a \in Address : a # e + n => mem'[a] = mem[a]
  BY <1>2, <1>3, <1>4, <1>6, <1>8
<1>13. \A i \in 0 .. n : mem'[e + i] = Given[Second + i]
  BY <1>2, <1>3, <1>4, <1>7, <1>12 DEF Moved
<1>14. \A a \in Address : a < e \/ a >= e + n + 1 => mem'[a] = Given[a]
  BY <1>2, <1>3, <1>4, <1>12 DEF OnlyThese
<1>15. OnlyRoomWritten'
  <2>1. Room = e + Source + 1 /\ Spill = 0 BY <1>1, <1>3 DEF Room, Spill
  <2> QED BY <1>2, <1>3, <1>4, <1>11, <1>14, <2>1 DEF OnlyRoomWritten
<1>16. e' = e BY <1>11 DEF e
<1>17. CASE c = Eos
  <2>1. n = Source
    <3>1. ~ (n \in 0 .. (Source - 1)) BY <1>2, <1>3, <1>4, <1>7, <1>17
    <3> QED BY <1>2, <1>3, <1>4, <3>1
  <2>2. Copied(e, Second, Source + 1)' BY <1>2, <1>11, <1>13, <1>16, <2>1 DEF Copied
  <2>3. Copied(0, 0, e)'
    <3>1. \A i \in 0 .. (e - 1) : mem'[i] = Given[i] BY <1>3, <1>14
    <3>2. \A i \in 0 .. (e - 1) : 0 + i = i BY <1>3
    <3> QED BY <1>11, <1>16, <3>1, <3>2 DEF Copied
  <2>4. StringLength(Given, 0)' = e' BY <1>3, <1>11, <1>16
  <2>5. ResultsMatch' BY <1>1, <1>3, <1>11, <2>2, <2>3, <2>4 DEF ResultsMatch
  <2> QED BY <1>11, <1>15, <1>17, <2>5 DEF StringInv
<1>18. CASE c # Eos
  <2>1. n < Source BY <1>2, <1>3, <1>4, <1>7, <1>18
  <2>2. p' = e' + n' /\ n' # 0 /\ q' = Second + n' /\ n' <= Source'
    BY <1>2, <1>3, <1>4, <1>6, <1>11, <1>16, <1>18, <2>1
  <2>3. Moved(e)' BY <1>2, <1>11, <1>13, <1>16, <1>18 DEF Moved
  <2>4. OnlyThese(e)' BY <1>2, <1>3, <1>11, <1>14, <1>16, <1>18 DEF OnlyThese
  <2>5. LoopInv' BY <1>1, <1>11, <1>18, <2>2, <2>3, <2>4 DEF LoopInv, e
  <2> QED BY <1>11, <1>15, <1>18, <2>5 DEF StringInv
<1> QED BY <1>17, <1>18

(* The first difference, or the common end, is what Comparison looks at.   *)
LEMMA ComparedAt ==
  ASSUME NEW d \in 0 .. (Bytes - 1 - Second),
         Given[d] # Given[Second + d] \/ Given[d] = Eos,
         \A j \in 0 .. (d - 1) : Given[j] = Given[Second + j] /\ Given[j] # Eos
  PROVE  Comparison = IF Given[d] = Given[Second + d] THEN 0
                      ELSE Order(Given[d], Given[Second + d])
<1> DEFINE First(i) ==
             /\ Given[i] # Given[Second + i] \/ Given[i] = Eos
             /\ \A j \in 0 .. (i - 1) : Given[j] = Given[Second + j] /\ Given[j] # Eos
           c == CHOOSE i \in 0 .. (Bytes - 1 - Second) : First(i)
<1> USE AreasAssumption
<1>1. ASSUME NEW i \in 0 .. (Bytes - 1 - Second), First(i) PROVE i = d
  <2>1. ~ (i < d)
    <3>1. i < d => i \in 0 .. (d - 1) OBVIOUS
    <3> QED BY <1>1, <3>1
  <2>2. ~ (d < i)
    <3>1. d < i => d \in 0 .. (i - 1) OBVIOUS
    <3> QED BY <1>1, <3>1
  <2> QED BY <2>1, <2>2
<1>2. c = d BY <1>1
<1> QED BY <1>2 DEF Comparison

LEMMA CompareStep == StringInv /\ (StringCompare \/ MemoryCompare) => StringInv'
<1> SUFFICES ASSUME StringInv, StringCompare \/ MemoryCompare PROVE StringInv'
  OBVIOUS
<1> USE AreasAssumption DEF Address
<1>1. function \in {"string_compare", "memory_compare"} /\ function \in Functions
  BY DEF StringCompare, MemoryCompare, Functions, Terminated, Counted
<1>2. CallInv /\ n \in Nat /\ mem \in [Address -> Byte] BY DEF StringInv, CallInv
<1>3. /\ called.function = function /\ Count \in 0 .. Second
      /\ Source \in 0 .. (Bytes - 1 - Second) /\ Given[Second + Source] = Eos
  BY <1>1, <1>2, Called
<1>4. /\ p = n /\ q = Second + n /\ n <= Source /\ mem = Given
      /\ \A i \in 0 .. (n - 1) : Given[i] = Given[Second + i] /\ Given[i] # Eos
  BY <1>1 DEF StringInv, LoopInv
<1> DEFINE a == Given[n]
           b == Given[Second + n]
           none == function = "memory_compare" /\ Count = 0
           sign == IF none \/ a = b THEN 0 ELSE Order(a, b)
           stop == none \/ a # b \/ a = Eos
<1>5. mem' = mem /\ Otherwise(stop, sign, 1, 1)
  BY <1>1, <1>4 DEF StringCompare, MemoryCompare, Count
<1>6. stop \in BOOLEAN OBVIOUS
<1> HIDE DEF sign, stop
<1>7. mem' \in [Address -> Byte] BY <1>2, <1>5
<1>8. /\ CallInv' /\ called' = called
      /\ Given' = Given /\ Count' = Count /\ Source' = Source /\ Room' = Room /\ Spill' = Spill
      /\ stop => function' = "done" /\ result' = sign /\ LoopInv'
      /\ ~stop => /\ function' = function /\ ResultsMatch'
                  /\ p' = p + 1 /\ q' = q + 1 /\ n' = n + 1
  BY <1>1, <1>5, <1>6, <1>7, Iteration
<1>9. OnlyRoomWritten' BY <1>5, <1>8, ReadOnly
<1>10. CASE stop
  <2>1. CASE function = "string_compare"
    <3>1. Comparison = IF a = b THEN 0 ELSE Order(a, b)
      BY <1>2, <1>3, <1>4, <1>10, <2>1, ComparedAt DEF stop
    <3>2. result' = Comparison BY <1>8, <1>10, <2>1, <3>1 DEF sign
    <3>3. Comparison' = Comparison BY <1>8 DEF Comparison
    <3>4. ResultsMatch' BY <1>3, <1>8, <2>1, <3>2, <3>3 DEF ResultsMatch
    <3> QED BY <1>8, <1>9, <1>10, <3>4 DEF StringInv
  <2>2. CASE function = "memory_compare"
    <3>1. result' = sign BY <1>8, <1>10
    <3>2. Count = 0 => sign = 0 BY <2>2 DEF sign
    <3>3. EndWithin /\ Differing = {} => sign = 0
      <4> SUFFICES ASSUME EndWithin, Differing = {} PROVE sign = 0 OBVIOUS
      <4>1. PICK e \in 0 .. (Count - 1) : Given[e] = Eos BY DEF EndWithin
      <4>2. ~(e \in 0 .. (n - 1)) BY <1>4, <4>1
      <4>3. n \in 0 .. (Count - 1) BY <1>2, <1>3, <4>1, <4>2
      <4>4. a = b BY <4>3 DEF Differing
      <4> QED BY <4>4 DEF sign
    <3>4. ASSUME NEW d \in Differing,
                 \A k \in 0 .. (d - 1) : Given[k] = Given[Second + k] /\ Given[k] # Eos
          PROVE  sign = Order(Given[d], Given[Second + d])
      <4>1. d \in 0 .. (Count - 1) /\ Given[d] # Given[Second + d] BY DEF Differing
      <4>2. ~none BY <1>3, <4>1
      <4>3. ~(d \in 0 .. (n - 1)) BY <1>4, <4>1
      <4>4. ~(n \in 0 .. (d - 1)) BY <1>10, <3>4, <4>2 DEF stop
      <4>5. d = n BY <1>2, <1>3, <4>1, <4>3, <4>4
      <4> QED BY <4>1, <4>2, <4>5 DEF sign
    <3>5. EndWithin' = EndWithin /\ Differing' = Differing
      BY <1>8 DEF EndWithin, Differing
    <3>6. ComparedInCount'
      BY <1>8, <3>1, <3>2, <3>3, <3>4, <3>5 DEF ComparedInCount
    <3>7. ResultsMatch' BY <1>3, <1>8, <2>2, <3>6 DEF ResultsMatch
    <3> QED BY <1>8, <1>9, <1>10, <3>7 DEF StringInv
  <2> QED BY <1>1, <2>1, <2>2
<1>11. CASE ~stop
  <2>1. a = b /\ a # Eos BY <1>11 DEF stop
  <2>2. n < Source BY <1>2, <1>3, <1>4, <2>1
  <2>3. \A i \in 0 .. n : Given[i] = Given[Second + i] /\ Given[i] # Eos
    BY <1>2, <1>4, <2>1
  <2>4. /\ p' = n' /\ q' = Second + n' /\ n' <= Source' /\ mem' = Given'
        /\ \A i \in 0 .. (n' - 1) : Given'[i] = Given'[Second + i] /\ Given'[i] # Eos
    BY <1>2, <1>3, <1>4, <1>5, <1>8, <1>11, <2>2, <2>3
  <2>5. LoopInv' BY <1>1, <1>8, <1>11, <2>4 DEF LoopInv
  <2> QED BY <1>8, <1>9, <1>11, <2>5 DEF StringInv
<1> QED BY <1>10, <1>11

LEMMA FindFirstStep == StringInv /\ StringFindCharFirst => StringInv'
<1> SUFFICES ASSUME StringInv, StringFindCharFirst PROVE StringInv'
  OBVIOUS
<1> USE AreasAssumption DEF Address
<1> DEFINE e == StringEnd(Given, 0)
<1>1. function = "string_find_char_first" /\ function \in Functions
  BY DEF StringFindCharFirst, Functions, Terminated
<1>2. CallInv /\ n \in Nat /\ mem \in [Address -> Byte] BY DEF StringInv, CallInv
<1>3. called.function = function /\ e \in Address /\ Given[e] = Eos
  BY <1>1, <1>2, Called
<1>4. p = n /\ n <= e /\ mem = Given /\ Seen
  BY <1>1 DEF StringInv, LoopInv
<1> DEFINE a == Given[n]
           value == IF a = called.ch THEN n ELSE NullPtr
           stop == a \in {called.ch, Eos}
<1>5. mem' = mem /\ Otherwise(stop, value, 1, 0)
  BY <1>4 DEF StringFindCharFirst
<1>6. stop \in BOOLEAN OBVIOUS
<1> HIDE DEF value, stop, e
<1>7. mem' \in [Address -> Byte] BY <1>2, <1>5
<1>8. /\ CallInv' /\ called' = called /\ Given' = Given /\ Room' = Room /\ Spill' = Spill
      /\ stop => function' = "done" /\ result' = value /\ LoopInv'
      /\ ~stop => /\ function' = function /\ ResultsMatch'
                  /\ p' = p + 1 /\ q' = q + 0 /\ n' = n + 1
  BY <1>1, <1>5, <1>6, <1>7, Iteration
<1>9. OnlyRoomWritten' BY <1>5, <1>8, ReadOnly
<1>e. e' = e BY <1>8 DEF e
<1>10. CASE stop
  <2> DEFINE F == Found(e)
  <2>1. \A x \in F : x >= n BY <1>2, <1>4 DEF Found, Seen
  <2>2. Leftmost(F) = value
    <3>1. CASE a = called.ch
      <4>1. n \in F BY <1>2, <1>3, <1>4, <3>1 DEF Found
      <4>2. \A x \in F : (\A y \in F : x <= y) => x = n
        BY <1>2, <1>3, <2>1, <4>1 DEF Found
      <4> HIDE DEF F
      <4>3. (CHOOSE x \in F : \A y \in F : x <= y) = n BY <1>2, <2>1, <4>1, <4>2
      <4> QED BY <3>1, <4>1, <4>3 DEF Leftmost, value
    <3>2. CASE a # called.ch
      <4>1. a = Eos BY <1>10, <3>2 DEF stop
      <4>2. F = {}
        <5> SUFFICES ASSUME NEW x \in F PROVE FALSE
          OBVIOUS
        <5>1. x \in n .. e /\ Given[x] = called.ch BY <2>1, <1>2, <1>3 DEF Found
        <5>2. n < e BY <5>1, <1>2, <1>3, <1>4, <3>2
        <5>3. n \in 0 .. (e - 1) BY <1>2, <1>3, <5>2
        <5>4. \A i \in 0 .. (e - 1) : Given[i] # Eos
          BY <1>1, <1>2, Called DEF e
        <5> QED BY <4>1, <5>3, <5>4
      <4> QED BY <3>2, <4>2 DEF Leftmost, value
    <3> QED BY <3>1, <3>2
  <2>3. Leftmost(Found(e))' = Leftmost(Found(e))
    BY <1>8, <1>e DEF Leftmost, Found
  <2> HIDE DEF F
  <2>4. ResultsMatch' BY <1>1, <1>3, <1>8, <1>10, <2>2, <2>3 DEF ResultsMatch, e, F
  <2> QED BY <1>8, <1>9, <1>10, <2>4 DEF StringInv
<1>11. CASE ~stop
  <2>1. a \notin {called.ch, Eos} BY <1>11 DEF stop
  <2>2. n < e BY <1>2, <1>3, <1>4, <2>1
  <2>3. \A i \in 0 .. n : Given[i] \notin {called.ch, Eos}
    BY <1>2, <1>4, <2>1 DEF Seen
  <2>4. Seen' BY <1>2, <1>8, <1>11, <2>3 DEF Seen
  <2>5. p' = n' /\ n' <= e' /\ mem' = Given'
    BY <1>2, <1>3, <1>4, <1>5, <1>8, <1>e, <1>11, <2>2
  <2>6. LoopInv' BY <1>1, <1>8, <1>11, <2>4, <2>5 DEF LoopInv, e
  <2> QED BY <1>8, <1>9, <1>11, <2>6 DEF StringInv
<1> QED BY <1>10, <1>11

(* The last of a set of addresses.                                         *)
LEMMA RightmostIs ==
  ASSUME NEW U, U \subseteq Nat, NEW x \in U, \A y \in U : x >= y
  PROVE  Rightmost(U) = x
<1>1. \A z \in U : (\A y \in U : z >= y) => z = x OBVIOUS
<1>2. (CHOOSE z \in U : \A y \in U : z >= y) = x BY <1>1
<1> QED BY <1>2 DEF Rightmost

LEMMA FindLastStep == StringInv /\ StringFindCharLast => StringInv'
<1> SUFFICES ASSUME StringInv, StringFindCharLast PROVE StringInv'
  OBVIOUS
<1> USE AreasAssumption DEF Address
<1> DEFINE e == StringEnd(Given, 0)
<1>1. function = "string_find_char_last" /\ function \in Functions
  BY DEF StringFindCharLast, Functions, Terminated
<1>2. CallInv /\ n \in Nat /\ mem \in [Address -> Byte] BY DEF StringInv, CallInv
<1>3. /\ called.function = function /\ e \in Address /\ Given[e] = Eos /\ e < Second
      /\ \A i \in 0 .. (e - 1) : Given[i] # Eos
  <2>1. Legal(function, Given, Count) BY <1>1, <1>2, Called
  <2>2. e < Second BY <1>1, <2>1 DEF Legal, Terminated
  <2> QED BY <1>1, <1>2, <2>2, Called
<1>4. /\ p = n /\ n <= e /\ mem = Given /\ q \in Int
      /\ q = IF FoundYet = {} THEN Second ELSE Rightmost(FoundYet)
  BY <1>1 DEF StringInv, LoopInv
<1> DEFINE a == Given[n]
           ans == IF a = called.ch THEN n ELSE q
           value == IF ans = Second THEN NullPtr ELSE ans
           stop == a = Eos
           Upto(k) == {x \in 0 .. k : Given[x] = called.ch}
<1>5. mem' = mem /\ Otherwise(stop, value, 1, ans - q)
  BY <1>4 DEF StringFindCharLast
<1>6. stop \in BOOLEAN OBVIOUS
<1>7. mem' \in [Address -> Byte] BY <1>2, <1>5
<1>8. ans = IF Upto(n) = {} THEN Second ELSE Rightmost(Upto(n))
  <2>1. CASE a = called.ch
    <3>1. n \in Upto(n) /\ Upto(n) \subseteq Nat /\ \A y \in Upto(n) : n >= y
      BY <1>2, <2>1
    <3> HIDE DEF Upto
    <3> QED BY <2>1, <3>1, RightmostIs
  <2>2. CASE a # called.ch
    <3>1. Upto(n) = FoundYet
      <4>1. \A x \in 0 .. n : x # n => x \in 0 .. (n - 1) BY <1>2
      <4>2. \A x \in 0 .. (n - 1) : x \in 0 .. n BY <1>2
      <4> QED BY <4>1, <4>2, <2>2 DEF FoundYet
    <3> QED BY <1>4, <2>2, <3>1
  <2> QED BY <2>1, <2>2
<1>9. Upto(n) # {} => ans \in 0 .. n
  <2>1. CASE a = called.ch BY <1>2, <2>1
  <2>2. CASE a # called.ch
    <3>1. ASSUME Upto(n) # {} PROVE ans \in 0 .. n
      <4>1. PICK m \in Upto(n) : \A y \in Upto(n) : m >= y
        <5> DEFINE U == {n - x : x \in Upto(n)}
        <5>1. U \subseteq Nat /\ U # {} BY <1>2, <3>1
        <5>2. PICK k \in U : \A y \in U : k <= y
          <6> HIDE DEF U
          <6> QED BY <5>1, LeastExists
        <5>3. PICK m \in Upto(n) : k = n - m OBVIOUS
        <5>4. ASSUME NEW y \in Upto(n) PROVE m >= y
          <6>1. n - y \in U OBVIOUS
          <6>2. n - m <= n - y BY <5>2, <5>3, <6>1
          <6> QED BY <1>2, <6>2
        <5> QED BY <5>4
      <4>2. Upto(n) \subseteq Nat BY <1>2
      <4>3. m \in 0 .. n OBVIOUS
      <4> HIDE DEF Upto, ans
      <4>4. Rightmost(Upto(n)) = m BY <4>1, <4>2, RightmostIs
      <4> QED BY <1>8, <3>1, <4>3, <4>4
    <3> QED BY <3>1
  <2> QED BY <2>1, <2>2
<1> HIDE DEF value, stop, e, ans
<1>10. /\ CallInv' /\ called' = called /\ Given' = Given /\ Room' = Room /\ Spill' = Spill
       /\ stop => function' = "done" /\ result' = value /\ LoopInv'
       /\ ~stop => /\ function' = function /\ ResultsMatch'
                   /\ p' = p + 1 /\ q' = q + (ans - q) /\ n' = n + 1
  BY <1>1, <1>5, <1>6, <1>7, Iteration
<1>11. OnlyRoomWritten' BY <1>5, <1>10, ReadOnly
<1>12. e' = e BY <1>10 DEF e
<1>13. CASE stop
  <2>1. n = e BY <1>2, <1>3, <1>4, <1>13 DEF stop
  <2>2. Found(e) = Upto(n) BY <2>1 DEF Found
  <2>3. value = Rightmost(Found(e))
    <3>1. CASE Upto(n) = {}
      BY <1>8, <2>2, <3>1 DEF value, Rightmost
    <3>2. CASE Upto(n) # {}
      <4>1. ans # Second BY <1>2, <1>3, <1>9, <2>1, <3>2
      <4> HIDE DEF Upto
      <4> QED BY <1>8, <2>2, <3>2, <4>1 DEF value
    <3> QED BY <3>1, <3>2
  <2>4. Rightmost(Found(e))' = Rightmost(Found(e))
    BY <1>10, <1>12 DEF Rightmost, Found
  <2>5. ResultsMatch' BY <1>1, <1>3, <1>10, <1>13, <2>3, <2>4 DEF ResultsMatch, e
  <2> QED BY <1>10, <1>11, <1>13, <2>5 DEF StringInv
<1>14. CASE ~stop
  <2>1. n < e BY <1>2, <1>3, <1>4, <1>14 DEF stop
  <2>2. FoundYet' = Upto(n) BY <1>2, <1>10, <1>14 DEF FoundYet
  <2>3. q' = ans /\ ans \in Int
    <3>1. ans \in Int BY <1>2, <1>4 DEF ans
    <3> QED BY <1>4, <1>10, <1>14, <3>1
  <2>4. q' = IF FoundYet' = {} THEN Second ELSE Rightmost(FoundYet')
    BY <1>8, <2>2, <2>3
  <2>5. Rightmost(FoundYet)' = Rightmost(FoundYet') BY DEF Rightmost
  <2>6. p' = n' /\ n' <= e' /\ mem' = Given'
    BY <1>2, <1>3, <1>4, <1>5, <1>10, <1>12, <1>14, <2>1
  <2>7. LoopInv' BY <1>1, <1>10, <1>14, <2>3, <2>4, <2>5, <2>6 DEF LoopInv, e
  <2> QED BY <1>10, <1>11, <1>14, <2>7 DEF StringInv
<1> QED BY <1>13, <1>14

LEMMA LenStep == StringInv /\ StringLen => StringInv'
<1> SUFFICES ASSUME StringInv, StringLen PROVE StringInv'
  OBVIOUS
<1> USE AreasAssumption DEF Address
<1> DEFINE e == StringEnd(Given, 0)
<1>1. function = "string_len" /\ function \in Functions
  BY DEF StringLen, Functions, Terminated
<1>2. CallInv /\ n \in Nat /\ mem \in [Address -> Byte] BY DEF StringInv, CallInv
<1>3. /\ called.function = function /\ e \in Address /\ Given[e] = Eos
      /\ \A i \in 0 .. (e - 1) : Given[i] # Eos
  BY <1>1, <1>2, Called
<1>4. p = n /\ n <= e /\ mem = Given BY <1>1 DEF StringInv, LoopInv
<1> DEFINE stop == Given[n] = Eos
<1>5. mem' = mem /\ Otherwise(stop, n, 1, 0) BY <1>4 DEF StringLen, LengthAt
<1>6. stop \in BOOLEAN OBVIOUS
<1> HIDE DEF stop, e
<1>7. mem' \in [Address -> Byte] BY <1>2, <1>5
<1>8. /\ CallInv' /\ called' = called /\ Given' = Given /\ Room' = Room /\ Spill' = Spill
      /\ stop => function' = "done" /\ result' = n /\ LoopInv'
      /\ ~stop => /\ function' = function /\ ResultsMatch'
                  /\ p' = p + 1 /\ q' = q + 0 /\ n' = n + 1
  BY <1>1, <1>5, <1>6, <1>7, Iteration
<1>9. OnlyRoomWritten' BY <1>5, <1>8, ReadOnly
<1>10. e' = e BY <1>8 DEF e
<1>11. CASE stop
  <2>1. n = e
    <3>1. ~ (n \in 0 .. (e - 1)) BY <1>3, <1>11 DEF stop
    <3> QED BY <1>2, <1>3, <1>4, <3>1
  <2>2. StringLength(Given, 0)' = n BY <1>2, <1>10, <2>1 DEF StringLength, e
  <2>3. ResultsMatch' BY <1>1, <1>3, <1>8, <1>11, <2>2 DEF ResultsMatch
  <2> QED BY <1>8, <1>9, <1>11, <2>3 DEF StringInv
<1>12. CASE ~stop
  <2>1. n < e BY <1>2, <1>3, <1>4, <1>12 DEF stop
  <2>2. p' = n' /\ n' <= e' /\ mem' = Given'
    BY <1>2, <1>3, <1>4, <1>5, <1>8, <1>10, <1>12, <2>1
  <2>3. LoopInv' BY <1>1, <1>8, <1>12, <2>2 DEF LoopInv, e
  <2> QED BY <1>8, <1>9, <1>12, <2>3 DEF StringInv
<1> QED BY <1>11, <1>12

LEMMA SetStep == StringInv /\ MemorySet => StringInv'
<1> SUFFICES ASSUME StringInv, MemorySet PROVE StringInv'
  OBVIOUS
<1> USE AreasAssumption DEF Address
<1>1. function = "memory_set" /\ function \in Functions
  BY DEF MemorySet, Functions, Counted
<1>2. CallInv /\ n \in Nat /\ mem \in [Address -> Byte] BY DEF StringInv, CallInv
<1>3. called.function = function /\ Count \in 0 .. Second /\ called.ch \in Byte
  BY <1>1, <1>2, Called
<1>4. p = n /\ n <= Count /\ OnlyThese(0) /\ \A a \in 0 .. (n - 1) : mem[a] = called.ch
  BY <1>1 DEF StringInv, LoopInv
<1> DEFINE stop == n >= Count
<1>5. /\ mem' = IF stop THEN mem ELSE [mem EXCEPT ![n] = called.ch]
      /\ Otherwise(stop, 0, 1, 0)
  BY <1>2, <1>3, <1>4 DEF MemorySet, Count
<1>b. stop \in BOOLEAN OBVIOUS
<1> HIDE DEF stop
<1>6. mem' \in [Address -> Byte] BY <1>2, <1>3, <1>5
<1>7. /\ CallInv' /\ called' = called /\ Given' = Given /\ Count' = Count /\ Room' = Room /\ Spill' = Spill
      /\ stop => function' = "done" /\ LoopInv'
      /\ ~stop => /\ function' = function /\ ResultsMatch'
                  /\ p' = p + 1 /\ q' = q + 0 /\ n' = n + 1
  BY <1>b, <1>1, <1>5, <1>6, Iteration
<1>8. Room = Count /\ Spill = 0 BY <1>1, <1>3 DEF Room, Spill
<1>9. CASE stop
  <2>1. n = Count /\ mem' = mem BY <1>2, <1>3, <1>4, <1>5, <1>9 DEF stop
  <2>2. OnlyRoomWritten' BY <1>2, <1>4, <1>7, <1>8, <2>1 DEF OnlyRoomWritten, OnlyThese
  <2>3. \A a \in 0 .. (Count' - 1) : mem'[a] = called'.ch BY <1>4, <1>7, <2>1
  <2>4. ResultsMatch' BY <1>1, <1>3, <1>7, <1>9, <2>3 DEF ResultsMatch
  <2> QED BY <1>7, <1>9, <2>2, <2>4 DEF StringInv
<1>10. CASE ~stop
  <2>1. mem' = [mem EXCEPT ![n] = called.ch] /\ n < Count /\ n \in Address
    BY <1>2, <1>3, <1>4, <1>5, <1>10 DEF stop
  <2>2. mem'[n] = called.ch /\ \A a \in Address : a # n => mem'[a] = mem[a]
    BY <1>2, <2>1
  <2>3. \A a \in 0 .. n : mem'[a] = called.ch BY <1>2, <1>3, <1>4, <2>1, <2>2
  <2>4. \A a \in Address : a >= n + 1 => mem'[a] = Given[a]
    BY <1>2, <1>4, <2>2 DEF OnlyThese
  <2>5. OnlyRoomWritten'
    BY <1>2, <1>3, <1>7, <1>8, <2>1, <2>4 DEF OnlyRoomWritten
  <2>6. OnlyThese(0)' BY <1>2, <1>7, <1>10, <2>4 DEF OnlyThese
  <2>7. p' = n' /\ n' <= Count' /\ \A a \in 0 .. (n' - 1) : mem'[a] = called'.ch
    BY <1>2, <1>3, <1>4, <1>7, <1>10, <2>1, <2>3
  <2>8. LoopInv' BY <1>1, <1>7, <1>10, <2>6, <2>7 DEF LoopInv
  <2> QED BY <1>7, <1>10, <2>5, <2>8 DEF StringInv
<1> QED BY <1>9, <1>10

LEMMA MemCopyStep == StringInv /\ MemoryCopy => StringInv'
<1> SUFFICES ASSUME StringInv, MemoryCopy PROVE StringInv'
  OBVIOUS
<1> USE AreasAssumption DEF Address
<1>1. function = "memory_copy" /\ function \in Functions
  BY DEF MemoryCopy, Functions, Counted
<1>2. CallInv /\ n \in Nat /\ mem \in [Address -> Byte] BY DEF StringInv, CallInv
<1>3. /\ called.function = function /\ Count \in 0 .. Second
      /\ Count < Second /\ Second + Count <= Bytes
  <2>1. called.function = function /\ Count \in 0 .. Second /\ Legal(function, Given, Count)
    BY <1>1, <1>2, Called
  <2> QED BY <1>1, <2>1 DEF Legal, Counted
<1>4. p = n /\ q = Second + n /\ n <= Count /\ Moved(0) /\ OnlyThese(0)
  BY <1>1 DEF StringInv, LoopInv
<1> DEFINE stop == n >= Count
           c == mem[q]
<1>5. ~stop => c = Given[Second + n] /\ q \in Address /\ n \in Address
  BY <1>2, <1>3, <1>4 DEF OnlyThese
<1>6. /\ mem' = IF stop THEN mem ELSE [mem EXCEPT ![n] = c]
      /\ Otherwise(stop, 0, 1, 1)
  BY <1>2, <1>3, <1>4 DEF MemoryCopy, Count
<1>7. ~stop => c \in Byte BY <1>2, <1>5
<1>b. stop \in BOOLEAN OBVIOUS
<1> HIDE DEF c, stop
<1>8. mem' \in [Address -> Byte] BY <1>2, <1>6, <1>7
<1>9. /\ CallInv' /\ called' = called /\ Given' = Given /\ Count' = Count /\ Room' = Room /\ Spill' = Spill
      /\ stop => function' = "done" /\ LoopInv'
      /\ ~stop => /\ function' = function /\ ResultsMatch'
                  /\ p' = p + 1 /\ q' = q + 1 /\ n' = n + 1
  BY <1>b, <1>1, <1>6, <1>8, Iteration
<1>10. Room = Count /\ Spill = 0 BY <1>1, <1>3 DEF Room, Spill
<1>11. CASE stop
  <2>1. n = Count /\ mem' = mem BY <1>2, <1>3, <1>4, <1>6, <1>11 DEF stop
  <2>2. OnlyRoomWritten' BY <1>2, <1>4, <1>9, <1>10, <2>1 DEF OnlyRoomWritten, OnlyThese
  <2>3. Copied(0, Second, Count)' BY <1>4, <1>9, <2>1 DEF Copied, Moved
  <2>4. ResultsMatch' BY <1>1, <1>3, <1>9, <1>11, <2>3 DEF ResultsMatch
  <2> QED BY <1>9, <1>11, <2>2, <2>4 DEF StringInv
<1>12. CASE ~stop
  <2>1. mem' = [mem EXCEPT ![n] = c] /\ n < Count BY <1>2, <1>3, <1>4, <1>6, <1>12 DEF stop
  <2>2. mem'[n] = c /\ \A a \in Address : a # n => mem'[a] = mem[a]
    BY <1>2, <1>5, <1>12, <2>1
  <2>3. \A i \in 0 .. n : mem'[0 + i] = Given[Second + i]
    BY <1>2, <1>3, <1>4, <1>5, <1>12, <2>1, <2>2 DEF Moved
  <2>4. \A a \in Address : a >= n + 1 => mem'[a] = Given[a]
    BY <1>2, <1>4, <2>2 DEF OnlyThese
  <2>5. OnlyRoomWritten'
    BY <1>2, <1>3, <1>9, <1>10, <2>1, <2>4 DEF OnlyRoomWritten
  <2>6. OnlyThese(0)' BY <1>2, <1>9, <1>12, <2>4 DEF OnlyThese
  <2>7. Moved(0)' BY <1>2, <1>9, <1>12, <2>3 DEF Moved
  <2>8. p' = n' /\ q' = Second + n' /\ n' <= Count'
    BY <1>2, <1>3, <1>4, <1>9, <1>12, <2>1
  <2>9. LoopInv' BY <1>1, <1>9, <1>12, <2>6, <2>7, <2>8 DEF LoopInv
  <2> QED BY <1>9, <1>12, <2>5, <2>9 DEF StringInv
<1> QED BY <1>11, <1>12

LEMMA MemFindStep == StringInv /\ MemoryFindCharFirst => StringInv'
<1> SUFFICES ASSUME StringInv, MemoryFindCharFirst PROVE StringInv'
  OBVIOUS
<1> USE AreasAssumption DEF Address
<1>1. function = "memory_find_char_first" /\ function \in Functions
  BY DEF MemoryFindCharFirst, Functions, Counted
<1>2. CallInv /\ n \in Nat /\ mem \in [Address -> Byte] BY DEF StringInv, CallInv
<1>3. called.function = function /\ Count \in 0 .. Second
  BY <1>1, <1>2, Called
<1>4. p = n /\ n <= Count /\ mem = Given /\ Seen BY <1>1 DEF StringInv, LoopInv
<1> DEFINE a == Given[n]
           over == n >= Count
           value == IF over THEN Undefined ELSE IF a = called.ch THEN n ELSE NullPtr
           stop == over \/ a \in {called.ch, Eos}
           dp == IF over THEN 0 ELSE 1
<1>5. mem' = mem /\ Otherwise(stop, value, dp, 0)
  <2>1. CASE over
    <3>1. mem' = mem /\ Otherwise(TRUE, Undefined, 0, 0)
      BY <2>1 DEF MemoryFindCharFirst, Count
    <3>2. stop = TRUE /\ value = Undefined /\ dp = 0 BY <2>1
    <3> HIDE DEF stop, value, dp
    <3> QED BY <3>1, <3>2
  <2>2. CASE ~over
    <3> DEFINE met == a \in {called.ch, Eos}
               place == IF a = called.ch THEN n ELSE NullPtr
    <3>1. mem' = mem /\ Otherwise(met, place, 1, 0)
      BY <2>2, <1>4 DEF MemoryFindCharFirst, Count
    <3>2. (stop <=> met) /\ value = place /\ dp = 1 BY <2>2
    <3> HIDE DEF stop, value, dp, met, place
    <3> QED BY <3>1, <3>2 DEF Otherwise
  <2> QED BY <2>1, <2>2
<1>6. stop \in BOOLEAN OBVIOUS
<1>7. mem' \in [Address -> Byte] BY <1>2, <1>5
<1>8. ~stop => ~over /\ dp = 1 OBVIOUS
<1> HIDE DEF value, stop, dp
<1>9. /\ CallInv' /\ called' = called /\ Given' = Given /\ Count' = Count /\ Room' = Room /\ Spill' = Spill
      /\ stop => function' = "done" /\ result' = value /\ LoopInv'
      /\ ~stop => /\ function' = function /\ ResultsMatch'
                  /\ p' = p + dp /\ q' = q + 0 /\ n' = n + 1
  BY <1>1, <1>5, <1>6, <1>7, Iteration
<1>10. OnlyRoomWritten' BY <1>5, <1>9, ReadOnly
<1>11. CASE stop
  <2> DEFINE F == FirstString(Found(Count - 1))
  <2>1. \A x \in F : x >= n /\ Given[x] = called.ch /\ x \in 0 .. (Count - 1)
    BY <1>2, <1>4 DEF FirstString, Found, Seen
  <2>2. F # {} => value = Leftmost(F)
    <3> SUFFICES ASSUME NEW z \in F PROVE value = Leftmost(F) OBVIOUS
    <3>1. ~over BY <1>2, <1>3, <2>1
    <3>2. n \in 0 .. (Count - 1) /\ a \in {called.ch, Eos}
      BY <1>2, <1>3, <1>11, <3>1 DEF stop
    <3>3. a = called.ch
      <4> SUFFICES ASSUME a # called.ch PROVE FALSE OBVIOUS
      <4>1. a = Eos /\ z # n BY <2>1, <3>2
      <4>2. n \in 0 .. (z - 1) BY <1>2, <2>1, <4>1
      <4> QED BY <4>1, <4>2 DEF FirstString
    <3>4. n \in F
      <4>1. n \in Found(Count - 1) BY <3>2, <3>3 DEF Found
      <4> QED BY <1>4, <4>1 DEF FirstString, Seen
    <3> HIDE DEF F
    <3>6. \A x \in F : (\A y \in F : x <= y) => x = n BY <1>2, <2>1, <3>4
    <3>7. \A y \in F : n <= y BY <1>2, <2>1
    <3>5. (CHOOSE x \in F : \A y \in F : x <= y) = n BY <3>4, <3>6, <3>7
    <3> QED BY <3>1, <3>3, <3>4, <3>5 DEF Leftmost, value
  <2>3. EndWithin /\ Found(Count - 1) = {} => value = NullPtr
    <3> SUFFICES ASSUME EndWithin, Found(Count - 1) = {} PROVE value = NullPtr OBVIOUS
    <3>1. PICK e \in 0 .. (Count - 1) : Given[e] = Eos BY DEF EndWithin
    <3>2. ~(e \in 0 .. (n - 1)) BY <1>4, <3>1 DEF Seen
    <3>3. n \in 0 .. (Count - 1) BY <1>2, <1>3, <3>1, <3>2
    <3>4. a # called.ch BY <3>3 DEF Found
    <3>5. ~over BY <1>3, <3>3
    <3> QED BY <3>4, <3>5 DEF value
  <2>4. /\ Found(Count - 1)' = Found(Count - 1) /\ EndWithin' = EndWithin
        /\ FirstString(Found(Count - 1))' = F
    BY <1>9 DEF Found, EndWithin, FirstString
  <2>5. Leftmost(FirstString(Found(Count - 1)))' = Leftmost(F)
    BY <1>9 DEF Leftmost, FirstString, Found
  <2>6. result' = value BY <1>9, <1>11
  <2> HIDE DEF F
  <2>7. FoundInCount' BY <2>2, <2>3, <2>4, <2>5, <2>6 DEF FoundInCount, F
  <2>8. ResultsMatch' BY <1>1, <1>3, <1>9, <2>7 DEF ResultsMatch
  <2> QED BY <1>9, <1>10, <1>11, <2>8 DEF StringInv
<1>12. CASE ~stop
  <2>1. a \notin {called.ch, Eos} /\ n < Count BY <1>2, <1>3, <1>8, <1>12 DEF stop
  <2>2. \A i \in 0 .. n : Given[i] \notin {called.ch, Eos}
    BY <1>2, <1>4, <2>1 DEF Seen
  <2>3. Seen' BY <1>2, <1>9, <1>12, <2>2 DEF Seen
  <2>4. p' = n' /\ n' <= Count' /\ mem' = Given'
    BY <1>2, <1>3, <1>4, <1>5, <1>8, <1>9, <1>12, <2>1
  <2>5. LoopInv' BY <1>1, <1>9, <1>12, <2>3, <2>4 DEF LoopInv
  <2> QED BY <1>9, <1>10, <1>12, <2>5 DEF StringInv
<1> QED BY <1>11, <1>12

LEMMA CallStarts ==
  ASSUME StringInv, function = "none", NEW f \in Functions, NEW m \in [Address -> Byte],
         NEW ch \in Byte, NEW count \in 0 .. Second, Call(f, m, ch, count)
  PROVE  StringInv'
<1> USE AreasAssumption DEF Address
<1>1. p = 0 /\ q = Second /\ n = 0 BY DEF StringInv, CallInv
<1>2. /\ mem' = m /\ function' = f /\ p' = 0 /\ q' = Second /\ n' = 0
      /\ called'.function = f /\ called'.ch = ch /\ called'.count = count /\ called'.mem = m
      /\ Legal(f, m, count)
  BY <1>1 DEF Call
<1>3. Given' = m /\ Count' = count BY <1>2 DEF Given, Count
<1>4. CallInv'
  BY <1>2, <1>3 DEF CallInv, Functions, Terminated, Counted
<1>5. ResultsMatch' BY <1>2 DEF ResultsMatch, Functions, Terminated, Counted
<1>6. OnlyRoomWritten'
  BY <1>2, <1>3 DEF OnlyRoomWritten
<1>7. Moved(0)' /\ OnlyThese(0)' /\ Seen' /\ Moved(StringEnd(Given, 0))'
      /\ OnlyThese(StringEnd(Given, 0))' /\ FoundYet' = {}
  BY <1>2, <1>3 DEF Moved, OnlyThese, Seen, FoundYet
<1>8. Source' >= 0 /\ StringEnd(Given, 0)' >= 0
  <2>1. m[Bytes - 1] = Eos BY <1>2 DEF Legal
  <2>2. StringEnd(m, Second) >= Second /\ StringEnd(m, Second) \in Int
        /\ StringEnd(m, 0) >= 0
    <3>1. 0 \in Address /\ Second \in Address OBVIOUS
    <3> QED BY <2>1, <3>1, EndOf, SMTT(30)
  <2>3. Source' = StringEnd(m, Second) - Second /\ StringEnd(Given, 0)' = StringEnd(m, 0)
    BY <1>3 DEF Source, StringLength
  <2> QED BY <2>2, <2>3
<1>9. LoopInv'
  BY <1>2, <1>3, <1>7, <1>8 DEF LoopInv
<1> QED BY <1>4, <1>5, <1>6, <1>9 DEF StringInv

LEMMA StartStrings == StringInit => StringInv
<1> SUFFICES ASSUME StringInit PROVE StringInv
  OBVIOUS
<1> USE AreasAssumption DEF StringInit
<1>1. called.function = "none" /\ Given = mem BY DEF Given
<1>2. mem \in [Address -> Byte] BY DEF Byte
<1>3. CallInv BY <1>1, <1>2 DEF CallInv, Functions, Terminated, Counted
<1>4. LoopInv BY DEF LoopInv
<1>5. OnlyRoomWritten BY <1>1 DEF OnlyRoomWritten
<1> QED BY <1>3, <1>4, <1>5 DEF StringInv, ResultsMatch

LEMMA NextStrings == StringInv /\ [StringNext]_stringVars => StringInv'
<1> SUFFICES ASSUME StringInv, [StringNext]_stringVars PROVE StringInv'
  OBVIOUS
<1>1. ASSUME function = "none",
             NEW f \in Functions, NEW m \in [Address -> Byte],
             NEW ch \in CharsFor(f), NEW count \in CountsFor(f), Call(f, m, ch, count)
      PROVE  StringInv'
  <2>1. ch \in Byte /\ count \in 0 .. Second
    BY AreasAssumption DEF CharsFor, CountsFor, Byte
  <2> QED BY <1>1, <2>1, CallStarts
<1>2. CASE UNCHANGED stringVars
  <2>1. /\ mem' = mem /\ function' = function /\ called' = called
        /\ p' = p /\ q' = q /\ n' = n /\ result' = result
    BY <1>2 DEF stringVars
  <2>2. /\ Given' = Given /\ Count' = Count /\ Source' = Source
        /\ Room' = Room /\ Spill' = Spill
    BY <2>1 DEF Given, Count, Source, Room, Spill
  <2>3. CallInv' BY <2>1, <2>2 DEF StringInv, CallInv
  <2>4. OnlyRoomWritten' BY <2>1, <2>2 DEF StringInv, OnlyRoomWritten
  <2>5. LoopInv'
    BY <2>1, <2>2 DEF StringInv, LoopInv, Moved, OnlyThese, Seen, FoundYet, Rightmost
  <2>6. ResultsMatch'
    <3> SUFFICES ASSUME function = "done" PROVE ResultsMatch'
      BY <2>1 DEF ResultsMatch
    <3>1. /\ Comparison' = Comparison /\ ComparedInCount' = ComparedInCount
          /\ FoundInCount' = FoundInCount
      BY <2>1, <2>2 DEF Comparison, ComparedInCount, FoundInCount, EndWithin, Differing, Found,
                      FirstString, Leftmost
    <3>2. ResultsMatch /\ called.function \in Functions BY DEF StringInv, CallInv
    <3>3. CASE called.function = "string_copy"
      BY <2>1, <2>2, <3>1, <3>2, <3>3 DEF ResultsMatch, Copied
    <3>4. CASE called.function = "string_n_copy"
      BY <2>1, <2>2, <3>1, <3>2, <3>4 DEF ResultsMatch, Copied
    <3>5. CASE called.function = "strint_cat"
      BY <2>1, <2>2, <3>1, <3>2, <3>5 DEF ResultsMatch, Copied
    <3>6. CASE called.function = "memory_set"
      BY <2>1, <2>2, <3>1, <3>2, <3>6 DEF ResultsMatch
    <3>7. CASE called.function = "memory_copy"
      BY <2>1, <2>2, <3>1, <3>2, <3>7 DEF ResultsMatch, Copied
    <3>8. CASE called.function = "string_compare"
      BY <2>1, <2>2, <3>1, <3>2, <3>8 DEF ResultsMatch
    <3>9. CASE called.function = "memory_compare"
      BY <2>1, <2>2, <3>1, <3>2, <3>9 DEF ResultsMatch
    <3>10. CASE called.function = "string_len"
      BY <2>1, <2>2, <3>1, <3>2, <3>10 DEF ResultsMatch
    <3>11. CASE called.function = "string_find_char_first"
      BY <2>1, <2>2, <3>1, <3>2, <3>11 DEF ResultsMatch, Found
    <3>12. CASE called.function = "string_find_char_last"
      BY <2>1, <2>2, <3>1, <3>2, <3>12 DEF ResultsMatch, Found
    <3>13. CASE called.function = "memory_find_char_first"
      BY <2>1, <2>2, <3>1, <3>2, <3>13 DEF ResultsMatch, Found
    <3> QED BY <3>2, <3>3, <3>4, <3>5, <3>6, <3>7, <3>8, <3>9, <3>10, <3>11, <3>12, <3>13 DEF Functions, Terminated, Counted
  <2> QED BY <2>3, <2>4, <2>5, <2>6 DEF StringInv
<1> QED BY <1>1, <1>2, CopyStep, NCopyStep, CatStep, CompareStep, FindFirstStep,
           FindLastStep, LenStep, SetStep, MemCopyStep, MemFindStep DEF StringNext, Functions

LEMMA StringsHold == StringSpec => []StringInv
BY StartStrings, NextStrings, PTL DEF StringSpec

(* No function of l_string.c writes a byte outside the documented room,    *)
(* but string_copy, which writes the one byte behind it, for every size of *)
(* memory, every string and every count.                                   *)
THEOREM WritesStayInRoom == StringSpec => []OnlyRoomWritten
<1>1. StringInv => OnlyRoomWritten BY DEF StringInv
<1> QED BY <1>1, StringsHold, PTL

(* Every call of l_string.c ends with what is documented of it, the calls  *)
(* of memory_compare and memory_find_char_first if a string within count   *)
(* decides them.                                                           *)
THEOREM ResultsAlwaysMatch == StringSpec => []ResultsMatch
<1>1. StringInv => ResultsMatch BY DEF StringInv
<1> QED BY <1>1, StringsHold, PTL
-----------------------------------------------------------------------------
(* vsprintf: the digits of a number, and the value of digits.              *)

(* The digits of a base.                                                   *)
DigitsIn(base) == {DigitChars[j] : j \in 1 .. base}

(* The sixteen characters are different, so a digit is worth its place.    *)
LEMMA DigitWorth ==
  ASSUME NEW i \in 1 .. 16
  PROVE  Digit(DigitChars[i]) = i - 1
<1>1. \A j \in 1 .. 16 : DigitChars[j] = DigitChars[i] => j = i
  <2>1. i \in {1, 2, 3, 4, 5, 6, 7, 8, 9, 10, 11, 12, 13, 14, 15, 16} OBVIOUS
  <2> QED BY <2>1 DEF DigitChars
<1> QED BY <1>1 DEF Digit

(* How the value of a sequence of digits comes about.                      *)
Adds(v, base, s) ==
  v = [i \in 0 .. Len(s) |-> IF i = 0 THEN 0 ELSE v[i - 1] * base + Digit(s[i])]

(* Whatever obeys its equation is the value.                               *)
LEMMA ValueIs ==
  ASSUME NEW base \in {10, 16}, NEW s \in Seq(DigitsIn(16)), NEW v, Adds(v, base, s)
  PROVE  ValueIn(base, s) = v[Len(s)]
<1> DEFINE w == CHOOSE g : Adds(g, base, s)
<1>1. Adds(w, base, s) OBVIOUS
<1>2. ValueIn(base, s) = w[Len(s)] BY DEF ValueIn, Adds
<1> HIDE DEF w
<1> DEFINE Agree == {m \in Nat : m <= Len(s) => w[m] = v[m]}
<1>3. Nat \subseteq Agree
  <2>1. 0 \in Agree BY <1>1 DEF Adds
  <2>2. ASSUME NEW m \in Nat, m \in Agree PROVE m + 1 \in Agree
    <3>1. SUFFICES ASSUME m + 1 <= Len(s) PROVE w[m + 1] = v[m + 1]
      OBVIOUS
    <3>2. w[m] = v[m] BY <2>2, <3>1
    <3>3. m + 1 \in 0 .. Len(s) /\ m + 1 # 0 /\ (m + 1) - 1 = m BY <3>1
    <3>4. w[m + 1] = w[m] * base + Digit(s[m + 1]) BY <1>1, <3>3 DEF Adds
    <3>5. v[m + 1] = v[m] * base + Digit(s[m + 1]) BY <3>3 DEF Adds
    <3> QED BY <3>2, <3>4, <3>5
  <2> HIDE DEF Agree
  <2> QED BY <2>1, <2>2, SetInduction
<1>4. Len(s) \in Nat OBVIOUS
<1> QED BY <1>2, <1>3, <1>4

(* Every sequence of digits has a value, a natural number.                 *)
LEMMA ValueExists ==
  ASSUME NEW base \in {10, 16}, NEW s \in Seq(DigitsIn(16))
  PROVE  \E v \in [0 .. Len(s) -> Nat] : Adds(v, base, s)
<1> DEFINE Step(x, i) == x * base + Digit(s[i])
           UpTo(g, m) == \A i \in 0 .. m : g[i] = IF i = 0 THEN 0 ELSE Step(g[i - 1], i)
           Exists == {m \in Nat : m <= Len(s) => \E g \in [0 .. m -> Nat] : UpTo(g, m)}
<1>0. ASSUME NEW x \in Nat, NEW i \in 1 .. Len(s) PROVE Step(x, i) \in Nat
  <2>1. PICK j \in 1 .. 16 : s[i] = DigitChars[j] BY DEF DigitsIn
  <2>2. Digit(s[i]) \in Nat BY <2>1, DigitWorth, SMTT(30)
  <2>3. x * base \in Nat BY base \in Nat
  <2> QED BY <2>2, <2>3
<1> HIDE DEF Step
<1>1. Nat \subseteq Exists
  <2>1. 0 \in Exists
    <3> DEFINE g == [i \in 0 .. 0 |-> 0]
    <3>1. g \in [0 .. 0 -> Nat] /\ UpTo(g, 0) OBVIOUS
    <3> HIDE DEF g, UpTo
    <3> QED BY <3>1
  <2>2. ASSUME NEW m \in Nat, m \in Exists PROVE m + 1 \in Exists
    <3>0. SUFFICES ASSUME m + 1 <= Len(s)
                   PROVE  \E g \in [0 .. (m + 1) -> Nat] : UpTo(g, m + 1)
      OBVIOUS
    <3>1. PICK g \in [0 .. m -> Nat] : UpTo(g, m) BY <2>2, <3>0
    <3> DEFINE h == [i \in 0 .. (m + 1) |-> IF i = m + 1 THEN Step(g[m], i) ELSE g[i]]
    <3>2. h \in [0 .. (m + 1) -> Nat]
      <4>1. Step(g[m], m + 1) \in Nat
        <5>1. g[m] \in Nat /\ m + 1 \in 1 .. Len(s) BY <3>0
        <5> QED BY <5>1, <1>0
      <4>2. \A i \in 0 .. (m + 1) : i # m + 1 => g[i] \in Nat OBVIOUS
      <4> QED BY <4>1, <4>2
    <3>3. ASSUME NEW i \in 0 .. (m + 1)
          PROVE  h[i] = IF i = 0 THEN 0 ELSE Step(h[i - 1], i)
      <4>1. CASE i = m + 1 BY <4>1
      <4>2. CASE i # m + 1
        <5>1. i \in 0 .. m BY <4>2
        <5>2. h[i] = g[i] BY <4>2
        <5>3. g[i] = IF i = 0 THEN 0 ELSE Step(g[i - 1], i) BY <3>1, <5>1
        <5>4. i # 0 => h[i - 1] = g[i - 1] BY <5>1
        <5> QED BY <5>2, <5>3, <5>4
      <4> QED BY <4>1, <4>2
    <3>4. UpTo(h, m + 1) BY <3>3
    <3> HIDE DEF h, UpTo
    <3> QED BY <3>2, <3>4
  <2> HIDE DEF Exists
  <2> QED BY <2>1, <2>2, SetInduction
<1>2. Len(s) \in Nat /\ Len(s) <= Len(s) OBVIOUS
<1>3. PICK v \in [0 .. Len(s) -> Nat] : UpTo(v, Len(s))
  BY <1>1, <1>2
<1>4. Adds(v, base, s) BY <1>3 DEF Adds, Step
<1> QED BY <1>4

(* So the value is a natural number.                                       *)
LEMMA ValueNat ==
  ASSUME NEW base \in {10, 16}, NEW s \in Seq(DigitsIn(16))
  PROVE  ValueIn(base, s) \in Nat
<1>1. PICK v \in [0 .. Len(s) -> Nat] : Adds(v, base, s) BY ValueExists
<1>2. v[Len(s)] \in Nat OBVIOUS
<1> QED BY <1>1, <1>2, ValueIs

(* One digit more.                                                         *)
LEMMA ValueAppend ==
  ASSUME NEW base \in {10, 16}, NEW s \in Seq(DigitsIn(16)), NEW c \in DigitsIn(16)
  PROVE  ValueIn(base, Append(s, c)) = ValueIn(base, s) * base + Digit(c)
<1>1. PICK v \in [0 .. Len(s) -> Nat] : Adds(v, base, s) BY ValueExists
<1> DEFINE m == Len(s)
           t == Append(s, c)
           w == [i \in 0 .. (m + 1) |-> IF i = m + 1 THEN v[m] * base + Digit(c) ELSE v[i]]
<1>2. m \in Nat /\ t \in Seq(DigitsIn(16)) /\ Len(t) = m + 1 /\ t[m + 1] = c
      /\ \A i \in 1 .. m : t[i] = s[i]
  OBVIOUS
<1>3. ASSUME NEW i \in 0 .. (m + 1)
      PROVE  w[i] = IF i = 0 THEN 0 ELSE w[i - 1] * base + Digit(t[i])
  <2>0. m \in Nat BY <1>2
  <2> HIDE DEF t, m
  <2>1. CASE i = m + 1
    <3>1. w[i] = v[m] * base + Digit(c) /\ i # 0 BY <2>0, <2>1
    <3>2. w[i - 1] = v[m] /\ t[i] = c BY <2>0, <2>1, <1>2
    <3> HIDE DEF w
    <3> QED BY <3>1, <3>2
  <2>2. CASE i # m + 1
    <3>1. i \in 0 .. m BY <2>0, <2>2
    <3>2. w[i] = v[i] BY <2>2
    <3>3. v[i] = IF i = 0 THEN 0 ELSE v[i - 1] * base + Digit(s[i]) BY <1>1, <3>1 DEF Adds, m
    <3>4. i # 0 => w[i - 1] = v[i - 1] /\ t[i] = s[i] BY <3>1, <2>0, <1>2
    <3> HIDE DEF w
    <3> QED BY <3>2, <3>3, <3>4
  <2> QED BY <2>1, <2>2
<1>4. Adds(w, base, t)
  <2> HIDE DEF t, m
  <2>1. w = [i \in 0 .. (m + 1) |-> w[i]] OBVIOUS
  <2> HIDE DEF w
  <2> QED BY <2>1, <1>2, <1>3 DEF Adds
<1>5. w[m + 1] = v[m] * base + Digit(c) BY <1>2
<1> HIDE DEF w, t
<1>6. ValueIn(base, t) = w[m + 1] BY <1>2, <1>4, ValueIs
<1>7. ValueIn(base, s) = v[m] BY <1>1, ValueIs
<1> QED BY <1>5, <1>6, <1>7 DEF t

(* Zeros in front change nothing.                                          *)
LEMMA ValueOfZeros ==
  ASSUME NEW base \in {10, 16}, NEW s \in Seq(DigitsIn(16)), NEW k \in Nat
  PROVE  /\ Times("0", k) \o s \in Seq(DigitsIn(16))
         /\ ValueIn(base, Times("0", k) \o s) = ValueIn(base, s)
<1>1. PICK v \in [0 .. Len(s) -> Nat] : Adds(v, base, s) BY ValueExists
<1> DEFINE m == Len(s)
           z == Times("0", k)
           t == z \o s
           w == [i \in 0 .. (k + m) |-> IF i <= k THEN 0 ELSE v[i - k]]
<1>a. "0" \in DigitsIn(16) /\ Digit("0") = 0
  <2>1. DigitChars[1] = "0" BY DEF DigitChars
  <2>2. 1 \in 1 .. 16 OBVIOUS
  <2> QED BY <2>1, <2>2, DigitWorth DEF DigitsIn
<1>b. z \in Seq(DigitsIn(16)) /\ Len(z) = k /\ \A i \in 1 .. k : z[i] = "0"
  BY <1>a DEF Times
<1>2. m \in Nat /\ t \in Seq(DigitsIn(16)) /\ Len(t) = k + m
      /\ (\A i \in 1 .. k : t[i] = "0") /\ (\A i \in (k + 1) .. (k + m) : t[i] = s[i - k])
  <2> HIDE DEF z
  <2> QED BY <1>b
<1>3. ASSUME NEW i \in 0 .. (k + m)
      PROVE  w[i] = IF i = 0 THEN 0 ELSE w[i - 1] * base + Digit(t[i])
  <2>0. m \in Nat BY <1>2
  <2> HIDE DEF t, m
  <2>1. CASE i = 0 BY <2>0, <2>1
  <2>2. CASE i # 0 /\ i <= k
    <3>1. w[i] = 0 /\ w[i - 1] = 0 BY <2>0, <2>2
    <3>2. Digit(t[i]) = 0 BY <1>2, <1>a, <2>2
    <3> HIDE DEF w
    <3> QED BY <3>1, <3>2, <2>2
  <2>3. CASE i > k
    <3>1. i - k \in 0 .. m /\ i - k # 0 /\ i \in (k + 1) .. (k + m) BY <2>0, <2>3
    <3>2. w[i] = v[i - k] /\ i # 0 BY <2>3, <2>0
    <3>3. v[i - k] = v[i - k - 1] * base + Digit(s[i - k]) BY <1>1, <3>1 DEF Adds, m
    <3>4. w[i - 1] = v[i - k - 1]
      <4>1. CASE i - 1 > k
        <5>1. i - 1 - k = i - k - 1 /\ i - 1 \in 0 .. (k + m) OBVIOUS
        <5> QED BY <4>1, <5>1
      <4>2. CASE i - 1 = k
        <5>1. i - k - 1 = 0 BY <4>2
        <5>2. v[0] = 0 BY <1>1, <2>0 DEF Adds, m
        <5> QED BY <4>2, <5>1, <5>2, <2>0
      <4> QED BY <2>3, <4>1, <4>2, <2>0
    <3>5. t[i] = s[i - k] BY <3>1, <1>2
    <3> HIDE DEF w
    <3> QED BY <3>2, <3>3, <3>4, <3>5
  <2> QED BY <2>1, <2>2, <2>3, <2>0
<1>4. Adds(w, base, t)
  <2> HIDE DEF t, m
  <2>1. w = [i \in 0 .. (k + m) |-> w[i]] OBVIOUS
  <2> HIDE DEF w
  <2> QED BY <2>1, <1>2, <1>3 DEF Adds
<1>5. w[k + m] = v[m]
  <2>1. m \in Nat /\ k + m \in 0 .. (k + m) /\ (k + m) - k = m BY <1>2
  <2>2. CASE m = 0
    <3>1. v[0] = 0 BY <1>1 DEF Adds
    <3> QED BY <2>1, <2>2, <3>1
  <2>3. CASE m # 0 BY <2>1, <2>3
  <2> QED BY <2>2, <2>3
<1> HIDE DEF w, t
<1>6. ValueIn(base, t) = w[k + m] BY <1>2, <1>4, ValueIs
<1>7. ValueIn(base, s) = v[m] BY <1>1, ValueIs
<1>8. t \in Seq(DigitsIn(16)) /\ ValueIn(base, t) = ValueIn(base, s) BY <1>2, <1>5, <1>6, <1>7
<1> QED BY <1>8 DEF t

(* A number and the quotient and the remainder that a loop of number       *)
(* leaves.                                                                 *)
LEMMA Quotient ==
  ASSUME NEW base \in {10, 16}, NEW k \in Nat
  PROVE  /\ k \div base \in Nat /\ k % base \in 0 .. (base - 1)
         /\ k = (k \div base) * base + (k % base)
         /\ k >= base => k \div base < k /\ k \div base >= 1
<1>1. CASE base = 10 BY <1>1
<1>2. CASE base = 16 BY <1>2
<1> QED BY <1>1, <1>2

(* The digits of a number: the one of a small number, and one more than    *)
(* those of its quotient.                                                  *)
LEMMA DigitsUnfold ==
  ASSUME NEW base \in {10, 16}
  PROVE  \A k \in Nat :
           DigitsOf(k, base) = IF k < base THEN <<DigitChars[k + 1]>>
                               ELSE Append(DigitsOf(k \div base, base), DigitChars[(k % base) + 1])
<1> DEFINE Step(x, k) == IF k < base THEN <<DigitChars[k + 1]>>
                         ELSE Append(x, DigitChars[(k % base) + 1])
           Solves(g) == g = [k \in Nat |-> IF k < base THEN <<DigitChars[k + 1]>>
                         ELSE Append(g[k \div base], DigitChars[(k % base) + 1])]
           UpTo(g, top) == \A k \in 0 .. top : g[k] = Step(g[k \div base], k)
           Exists == {top \in Nat : \E g : UpTo(g, top)}
           digits == CHOOSE g : Solves(g)
<1>0. \A k \in Nat : k \div base \in Nat /\ (k >= base => k \div base < k) BY Quotient
<1>1. \A k \in Nat : DigitsOf(k, base) = digits[k] BY DEF DigitsOf
<1>a. \A x, y, k : k < base => Step(x, k) = Step(y, k) OBVIOUS
<1> SUFFICES Solves(digits)
  <2> HIDE DEF digits
  <2>1. \A k \in Nat : digits[k] = IF k < base THEN <<DigitChars[k + 1]>>
                         ELSE Append(digits[k \div base], DigitChars[(k % base) + 1])
    OBVIOUS
  <2> QED BY <1>0, <1>1, <2>1
<1>b. \A g : Solves(g) <=> g = [k \in Nat |-> Step(g[k \div base], k)] OBVIOUS
<1> HIDE DEF Step, Solves
<1>2. Nat \subseteq Exists
  <2>1. 0 \in Exists
    <3> DEFINE g == [k \in 0 .. 0 |-> Step(0, 0)]
    <3>1. 0 < base OBVIOUS
    <3>2. UpTo(g, 0) BY <3>1, <1>a
    <3> HIDE DEF g, UpTo
    <3> QED BY <3>2
  <2>2. ASSUME NEW top \in Nat, top \in Exists PROVE top + 1 \in Exists
    <3>1. PICK g : UpTo(g, top) BY <2>2
    <3> DEFINE h == [k \in 0 .. (top + 1) |-> IF k = top + 1 THEN Step(g[k \div base], k) ELSE g[k]]
    <3>2. ASSUME NEW k \in 0 .. (top + 1) PROVE h[k] = Step(h[k \div base], k)
      <4>0. k \div base \in Nat /\ (k >= base => k \div base < k) BY <1>0
      <4>1. h[k] = Step(g[k \div base], k) BY <3>1
      <4>2. CASE k < base BY <4>1, <4>2, <1>a
      <4>3. CASE k >= base
        <5>1. k \div base \in 0 .. top BY <4>0, <4>3
        <5>2. h[k \div base] = g[k \div base] BY <5>1
        <5> QED BY <4>1, <5>2
      <4> QED BY <4>2, <4>3
    <3>3. UpTo(h, top + 1) BY <3>2
    <3> HIDE DEF h, UpTo
    <3> QED BY <3>3
  <2> HIDE DEF Exists
  <2> QED BY <2>1, <2>2, SetInduction
<1>3. ASSUME NEW g, NEW h, NEW top \in Nat, NEW m \in Nat, UpTo(g, top), UpTo(h, m),
             NEW j \in Nat, j <= top, j <= m
      PROVE  g[j] = h[j]
  <2> DEFINE Bad == {i \in Nat : i <= top /\ i <= m /\ g[i] # h[i]}
  <2>1. SUFFICES ASSUME Bad # {} PROVE FALSE BY <1>3
  <2>2. Bad \subseteq Nat OBVIOUS
  <2>3. PICK i \in Bad : \A y \in Bad : i <= y
    <3> HIDE DEF Bad
    <3> QED BY <2>1, <2>2, LeastExists
  <2>4. i \in Nat /\ g[i] = Step(g[i \div base], i) /\ h[i] = Step(h[i \div base], i)
    BY <1>3, <2>3
  <2>5. i >= base
    BY <2>3, <2>4, <1>a
  <2>6. i \div base \in Nat /\ i \div base < i BY <2>4, <2>5, <1>0
  <2>7. i \div base \notin Bad BY <2>3, <2>6, <2>4
  <2>8. g[i \div base] = h[i \div base] BY <2>3, <2>6, <2>7
  <2> QED BY <2>3, <2>4, <2>8
<1> DEFINE Chosen(k) == CHOOSE g : UpTo(g, k)
           all == [k \in Nat |-> Chosen(k)[k]]
<1>4. \A k \in Nat : UpTo(Chosen(k), k) BY <1>2
<1>5. ASSUME NEW k \in Nat PROVE all[k] = Step(all[k \div base], k)
  <2> HIDE DEF UpTo
  <2>0. UpTo(Chosen(k), k) BY <1>4
  <2>1. Chosen(k)[k] = Step(Chosen(k)[k \div base], k)
    <3> HIDE DEF Chosen
    <3> QED BY <2>0 DEF UpTo
  <2>2. CASE k < base BY <2>1, <2>2, <1>a
  <2>3. CASE k >= base
    <3> DEFINE i == k \div base
    <3>1. i \in Nat /\ i < k BY <1>0, <2>3
    <3> HIDE DEF i
    <3>2. UpTo(Chosen(i), i) BY <3>1, <1>4
    <3> HIDE DEF Chosen
    <3>3. Chosen(i)[i] = Chosen(k)[i] BY <2>0, <3>1, <3>2, <1>3
    <3>4. all[i] = Chosen(i)[i] BY <3>1
    <3> QED BY <2>1, <3>3, <3>4 DEF i
  <2> QED BY <2>2, <2>3
<1>6. all = [k \in Nat |-> Step(all[k \div base], k)]
  <2>1. all = [k \in Nat |-> all[k]] OBVIOUS
  <2> HIDE DEF all
  <2> QED BY <2>1, <1>5
<1> HIDE DEF all
<1> QED BY <1>6, <1>b

(* What the division loop of number leaves, read from the last remainder   *)
(* to the first, are digits of the base, and their value is the number.    *)
THEOREM DigitsHaveValue ==
  ASSUME NEW base \in {10, 16}, NEW num \in Nat
  PROVE  /\ DigitsOf(num, base) \in Seq(DigitsIn(base)) /\ Len(DigitsOf(num, base)) >= 1
         /\ ValueIn(base, DigitsOf(num, base)) = num
<1> DEFINE Fine(k) == /\ DigitsOf(k, base) \in Seq(DigitsIn(base)) /\ Len(DigitsOf(k, base)) >= 1
                      /\ ValueIn(base, DigitsOf(k, base)) = k
           Bad == {k \in Nat : ~ Fine(k)}
<1>1. SUFFICES ASSUME Bad # {} PROVE FALSE OBVIOUS
<1>2. PICK k \in Bad : \A y \in Bad : k <= y
  <2>1. Bad \subseteq Nat OBVIOUS
  <2> HIDE DEF Bad
  <2> QED BY <1>1, <2>1, LeastExists
<1>a. k \in Nat /\ ~ Fine(k) BY <1>2
<1>b. DigitsIn(base) \subseteq DigitsIn(16)
  <2>1. \A j \in 1 .. base : j \in 1 .. 16 OBVIOUS
  <2> QED BY <2>1, Zenon DEF DigitsIn
<1>c. Seq(DigitsIn(base)) \subseteq Seq(DigitsIn(16)) BY <1>b, SeqMonotonic
<1>3. CASE k < base
  <2> DEFINE c == DigitChars[k + 1]
  <2>1. k + 1 \in 1 .. base /\ k + 1 \in 1 .. 16 BY <1>a, <1>3
  <2>2. c \in DigitsIn(base) BY <2>1 DEF DigitsIn
  <2>3. Digit(c) = k BY <2>1, <1>a, DigitWorth, SMTT(30)
  <2> HIDE DEF c
  <2>4. <<>> \in Seq(DigitsIn(16)) /\ Append(<<>>, c) = <<c>> OBVIOUS
  <2>5. ValueIn(base, <<>>) = 0
    <3>1. PICK v \in [0 .. Len(<<>>) -> Nat] : Adds(v, base, <<>>) BY <2>4, ValueExists
    <3>2. v[0] = 0 BY <3>1 DEF Adds
    <3>3. ValueIn(base, <<>>) = v[Len(<<>>)] BY <2>4, <3>1, ValueIs
    <3> QED BY <3>2, <3>3
  <2>6. ValueIn(base, <<c>>) = ValueIn(base, <<>>) * base + Digit(c)
    BY <2>2, <2>4, <1>b, ValueAppend
  <2>7. ValueIn(base, <<c>>) = k BY <2>3, <2>5, <2>6, <1>a
  <2>8. DigitsOf(k, base) = <<c>> BY <1>a, <1>3, DigitsUnfold DEF c
  <2>9. <<c>> \in Seq(DigitsIn(base)) /\ Len(<<c>>) >= 1 BY <2>2
  <2> QED BY <2>7, <2>8, <2>9, <1>a
<1>4. CASE k >= base
  <2> DEFINE j == k \div base
             c == DigitChars[(k % base) + 1]
             s == DigitsOf(j, base)
  <2>1. /\ j \in Nat /\ k % base \in 0 .. (base - 1) /\ k = j * base + (k % base) /\ j < k
    BY <1>4, <1>a, Quotient
  <2>2. (k % base) + 1 \in 1 .. base /\ (k % base) + 1 \in 1 .. 16 BY <2>1
  <2>3. c \in DigitsIn(base) BY <2>2 DEF DigitsIn
  <2>4. Digit(c) = k % base BY <2>1, <2>2, DigitWorth, SMTT(30)
  <2>5. DigitsOf(k, base) = Append(s, c)
    <3>1. ~ (k < base) BY <1>4, <1>a
    <3> HIDE DEF j, c
    <3>2. DigitsOf(k, base) = Append(DigitsOf(k \div base, base), DigitChars[(k % base) + 1])
      BY <3>1, <1>a, DigitsUnfold
    <3> QED BY <3>2 DEF j, c
  <2>6. Fine(j) BY <2>1, <1>2, <1>a
  <2> HIDE DEF c, j
  <2>7. s \in Seq(DigitsIn(base)) /\ Len(s) >= 1 /\ ValueIn(base, s) = j BY <2>6
  <2> HIDE DEF s
  <2>8. ValueIn(base, Append(s, c)) = ValueIn(base, s) * base + Digit(c)
    BY <2>3, <2>7, <1>b, <1>c, ValueAppend
  <2>9. Append(s, c) \in Seq(DigitsIn(base)) /\ Len(Append(s, c)) >= 1 BY <2>3, <2>7
  <2>10. ValueIn(base, Append(s, c)) = k BY <2>1, <2>4, <2>7, <2>8
  <2> QED BY <2>5, <2>9, <2>10, <1>a
<1> QED BY <1>3, <1>4, <1>a

(* A one and zeros: each zero more multiplies by the base.                 *)
LEMMA LeastLongerGrows ==
  ASSUME NEW base \in {10, 16}
  PROVE  /\ LeastLonger(base, 0) = 1
         /\ \A k \in Nat : /\ LeastLonger(base, k) \in Nat
                           /\ LeastLonger(base, k + 1) = LeastLonger(base, k) * base
<1>1. "0" \in DigitsIn(16) /\ Digit("0") = 0 /\ "1" \in DigitsIn(16) /\ Digit("1") = 1
  <2>1. DigitChars[1] = "0" /\ DigitChars[2] = "1" BY DEF DigitChars
  <2>2. 1 \in 1 .. 16 /\ 2 \in 1 .. 16 OBVIOUS
  <2> QED BY <2>1, <2>2, DigitWorth DEF DigitsIn
<1> DEFINE S(k) == <<"1">> \o Times("0", k)
<1>2. ASSUME NEW k \in Nat PROVE S(k) \in Seq(DigitsIn(16)) BY <1>1 DEF Times
<1>3. LeastLonger(base, 0) = 1
  <2>1. S(0) = Append(<<>>, "1") BY DEF Times
  <2>2. <<>> \in Seq(DigitsIn(16)) OBVIOUS
  <2>3. ValueIn(base, <<>>) = 0
    <3>1. PICK v \in [0 .. Len(<<>>) -> Nat] : Adds(v, base, <<>>) BY <2>2, ValueExists
    <3>2. v[0] = 0 BY <3>1 DEF Adds
    <3>3. ValueIn(base, <<>>) = v[Len(<<>>)] BY <2>2, <3>1, ValueIs
    <3> QED BY <3>2, <3>3
  <2>4. ValueIn(base, Append(<<>>, "1")) = ValueIn(base, <<>>) * base + Digit("1")
    BY <1>1, <2>2, ValueAppend, ZenonT(30)
  <2>5. ValueIn(base, S(0)) = 0 * base + 1 BY <2>1, <2>3, <2>4, <1>1
  <2>6. 0 * base + 1 = 1 OBVIOUS
  <2> QED BY <2>5, <2>6 DEF LeastLonger
<1>4. ASSUME NEW k \in Nat
      PROVE  LeastLonger(base, k) \in Nat /\ LeastLonger(base, k + 1) = LeastLonger(base, k) * base
  <2>1. S(k + 1) = Append(S(k), "0")
    <3>1. S(k) \in Seq(DigitsIn(16)) /\ S(k + 1) \in Seq(DigitsIn(16)) BY <1>2
    <3>2. Len(S(k)) = k + 1 /\ Len(S(k + 1)) = k + 2 BY DEF Times
    <3>3. \A i \in 1 .. (k + 1) : S(k)[i] = IF i = 1 THEN "1" ELSE "0" BY DEF Times
    <3>4. \A i \in 1 .. (k + 2) : S(k + 1)[i] = IF i = 1 THEN "1" ELSE "0" BY DEF Times
    <3> HIDE DEF S
    <3> DEFINE t == Append(S(k), "0")
    <3>5. t \in Seq(DigitsIn(16)) /\ Len(t) = k + 2 BY <3>1, <3>2, <1>1
    <3>6. \A i \in 1 .. (k + 2) : t[i] = IF i = 1 THEN "1" ELSE "0"
      BY <3>1, <3>2, <3>3
    <3> HIDE DEF t
    <3>7. S(k + 1) = t BY <3>1, <3>2, <3>4, <3>5, <3>6, SeqEqual
    <3> QED BY <3>7 DEF t
  <2>2. S(k) \in Seq(DigitsIn(16)) BY <1>2
  <2>a. LeastLonger(base, k) = ValueIn(base, S(k)) /\ LeastLonger(base, k + 1) = ValueIn(base, S(k + 1))
    BY DEF LeastLonger
  <2> HIDE DEF S
  <2>3. ValueIn(base, Append(S(k), "0")) = ValueIn(base, S(k)) * base + Digit("0")
    BY <2>2, <1>1, ValueAppend
  <2>4. ValueIn(base, S(k)) \in Nat BY <2>2, ValueNat
  <2>5. ValueIn(base, S(k)) * base + 0 = ValueIn(base, S(k)) * base BY <2>4
  <2> QED BY <2>a, <2>1, <2>3, <2>4, <2>5, <1>1
<1> QED BY <1>3, <1>4

(* More digits, a greater number; and no number has more digits than its   *)
(* own value.                                                              *)
LEMMA LeastLongerMonotone ==
  ASSUME NEW base \in {10, 16}, NEW m \in Nat, NEW d \in Nat
  PROVE  LeastLonger(base, m) <= LeastLonger(base, m + d) /\ LeastLonger(base, d) > d
<1> DEFINE L(k) == LeastLonger(base, k)
           Grown == {e \in Nat : L(m) <= L(m + e) /\ L(e) > e}
<1>1. L(0) = 1 /\ \A k \in Nat : L(k) \in Nat /\ L(k + 1) = L(k) * base BY LeastLongerGrows
<1> HIDE DEF L
<1>2. 0 \in Grown
  <2>1. m + 0 = m OBVIOUS
  <2> QED BY <1>1, <2>1
<1>3. ASSUME NEW e \in Nat, e \in Grown PROVE e + 1 \in Grown
  <2>1. L(m) <= L(m + e) /\ L(e) > e BY <1>3
  <2>2. L(m) \in Nat /\ L(m + e) \in Nat /\ L(e) \in Nat BY <1>1
  <2>3. L(m + e + 1) = L(m + e) * base /\ L(e + 1) = L(e) * base BY <1>1
  <2>4. m + (e + 1) = m + e + 1 OBVIOUS
  <2>5. \A x \in Nat : x * 10 >= x /\ x * 16 >= x /\ (x > e => x * 10 > e + 1 /\ x * 16 > e + 1)
    OBVIOUS
  <2>6. L(m + e) * base >= L(m + e) /\ L(e) * base > e + 1 BY <2>1, <2>2, <2>5
  <2>7. L(m + e) * base \in Nat BY <2>2
  <2>8. L(m) <= L(m + (e + 1)) BY <2>1, <2>2, <2>3, <2>4, <2>6, <2>7
  <2> QED BY <2>3, <2>6, <2>8
<1> HIDE DEF Grown
<1>4. Nat \subseteq Grown BY <1>2, <1>3, SetInduction
<1> QED BY <1>4 DEF Grown, L

(* The digits of a number are as many as its size asks for.                *)
LEMMA DigitsAsLong ==
  ASSUME NEW base \in {10, 16}, NEW num \in Nat
  PROVE  LET m == Len(DigitsOf(num, base))
         IN  m \in Nat /\ m >= 1 /\ LeastLonger(base, m) > num /\ (m = 1 \/ LeastLonger(base, m - 1) <= num)
<1> DEFINE N(k) == Len(DigitsOf(k, base))
           L(k) == LeastLonger(base, k)
           Fine(k) == L(N(k)) > k /\ (N(k) = 1 \/ L(N(k) - 1) <= k)
           Bad == {k \in Nat : ~ Fine(k)}
<1>0. \A k \in Nat : DigitsOf(k, base) \in Seq(DigitsIn(base)) /\ N(k) \in Nat /\ N(k) >= 1
  <2>1. ASSUME NEW k \in Nat
        PROVE  DigitsOf(k, base) \in Seq(DigitsIn(base)) /\ N(k) \in Nat /\ N(k) >= 1
    <3>1. DigitsOf(k, base) \in Seq(DigitsIn(base)) /\ Len(DigitsOf(k, base)) >= 1
      BY DigitsHaveValue
    <3> QED BY <3>1
  <2> QED BY <2>1
<1>1. L(0) = 1 /\ \A k \in Nat : L(k) \in Nat /\ L(k + 1) = L(k) * base BY LeastLongerGrows
<1>2. SUFFICES ASSUME Bad # {} PROVE FALSE BY <1>0
<1>3. PICK k \in Bad : \A y \in Bad : k <= y
  <2>1. Bad \subseteq Nat OBVIOUS
  <2> HIDE DEF Bad
  <2> QED BY <1>2, <2>1, LeastExists
<1>4. k \in Nat /\ ~ Fine(k) BY <1>3
<1>5. L(1) = base
  <2>1. L(0 + 1) = L(0) * base BY <1>1
  <2>2. 0 + 1 = 1 OBVIOUS
  <2>3. L(1) = 1 * base BY <1>1, <2>1, <2>2
  <2>4. 1 * base = base OBVIOUS
  <2> HIDE DEF L
  <2> QED BY <2>3, <2>4
<1>6. CASE k < base
  <2>1. DigitsOf(k, base) = <<DigitChars[k + 1]>> BY <1>4, <1>6, DigitsUnfold
  <2>2. N(k) = 1 BY <2>1
  <2> HIDE DEF L, N
  <2> QED BY <2>2, <1>4, <1>5, <1>6
<1>7. CASE k >= base
  <2> DEFINE j == k \div base
  <2>1. j \in Nat /\ k % base \in 0 .. (base - 1) /\ k = j * base + (k % base) /\ j < k /\ j >= 1
    BY <1>7, <1>4, Quotient
  <2>2. DigitsOf(k, base) = Append(DigitsOf(j, base), DigitChars[(k % base) + 1])
    <3>1. ~ (k < base) BY <1>4, <1>7
    <3> HIDE DEF j
    <3>2. DigitsOf(k, base) = Append(DigitsOf(k \div base, base), DigitChars[(k % base) + 1])
      BY <3>1, <1>4, DigitsUnfold
    <3> QED BY <3>2 DEF j
  <2> HIDE DEF j
  <2>3. DigitsOf(j, base) \in Seq(DigitsIn(base)) /\ N(j) \in Nat /\ N(j) >= 1 BY <2>1, <1>0
  <2>4. N(k) = N(j) + 1
    <3>1. DigitChars[(k % base) + 1] \in DigitsIn(base)
      <4>1. (k % base) + 1 \in 1 .. base BY <2>1
      <4> QED BY <4>1 DEF DigitsIn
    <3> QED BY <2>2, <2>3, <3>1
  <2>5. Fine(j) BY <2>1, <1>3, <1>4
  <2> HIDE DEF N
  <2> DEFINE e == N(j)
  <2>6. L(e) \in Nat /\ L(e + 1) = L(e) * base /\ L(e) > j /\ (e = 1 \/ L(e - 1) <= j)
    BY <2>3, <2>5, <1>1
  <2>7. e = 1 \/ (e - 1 \in Nat /\ L(e - 1) \in Nat /\ L(e) = L(e - 1) * base)
    <3>1. CASE e = 1 BY <3>1
    <3>2. CASE e # 1
      <4>1. e - 1 \in Nat /\ e - 1 + 1 = e BY <2>3, <3>2
      <4>2. L(e - 1 + 1) = L(e - 1) * base /\ L(e - 1) \in Nat BY <4>1, <1>1
      <4> QED BY <4>1, <4>2
    <3> QED BY <3>1, <3>2
  <2>a. e \in Nat /\ e >= 1 BY <2>3
  <2> HIDE DEF L, e
  <2>8. L(e + 1) > k
    <3>1. \A x \in Nat : x > j => x * base >= j * base + base
      <4>1. CASE base = 10 BY <4>1, <2>1
      <4>2. CASE base = 16 BY <4>2, <2>1
      <4> QED BY <4>1, <4>2
    <3>2. L(e) * base >= j * base + base BY <2>6, <3>1
    <3>3. \A x, y \in Nat : x >= y + base => x > y + (k % base)
      BY <2>1
    <3>4. j * base \in Nat /\ L(e) * base \in Nat BY <2>1, <2>6
    <3> QED BY <2>1, <2>6, <3>2, <3>3, <3>4
  <2>9. L(e) <= k
    <3>1. CASE e = 1 BY <3>1, <1>5, <1>7, <1>4
    <3>2. CASE e # 1
      <4>1. \A x \in Nat : x <= j => x * base <= j * base
        <5>1. CASE base = 10 BY <5>1, <2>1
        <5>2. CASE base = 16 BY <5>2, <2>1
        <5> QED BY <5>1, <5>2
      <4>2. L(e) <= j * base BY <2>6, <2>7, <3>2, <4>1
      <4>3. j * base <= k BY <2>1
      <4>4. j * base \in Nat BY <2>1
      <4> QED BY <2>6, <4>2, <4>3, <4>4, <1>4
    <3> QED BY <3>1, <3>2
  <2>10. N(k) = e + 1 /\ (e + 1) - 1 = e BY <2>4, <2>a DEF e
  <2> QED BY <2>8, <2>9, <2>10, <1>4
<1> QED BY <1>6, <1>7, <1>4

(* The division loop of number finds the fewest digits that can hold the   *)
(* number: it writes no leading zero.                                      *)
THEOREM CountIsLength ==
  ASSUME NEW base \in {10, 16}, NEW num \in 0 .. (Word - 1)
  PROVE  DigitCount(num, base) = Len(DigitsOf(num, base))
<1> DEFINE m == Len(DigitsOf(num, base))
           Right(k) == LeastLonger(base, k) > num /\ (k = 1 \/ LeastLonger(base, k - 1) <= num)
<1>0. Word \in Nat /\ Word > 9 /\ num \in Nat /\ num < Word BY WordAssumption
<1>1. m \in Nat /\ m >= 1 /\ Right(m) BY <1>0, DigitsAsLong
<1> HIDE DEF m
<1>2. \A k \in Nat : LeastLonger(base, k) \in Nat BY LeastLongerGrows
<1>3. m \in 1 .. Word
  <2>1. CASE m = 1 BY <2>1, <1>0
  <2>2. CASE m # 1
    <3>1. m - 1 \in Nat BY <1>1, <2>2
    <3>2. LeastLonger(base, m - 1) <= num BY <1>1, <2>2
    <3>3. LeastLonger(base, m - 1) > m - 1 BY <3>1, LeastLongerMonotone
    <3>4. LeastLonger(base, m - 1) \in Nat BY <3>1, <1>2
    <3> QED BY <1>0, <1>1, <3>1, <3>2, <3>3, <3>4
  <2> QED BY <2>1, <2>2
<1>4. ASSUME NEW i \in Nat, NEW j \in Nat, i >= 1, i < j, Right(i), Right(j) PROVE FALSE
  <2>1. LeastLonger(base, j - 1) <= num /\ LeastLonger(base, i) > num BY <1>4
  <2>2. i + (j - 1 - i) = j - 1 /\ j - 1 - i \in Nat /\ j - 1 \in Nat BY <1>4
  <2>3. LeastLonger(base, i) <= LeastLonger(base, i + (j - 1 - i)) BY <2>2, LeastLongerMonotone
  <2>4. LeastLonger(base, i) <= LeastLonger(base, j - 1) BY <2>2, <2>3
  <2>5. LeastLonger(base, i) \in Nat /\ LeastLonger(base, j - 1) \in Nat BY <2>2, <1>2
  <2> QED BY <2>1, <2>4, <2>5, <1>0
<1> HIDE DEF Right
<1>5. \A k \in 1 .. Word : Right(k) => k = m
  <2>1. ASSUME NEW k \in 1 .. Word, Right(k) PROVE k = m
    <3>1. k \in Nat /\ k >= 1 BY <1>0
    <3>2. ~ (k < m) BY <3>1, <2>1, <1>1, <1>4
    <3>3. ~ (m < k) BY <3>1, <2>1, <1>1, <1>4
    <3> QED BY <3>1, <3>2, <3>3, <1>1
  <2> QED BY <2>1
<1>6. (CHOOSE k \in 1 .. Word : Right(k)) = m BY <1>1, <1>3, <1>5
<1> QED BY <1>6 DEF DigitCount, Right, m

-----------------------------------------------------------------------------
(* What is printed of one argument.                                        *)

(* The characters of formats, of arguments and of what is printed.         *)
Characters == STRING \cup DigitsIn(16) \cup FlagChars \cup {Nul}
              \cup {"a", "%", "=", ".", "*", "h", "l", "L", "c", "s", "d", "u", "x", "X"}

(* All that a format, an argument or a text is made of.                    *)
LEMMA CharactersAre ==
  /\ FlagChars \subseteq Characters /\ DigitsIn(16) \subseteq Characters /\ STRING \subseteq Characters
  /\ Nul \in Characters
  /\ {"a", "%", "=", ".", "*", "h", "l", "L", "c", "s", "d", "u", "x", "X"} \subseteq Characters
  /\ Space \in Characters /\ "+" \in Characters /\ "0" \in Characters /\ "X" \in Characters
<1>1. /\ FlagChars \subseteq Characters /\ DigitsIn(16) \subseteq Characters /\ STRING \subseteq Characters
      /\ Nul \in Characters
      /\ {"a", "%", "=", ".", "*", "h", "l", "L", "c", "s", "d", "u", "x", "X"} \subseteq Characters
  BY DEF Characters
<1>2. Space \in FlagChars /\ "+" \in FlagChars /\ "0" \in FlagChars BY DEF FlagChars
<1> QED BY <1>1, <1>2

(* A character repeated.                                                   *)
LEMMA TimesIs ==
  ASSUME NEW c \in Characters, NEW k \in Nat
  PROVE  /\ Times(c, k) \in Seq(Characters) /\ Len(Times(c, k)) = k
         /\ \A i \in 1 .. k : Times(c, k)[i] = c
BY DEF Times

(* The order in which texts are put together makes no difference.          *)
LEMMA Reassociated ==
  ASSUME NEW S
  PROVE  \A u, v, r \in Seq(S) : (u \o v) \o r = u \o (v \o r)
BY ConcatAssociative

(* The part of a text between what stands before and behind it.            *)
LEMMA CutOut ==
  ASSUME NEW S, NEW a \in Seq(S), NEW m \in Seq(S), NEW x \in Seq(S), NEW c \in Seq(S)
  PROVE  LET s == a \o m \o x \o c
         IN  /\ Len(s) = Len(a) + Len(m) + Len(x) + Len(c) /\ s \in Seq(S)
             /\ SubSeq(s, Len(a) + Len(m) + 1, Len(s) - Len(c)) = x
<1>1. \A u, v \in Seq(S) :
        /\ u \o v \in Seq(S) /\ Len(u \o v) = Len(u) + Len(v)
        /\ \A i \in 1 .. Len(u) + Len(v) :
             (u \o v)[i] = IF i <= Len(u) THEN u[i] ELSE v[i - Len(u)]
  BY ConcatProperties
<1>2. PICK am \in Seq(S) : am = a \o m /\ Len(am) = Len(a) + Len(m) BY <1>1
<1>3. PICK amx \in Seq(S) : /\ amx = am \o x /\ Len(amx) = Len(am) + Len(x)
                            /\ \A i \in 1 .. Len(am) + Len(x) :
                                 amx[i] = IF i <= Len(am) THEN am[i] ELSE x[i - Len(am)]
  BY <1>1
<1>4. PICK s \in Seq(S) : /\ s = amx \o c /\ Len(s) = Len(amx) + Len(c)
                          /\ \A i \in 1 .. Len(amx) + Len(c) :
                               s[i] = IF i <= Len(amx) THEN amx[i] ELSE c[i - Len(amx)]
  BY <1>1
<1>5. PICK k \in Nat, top \in Nat : k = Len(am) /\ top = Len(x) OBVIOUS
<1>6. Len(a) \in Nat /\ Len(m) \in Nat /\ Len(c) \in Nat OBVIOUS
<1>7. \A i \in 1 .. top : s[k + i] = x[i]
  <2> TAKE i \in 1 .. top
  <2>1. k + i \in 1 .. (k + top) /\ ~ (k + i <= k) /\ (k + i) - k = i BY <1>5
  <2>2. k + i <= Len(amx) /\ k + i \in 1 .. Len(amx) + Len(c) BY <2>1, <1>3, <1>5, <1>6
  <2>3. s[k + i] = amx[k + i] BY <2>2, <1>4
  <2>4. amx[k + i] = x[(k + i) - k] BY <2>1, <1>3, <1>5
  <2> QED BY <2>1, <2>3, <2>4
<1>8. \A i \in (k + 1) .. (k + top) : s[i] \in S
  <2>1. \A i \in (k + 1) .. (k + top) : i \in 1 .. Len(s) BY <1>3, <1>4, <1>5, <1>6
  <2>2. \A i \in 1 .. Len(s) : s[i] \in S OBVIOUS
  <2> QED BY <2>1, <2>2
<1>9. PICK t : t = SubSeq(s, k + 1, k + top) OBVIOUS
<1>10. t \in Seq(S) /\ Len(t) = top /\ \A i \in 1 .. top : t[i] = s[k + i]
  <2>1. k + 1 \in Int /\ k + top \in Int OBVIOUS
  <2>2. /\ t \in Seq(S)
        /\ Len(t) = IF k + 1 <= k + top THEN k + top - (k + 1) + 1 ELSE 0
        /\ \A i \in 1 .. (k + top) - (k + 1) + 1 : t[i] = s[(k + 1) + i - 1]
    BY ONLY <1>8, <1>9, <2>1, SubSeqProperties
  <2>3. (k + top) - (k + 1) + 1 = top /\ (~ (k + 1 <= k + top) => top = 0) OBVIOUS
  <2>4. \A i \in 1 .. top : (k + 1) + i - 1 = k + i OBVIOUS
  <2>5. Len(t) = top BY <2>2, <2>3
  <2>6. \A i \in 1 .. top : t[i] = s[k + i] BY <2>2, <2>3, <2>4
  <2> QED BY <2>2, <2>5, <2>6
<1>11. t = x BY <1>5, <1>7, <1>10, SeqEqual
<1>12. Len(s) = Len(a) + Len(m) + Len(x) + Len(c) /\ Len(s) - Len(c) = k + top
       /\ Len(a) + Len(m) + 1 = k + 1
  BY <1>2, <1>3, <1>4, <1>5, <1>6
<1>13. s = a \o m \o x \o c BY <1>2, <1>3, <1>4
<1> QED BY <1>9, <1>11, <1>12, <1>13

(* The parts of a number.                                                  *)
LEMMA PartsAreText ==
  ASSUME NEW base \in {10, 16}, NEW flags
  PROVE  /\ Sign(flags) \in Seq(Characters) /\ Prefix(base, flags) \in Seq(Characters)
         /\ Len(Sign(flags)) = IF {"+", Space} \cap flags # {} THEN 1 ELSE 0
         /\ Seq(DigitsIn(base)) \subseteq Seq(Characters)
         /\ \A c \in DigitsIn(base) : c # Space
<1>0. Space \in Characters /\ "+" \in Characters /\ "0" \in Characters /\ "X" \in Characters
      /\ DigitsIn(16) \subseteq Characters
  BY CharactersAre
<1>1. Sign(flags) \in Seq(Characters) /\ Len(Sign(flags)) = IF {"+", Space} \cap flags # {} THEN 1 ELSE 0
  BY <1>0 DEF Sign
<1>2. Prefix(base, flags) \in Seq(Characters) BY <1>0 DEF Prefix
<1>3. \A j \in 1 .. 16 : DigitChars[j] # Space
  <2> TAKE j \in 1 .. 16
  <2>1. j \in {1, 2, 3, 4, 5, 6, 7, 8, 9, 10, 11, 12, 13, 14, 15, 16} OBVIOUS
  <2> QED BY <2>1 DEF DigitChars, Space
<1>4. \A c \in DigitsIn(base) : c \in Characters /\ c # Space
  <2>1. DigitsIn(base) \subseteq DigitsIn(16) BY DEF DigitsIn
  <2> QED BY <1>0, <1>3, <2>1 DEF DigitsIn
<1>5. DigitsIn(base) \subseteq Characters BY <1>4
<1>6. Seq(DigitsIn(base)) \subseteq Seq(Characters) BY <1>5, SeqMonotonic
<1> QED BY <1>1, <1>2, <1>4, <1>6

(* A text stands behind its marks with nothing but blanks around it, and a *)
(* number as digits of its value, as many as the precision asks for.       *)
Stands(s, marks, core) == \E b, a \in Nat : s = Times(Space, b) \o marks \o core \o Times(Space, a)
MarksOf(base, flags) == (IF "+" \in flags THEN <<"+">> ELSE <<>>) \o Prefix(base, flags)
StandsAsNumber(s, marks, base, num, precision) ==
  \E core \in Seq(DigitsIn(base)) :
    Stands(s, marks, core) /\ ValueIn(base, core) = num /\ Len(core) >= Greater(precision, 1)

(* A number in its field reads back.                                       *)
LEMMA NumberReadsBack ==
  ASSUME NEW base \in {10, 16}, NEW num \in Nat, NEW width \in Int, NEW precision \in Int, NEW flags
  PROVE  /\ Number(num, base, width, precision, flags) \in Seq(Characters)
         /\ MarksOf(base, flags) \in Seq(Characters)
         /\ StandsAsNumber(Number(num, base, width, precision, flags), MarksOf(base, flags),
                           base, num, precision)
<1> DEFINE digits == DigitsOf(num, base)
           zeros == AtLeast0(precision - Len(digits))
           size == SizeLeft(width, Len(Sign(flags) \o Prefix(base, flags)), zeros + Len(digits))
           b == IF {"0", "-"} \cap flags = {} THEN size ELSE 0
           z == IF ZeroPadded(flags) THEN size ELSE 0
           a == IF "-" \in flags THEN size ELSE 0
           sign == Sign(flags)
           prefix == Prefix(base, flags)
           lead == sign \o prefix
           s == Number(num, base, width, precision, flags)
           marks == (IF "+" \in flags THEN <<"+">> ELSE <<>>) \o prefix
           core == Times("0", z) \o (Times("0", zeros) \o digits)
<1> SUFFICES /\ s \in Seq(Characters) /\ marks \in Seq(Characters)
             /\ \E bb, aa \in Nat, cc \in Seq(DigitsIn(base)) :
                  /\ s = Times(Space, bb) \o marks \o cc \o Times(Space, aa)
                  /\ ValueIn(base, cc) = num /\ Len(cc) >= Greater(precision, 1)
  BY DEF MarksOf, StandsAsNumber, Stands
<1>1. digits \in Seq(DigitsIn(base)) /\ Len(digits) >= 1 /\ ValueIn(base, digits) = num
      /\ Len(digits) \in Nat
  <2>1. digits \in Seq(DigitsIn(base)) /\ Len(digits) >= 1 /\ ValueIn(base, digits) = num
    BY DigitsHaveValue
  <2> HIDE DEF digits
  <2> QED BY <2>1
<1>2. s = Times(Space, b) \o lead \o core \o Times(Space, a)
  BY DEF Number
<1>3. sign \in Seq(Characters) /\ prefix \in Seq(Characters) /\ digits \in Seq(Characters)
  BY <1>1, PartsAreText
<1>4. lead \in Seq(Characters) /\ Len(lead) \in Nat BY <1>3, ConcatProperties
<1> HIDE DEF digits, lead
<1>5. zeros \in Nat /\ (precision - Len(digits) <= zeros) BY <1>1 DEF AtLeast0
<1> HIDE DEF zeros
<1>6. size \in Nat BY <1>1, <1>4, <1>5 DEF SizeLeft, AtLeast0, lead
<1> HIDE DEF size
<1>7. b \in Nat /\ z \in Nat /\ a \in Nat BY <1>6
<1> HIDE DEF b, z, a, s, sign, prefix
<1>8. core \in Seq(DigitsIn(base)) /\ ValueIn(base, core) = num /\ Len(core) >= Greater(precision, 1)
  <2>1. DigitsIn(base) \subseteq DigitsIn(16) BY DEF DigitsIn
  <2>2. digits \in Seq(DigitsIn(16)) BY <1>1, <2>1, SeqMonotonic
  <2> DEFINE d1 == Times("0", zeros) \o digits
  <2>3. d1 \in Seq(DigitsIn(16)) /\ ValueIn(base, d1) = num BY <1>1, <1>5, <2>2, ValueOfZeros
  <2>4. ValueIn(base, Times("0", z) \o d1) = num
    <3> HIDE DEF d1
    <3> QED BY <1>7, <2>3, ValueOfZeros
  <2>5. "0" \in DigitsIn(base)
    <3>1. DigitChars[1] = "0" /\ 1 \in 1 .. base BY DEF DigitChars
    <3> QED BY <3>1 DEF DigitsIn
  <2>6. \A k \in Nat : Times("0", k) \in Seq(DigitsIn(base)) /\ Len(Times("0", k)) = k
    BY <2>5 DEF Times
  <2>7. d1 \in Seq(DigitsIn(base)) /\ Len(d1) = zeros + Len(digits)
    <3>1. Times("0", zeros) \in Seq(DigitsIn(base)) /\ Len(Times("0", zeros)) = zeros
      BY <1>5, <2>6
    <3>2. \A x, y \in Seq(DigitsIn(base)) : x \o y \in Seq(DigitsIn(base)) /\ Len(x \o y) = Len(x) + Len(y)
      BY ConcatProperties
    <3>3. digits \in Seq(DigitsIn(base)) BY <1>1
    <3> QED BY <3>1, <3>2, <3>3, Zenon
  <2> HIDE DEF d1
  <2>8. Times("0", z) \o d1 \in Seq(DigitsIn(base)) /\ Len(Times("0", z) \o d1) = z + Len(d1)
    BY <1>7, <2>6, <2>7, ConcatProperties
  <2>9. z + (zeros + Len(digits)) >= Greater(precision, 1) BY <1>1, <1>5, <1>7 DEF Greater
  <2> QED BY <2>4, <2>7, <2>8, <2>9 DEF d1
<1>9. Times(Space, b) \in Seq(Characters) /\ Times(Space, a) \in Seq(Characters)
      /\ Times("0", z) \in Seq(Characters) /\ Times("0", zeros) \in Seq(Characters)
  BY <1>5, <1>7, TimesIs, CharactersAre
<1>10. s = Times(Space, b) \o lead \o core \o Times(Space, a) /\ s \in Seq(Characters)
  <2> HIDE DEF core
  <2>1. core \in Seq(Characters) BY <1>8, PartsAreText
  <2>2. s \in Seq(Characters) BY <1>2, <1>4, <1>9, <2>1, ConcatProperties
  <2> QED BY <1>2, <2>2
<1> HIDE DEF core
<1>11. marks \in Seq(Characters) BY <1>3, CharactersAre
<1>12. CASE "+" \in flags \/ Space \notin flags
  <2>1. sign = IF "+" \in flags THEN <<"+">> ELSE <<>> BY <1>12 DEF sign, Sign
  <2>2. marks = lead BY <2>1 DEF lead
  <2> HIDE DEF marks
  <2>3. s = Times(Space, b) \o marks \o core \o Times(Space, a) BY <2>2, <1>10
  <2> QED BY <2>3, <1>7, <1>8, <1>10, <1>11 DEF marks, s, prefix
<1>13. CASE "+" \notin flags /\ Space \in flags
  <2>1. sign = <<Space>> BY <1>13 DEF sign, Sign
  <2>2. marks = prefix BY <1>13, <1>3, ConcatEmptySeq
  <2>3. Times(Space, b) \o lead = (Times(Space, b) \o <<Space>>) \o prefix
    <3>1. <<Space>> \in Seq(Characters) BY CharactersAre
    <3>2. \A u, v, w \in Seq(Characters) : (u \o v) \o w = u \o (v \o w) BY Reassociated
    <3>3. (Times(Space, b) \o <<Space>>) \o prefix = Times(Space, b) \o (<<Space>> \o prefix)
      BY <1>3, <1>9, <3>1, <3>2, SMTT(30)
    <3> QED BY <2>1, <3>3, Zenon DEF lead
  <2>4. Times(Space, b) \o <<Space>> = Times(Space, b + 1)
    <3>1. Times(Space, b + 1) \in Seq(Characters) /\ Len(Times(Space, b + 1)) = b + 1
          /\ \A i \in 1 .. (b + 1) : Times(Space, b + 1)[i] = Space
      <4>1. b + 1 \in Nat /\ Space \in Characters BY <1>7, CharactersAre
      <4> QED BY <4>1, TimesIs
    <3> DEFINE u == Times(Space, b) \o <<Space>>
    <3>2. /\ u \in Seq(Characters) /\ Len(u) = b + 1
          /\ \A i \in 1 .. (b + 1) : u[i] = Space
      <4>1. Times(Space, b) \in Seq(Characters) /\ Len(Times(Space, b)) = b
            /\ \A i \in 1 .. b : Times(Space, b)[i] = Space
        BY <1>7, TimesIs, CharactersAre
      <4> DEFINE t == Times(Space, b)
      <4> HIDE DEF t
      <4>2. t \in Seq(Characters) /\ Len(t) = b /\ \A i \in 1 .. b : t[i] = Space BY <4>1 DEF t
      <4>3. t \o <<Space>> \in Seq(Characters) /\ Len(t \o <<Space>>) = b + 1
            /\ \A i \in 1 .. (b + 1) : (t \o <<Space>>)[i] = Space
        BY <4>2, <1>7, CharactersAre
      <4> QED BY <4>3 DEF t
    <3> HIDE DEF u
    <3>3. u = Times(Space, b + 1) BY <3>1, <3>2, SeqEqual
    <3> QED BY <3>3 DEF u
  <2>5. s = Times(Space, b + 1) \o marks \o core \o Times(Space, a) BY <2>2, <2>3, <2>4, <1>10
  <2>6. b + 1 \in Nat BY <1>7
  <2> HIDE DEF marks
  <2> QED BY <2>5, <2>6, <1>7, <1>8, <1>10, <1>11 DEF marks, s, prefix
<1> QED BY <1>12, <1>13

(* The length and the last character of two texts in a row.               *)
LEMMA Joined ==
  ASSUME NEW S, NEW u \in Seq(S), NEW v \in Seq(S)
  PROVE  /\ u \o v \in Seq(S) /\ Len(u \o v) = Len(u) + Len(v) /\ Len(u \o v) \in Nat
         /\ Len(v) >= 1 => (u \o v)[Len(u \o v)] = v[Len(v)]
<1>1. /\ u \o v \in Seq(S) /\ Len(u \o v) = Len(u) + Len(v)
      /\ \A i \in 1 .. Len(u) + Len(v) :
           (u \o v)[i] = IF i <= Len(u) THEN u[i] ELSE v[i - Len(u)]
  BY ConcatProperties
<1>2. Len(u) \in Nat /\ Len(v) \in Nat OBVIOUS
<1>3. ASSUME Len(v) >= 1 PROVE (u \o v)[Len(u \o v)] = v[Len(v)]
  <2>1. /\ Len(u) + Len(v) \in 1 .. Len(u) + Len(v) /\ ~ (Len(u) + Len(v) <= Len(u))
        /\ Len(u) + Len(v) - Len(u) = Len(v)
    BY <1>2, <1>3
  <2> QED BY <1>1, <2>1
<1>4. Len(u \o v) \in Nat BY <1>1, <1>2
<1> QED BY <1>1, <1>3, <1>4

(* A field is as wide as it is told to be, or as it needs to be if that is *)
(* more, with the blanks on one side; what a number of so many digits      *)
(* needs.                                                                  *)
Filled(s, need, width, flags) ==
  /\ Len(s) = Greater(width, need)
  /\ IF "-" \in flags THEN Spaces(s, (need + 1) .. Len(s)) ELSE s[Len(s)] # Space
NeededBy(base, flags, precision, count) ==
  (IF {"+", Space} \cap flags # {} THEN 1 ELSE 0) + Len(Prefix(base, flags)) + Greater(precision, count)

(* A number fills its field.                                               *)
LEMMA NumberFills ==
  ASSUME NEW base \in {10, 16}, NEW num \in Nat, NEW width \in Int, NEW precision \in Int, NEW flags
  PROVE  Filled(Number(num, base, width, precision, flags),
                NeededBy(base, flags, precision, Len(DigitsOf(num, base))), width, flags)
<1> DEFINE digits == DigitsOf(num, base)
           zeros == AtLeast0(precision - Len(digits))
           lead == Sign(flags) \o Prefix(base, flags)
           size == SizeLeft(width, Len(lead), zeros + Len(digits))
           b == IF {"0", "-"} \cap flags = {} THEN size ELSE 0
           z == IF ZeroPadded(flags) THEN size ELSE 0
           a == IF "-" \in flags THEN size ELSE 0
           core == Times("0", z) \o (Times("0", zeros) \o digits)
           s == Number(num, base, width, precision, flags)
           need == (IF {"+", Space} \cap flags # {} THEN 1 ELSE 0) + Len(Prefix(base, flags))
                     + Greater(precision, Len(digits))
<1> SUFFICES /\ Len(s) = Greater(width, need)
             /\ IF "-" \in flags THEN Spaces(s, (need + 1) .. Len(s)) ELSE s[Len(s)] # Space
  BY DEF Filled, NeededBy
<1>1. s = Times(Space, b) \o lead \o core \o Times(Space, a) BY DEF Number
<1>2. /\ digits \in Seq(Characters) /\ Len(digits) \in Nat /\ Len(digits) >= 1
      /\ digits[Len(digits)] # Space
  <2>1. digits \in Seq(DigitsIn(base)) /\ Len(digits) >= 1 BY DigitsHaveValue
  <2> HIDE DEF digits
  <2>2. Len(digits) \in Nat /\ digits[Len(digits)] \in DigitsIn(base) BY <2>1
  <2> QED BY <2>1, <2>2, PartsAreText
<1> HIDE DEF digits
<1>3. /\ lead \in Seq(Characters) /\ Len(Prefix(base, flags)) \in Nat /\ Len(lead) \in Nat
      /\ Len(lead) = (IF {"+", Space} \cap flags # {} THEN 1 ELSE 0) + Len(Prefix(base, flags))
  <2>1. /\ Sign(flags) \in Seq(Characters) /\ Prefix(base, flags) \in Seq(Characters)
        /\ Len(Sign(flags)) = IF {"+", Space} \cap flags # {} THEN 1 ELSE 0
    BY PartsAreText
  <2>2. /\ lead \in Seq(Characters) /\ Len(lead) = Len(Sign(flags)) + Len(Prefix(base, flags))
    BY <2>1, Joined
  <2> HIDE DEF lead
  <2>3. Len(Prefix(base, flags)) \in Nat /\ Len(lead) \in Nat BY <2>1, <2>2
  <2> QED BY <2>1, <2>2, <2>3
<1> HIDE DEF lead
<1>4. zeros \in Nat /\ zeros + Len(digits) = Greater(precision, Len(digits))
  BY <1>2 DEF AtLeast0, Greater
<1>5. need \in Nat /\ need >= 1 /\ need = Len(lead) + (zeros + Len(digits))
  BY <1>2, <1>3, <1>4
<1> HIDE DEF need, zeros
<1>6. size \in Nat /\ need + size = Greater(width, need)
  <2>1. size = AtLeast0(width - Len(lead) - (zeros + Len(digits))) BY DEF SizeLeft
  <2> HIDE DEF size
  <2>2. width - Len(lead) - (zeros + Len(digits)) = width - need BY <1>2, <1>3, <1>4, <1>5
  <2> QED BY <1>5, <2>1, <2>2 DEF AtLeast0, Greater
<1> HIDE DEF size
<1>7. /\ b \in Nat /\ z \in Nat /\ a \in Nat /\ b + z + a = size
      /\ "-" \in flags => b = 0 /\ z = 0
      /\ "-" \notin flags => a = 0
  <2>1. CASE "-" \in flags BY <2>1, <1>6 DEF ZeroPadded
  <2>2. CASE "-" \notin flags /\ "0" \in flags BY <2>2, <1>6 DEF ZeroPadded
  <2>3. CASE "-" \notin flags /\ "0" \notin flags BY <2>3, <1>6 DEF ZeroPadded
  <2> QED BY <2>1, <2>2, <2>3
<1> HIDE DEF b, z, a
<1>8. \A k \in Nat :
        /\ Times(Space, k) \in Seq(Characters) /\ Len(Times(Space, k)) = k
        /\ \A i \in 1 .. k : Times(Space, k)[i] = Space
        /\ Times("0", k) \in Seq(Characters) /\ Len(Times("0", k)) = k
  <2>1. Space \in Characters /\ "0" \in Characters BY CharactersAre
  <2>2. \A k \in Nat : /\ Times(Space, k) \in Seq(Characters) /\ Len(Times(Space, k)) = k
                     /\ \A i \in 1 .. k : Times(Space, k)[i] = Space
    BY <2>1, TimesIs
  <2>3. \A k \in Nat : Times("0", k) \in Seq(Characters) /\ Len(Times("0", k)) = k
    BY <2>1, TimesIs
  <2> QED BY <2>2, <2>3
<1> DEFINE tb == Times(Space, b)
           tz == Times("0", z)
           t0 == Times("0", zeros)
           ta == Times(Space, a)
           d0 == t0 \o digits
           bl == tb \o lead
           body == bl \o core
<1>9. /\ tb \in Seq(Characters) /\ tz \in Seq(Characters) /\ t0 \in Seq(Characters)
      /\ ta \in Seq(Characters)
      /\ Len(tb) = b /\ Len(tz) = z /\ Len(t0) = zeros /\ Len(ta) = a
      /\ \A i \in 1 .. a : ta[i] = Space
  BY <1>4, <1>7, <1>8
<1> HIDE DEF tb, tz, t0, ta
<1>10. /\ d0 \in Seq(Characters) /\ Len(d0) = Len(t0) + Len(digits) /\ Len(d0) \in Nat
       /\ d0[Len(d0)] # Space
  <2>1. t0 \in Seq(Characters) /\ digits \in Seq(Characters) BY <1>2, <1>9
  <2> QED BY <1>2, <2>1, Joined, Zenon
<1>c. core = tz \o d0 BY DEF tz, t0
<1>11. /\ core \in Seq(Characters) /\ Len(core) = Len(tz) + Len(d0) /\ Len(core) \in Nat
       /\ core[Len(core)] # Space
  <2>1. tz \in Seq(Characters) /\ d0 \in Seq(Characters) BY <1>9, <1>10
  <2>2. Len(d0) >= 1
    <3> HIDE DEF d0
    <3> QED BY <1>2, <1>4, <1>9, <1>10
  <2> HIDE DEF d0, core
  <2> QED BY <1>c, <1>10, <2>1, <2>2, Joined, Zenon
<1> HIDE DEF core, d0
<1>12. bl \in Seq(Characters) /\ Len(bl) = Len(tb) + Len(lead) /\ Len(bl) \in Nat
  <2>1. tb \in Seq(Characters) /\ lead \in Seq(Characters) BY <1>3, <1>9
  <2> QED BY <2>1, Joined, Zenon
<1> HIDE DEF bl
<1>13. /\ body \in Seq(Characters) /\ Len(body) = Len(bl) + Len(core) /\ Len(body) \in Nat
       /\ body[Len(body)] # Space
  <2>1. bl \in Seq(Characters) /\ core \in Seq(Characters) BY <1>11, <1>12
  <2>2. Len(core) >= 1 BY <1>2, <1>4, <1>7, <1>9, <1>10, <1>11
  <2> QED BY <1>11, <2>1, <2>2, Joined, Zenon
<1>s. s = body \o ta BY <1>1 DEF bl, tb, ta
<1> HIDE DEF body, s
<1>14. /\ Len(s) = Len(body) + a
       /\ \A i \in 1 .. Len(body) : s[i] = body[i]
       /\ \A i \in 1 .. a : s[Len(body) + i] = Space
  <2>1. /\ Len(s) = Len(body) + Len(ta)
        /\ \A i \in 1 .. Len(body) + Len(ta) :
             s[i] = IF i <= Len(body) THEN body[i] ELSE ta[i - Len(body)]
    <3>1. body \in Seq(Characters) /\ ta \in Seq(Characters) BY <1>9, <1>13
    <3> QED BY ONLY <3>1, <1>s, ConcatProperties
  <2>2. \A i \in 1 .. Len(body) : s[i] = body[i] BY <1>7, <1>9, <1>13, <2>1
  <2>3. ASSUME NEW i \in 1 .. a PROVE s[Len(body) + i] = Space
    <3>1. /\ Len(body) + i \in 1 .. Len(body) + a /\ ~ (Len(body) + i <= Len(body))
          /\ Len(body) + i - Len(body) = i
      BY <1>7, <1>13
    <3> QED BY <1>9, <2>1, <3>1
  <2> QED BY <1>9, <2>1, <2>2, <2>3
<1>15. \A u, w, x \in Nat : (b + u) + (z + (w + x)) = b + z + (u + (w + x))
  BY <1>7
<1>16. Len(body) = b + z + need
  <2>1. /\ Len(body) = Len(bl) + Len(core) /\ Len(bl) = b + Len(lead)
        /\ Len(core) = z + Len(d0) /\ Len(d0) = zeros + Len(digits)
        /\ need = Len(lead) + (zeros + Len(digits))
    BY <1>5, <1>9, <1>10, <1>11, <1>12, <1>13
  <2>2. Len(lead) \in Nat /\ zeros \in Nat /\ Len(digits) \in Nat BY <1>2, <1>3, <1>4
  <2>3. Len(body) = (b + Len(lead)) + (z + (zeros + Len(digits))) BY ONLY <2>1, Zenon
  <2>4. (b + Len(lead)) + (z + (zeros + Len(digits))) = b + z + (Len(lead) + (zeros + Len(digits)))
    BY ONLY <1>15, <2>2, Zenon
  <2> QED BY ONLY <2>1, <2>3, <2>4, Zenon
<1>17. PICK e \in Nat, f \in Nat : e = Len(body) /\ f = Len(s)
  BY <1>7, <1>13, <1>14
<1>18. /\ f = e + a /\ e = b + z + need /\ f = Greater(width, need)
  <2>1. f = e + a /\ e = b + z + need BY <1>14, <1>16, <1>17
  <2>2. b + z + need + a = need + (b + z + a) BY <1>5, <1>7
  <2> QED BY <1>6, <1>7, <2>1, <2>2
<1>19. CASE "-" \in flags
  <2>1. e = need /\ f = need + a BY <1>5, <1>7, <1>18, <1>19
  <2>2. ASSUME NEW i \in (need + 1) .. f PROVE s[i] = Space
    <3>1. i - need \in 1 .. a /\ need + (i - need) = i BY <1>5, <1>7, <2>1
    <3>2. s[need + (i - need)] = Space BY <1>14, <1>17, <2>1, <3>1
    <3> QED BY <3>1, <3>2
  <2>3. Spaces(s, (need + 1) .. Len(s)) BY <1>17, <2>2 DEF Spaces
  <2> QED BY <1>5, <1>17, <1>18, <1>19, <2>3 DEF s, need, digits
<1>20. CASE "-" \notin flags
  <2>1. f = e /\ e \in 1 .. e BY <1>5, <1>7, <1>18, <1>20
  <2>2. s[Len(s)] # Space BY <1>13, <1>14, <1>17, <2>1
  <2> QED BY <1>5, <1>17, <1>18, <1>20, <2>2 DEF s, need, digits
<1> QED BY <1>19, <1>20

(* So does a character.                                                    *)
LEMMA CharacterField ==
  ASSUME NEW c \in Characters, NEW width \in Int, NEW flags
  PROVE  /\ Character(c, width, flags) \in Seq(Characters)
         /\ Stands(Character(c, width, flags), <<>>, <<c>>)
         /\ c # Space => Filled(Character(c, width, flags), 1, width, flags)
<1> DEFINE k == AtLeast0(width - 1)
           s == Character(c, width, flags)
<1>1. k \in Nat /\ k + 1 = Greater(width, 1) BY DEF AtLeast0, Greater
<1>2. PICK pad \in Seq(Characters) :
        pad = Times(Space, k) /\ Len(pad) = k /\ \A i \in 1 .. k : pad[i] = Space
  <2> HIDE DEF k
  <2>1. Space \in Characters BY CharactersAre
  <2> QED BY <1>1, <2>1, TimesIs
<1>3. <<c>> \in Seq(Characters) /\ Len(<<c>>) = 1 /\ <<c>>[1] = c OBVIOUS
<1>4. Times(Space, 0) = <<>> BY DEF Times
<1>5. CASE "-" \in flags
  <2>1. s = <<c>> \o pad BY <1>2, <1>5 DEF Character
  <2> HIDE DEF s, k
  <2>2. s \in Seq(Characters) /\ Len(s) = 1 + k BY <1>1, <1>2, <2>1
  <2>3. \A i \in 2 .. (1 + k) : s[i] = Space BY <1>1, <1>2, <2>1
  <2>4. s = Times(Space, 0) \o <<>> \o <<c>> \o Times(Space, k) BY <1>2, <1>4, <2>1
  <2>5. Spaces(s, 2 .. Len(s)) BY <2>2, <2>3 DEF Spaces
  <2>6. Len(s) = Greater(width, 1) BY <1>1, <2>2
  <2>7. 0 \in Nat OBVIOUS
  <2>8. Stands(s, <<>>, <<c>>) BY <1>1, <2>4, <2>7 DEF Stands
  <2>9. Filled(s, 1, width, flags) BY <1>5, <2>5, <2>6 DEF Filled
  <2> QED BY <2>2, <2>8, <2>9 DEF s
<1>6. CASE "-" \notin flags
  <2>1. s = pad \o <<c>> BY <1>2, <1>6 DEF Character
  <2> HIDE DEF s, k
  <2>2. s \in Seq(Characters) /\ Len(s) = k + 1 /\ s[k + 1] = c BY <1>1, <1>2, <2>1, SMTT(30)
  <2>3. s = Times(Space, k) \o <<>> \o <<c>> \o Times(Space, 0) BY <1>2, <1>4, <2>1
  <2>6. Len(s) = Greater(width, 1) BY <1>1, <2>2
  <2>7. 0 \in Nat OBVIOUS
  <2>8. Stands(s, <<>>, <<c>>) BY <1>1, <2>3, <2>7 DEF Stands
  <2>9. c # Space => Filled(s, 1, width, flags) BY <1>1, <1>6, <2>2, <2>6 DEF Filled
  <2> QED BY <2>2, <2>8, <2>9 DEF s
<1> QED BY <1>5, <1>6

(* A string stands as it is, and alone without a width.                    *)
LEMMA TextField ==
  ASSUME NEW t \in Seq(Characters), NEW width \in Int, NEW flags
  PROVE  /\ Text(t, width, flags) \in Seq(Characters)
         /\ Stands(Text(t, width, flags), <<>>, t)
         /\ width = -1 => Text(t, width, flags) = t
<1> DEFINE b == IF "-" \in flags THEN 0 ELSE AtLeast0(width - 1 - Len(t))
           left == IF "-" \in flags THEN width ELSE width - 1 - b
           a == AtLeast0(left - 1)
           s == Text(t, width, flags)
<1>0. Len(t) \in Nat OBVIOUS
<1>1. b \in Nat BY <1>0 DEF AtLeast0
<1>2. left \in Int BY <1>1
<1>3. a \in Nat
  <2> HIDE DEF left
  <2> QED BY <1>2 DEF AtLeast0
<1>4. width = -1 => a = 0 /\ b = 0 BY <1>0 DEF AtLeast0
<1>5. s = Times(Space, b) \o t \o Times(Space, a) BY DEF Text
<1> HIDE DEF s, a, b
<1>6. Times(Space, b) \in Seq(Characters) /\ Times(Space, a) \in Seq(Characters)
  BY <1>1, <1>3, TimesIs, CharactersAre
<1>7. Times(Space, b) \o <<>> = Times(Space, b) BY <1>6, ConcatEmptySeq
<1>8. s \in Seq(Characters) BY <1>5, <1>6
<1>9. s = Times(Space, b) \o <<>> \o t \o Times(Space, a) BY <1>5, <1>7
<1>10. width = -1 => s = t
  <2>1. Times(Space, 0) = <<>> BY DEF Times
  <2>2. <<>> \o t \o <<>> = t BY ConcatEmptySeq
  <2> QED BY <1>4, <1>5, <2>1, <2>2
<1>11. Stands(s, <<>>, t) BY <1>1, <1>3, <1>9 DEF Stands
<1> QED BY <1>8, <1>10, <1>11 DEF s

-----------------------------------------------------------------------------
(* How a directive is read.                                                *)

Qualifier == {"h", "l", "L"}
Conversion == {"c", "s", "d", "u", "x", "%"}

(* The format that is tried with these parts.                              *)
FormatOf(flags, w, prec, qual, c) == <<"a", "%">> \o flags \o w \o prec \o qual \o <<c, "=", "%", "d">>

(* The ten decimal digits.                                                 *)
LEMMA DecimalIs ==
  /\ Decimal = {"0", "1", "2", "3", "4", "5", "6", "7", "8", "9"}
  /\ Decimal \subseteq DigitsIn(16)
<1>1. 1 .. 10 = {1, 2, 3, 4, 5, 6, 7, 8, 9, 10} OBVIOUS
<1>2. Decimal = {DigitChars[1], DigitChars[2], DigitChars[3], DigitChars[4], DigitChars[5],
                 DigitChars[6], DigitChars[7], DigitChars[8], DigitChars[9], DigitChars[10]}
  BY <1>1 DEF Decimal
<1>3. /\ DigitChars[1] = "0" /\ DigitChars[2] = "1" /\ DigitChars[3] = "2" /\ DigitChars[4] = "3"
      /\ DigitChars[5] = "4" /\ DigitChars[6] = "5" /\ DigitChars[7] = "6" /\ DigitChars[8] = "7"
      /\ DigitChars[9] = "8" /\ DigitChars[10] = "9"
  BY DEF DigitChars
<1>4. Decimal \subseteq DigitsIn(16) BY DEF Decimal, DigitsIn
<1> QED BY <1>2, <1>3, <1>4

(* The classes that end the parts of a directive.                          *)
LEMMA Classes ==
  /\ \A x \in Decimal : x # "0" => x \notin FlagChars
  /\ \A x \in Qualifier \cup Conversion : x \notin FlagChars /\ x \notin Decimal /\ x # "." /\ x # "*"
  /\ \A x \in Conversion : x \notin Qualifier
  /\ "*" \notin FlagChars /\ "." \notin FlagChars /\ "*" \notin Decimal /\ "." \notin Decimal
  /\ "." # "*" /\ "a" # "*" /\ "a" # "%" /\ "=" # "*" /\ "=" # "%" /\ "%" # "*" /\ "d" # "*"
  /\ "d" # "." /\ "d" \notin Qualifier /\ "d" \notin FlagChars /\ "d" \notin Decimal
<1>1. \A x \in Decimal : x # "0" => x \notin FlagChars BY DecimalIs DEF FlagChars, Space
<1>2. \A x \in Qualifier \cup Conversion : x \notin FlagChars /\ x # "." /\ x # "*"
  BY DEF FlagChars, Space, Qualifier, Conversion
<1>3. \A x \in Qualifier \cup Conversion : x \notin Decimal BY DecimalIs DEF Qualifier, Conversion
<1>4. \A x \in Conversion : x \notin Qualifier BY DEF Qualifier, Conversion
<1>5. "*" \notin FlagChars /\ "." \notin FlagChars BY DEF FlagChars, Space
<1>6. "*" \notin Decimal /\ "." \notin Decimal BY DecimalIs
<1>7. "d" \in Conversion BY DEF Conversion
<1> QED BY <1>1, <1>2, <1>3, <1>4, <1>5, <1>6, <1>7

(* A scan ends at the first character that is not of its set.              *)
LEMMA SkipAllIs ==
  ASSUME NEW i \in Nat, NEW j \in Nat, i <= j, j <= Len(fmt), Len(fmt) \in Nat, NEW set,
         fmt[j] \notin set, \A k \in i .. (j - 1) : fmt[k] \in set
  PROVE  SkipAll(i, set) = j
<1>1. j \in i .. Len(fmt) OBVIOUS
<1>2. ASSUME NEW k \in i .. Len(fmt), fmt[k] \notin set, \A m \in i .. (k - 1) : fmt[m] \in set
      PROVE  k = j
  <2>1. ~ (k < j)
    <3>1. k < j => k \in i .. (j - 1) OBVIOUS
    <3> QED BY <1>2, <3>1
  <2>2. ~ (j < k)
    <3>1. j < k => j \in i .. (k - 1) OBVIOUS
    <3> QED BY <1>2, <3>1
  <2> QED BY <2>1, <2>2
<1>3. \A k \in i .. Len(fmt) :
        (fmt[k] \notin set /\ \A m \in i .. (k - 1) : fmt[m] \in set) => k = j
  BY <1>2
<1> QED BY <1>1, <1>3 DEF SkipAll

(* Where the two parts of a text stand in it.                              *)
LEMMA Placed ==
  ASSUME NEW S, NEW u \in Seq(S), NEW v \in Seq(S)
  PROVE  /\ u \o v \in Seq(S) /\ Len(u \o v) = Len(u) + Len(v)
         /\ \A i \in 1 .. Len(u) : (u \o v)[i] = u[i]
         /\ \A i \in 1 .. Len(v) : (u \o v)[Len(u) + i] = v[i]
<1>1. /\ u \o v \in Seq(S) /\ Len(u \o v) = Len(u) + Len(v)
      /\ \A i \in 1 .. Len(u) + Len(v) :
           (u \o v)[i] = IF i <= Len(u) THEN u[i] ELSE v[i - Len(u)]
  BY ConcatProperties
<1>2. Len(u) \in Nat /\ Len(v) \in Nat OBVIOUS
<1>3. \A i \in 1 .. Len(u) : (u \o v)[i] = u[i] BY <1>1, <1>2
<1>4. ASSUME NEW i \in 1 .. Len(v) PROVE (u \o v)[Len(u) + i] = v[i]
  <2>1. Len(u) + i \in 1 .. Len(u) + Len(v) /\ ~ (Len(u) + i <= Len(u)) /\ Len(u) + i - Len(u) = i
    BY <1>2
  <2> QED BY <1>1, <2>1
<1> QED BY <1>1, <1>3, <1>4

(* Where the parts of a format stand.                                      *)
Lies(f, flags, w, prec, qual, c) ==
  LET b1 == 2 + Len(flags)
      b2 == b1 + Len(w)
      b3 == b2 + Len(prec)
      b4 == b3 + Len(qual)
  IN  /\ f \in Seq(Characters) /\ Len(f) = b4 + 4
      /\ f[1] = "a" /\ f[2] = "%"
      /\ \A i \in 1 .. Len(flags) : f[2 + i] = flags[i]
      /\ \A i \in 1 .. Len(w) : f[b1 + i] = w[i]
      /\ \A i \in 1 .. Len(prec) : f[b2 + i] = prec[i]
      /\ \A i \in 1 .. Len(qual) : f[b3 + i] = qual[i]
      /\ f[b4 + 1] = c /\ f[b4 + 2] = "=" /\ f[b4 + 3] = "%" /\ f[b4 + 4] = "d"

(* The parts of a format stand where Lies says.                            *)
LEMMA FormatPlaces ==
  ASSUME NEW flags \in Seq(Characters), NEW w \in Seq(Characters), NEW prec \in Seq(Characters),
         NEW qual \in Seq(Characters), NEW c \in Characters
  PROVE  Lies(FormatOf(flags, w, prec, qual, c), flags, w, prec, qual, c)
<1> DEFINE f == FormatOf(flags, w, prec, qual, c)
<1>1. /\ <<"a", "%">> \in Seq(Characters) /\ Len(<<"a", "%">>) = 2
      /\ <<c, "=", "%", "d">> \in Seq(Characters) /\ Len(<<c, "=", "%", "d">>) = 4
  BY CharactersAre
<1> DEFINE f0 == <<"a", "%">>
           t == <<c, "=", "%", "d">>
           f1 == f0 \o flags
           f2 == f1 \o w
           f3 == f2 \o prec
           f4 == f3 \o qual
           f5 == f4 \o t
<1>2. f0 \in Seq(Characters) /\ Len(f0) = 2 /\ f0[1] = "a" /\ f0[2] = "%" BY <1>1
<1>3. /\ t \in Seq(Characters) /\ Len(t) = 4
      /\ t[1] = c /\ t[2] = "=" /\ t[3] = "%" /\ t[4] = "d"
  BY <1>1
<1>9. f = f5 BY DEF FormatOf
<1> HIDE DEF f
<1> HIDE DEF f0, t
<1>a. Len(flags) \in Nat /\ Len(w) \in Nat /\ Len(prec) \in Nat /\ Len(qual) \in Nat OBVIOUS
<1>j. \A u, v \in Seq(Characters) :
        /\ u \o v \in Seq(Characters) /\ Len(u \o v) = Len(u) + Len(v)
        /\ \A i \in 1 .. Len(u) : (u \o v)[i] = u[i]
        /\ \A i \in 1 .. Len(v) : (u \o v)[Len(u) + i] = v[i]
  BY ONLY Placed
<1>b. PICK b1 \in Nat, b2 \in Nat, b3 \in Nat, b4 \in Nat :
        b1 = 2 + Len(flags) /\ b2 = b1 + Len(w) /\ b3 = b2 + Len(prec) /\ b4 = b3 + Len(qual)
  <2>1. 2 + Len(flags) \in Nat BY <1>a
  <2>2. 2 + Len(flags) + Len(w) \in Nat BY <1>a
  <2>3. 2 + Len(flags) + Len(w) + Len(prec) \in Nat BY <1>a
  <2>4. 2 + Len(flags) + Len(w) + Len(prec) + Len(qual) \in Nat BY <1>a
  <2> QED BY <2>1, <2>2, <2>3, <2>4, Zenon
<1>4. /\ f1 \in Seq(Characters) /\ Len(f1) = b1
      /\ \A i \in 1 .. 2 : f1[i] = f0[i]
      /\ \A i \in 1 .. Len(flags) : f1[2 + i] = flags[i]
  <2>1. f0 \in Seq(Characters) /\ flags \in Seq(Characters) BY <1>2
  <2>2. /\ f1 \in Seq(Characters) /\ Len(f1) = Len(f0) + Len(flags)
        /\ \A i \in 1 .. Len(f0) : f1[i] = f0[i]
        /\ \A i \in 1 .. Len(flags) : f1[Len(f0) + i] = flags[i]
    BY ONLY <2>1, <1>j
  <2> QED BY <2>2, <1>2, <1>b, Zenon
<1> HIDE DEF f1
<1>5. /\ f2 \in Seq(Characters) /\ Len(f2) = b2
      /\ \A i \in 1 .. b1 : f2[i] = f1[i]
      /\ \A i \in 1 .. Len(w) : f2[b1 + i] = w[i]
  <2>1. f1 \in Seq(Characters) /\ w \in Seq(Characters) BY <1>4
  <2>2. /\ f2 \in Seq(Characters) /\ Len(f2) = Len(f1) + Len(w)
        /\ \A i \in 1 .. Len(f1) : f2[i] = f1[i]
        /\ \A i \in 1 .. Len(w) : f2[Len(f1) + i] = w[i]
    BY ONLY <2>1, <1>j
  <2> QED BY <2>2, <1>4, <1>b, Zenon
<1> HIDE DEF f2
<1>6. /\ f3 \in Seq(Characters) /\ Len(f3) = b3
      /\ \A i \in 1 .. b2 : f3[i] = f2[i]
      /\ \A i \in 1 .. Len(prec) : f3[b2 + i] = prec[i]
  <2>1. f2 \in Seq(Characters) /\ prec \in Seq(Characters) BY <1>5
  <2>2. /\ f3 \in Seq(Characters) /\ Len(f3) = Len(f2) + Len(prec)
        /\ \A i \in 1 .. Len(f2) : f3[i] = f2[i]
        /\ \A i \in 1 .. Len(prec) : f3[Len(f2) + i] = prec[i]
    BY ONLY <2>1, <1>j
  <2> QED BY <2>2, <1>5, <1>b, Zenon
<1> HIDE DEF f3
<1>7. /\ f4 \in Seq(Characters) /\ Len(f4) = b4
      /\ \A i \in 1 .. b3 : f4[i] = f3[i]
      /\ \A i \in 1 .. Len(qual) : f4[b3 + i] = qual[i]
  <2>1. f3 \in Seq(Characters) /\ qual \in Seq(Characters) BY <1>6
  <2>2. /\ f4 \in Seq(Characters) /\ Len(f4) = Len(f3) + Len(qual)
        /\ \A i \in 1 .. Len(f3) : f4[i] = f3[i]
        /\ \A i \in 1 .. Len(qual) : f4[Len(f3) + i] = qual[i]
    BY ONLY <2>1, <1>j
  <2> QED BY <2>2, <1>6, <1>b, Zenon
<1> HIDE DEF f4
<1>8. /\ f5 \in Seq(Characters) /\ Len(f5) = b4 + 4
      /\ \A i \in 1 .. b4 : f5[i] = f4[i]
      /\ \A i \in 1 .. 4 : f5[b4 + i] = t[i]
  <2>1. f4 \in Seq(Characters) /\ t \in Seq(Characters) BY <1>7, <1>3
  <2>2. /\ f5 \in Seq(Characters) /\ Len(f5) = Len(f4) + Len(t)
        /\ \A i \in 1 .. Len(f4) : f5[i] = f4[i]
        /\ \A i \in 1 .. Len(t) : f5[Len(f4) + i] = t[i]
    BY ONLY <2>1, <1>j
  <2> QED BY <2>2, <1>7, <1>3, Zenon
<1> HIDE DEF f5
<1>10. f[1] = "a" /\ f[2] = "%"
  <2>1. 1 \in 1 .. 2 /\ 1 \in 1 .. b1 /\ 1 \in 1 .. b2 /\ 1 \in 1 .. b3 /\ 1 \in 1 .. b4
        /\ 2 \in 1 .. 2 /\ 2 \in 1 .. b1 /\ 2 \in 1 .. b2 /\ 2 \in 1 .. b3 /\ 2 \in 1 .. b4
    BY <1>a, <1>b
  <2> QED BY <2>1, <1>2, <1>4, <1>5, <1>6, <1>7, <1>8, <1>9
<1>11. ASSUME NEW i \in 1 .. Len(flags) PROVE f[2 + i] = flags[i]
  <2>1. 2 + i \in 1 .. b1 /\ 2 + i \in 1 .. b2 /\ 2 + i \in 1 .. b3 /\ 2 + i \in 1 .. b4
    BY <1>a, <1>b
  <2> QED BY <2>1, <1>4, <1>5, <1>6, <1>7, <1>8, <1>9
<1>12. ASSUME NEW i \in 1 .. Len(w) PROVE f[b1 + i] = w[i]
  <2>1. b1 + i \in 1 .. b2 /\ b1 + i \in 1 .. b3 /\ b1 + i \in 1 .. b4 BY <1>a, <1>b
  <2> QED BY <2>1, <1>5, <1>6, <1>7, <1>8, <1>9
<1>13. ASSUME NEW i \in 1 .. Len(prec) PROVE f[b2 + i] = prec[i]
  <2>1. b2 + i \in 1 .. b3 /\ b2 + i \in 1 .. b4 BY <1>a, <1>b
  <2> QED BY <2>1, <1>6, <1>7, <1>8, <1>9
<1>14. ASSUME NEW i \in 1 .. Len(qual) PROVE f[b3 + i] = qual[i]
  <2>1. b3 + i \in 1 .. b4 BY <1>a, <1>b
  <2> QED BY <2>1, <1>7, <1>8, <1>9
<1>15. f[b4 + 1] = c /\ f[b4 + 2] = "=" /\ f[b4 + 3] = "%" /\ f[b4 + 4] = "d"
  <2>1. 1 \in 1 .. 4 /\ 2 \in 1 .. 4 /\ 3 \in 1 .. 4 /\ 4 \in 1 .. 4 OBVIOUS
  <2> QED BY <2>1, <1>3, <1>8, <1>9
<1>16. Len(f) = b4 + 4 /\ f \in Seq(Characters) BY <1>8, <1>9
<1>17. /\ \A i \in 1 .. Len(flags) : f[2 + i] = flags[i]
       /\ \A i \in 1 .. Len(w) : f[b1 + i] = w[i]
       /\ \A i \in 1 .. Len(prec) : f[b2 + i] = prec[i]
       /\ \A i \in 1 .. Len(qual) : f[b3 + i] = qual[i]
  BY <1>11, <1>12, <1>13, <1>14
<1> QED BY <1>b, <1>10, <1>15, <1>16, <1>17, Zenon DEF Lies, f

(* What a scan for a number returns.                                       *)
LEMMA SkipAtoiIs ==
  ASSUME NEW i \in Nat, NEW j \in Nat, i <= j, j <= Len(fmt), Len(fmt) \in Nat,
         fmt[j] \notin Decimal, \A k \in i .. (j - 1) : fmt[k] \in Decimal
  PROVE  SkipAtoi(i) \in Int /\ (i = j => SkipAtoi(i) = -1)
<1>1. SkipAll(i, Decimal) = j BY SkipAllIs
<1>2. SubSeq(fmt, i, j - 1) \in Seq(Decimal)
  <2>1. i \in Int /\ j - 1 \in Int OBVIOUS
  <2> QED BY <2>1, SubSeqProperties
<1>3. SubSeq(fmt, i, j - 1) \in Seq(DigitsIn(16)) BY <1>2, DecimalIs, SeqMonotonic
<1>4. ValueIn(10, SubSeq(fmt, i, j - 1)) \in Int
  <2>1. 10 \in {10, 16} OBVIOUS
  <2>2. ValueIn(10, SubSeq(fmt, i, j - 1)) \in Nat BY <1>3, <2>1, ValueNat
  <2> QED BY <2>2
<1>5. SkipAtoi(i) = IF fmt[i] \in Decimal THEN ValueIn(10, SubSeq(fmt, i, j - 1)) ELSE -1
  BY <1>1 DEF SkipAtoi
<1> QED BY <1>4, <1>5

(* A directive with nothing but its conversion.                            *)
LEMMA PlainDirective ==
  ASSUME NEW i \in Nat, i >= 1, Len(fmt) = i + 1, fmt[i + 1] = "d"
  PROVE  /\ Directive(i).width \in Int /\ Directive(i).precision \in Int
         /\ ~ Directive(i).star /\ Directive(i).conv = "d" /\ Directive(i).last = i + 1
<1>1. "d" \notin FlagChars /\ "d" \notin Decimal /\ "d" # "." /\ "d" # "*" /\ "d" \notin {"h", "l", "L"}
  BY Classes DEF Qualifier
<1>2. i + 1 \in Nat /\ i + 1 <= Len(fmt) /\ Len(fmt) \in Nat OBVIOUS
<1>3. \A k \in (i + 1) .. (i + 1 - 1) : FALSE OBVIOUS
<1>4. SkipAll(i + 1, FlagChars) = i + 1 BY <1>1, <1>2, <1>3, SkipAllIs
<1>5. SkipAll(i + 1, Decimal) = i + 1 BY <1>1, <1>2, <1>3, SkipAllIs
<1>6. SkipAtoi(i + 1) = -1 BY <1>1, <1>2, <1>3, SkipAtoiIs
<1>7. Directive(i).width = -1 BY <1>4, <1>6 DEF Directive
<1>8. Directive(i).precision = -1 BY <1>1, <1>4, <1>5 DEF Directive
<1>9. ~ Directive(i).star BY <1>1, <1>4, <1>5 DEF Directive
<1>10. Directive(i).last = i + 1 BY <1>1, <1>4, <1>5 DEF Directive
<1>11. Directive(i).conv = "d" BY <1>1, <1>4, <1>5 DEF Directive
<1> QED BY <1>7, <1>8, <1>9, <1>10, <1>11

(* What the directive under test asks for.                                 *)
LEMMA Parsed ==
  ASSUME NEW flags \in Flags, NEW w \in Widths, NEW prec \in Precisions, NEW qual \in Qualifiers,
         NEW c \in Conversions, fmt = FormatOf(flags, w, prec, qual, c)
  PROVE  LET e == Len(fmt) - 3
             d == Directive(2)
         IN  /\ e \in Nat /\ e >= 3 /\ fmt \in Seq(Characters)
             /\ fmt[1] = "a" /\ fmt[2] = "%"
             /\ fmt[e + 1] = "=" /\ fmt[e + 2] = "%" /\ fmt[e + 3] = "d"
             /\ d.star <=> \E i \in DOMAIN fmt : fmt[i] = "*"
             /\ ~ d.star => /\ d.conv = c /\ d.last = e
                            /\ d.width \in Int /\ d.precision \in Int
<1>1. /\ flags \in Seq(FlagChars)
      /\ w = <<>> \/ w = <<"*">> \/ (w \in Seq(Decimal) /\ Head(w) # "0")
      /\ \/ prec = <<>> \/ prec = <<".", "*">>
         \/ prec \in Seq(Decimal \cup {"."}) /\ Head(prec) = "." /\ Tail(prec) \in Seq(Decimal)
      /\ qual \in {<<>>, <<"h">>, <<"l">>, <<"L">>}
      /\ c \in Conversion
  BY DirectivesAssumption DEF Conversion
<1>a. Decimal \subseteq Characters /\ FlagChars \subseteq Characters /\ Qualifier \subseteq Characters
      /\ Conversion \subseteq Characters /\ "*" \in Characters /\ "." \in Characters
  BY DecimalIs, CharactersAre DEF Qualifier, Conversion
<1>2. PICK nf \in Nat : /\ nf = Len(flags) /\ flags \in Seq(Characters)
                        /\ \A i \in 1 .. nf : flags[i] \in FlagChars
  BY <1>1, <1>a, SeqMonotonic
<1>3. PICK nw \in Nat : /\ nw = Len(w) /\ w \in Seq(Characters)
                        /\ \/ nw = 1 /\ w[1] = "*"
                           \/ (\A i \in 1 .. nw : w[i] \in Decimal) /\ (nw >= 1 => w[1] # "0")
  <2>1. CASE w = <<>> BY <2>1
  <2>2. CASE w = <<"*">> BY <2>2, <1>a
  <2>3. CASE w \in Seq(Decimal) /\ Head(w) # "0"
    <3>1. w \in Seq(Characters) BY <2>3, <1>a, SeqMonotonic
    <3>2. Len(w) \in Nat /\ (\A i \in 1 .. Len(w) : w[i] \in Decimal) /\ (Len(w) >= 1 => w[1] # "0")
      BY <2>3
    <3> QED BY <3>1, <3>2
  <2> QED BY <1>1, <2>1, <2>2, <2>3
<1>4. PICK np \in Nat : /\ np = Len(prec) /\ prec \in Seq(Characters)
                        /\ np >= 1 => prec[1] = "."
                        /\ (np = 2 /\ prec[2] = "*") \/ (\A i \in 2 .. np : prec[i] \in Decimal)
  <2>1. CASE prec = <<>> BY <2>1
  <2>2. CASE prec = <<".", "*">> BY <2>2, <1>a
  <2>3. CASE prec \in Seq(Decimal \cup {"."}) /\ Head(prec) = "." /\ Tail(prec) \in Seq(Decimal)
    <3>1. prec \in Seq(Characters)
      <4>1. Decimal \cup {"."} \subseteq Characters BY <1>a
      <4> QED BY <2>3, <4>1, SeqMonotonic
    <3>2. Len(prec) \in Nat /\ (Len(prec) >= 1 => prec[1] = ".") BY <2>3
    <3>3. ASSUME NEW i \in 2 .. Len(prec) PROVE prec[i] \in Decimal
      <4>1. prec # <<>> /\ prec \in Seq(Characters) BY <3>1, <3>2, <3>3
      <4>2. Len(Tail(prec)) = Len(prec) - 1 /\ \A k \in 1 .. Len(Tail(prec)) : Tail(prec)[k] = prec[k + 1]
        BY <4>1, HeadTailProperties
      <4>3. i - 1 \in 1 .. Len(Tail(prec)) /\ i - 1 + 1 = i BY <3>2, <3>3, <4>2
      <4>4. Tail(prec)[i - 1] = prec[i] BY <4>2, <4>3
      <4>5. Tail(prec)[i - 1] \in Decimal BY <2>3, <4>3
      <4> QED BY <4>4, <4>5
    <3> QED BY <3>1, <3>2, <3>3
  <2> QED BY <1>1, <2>1, <2>2, <2>3
<1>5. PICK nq \in {0, 1} : /\ nq = Len(qual) /\ qual \in Seq(Characters)
                           /\ nq = 1 => qual[1] \in Qualifier
  <2>1. "h" \in Qualifier /\ "l" \in Qualifier /\ "L" \in Qualifier BY DEF Qualifier
  <2>2. CASE qual = <<>> BY <2>2
  <2>3. CASE qual # <<>>
    <3>1. PICK x \in Qualifier : qual = <<x>> BY <1>1, <2>1, <2>3
    <3>2. x \in Characters BY <1>a
    <3> QED BY <3>1, <3>2
  <2> QED BY <2>2, <2>3
<1>6. c \in Characters BY <1>1, <1>a
<1>7. PICK b1 \in Nat, b2 \in Nat, b3 \in Nat, b4 \in Nat :
        b1 = 2 + nf /\ b2 = b1 + nw /\ b3 = b2 + np /\ b4 = b3 + nq
  <2>1. 2 + nf \in Nat OBVIOUS
  <2>2. 2 + nf + nw \in Nat OBVIOUS
  <2>3. 2 + nf + nw + np \in Nat OBVIOUS
  <2>4. 2 + nf + nw + np + nq \in Nat OBVIOUS
  <2> QED BY <2>1, <2>2, <2>3, <2>4, Zenon
<1>8. /\ fmt \in Seq(Characters) /\ Len(fmt) = b4 + 4
      /\ fmt[1] = "a" /\ fmt[2] = "%"
      /\ \A i \in 1 .. nf : fmt[2 + i] = flags[i]
      /\ \A i \in 1 .. nw : fmt[b1 + i] = w[i]
      /\ \A i \in 1 .. np : fmt[b2 + i] = prec[i]
      /\ \A i \in 1 .. nq : fmt[b3 + i] = qual[i]
      /\ fmt[b4 + 1] = c /\ fmt[b4 + 2] = "=" /\ fmt[b4 + 3] = "%" /\ fmt[b4 + 4] = "d"
  <2>1. /\ flags \in Seq(Characters) /\ w \in Seq(Characters) /\ prec \in Seq(Characters)
        /\ qual \in Seq(Characters) /\ c \in Characters
    BY <1>2, <1>3, <1>4, <1>5, <1>6
  <2>2. Lies(fmt, flags, w, prec, qual, c)
    BY ONLY <2>1, fmt = FormatOf(flags, w, prec, qual, c), FormatPlaces
  <2> QED BY <2>2, <1>2, <1>3, <1>4, <1>5, <1>7, Zenon DEF Lies
<1>9. PICK m \in Nat : m = Len(fmt) /\ m = b4 + 4 BY <1>8
(* The character after each part.                                          *)
<1>10. /\ nq = 1 => fmt[b3 + 1] \in Qualifier /\ b4 = b3 + 1
       /\ nq = 0 => fmt[b3 + 1] = c /\ b4 = b3
       /\ fmt[b3 + 1] \in Qualifier \cup Conversion
  <2>1. CASE nq = 1
    <3>1. 1 \in 1 .. nq /\ b4 = b3 + 1 BY <2>1, <1>7
    <3> QED BY <3>1, <2>1, <1>5, <1>8
  <2>2. CASE nq = 0
    <3>1. b4 = b3 BY <2>2, <1>7
    <3> QED BY <3>1, <2>2, <1>1, <1>8
  <2> QED BY <2>1, <2>2
<1>11. /\ np = 0 => fmt[b2 + 1] \in Qualifier \cup Conversion /\ b3 = b2
       /\ np # 0 => fmt[b2 + 1] = "." /\ b3 >= b2 + 1
  <2>1. CASE np = 0
    <3>1. b3 = b2 BY <2>1, <1>7
    <3> QED BY <3>1, <2>1, <1>10
  <2>2. CASE np # 0
    <3>1. 1 \in 1 .. np /\ b3 >= b2 + 1 BY <2>2, <1>7
    <3> QED BY <3>1, <2>2, <1>4, <1>8
  <2> QED BY <2>1, <2>2
<1>12. /\ nw = 0 => fmt[b1 + 1] \in Qualifier \cup Conversion \cup {"."} /\ b2 = b1
       /\ nw # 0 => fmt[b1 + 1] = w[1] /\ b2 >= b1 + 1
  <2>1. CASE nw = 0
    <3>1. b2 = b1 BY <2>1, <1>7
    <3> QED BY <3>1, <2>1, <1>11
  <2>2. CASE nw # 0
    <3>1. 1 \in 1 .. nw /\ b2 >= b1 + 1 BY <2>2, <1>7
    <3> QED BY <3>1, <2>2, <1>8
  <2> QED BY <2>1, <2>2
<1>13. b1 + 1 <= m /\ b2 + 1 <= m /\ b3 + 1 <= m /\ b4 + 1 <= m /\ b1 >= 2 /\ b2 >= b1 /\ b3 >= b2
  BY <1>7, <1>9
(* The flags.                                                              *)
<1>14. SkipAll(2 + 1, FlagChars) = b1 + 1
  <2>1. fmt[b1 + 1] \notin FlagChars
    <3>1. CASE nw = 0 BY <3>1, <1>12, Classes
    <3>2. CASE nw # 0
      <4>1. w[1] = "*" \/ (w[1] \in Decimal /\ w[1] # "0")
        <5>1. 1 \in 1 .. nw /\ nw >= 1 BY <3>2
        <5> QED BY <5>1, <1>3
      <4> QED BY <3>2, <4>1, <1>12, Classes
    <3> QED BY <3>1, <3>2
  <2>2. ASSUME NEW k \in 3 .. (b1 + 1 - 1) PROVE fmt[k] \in FlagChars
    <3>1. k - 2 \in 1 .. nf /\ 2 + (k - 2) = k BY <1>7
    <3>2. fmt[2 + (k - 2)] = flags[k - 2] BY <3>1, <1>8
    <3> QED BY <3>1, <3>2, <1>2
  <2>3. 3 \in Nat /\ b1 + 1 \in Nat /\ 3 <= b1 + 1 /\ b1 + 1 <= Len(fmt) /\ Len(fmt) \in Nat
    BY <1>9, <1>13
  <2>4. SkipAll(3, FlagChars) = b1 + 1 BY <2>1, <2>2, <2>3, SkipAllIs
  <2>5. 2 + 1 = 3 OBVIOUS
  <2> QED BY <2>4, <2>5
(* The conversion.                                                         *)
<1>15. fmt[b3 + 1] \in Qualifier <=> nq = 1 BY <1>1, <1>10, Classes
<1>16. /\ fmt[b3 + 1] \notin Decimal /\ fmt[b3 + 1] # "." /\ fmt[b3 + 1] # "*"
       /\ fmt[b2 + 1] \notin Decimal /\ fmt[b2 + 1] # "*"
       /\ fmt[b2 + 1] = "." <=> np # 0
  BY <1>10, <1>11, Classes
<1>17. (IF fmt[b3 + 1] \in {"h", "l", "L"} THEN b3 + 1 + 1 ELSE b3 + 1) = b4 + 1
  BY <1>10, <1>15 DEF Qualifier
<1>18. 2 + 1 = 3 OBVIOUS
<1> DEFINE e == m - 3
<1>19. /\ e \in Nat /\ e >= 3 /\ e = b4 + 1 /\ e = Len(fmt) - 3
       /\ fmt[e] = c /\ fmt[e + 1] = "=" /\ fmt[e + 2] = "%" /\ fmt[e + 3] = "d"
  <2>1. e \in Nat /\ e >= 3 /\ e = b4 + 1 /\ e + 1 = b4 + 2 /\ e + 2 = b4 + 3 /\ e + 3 = b4 + 4
        /\ e = Len(fmt) - 3
    BY <1>9, <1>13, <1>7
  <2> HIDE DEF e
  <2> QED BY <2>1, <1>8
<1> HIDE DEF e
(* A star for the width.                                                   *)
<1>20. CASE nw = 1 /\ w[1] = "*"
  <2>1. fmt[b1 + 1] = "*" BY <1>12, <1>20
  <2>2. Directive(2).star BY <2>1, <1>14 DEF Directive
  <2>3. b1 + 1 \in DOMAIN fmt BY <1>8, <1>9, <1>13
  <2> QED BY <1>8, <1>19, <2>1, <2>2, <2>3
<1>21. CASE ~ (nw = 1 /\ w[1] = "*")
  <2>1. (\A i \in 1 .. nw : w[i] \in Decimal) /\ (nw >= 1 => w[1] # "0") BY <1>3, <1>21
  <2>2. \A k \in (b1 + 1) .. (b2 + 1 - 1) : fmt[k] \in Decimal
    <3> TAKE k \in (b1 + 1) .. (b2 + 1 - 1)
    <3>1. k - b1 \in 1 .. nw /\ b1 + (k - b1) = k BY <1>7
    <3>2. fmt[b1 + (k - b1)] = w[k - b1] BY <3>1, <1>8
    <3> QED BY <3>1, <3>2, <2>1
  <2>3. b1 + 1 \in Nat /\ b2 + 1 \in Nat /\ b1 + 1 <= b2 + 1 /\ b2 + 1 <= Len(fmt) /\ Len(fmt) \in Nat
    BY <1>9, <1>13
  <2>4. SkipAll(b1 + 1, Decimal) = b2 + 1 BY <1>16, <2>2, <2>3, SkipAllIs
  <2>5. SkipAtoi(b1 + 1) \in Int BY <1>16, <2>2, <2>3, SkipAtoiIs
  <2>6. Directive(2).width \in Int BY <1>14, <2>5 DEF Directive
  <2>7. fmt[b1 + 1] # "*"
    <3>1. CASE nw = 0 BY <3>1, <1>12, Classes
    <3>2. CASE nw # 0
      <4>1. 1 \in 1 .. nw BY <3>2
      <4> QED BY <4>1, <3>2, <2>1, <1>12, Classes
    <3> QED BY <3>1, <3>2
  <2>8. ASSUME \A k \in (b2 + 2) .. b3 : fmt[k] \in Decimal
        PROVE  \A i \in DOMAIN fmt : fmt[i] # "*"
    <3> SUFFICES ASSUME NEW i \in 1 .. m PROVE fmt[i] # "*" BY <1>8, <1>9
    <3>1. \/ i = 1 \/ i = 2 \/ i \in 3 .. b1 \/ i \in (b1 + 1) .. (b2 + 1 - 1)
          \/ (i = b2 + 1 /\ b2 # b3) \/ i \in (b2 + 2) .. b3
          \/ (i = b3 + 1 /\ b4 # b3) \/ i = b4 + 1 \/ i = b4 + 2 \/ i = b4 + 3 \/ i = b4 + 4
      BY <1>7, <1>9
    <3>2. i \in 3 .. b1 => fmt[i] \in FlagChars
      <4> SUFFICES ASSUME i \in 3 .. b1 PROVE fmt[i] \in FlagChars OBVIOUS
      <4>1. i - 2 \in 1 .. nf /\ 2 + (i - 2) = i BY <1>7
      <4>2. fmt[2 + (i - 2)] = flags[i - 2] BY <4>1, <1>8
      <4> QED BY <4>1, <4>2, <1>2
    <3>3. fmt[i] \in FlagChars \/ fmt[i] \in Decimal \/ fmt[i] \in Qualifier \cup Conversion
          \/ fmt[i] \in {"a", "%", "=", "d"} \/ fmt[i] # "*"
      BY <1>1, <1>8, <1>16, <2>2, <2>8, <3>1, <3>2, ZenonT(30)
    <3> QED BY <3>3, Classes
  <2>9. CASE np = 0
    <3>1. fmt[b2 + 1] # "." /\ b3 = b2 BY <1>11, <1>16, <2>9
    <3>2. Directive(2).precision = -1 BY <1>14, <2>4, <3>1 DEF Directive
    <3>3. ~ Directive(2).star BY <1>14, <2>4, <2>7, <3>1 DEF Directive
    <3>4. Directive(2).last = b4 + 1 BY <1>14, <1>17, <2>4, <3>1 DEF Directive
    <3>5. Directive(2).conv = fmt[b4 + 1] BY <1>14, <1>17, <2>4, <3>1 DEF Directive
    <3>6. \A k \in (b2 + 2) .. b3 : fmt[k] \in Decimal BY <3>1
    <3> QED BY <1>8, <1>19, <2>6, <2>8, <3>2, <3>3, <3>4, <3>5, <3>6
  <2>10. CASE np # 0
    <3>1. fmt[b2 + 1] = "." /\ b3 >= b2 + 1 BY <1>11, <2>10
    <3>2. CASE np = 2 /\ prec[2] = "*"
      <4>1. fmt[b2 + 2] = "*"
        <5>1. 2 \in 1 .. np BY <3>2
        <5> QED BY <5>1, <3>2, <1>8
      <4>2. b2 + 1 + 1 = b2 + 2 OBVIOUS
      <4>3. Directive(2).star BY <1>14, <2>4, <3>1, <4>1, <4>2 DEF Directive
      <4>4. b2 + 2 \in DOMAIN fmt BY <1>7, <1>8, <1>9, <3>1
      <4> QED BY <1>8, <1>19, <4>1, <4>3, <4>4
    <3>3. CASE ~ (np = 2 /\ prec[2] = "*")
      <4>1. \A i \in 2 .. np : prec[i] \in Decimal BY <3>3, <1>4
      <4>2. \A k \in (b2 + 2) .. b3 : fmt[k] \in Decimal
        <5> TAKE k \in (b2 + 2) .. b3
        <5>1. k - b2 \in 2 .. np /\ k - b2 \in 1 .. np /\ b2 + (k - b2) = k BY <1>7
        <5>2. fmt[b2 + (k - b2)] = prec[k - b2] BY <5>1, <1>8
        <5> QED BY <5>1, <5>2, <4>1
      <4>3. /\ b2 + 2 \in Nat /\ b3 + 1 \in Nat /\ b2 + 2 <= b3 + 1 /\ b3 + 1 <= Len(fmt)
            /\ Len(fmt) \in Nat /\ b2 + 1 + 1 = b2 + 2 /\ b3 + 1 - 1 = b3
        BY <1>9, <1>13, <3>1
      <4>4. \A k \in (b2 + 2) .. (b3 + 1 - 1) : fmt[k] \in Decimal BY <4>2, <4>3
      <4>5. SkipAll(b2 + 2, Decimal) = b3 + 1 BY <1>16, <4>3, <4>4, SkipAllIs
      <4>6. SkipAtoi(b2 + 2) \in Int BY <1>16, <4>3, <4>4, SkipAtoiIs
      <4>7. fmt[b2 + 2] # "*"
        <5>1. CASE b3 = b2 + 1
          <6>1. b2 + 2 = b3 + 1 BY <5>1
          <6> QED BY <6>1, <1>16
        <5>2. CASE b3 # b2 + 1
          <6>1. b2 + 2 \in (b2 + 2) .. b3 BY <5>2, <3>1
          <6> QED BY <6>1, <4>2, Classes
        <5> QED BY <5>1, <5>2
      <4>8. Directive(2).precision = AtLeast0(SkipAtoi(b2 + 2))
        BY <1>14, <2>4, <3>1, <4>3 DEF Directive
      <4>9. Directive(2).precision \in Int BY <4>6, <4>8 DEF AtLeast0
      <4>10. ~ Directive(2).star BY <1>14, <2>4, <2>7, <3>1, <4>3, <4>7 DEF Directive
      <4>11. Directive(2).last = b4 + 1 BY <1>14, <1>17, <2>4, <3>1, <4>3, <4>5 DEF Directive
      <4>12. Directive(2).conv = fmt[b4 + 1]
        BY <1>14, <1>17, <2>4, <3>1, <4>3, <4>5 DEF Directive
      <4> QED BY <1>8, <1>19, <2>6, <2>8, <4>2, <4>9, <4>10, <4>11, <4>12
    <3> QED BY <3>2, <3>3
  <2> QED BY <2>9, <2>10
<1> QED BY <1>20, <1>21

-----------------------------------------------------------------------------
(* The invariant of the call.                                              *)

(* The call is one that is tried.                                          *)
Tried ==
  \E flags \in Flags, w \in Widths, prec \in Precisions, qual \in Qualifiers, c \in Conversions :
    \E a \in Argument(c) :
      fmt = FormatOf(flags, w, prec, qual, c) /\ given = IF c = "%" THEN <<5>> ELSE <<a, 5>>

Starred == \E i \in DOMAIN fmt : fmt[i] = "*"

(* A directive and the argument it is given.                               *)
Fits(d, arg) ==
  /\ d.conv \in {"c", "s", "d", "u", "x"} /\ d.width \in Int /\ d.precision \in Int
  /\ d.conv = "c" => arg \in Characters \ {Space}
  /\ d.conv = "s" => arg \in Seq(Characters)
  /\ d.conv \notin {"c", "s"} => arg \in Int

(* What stands in the place of a field is what is printed of its argument. *)
FieldGood(k) ==
  /\ fields[k].from \in Nat \ {0} /\ fields[k].to \in Nat /\ fields[k].to <= Len(out)
  /\ Fits(fields[k].spec, given[k])
  /\ Shown(k) = Printed(fields[k].spec, given[k])

(* How far the loop is: the text before the equals sign, and what the      *)
(* fields and the arguments are when the loop stands behind the first      *)
(* directive, behind the sign, at the end, and when it has returned.       *)
TextBefore == <<"a">> \o (IF Len(given) = 2 THEN Shown(1) ELSE <<>>)

OneDone ==
  /\ ~ Starred /\ length = -1 /\ args = <<5>>
  /\ IF Len(given) = 2 THEN fields = <<fields[1]>> /\ FieldGood(1) ELSE fields = <<>>

BothDone ==
  /\ ~ Starred /\ args = <<>> /\ FieldGood(1)
  /\ IF Len(given) = 2 THEN fields = <<fields[1], fields[2]>> /\ FieldGood(2)
     ELSE fields = <<fields[1]>>

Stage ==
  \/ at = 1 /\ out = <<>> /\ length = -1 /\ args = given /\ fields = <<>>
  \/ at = 2 /\ out = <<"a">> /\ args = given /\ fields = <<>>
     /\ (length = -1 \/ (length = 0 /\ Starred))
  \/ at = Len(fmt) - 2 /\ OneDone /\ out = TextBefore
  \/ at = Len(fmt) - 1 /\ OneDone /\ out = TextBefore \o <<"=">>
  \/ at = Len(fmt) + 1 /\ BothDone /\ length = -1
     /\ out = TextBefore \o <<"=">> \o Shown(Len(given))
  \/ at = Len(fmt) + 1 /\ BothDone /\ length = Len(out) - 1 /\ length # -1
     /\ out = TextBefore \o <<"=">> \o Shown(Len(given)) \o <<Nul>>

FormatInv == FormatInit \/ (Tried /\ out \in Seq(Characters) /\ Stage)

(* The text of a directive that fits its argument.                         *)
LEMMA PrintedIs ==
  ASSUME NEW d, NEW arg, Fits(d, arg)
  PROVE  /\ Printed(d, arg) \in Seq(Characters)
         /\ d.conv = "c" => Printed(d, arg) = Character(arg, d.width, d.flags)
         /\ d.conv = "s" => Printed(d, arg) = Text(arg, d.width, d.flags)
         /\ d.conv \notin {"c", "s"} =>
              /\ Base(d.conv) \in {10, 16} /\ arg % Word \in 0 .. (Word - 1)
              /\ Printed(d, arg) = Number(arg % Word, Base(d.conv), d.width, d.precision, d.flags)
<1>0. Word \in Nat /\ Word > 9 BY WordAssumption
<1>1. CASE d.conv = "c"
  <2>1. Printed(d, arg) = Character(arg, d.width, d.flags) BY <1>1 DEF Printed
  <2>2. arg \in Characters /\ d.width \in Int BY <1>1 DEF Fits
  <2>3. Character(arg, d.width, d.flags) \in Seq(Characters) BY <2>2, CharacterField
  <2> QED BY <1>1, <2>1, <2>3
<1>2. CASE d.conv = "s"
  <2>1. Printed(d, arg) = Text(arg, d.width, d.flags) BY <1>2 DEF Printed
  <2>2. arg \in Seq(Characters) /\ d.width \in Int BY <1>2 DEF Fits
  <2>3. Text(arg, d.width, d.flags) \in Seq(Characters) BY <2>2, TextField
  <2> QED BY <1>2, <2>1, <2>3
<1>3. CASE d.conv \notin {"c", "s"}
  <2>1. Printed(d, arg) = Number(arg % Word, Base(d.conv), d.width, d.precision, d.flags)
    BY <1>3 DEF Printed
  <2>2. arg \in Int /\ d.width \in Int /\ d.precision \in Int BY <1>3 DEF Fits
  <2>3. Base(d.conv) \in {10, 16} BY DEF Base
  <2>4. \A k \in Int : k % Word \in 0 .. (Word - 1) BY <1>0
  <2>5. arg % Word \in 0 .. (Word - 1) BY <2>2, <2>4
  <2>6. arg % Word \in Nat BY <1>0, <2>5
  <2>7. Number(arg % Word, Base(d.conv), d.width, d.precision, d.flags) \in Seq(Characters)
    BY <2>2, <2>3, <2>6, NumberReadsBack
  <2> QED BY <1>3, <2>1, <2>3, <2>5, <2>7
<1> QED BY <1>1, <1>2, <1>3

(* A part of a text is what it was when the text goes on.                  *)
LEMMA PartKept ==
  ASSUME NEW S, NEW s \in Seq(S), NEW t \in Seq(S), NEW i \in Nat \ {0}, NEW j \in Nat, j <= Len(s)
  PROVE  SubSeq(s \o t, i, j) = SubSeq(s, i, j)
<1>1. CASE i > j BY <1>1, SubSeqEmpty
<1>2. CASE i <= j
  <2>1. Len(s) \in Nat OBVIOUS
  <2>2. i \in 1 .. Len(s) /\ j \in 1 .. Len(s) BY <1>2, <2>1
  <2> QED BY <2>2, SubSeqOfConcat1
<1> QED BY <1>1, <1>2

(* A field stays good when text is written behind it.                      *)
LEMMA FieldKept ==
  ASSUME NEW k, FieldGood(k), fields'[k] = fields[k], given' = given,
         out \in Seq(Characters), NEW t \in Seq(Characters), out' = out \o t
  PROVE  FieldGood(k)' /\ Shown(k)' = Shown(k)
<1>1. /\ fields[k].from \in Nat \ {0} /\ fields[k].to \in Nat /\ fields[k].to <= Len(out)
  BY DEF FieldGood
<1>2. SubSeq(out \o t, fields[k].from, fields[k].to) = SubSeq(out, fields[k].from, fields[k].to)
  BY <1>1, PartKept
<1>3. Shown(k)' = Shown(k) BY <1>2 DEF Shown
<1>4. Len(out') = Len(out) + Len(t) /\ Len(out) \in Nat /\ Len(t) \in Nat BY ConcatProperties
<1>5. fields[k].to <= Len(out') BY <1>1, <1>4
<1> QED BY <1>1, <1>3, <1>5 DEF FieldGood

(* A field that is added is good, and shows the text that was printed.     *)
LEMMA FieldAdded ==
  ASSUME NEW k, NEW d, NEW text, text = Printed(d, given[k]), Fits(d, given[k]), given' = given,
         out \in Seq(Characters), out' = out \o text,
         fields'[k] = [spec |-> d, from |-> Len(out) + 1, to |-> Len(out \o text)]
  PROVE  FieldGood(k)' /\ Shown(k)' = text /\ out' \in Seq(Characters)
<1>1. text \in Seq(Characters) BY PrintedIs
<1>2. PICK o \in Seq(Characters), m \in Nat, top \in Nat :
        o = out \o text /\ m = Len(out) /\ top = Len(o) /\ top = m + Len(text)
  <2>1. out \o text \in Seq(Characters) /\ Len(out \o text) = Len(out) + Len(text)
    BY <1>1, ConcatProperties
  <2>2. Len(out) \in Nat /\ Len(out \o text) \in Nat BY <2>1
  <2> QED BY <2>1, <2>2
<1>3. fields'[k].spec = d /\ fields'[k].from = m + 1 /\ fields'[k].to = top BY <1>2
<1>4. SubSeq(o, m + 1, top) = text
  <2>1. /\ top = m + Len(<<>>) + Len(text) + Len(<<>>)
        /\ out \o <<>> \o text \o <<>> = o
    <3>1. out \o <<>> = out BY ConcatEmptySeq
    <3>2. o \o <<>> = o BY ConcatEmptySeq
    <3>3. Len(<<>>) = 0 /\ Len(text) \in Nat BY <1>1
    <3> QED BY <1>2, <3>1, <3>2, <3>3
  <2>2. <<>> \in Seq(Characters) /\ Len(<<>>) = 0 OBVIOUS
  <2>3. LET s == out \o <<>> \o text \o <<>>
        IN  SubSeq(s, Len(out) + Len(<<>>) + 1, Len(s) - Len(<<>>)) = text
    BY <1>1, <2>2, CutOut
  <2>4. Len(out) + Len(<<>>) + 1 = m + 1 /\ Len(o) - Len(<<>>) = top BY <1>2, <2>2
  <2> QED BY <2>1, <2>3, <2>4
<1>5. Shown(k)' = text BY <1>2, <1>3, <1>4 DEF Shown
<1>6. m + 1 \in Nat \ {0} /\ top <= Len(out') BY <1>2
<1> QED BY <1>2, <1>3, <1>5, <1>6 DEF FieldGood

(* What the loop meets in a format that is tried.                          *)
LEMMA TriedIs ==
  ASSUME Tried
  PROVE  /\ Len(fmt) \in Nat /\ Len(fmt) >= 6 /\ fmt # <<>>
         /\ fmt[1] = "a" /\ fmt[2] = "%" /\ fmt[Len(fmt) - 2] = "=" /\ fmt[Len(fmt) - 1] = "%"
         /\ Directive(2).star <=> Starred
         /\ ~ Starred =>
              /\ Directive(2).last = Len(fmt) - 3
              /\ \/ Directive(2).conv = "%" /\ given = <<5>>
                 \/ Fits(Directive(2), given[1]) /\ given = <<given[1], 5>>
         /\ given = <<5>> \/ given = <<given[1], 5>>
         /\ ~ Directive(Len(fmt) - 1).star /\ Directive(Len(fmt) - 1).last = Len(fmt)
         /\ Fits(Directive(Len(fmt) - 1), 5)
<1>1. PICK flags \in Flags, w \in Widths, prec \in Precisions, qual \in Qualifiers, c \in Conversions :
        \E a \in Argument(c) :
          fmt = FormatOf(flags, w, prec, qual, c) /\ given = IF c = "%" THEN <<5>> ELSE <<a, 5>>
  BY DEF Tried
<1>2. PICK a \in Argument(c) : given = IF c = "%" THEN <<5>> ELSE <<a, 5>>
  BY <1>1
<1>3. fmt = FormatOf(flags, w, prec, qual, c) BY <1>1
<1>4. PICK e \in Nat :
        /\ e = Len(fmt) - 3 /\ e >= 3 /\ fmt \in Seq(Characters)
        /\ fmt[1] = "a" /\ fmt[2] = "%"
        /\ fmt[e + 1] = "=" /\ fmt[e + 2] = "%" /\ fmt[e + 3] = "d"
        /\ Directive(2).star <=> \E i \in DOMAIN fmt : fmt[i] = "*"
        /\ ~ Directive(2).star => /\ Directive(2).conv = c /\ Directive(2).last = e
                        /\ Directive(2).width \in Int /\ Directive(2).precision \in Int
  BY <1>3, Parsed
<1>5. Len(fmt) \in Nat /\ Len(fmt) = e + 3 BY <1>4
<1>6. /\ Len(fmt) >= 6 /\ Len(fmt) - 2 = e + 1 /\ Len(fmt) - 1 = e + 2 /\ Len(fmt) - 3 = e
      /\ e + 2 \in Nat /\ e + 2 >= 1 /\ Len(fmt) = (e + 2) + 1
  BY <1>4, <1>5
<1>7. fmt # <<>> BY <1>5, <1>6
<1>8. Directive(2).star <=> Starred BY <1>4 DEF Starred
<1>9. c \in {"c", "s", "d", "u", "x", "%"} BY DirectivesAssumption
<1>10. /\ c = "c" => a \in Characters \ {Space}
       /\ c = "s" => a \in Seq(Characters)
       /\ c \notin {"c", "s"} => a \in Int
  <2>1. ASSUME c = "c" PROVE a \in Characters \ {Space}
    <3>1. a \in {"A", "0"} BY <2>1 DEF Argument
    <3>2. "0" \in Characters BY CharactersAre
    <3>3. "A" \in Characters
      <4>1. 11 \in 1 .. 16 /\ DigitChars[11] = "A" BY DEF DigitChars
      <4>2. "A" \in DigitsIn(16) BY <4>1 DEF DigitsIn
      <4> QED BY <4>2, CharactersAre
    <3>4. "A" # Space /\ "0" # Space BY DEF Space
    <3> QED BY <3>1, <3>2, <3>3, <3>4
  <2>2. ASSUME c = "s" PROVE a \in Seq(Characters)
    <3>1. a \in Seq(STRING) BY <2>2, ArgumentsAssumption DEF Argument
    <3>2. STRING \subseteq Characters BY CharactersAre
    <3> QED BY <3>1, <3>2, SeqMonotonic
  <2>3. ASSUME c \notin {"c", "s"} PROVE a \in Int
    BY <2>3, ArgumentsAssumption DEF Argument
  <2> QED BY <2>1, <2>2, <2>3
<1>11. ASSUME ~ Starred, c # "%" PROVE Fits(Directive(2), given[1]) /\ given = <<given[1], 5>>
  <2>1. given = <<a, 5>> /\ given[1] = a BY <1>2, <1>11
  <2>2. Directive(2).conv = c /\ Directive(2).width \in Int /\ Directive(2).precision \in Int
    BY <1>4, <1>8, <1>11
  <2>3. c \in {"c", "s", "d", "u", "x"} BY <1>9, <1>11
  <2> QED BY <1>10, <2>1, <2>2, <2>3 DEF Fits
<1>12. ASSUME ~ Starred, c = "%" PROVE Directive(2).conv = "%" /\ given = <<5>>
  BY <1>2, <1>4, <1>8, <1>12
<1>13. given = <<5>> \/ given = <<given[1], 5>> BY <1>2
<1>14. /\ ~ Directive(e + 2).star /\ Directive(e + 2).last = e + 3 /\ Directive(e + 2).conv = "d"
       /\ Directive(e + 2).width \in Int /\ Directive(e + 2).precision \in Int
  <2>1. fmt[(e + 2) + 1] = "d" /\ e + 3 = (e + 2) + 1 BY <1>4
  <2> QED BY <1>6, <2>1, PlainDirective
<1>15. Fits(Directive(e + 2), 5) BY <1>14 DEF Fits
<1>16. ~ Starred => Directive(2).last = Len(fmt) - 3 BY <1>4, <1>6, <1>8
<1>17. /\ ~ Directive(Len(fmt) - 1).star /\ Directive(Len(fmt) - 1).last = Len(fmt)
       /\ Fits(Directive(Len(fmt) - 1), 5)
  BY <1>5, <1>6, <1>14, <1>15
<1>18. fmt[Len(fmt) - 2] = "=" /\ fmt[Len(fmt) - 1] = "%" BY <1>4, <1>6
<1> QED BY <1>4, <1>5, <1>6, <1>7, <1>8, <1>11, <1>12, <1>13, <1>16, <1>17, <1>18

(* The places where the loop stops are not the same.                       *)
LEMMA Apart ==
  ASSUME NEW k \in Nat, k >= 6
  PROVE  2 # 1 /\ 2 # k - 2 /\ 2 # k - 1 /\ 2 # k + 1
OBVIOUS

(* The invariant, step by step: a character of the format itself.          *)
LEMMA LiteralKeeps ==
  ASSUME Tried, out \in Seq(Characters), Stage, Literal
  PROVE  Tried' /\ (out \in Seq(Characters))' /\ Stage'
<1>1. /\ length = -1 /\ length' = length /\ fmt' = fmt /\ given' = given /\ args' = args /\ fields' = fields
      /\ at <= Len(fmt) /\ fmt[at] # "%" /\ out' = Append(out, fmt[at]) /\ at' = at + 1
  BY DEF Literal, Running
<1>2. Tried' BY <1>1 DEF Tried
<1>3. Starred' <=> Starred BY <1>1 DEF Starred
<1>4. /\ Len(fmt) \in Nat /\ Len(fmt) >= 6
      /\ fmt[1] = "a" /\ fmt[2] = "%" /\ fmt[Len(fmt) - 2] = "=" /\ fmt[Len(fmt) - 1] = "%"
  BY TriedIs
<1>5. at = 1 \/ at = Len(fmt) - 2
  <2>1. at # Len(fmt) + 1 BY <1>1, <1>4
  <2> QED BY <1>1, <1>4, <2>1 DEF Stage
<1>6. "a" \in Characters /\ "=" \in Characters BY CharactersAre
<1>7. CASE at = 1
  <2>1. out = <<>> /\ args = given /\ fields = <<>> BY <1>4, <1>7, SMTT(30) DEF Stage
  <2>2. out' = <<"a">> BY <1>1, <1>4, <1>7, <2>1
  <2>3. at' = 2 BY <1>1, <1>7
  <2>4. Stage' BY <1>1, <2>1, <2>2, <2>3 DEF Stage
  <2>5. out' \in Seq(Characters) BY <1>6, <2>2
  <2> QED BY <1>2, <2>4, <2>5
<1>8. CASE at = Len(fmt) - 2
  <2>1. OneDone /\ out = TextBefore BY <1>4, <1>8 DEF Stage
  <2>2. <<"=">> \in Seq(Characters) BY <1>6
  <2>3. out' = out \o <<"=">>
    <3>1. fmt[at] = "=" BY <1>4, <1>8
    <3>2. Append(out, "=") = out \o <<"=">> BY <1>6, AppendIsConcat
    <3> QED BY <1>1, <3>1, <3>2
  <2>4. out' \in Seq(Characters) BY <2>2, <2>3, ConcatProperties
  <2>5. ASSUME FieldGood(1) PROVE FieldGood(1)' /\ Shown(1)' = Shown(1)
    <3>1. fields'[1] = fields[1] BY <1>1
    <3> QED BY <1>1, <2>2, <2>3, <2>5, <3>1, FieldKept
  <2>6. OneDone' /\ TextBefore' = TextBefore
    <3>1. CASE Len(given) = 2
      <4>1. ~ Starred /\ args = <<5>> /\ fields = <<fields[1]>> /\ FieldGood(1)
        BY <2>1, <3>1 DEF OneDone
      <4>2. FieldGood(1)' /\ Shown(1)' = Shown(1) BY <2>5, <4>1
      <4>3. OneDone' BY <1>1, <1>3, <3>1, <4>1, <4>2 DEF OneDone
      <4>4. TextBefore' = TextBefore BY <1>1, <3>1, <4>2 DEF TextBefore
      <4> QED BY <4>3, <4>4
    <3>2. CASE Len(given) # 2
      <4>1. ~ Starred /\ args = <<5>> /\ fields = <<>> BY <2>1, <3>2 DEF OneDone
      <4>2. OneDone' BY <1>1, <1>3, <3>2, <4>1 DEF OneDone
      <4>3. TextBefore' = TextBefore BY <1>1, <3>2 DEF TextBefore
      <4> QED BY <4>2, <4>3
    <3> QED BY <3>1, <3>2
  <2>7. at' = Len(fmt') - 1 BY <1>1, <1>4, <1>8
  <2>8. out' = TextBefore' \o <<"=">> BY <2>1, <2>3, <2>6
  <2>9. Stage' BY <2>6, <2>7, <2>8 DEF Stage
  <2> QED BY <1>2, <2>4, <2>9
<1> QED BY <1>5, <1>7, <1>8

(* A directive that prints its argument: the first leaves the argument of  *)
(* the second, the second none.                                            *)
LEMMA ConvertedKeeps ==
  ASSUME Tried, out \in Seq(Characters), Stage, Converted
  PROVE  Tried' /\ (out \in Seq(Characters))' /\ Stage'
<1>1. /\ length = -1 /\ length' = length /\ fmt' = fmt /\ given' = given
      /\ at <= Len(fmt) /\ fmt[at] = "%"
      /\ ~ Directive(at).star /\ Directive(at).conv \in {"c", "s", "x", "d", "u"}
  BY DEF Converted, Running
<1>2. PICK d, text :
        /\ d = Directive(at) /\ text = Printed(d, Head(args))
        /\ out' = out \o text
        /\ fields' = Append(fields, [spec |-> d, from |-> Len(out) + 1, to |-> Len(out \o text)])
        /\ args' = Tail(args) /\ at' = d.last + 1
  BY DEF Converted
<1>3. Tried' BY <1>1 DEF Tried
<1>4. Starred' <=> Starred BY <1>1 DEF Starred
<1>5. /\ Len(fmt) \in Nat /\ Len(fmt) >= 6
      /\ fmt[1] = "a" /\ fmt[2] = "%" /\ fmt[Len(fmt) - 2] = "=" /\ fmt[Len(fmt) - 1] = "%"
      /\ given = <<5>> \/ given = <<given[1], 5>>
  BY TriedIs
<1>6. at = 2 \/ at = Len(fmt) - 1
  <2>1. at # Len(fmt) + 1 BY <1>1, <1>5
  <2> QED BY <1>1, <1>5, <2>1 DEF Stage
<1> DEFINE r == [spec |-> d, from |-> Len(out) + 1, to |-> Len(out \o text)]
<1>7. CASE at = 2
  <2>1. out = <<"a">> /\ args = given /\ fields = <<>>
    <3>1. at # 1 /\ at # Len(fmt) - 2 /\ at # Len(fmt) - 1 /\ at # Len(fmt) + 1
      <4>1. Len(fmt) \in Nat /\ Len(fmt) >= 6 BY <1>5
      <4>2. 2 # 1 /\ 2 # Len(fmt) - 2 /\ 2 # Len(fmt) - 1 /\ 2 # Len(fmt) + 1 BY <4>1, Apart
      <4> QED BY <1>7, <4>2, Zenon
    <3> QED BY <3>1, Zenon DEF Stage
  <2>2. /\ ~ Starred /\ d.last = Len(fmt) - 3
        /\ Fits(d, given[1]) /\ given = <<given[1], 5>>
    <3>1. ~ Starred BY <1>1, <1>7, TriedIs
    <3>2. Directive(2).conv # "%" BY <1>1, <1>7
    <3> QED BY <1>2, <1>7, <3>1, <3>2, TriedIs
  <2>3. Len(given) = 2 /\ Head(args) = given[1] /\ Tail(args) = <<5>>
    <3>1. PICK a : a = given[1] OBVIOUS
    <3>2. Len(<<a, 5>>) = 2 /\ Head(<<a, 5>>) = a /\ Tail(<<a, 5>>) = <<5>> OBVIOUS
    <3> QED BY <2>1, <2>2, <3>1, <3>2
  <2>4. text = Printed(d, given[1]) BY <1>2, <2>3
  <2>5. fields' = <<r>> BY <1>2, <2>1
  <2> HIDE DEF r
  <2>6. fields'[1] = r /\ fields' = <<fields'[1]>> BY <2>5
  <2>7. FieldGood(1)' /\ Shown(1)' = text /\ out' \in Seq(Characters)
    BY <1>1, <1>2, <2>2, <2>4, <2>6, FieldAdded DEF r
  <2>8. args' = <<5>> /\ Len(given') = 2 BY <1>1, <1>2, <2>3
  <2>9. OneDone' BY <1>1, <1>4, <2>2, <2>6, <2>7, <2>8 DEF OneDone
  <2>10. out' = TextBefore' BY <1>2, <2>1, <2>7, <2>8 DEF TextBefore
  <2>11. at' = Len(fmt') - 2 BY <1>1, <1>2, <1>5, <2>2
  <2>12. Stage' BY <2>9, <2>10, <2>11 DEF Stage
  <2> QED BY <1>3, <2>7, <2>12
<1>8. CASE at = Len(fmt) - 1
  <2>1. OneDone /\ out = TextBefore \o <<"=">>
    <3>1. at # 1 /\ at # 2 /\ at # Len(fmt) - 2 /\ at # Len(fmt) + 1
      <4>1. Len(fmt) \in Nat /\ Len(fmt) >= 6 BY <1>5
      <4> QED BY <1>8, <4>1
    <3> QED BY <3>1, Zenon DEF Stage
  <2>2. ~ Starred /\ args = <<5>> BY <2>1 DEF OneDone
  <2>3. Head(args) = 5 /\ args' = <<>> BY <1>2, <2>2
  <2>4. text = Printed(d, 5) /\ Fits(d, 5) /\ d.last = Len(fmt) BY <1>2, <1>8, <2>3, TriedIs
  <2>5. text \in Seq(Characters) BY <2>4, PrintedIs
  <2>6. at' = Len(fmt') + 1 BY <1>1, <1>2, <2>4
  <2>7. CASE Len(given) = 2
    <3>1. given[2] = 5 BY <1>5, <2>7
    <3>2. fields = <<fields[1]>> /\ FieldGood(1) BY <2>1, <2>7 DEF OneDone
    <3>3. fields' = <<fields[1], r>>
      <4> HIDE DEF r
      <4>1. fields' = Append(fields, r) BY <1>2 DEF r
      <4>2. PICK f : f = fields[1] OBVIOUS
      <4>3. Append(<<f>>, r) = <<f, r>>
        <5>1. <<f>> \in Seq({f, r}) /\ <<f, r>> \in Seq({f, r}) /\ r \in {f, r} OBVIOUS
        <5>2. /\ Append(<<f>>, r) \in Seq({f, r}) /\ Len(Append(<<f>>, r)) = 2
              /\ Append(<<f>>, r)[1] = f /\ Append(<<f>>, r)[2] = r
          BY <5>1, AppendProperties
        <5>3. Len(<<f, r>>) = 2 /\ <<f, r>>[1] = f /\ <<f, r>>[2] = r OBVIOUS
        <5>4. 1 .. 2 = {1, 2} OBVIOUS
        <5> QED BY <5>1, <5>2, <5>3, <5>4, SeqEqual
      <4> QED BY <3>2, <4>1, <4>2, <4>3
    <3> HIDE DEF r
    <3>4. fields'[1] = fields[1] /\ fields'[2] = r /\ fields' = <<fields'[1], fields'[2]>> BY <3>3
    <3>5. FieldGood(1)' /\ Shown(1)' = Shown(1) BY <1>1, <1>2, <2>5, <3>2, <3>4, FieldKept
    <3>6. FieldGood(2)' /\ Shown(2)' = text /\ out' \in Seq(Characters)
      BY <1>1, <1>2, <2>4, <3>1, <3>4, FieldAdded DEF r
    <3>7. TextBefore' = TextBefore BY <1>1, <2>7, <3>5 DEF TextBefore
    <3>8. Shown(Len(given))' = text BY <1>1, <2>7, <3>6 DEF Shown
    <3>9. out' = TextBefore' \o <<"=">> \o Shown(Len(given))' BY <1>2, <2>1, <3>7, <3>8
    <3>10. BothDone' BY <1>1, <1>4, <2>2, <2>3, <2>7, <3>4, <3>5, <3>6 DEF BothDone
    <3>11. Stage' BY <1>1, <2>6, <3>9, <3>10 DEF Stage
    <3> QED BY <1>3, <3>6, <3>11
  <2>8. CASE Len(given) # 2
    <3>1. given = <<5>> /\ Len(given) = 1 /\ given[1] = 5
      <4>1. given = <<given[1], 5>> => Len(given) = 2
        <5>1. PICK f : f = given[1] OBVIOUS
        <5>2. Len(<<f, 5>>) = 2 OBVIOUS
        <5> QED BY <5>1, <5>2
      <4>2. given = <<5>> BY <1>5, <2>8, <4>1
      <4> QED BY <4>2
    <3>2. fields = <<>> BY <2>1, <2>8 DEF OneDone
    <3>3. fields' = <<r>> BY <1>2, <3>2
    <3> HIDE DEF r
    <3>4. fields'[1] = r /\ fields' = <<fields'[1]>> BY <3>3
    <3>5. FieldGood(1)' /\ Shown(1)' = text /\ out' \in Seq(Characters)
      BY <1>1, <1>2, <2>4, <3>1, <3>4, FieldAdded DEF r
    <3>6. TextBefore' = TextBefore BY <1>1, <2>8 DEF TextBefore
    <3>7. Shown(Len(given))' = text BY <1>1, <3>1, <3>5 DEF Shown
    <3>8. out' = TextBefore' \o <<"=">> \o Shown(Len(given))' BY <1>2, <2>1, <3>6, <3>7
    <3>9. BothDone' BY <1>1, <1>4, <2>2, <2>3, <2>8, <3>4, <3>5 DEF BothDone
    <3>10. Stage' BY <1>1, <2>6, <3>8, <3>9 DEF Stage
    <3> QED BY <1>3, <3>5, <3>10
  <2> QED BY <2>7, <2>8
<1> QED BY <1>6, <1>7, <1>8

(* The end of the format: the terminator is written behind the text.       *)
LEMMA FinishKeeps ==
  ASSUME Tried, out \in Seq(Characters), Stage, Finish
  PROVE  Tried' /\ (out \in Seq(Characters))' /\ Stage'
<1>1. /\ length = -1 /\ fmt' = fmt /\ given' = given /\ args' = args /\ fields' = fields /\ at' = at
      /\ at > Len(fmt) /\ out' = Append(out, Nul) /\ length' = Len(out)
  BY DEF Finish, Running, Returned
<1>2. Tried' BY <1>1 DEF Tried
<1>3. Starred' <=> Starred BY <1>1 DEF Starred
<1>4. Len(fmt) \in Nat /\ Len(fmt) >= 6 /\ (given = <<5>> \/ given = <<given[1], 5>>) BY TriedIs
<1>5. Nul \in Characters /\ <<Nul>> \in Seq(Characters) BY CharactersAre
<1>6. out' = out \o <<Nul>> BY <1>1, <1>5, AppendIsConcat
<1>7. out' \in Seq(Characters) /\ length' = Len(out') - 1 /\ length' # -1
  <2>1. Len(out \o <<Nul>>) = Len(out) + Len(<<Nul>>) /\ out \o <<Nul>> \in Seq(Characters)
    BY <1>5, ConcatProperties
  <2>2. Len(<<Nul>>) = 1 /\ Len(out) \in Nat OBVIOUS
  <2> QED BY <1>1, <1>6, <2>1, <2>2
<1>8. at = Len(fmt) + 1 /\ BothDone /\ out = TextBefore \o <<"=">> \o Shown(Len(given))
  <2>1. at # 1 /\ at # 2 /\ at # Len(fmt) - 2 /\ at # Len(fmt) - 1
    <3>1. Len(fmt) \in Nat /\ Len(fmt) >= 6 /\ at > Len(fmt) BY <1>1, <1>4
    <3>2. /\ ~ (1 > Len(fmt)) /\ ~ (2 > Len(fmt)) /\ ~ (Len(fmt) - 2 > Len(fmt))
          /\ ~ (Len(fmt) - 1 > Len(fmt))
      BY ONLY <3>1
    <3> QED BY <3>1, <3>2, Zenon
  <2> QED BY <1>1, <2>1, Zenon DEF Stage
<1>9. ASSUME NEW k, FieldGood(k) PROVE FieldGood(k)' /\ Shown(k)' = Shown(k)
  <2>1. fields'[k] = fields[k] BY <1>1
  <2> QED BY <1>1, <1>5, <1>6, <1>9, <2>1, FieldKept
<1>10. ~ Starred /\ args = <<>> /\ FieldGood(1) BY <1>8 DEF BothDone
<1>11. PICK m \in {1, 2} : m = Len(given)
  <2>1. Len(<<5>>) = 1 OBVIOUS
  <2>2. given = <<given[1], 5>> => Len(given) = 2
    <3>1. PICK a : a = given[1] OBVIOUS
    <3>2. Len(<<a, 5>>) = 2 OBVIOUS
    <3> QED BY <3>1, <3>2
  <2> QED BY <1>4, <2>1, <2>2
<1>12. Len(given') = m BY <1>1, <1>11
<1>13. CASE m = 2
  <2>1. fields = <<fields[1], fields[2]>> /\ FieldGood(2) BY <1>8, <1>11, <1>13 DEF BothDone
  <2>2. FieldGood(1)' /\ FieldGood(2)' /\ Shown(1)' = Shown(1) /\ Shown(2)' = Shown(2)
    BY <1>9, <1>10, <2>1
  <2>3. fields' = <<fields'[1], fields'[2]>> BY <1>1, <2>1
  <2>4. BothDone' BY <1>1, <1>3, <1>10, <1>12, <1>13, <2>2, <2>3 DEF BothDone
  <2>5. TextBefore' = TextBefore BY <1>11, <1>12, <1>13, <2>2 DEF TextBefore
  <2>6. Shown(Len(given))' = Shown(Len(given)) BY <1>11, <1>12, <1>13, <2>2 DEF Shown
  <2>7. out' = TextBefore' \o <<"=">> \o Shown(Len(given))' \o <<Nul>> BY <1>6, <1>8, <2>5, <2>6
  <2>8. Stage' BY <1>1, <1>7, <1>8, <2>4, <2>7 DEF Stage
  <2> QED BY <1>2, <1>7, <2>8
<1>14. CASE m = 1
  <2>1. fields = <<fields[1]>> BY <1>8, <1>11, <1>14 DEF BothDone
  <2>2. FieldGood(1)' /\ Shown(1)' = Shown(1) BY <1>9, <1>10
  <2>3. fields' = <<fields'[1]>> BY <1>1, <2>1
  <2>4. BothDone' BY <1>1, <1>3, <1>10, <1>12, <1>14, <2>2, <2>3 DEF BothDone
  <2>5. TextBefore' = TextBefore BY <1>11, <1>12, <1>14 DEF TextBefore
  <2>6. Shown(Len(given))' = Shown(Len(given)) BY <1>11, <1>12, <1>14, <2>2 DEF Shown
  <2>7. out' = TextBefore' \o <<"=">> \o Shown(Len(given))' \o <<Nul>> BY <1>6, <1>8, <2>5, <2>6
  <2>8. Stage' BY <1>1, <1>7, <1>8, <2>4, <2>7 DEF Stage
  <2> QED BY <1>2, <1>7, <2>8
<1> QED BY <1>11, <1>13, <1>14

(* A directive that prints nothing is only met behind the sign.            *)
LEMMA IgnoredKeeps ==
  ASSUME Tried, out \in Seq(Characters), Stage, Ignored
  PROVE  Tried' /\ (out \in Seq(Characters))' /\ Stage'
<1>1. /\ length = -1 /\ length' = length /\ fmt' = fmt /\ given' = given /\ args' = args
      /\ fields' = fields /\ out' = out
      /\ at <= Len(fmt) /\ fmt[at] = "%" /\ ~ Directive(at).star
      /\ Directive(at).conv \notin {"c", "s", "x", "d", "u"} /\ at' = Directive(at).last + 1
  BY DEF Ignored, Running
<1>2. Tried' BY <1>1 DEF Tried
<1>3. Starred' <=> Starred BY <1>1 DEF Starred
<1>4. /\ Len(fmt) \in Nat /\ Len(fmt) >= 6
      /\ fmt[1] = "a" /\ fmt[2] = "%" /\ fmt[Len(fmt) - 2] = "=" /\ fmt[Len(fmt) - 1] = "%"
  BY TriedIs
<1>5. at # Len(fmt) - 1 BY <1>1, TriedIs DEF Fits
<1>6. at # Len(fmt) + 1 BY <1>1, <1>4
<1>7. at = 2
  <2>1. "a" # "%" /\ "=" # "%" BY Classes
  <2>2. at # 1 /\ at # Len(fmt) - 2 BY <1>1, <1>4, <2>1
  <2> QED BY <1>5, <1>6, <2>2, Zenon DEF Stage
<1>8. out = <<"a">> /\ args = given /\ fields = <<>>
  <2>1. Len(fmt) \in Nat /\ Len(fmt) >= 6 BY <1>4
  <2>2. 2 # 1 /\ 2 # Len(fmt) - 2 /\ 2 # Len(fmt) - 1 /\ 2 # Len(fmt) + 1 BY <2>1, Apart
  <2> QED BY <1>7, <2>2, Zenon DEF Stage
<1>9. ~ Starred BY <1>1, <1>7, TriedIs
<1>10. Directive(2).last = Len(fmt) - 3 /\ given = <<5>>
  <2>1. ~ Fits(Directive(2), given[1]) BY <1>1, <1>7 DEF Fits
  <2> QED BY <1>9, <2>1, TriedIs
<1>11. Len(given') # 2 BY <1>1, <1>10
<1>12. OneDone' BY <1>1, <1>3, <1>8, <1>9, <1>10, <1>11 DEF OneDone
<1>13. out' = TextBefore' BY <1>1, <1>8, <1>11 DEF TextBefore
<1>14. at' = Len(fmt') - 2 BY <1>1, <1>4, <1>7, <1>10
<1>15. Stage' BY <1>12, <1>13, <1>14 DEF Stage
<1> QED BY <1>1, <1>2, <1>15

(* A star ends the call at the first directive.                            *)
LEMMA StarKeeps ==
  ASSUME Tried, out \in Seq(Characters), Stage, StarReturns
  PROVE  Tried' /\ (out \in Seq(Characters))' /\ Stage'
<1>1. /\ length = -1 /\ length' = 0 /\ fmt' = fmt /\ given' = given /\ args' = args
      /\ fields' = fields /\ out' = out /\ at' = at
      /\ at <= Len(fmt) /\ fmt[at] = "%" /\ Directive(at).star
  BY DEF StarReturns, Running
<1>2. Tried' BY <1>1 DEF Tried
<1>3. Starred' <=> Starred BY <1>1 DEF Starred
<1>4. /\ Len(fmt) \in Nat /\ Len(fmt) >= 6
      /\ fmt[1] = "a" /\ fmt[2] = "%" /\ fmt[Len(fmt) - 2] = "="
  BY TriedIs
<1>5. at # Len(fmt) - 1 BY <1>1, TriedIs
<1>6. at # Len(fmt) + 1 BY <1>1, <1>4
<1>7. at = 2
  <2>1. "a" # "%" /\ "=" # "%" BY Classes
  <2>2. at # 1 /\ at # Len(fmt) - 2 BY <1>1, <1>4, <2>1
  <2> QED BY <1>5, <1>6, <2>2, Zenon DEF Stage
<1>8. out = <<"a">> /\ args = given /\ fields = <<>>
  <2>1. Len(fmt) \in Nat /\ Len(fmt) >= 6 BY <1>4
  <2>2. 2 # 1 /\ 2 # Len(fmt) - 2 /\ 2 # Len(fmt) - 1 /\ 2 # Len(fmt) + 1 BY <2>1, Apart
  <2> QED BY <1>7, <2>2, Zenon DEF Stage
<1>9. Starred' BY <1>1, <1>3, <1>7, TriedIs
<1>10. Stage' BY <1>1, <1>7, <1>8, <1>9 DEF Stage
<1> QED BY <1>1, <1>2, <1>10

(* The invariant holds at the call and is kept by every step.              *)
LEMMA FormatInvKept == FormatInv /\ [FormatNext]_formatVars => FormatInv'
<1> SUFFICES ASSUME FormatInv, [FormatNext]_formatVars PROVE FormatInv'
  OBVIOUS
<1>1. CASE UNCHANGED formatVars
  <2>1. /\ fmt' = fmt /\ at' = at /\ args' = args /\ out' = out /\ length' = length
        /\ given' = given /\ fields' = fields
    BY <1>1 DEF formatVars
  <2>2. CASE FormatInit BY <2>1, <2>2 DEF FormatInv, FormatInit
  <2>3. CASE Tried /\ out \in Seq(Characters) /\ Stage
    <3>1. Tried' BY <2>1, <2>3 DEF Tried
    <3>2. /\ Starred' <=> Starred
          /\ \A k : Shown(k)' = Shown(k) /\ (FieldGood(k)' <=> FieldGood(k))
      <4>1. Starred' <=> Starred BY <2>1 DEF Starred
      <4>2. ASSUME NEW k PROVE Shown(k)' = Shown(k) BY <2>1 DEF Shown
      <4>3. ASSUME NEW k PROVE FieldGood(k)' <=> FieldGood(k) BY <2>1, <4>2 DEF FieldGood
      <4> QED BY <4>1, <4>2, <4>3
    <3>3. (OneDone' <=> OneDone) /\ (BothDone' <=> BothDone)
      BY <2>1, <3>2, Zenon DEF OneDone, BothDone
    <3>4. TextBefore' = TextBefore BY <2>1, <3>2, Zenon DEF TextBefore
    <3>5. Shown(Len(given))' = Shown(Len(given)) BY <2>1 DEF Shown
    <3>6. Stage' BY <2>1, <2>3, <3>2, <3>3, <3>4, <3>5, Zenon DEF Stage
    <3>7. out' \in Seq(Characters) BY <2>1, <2>3
    <3> QED BY <3>1, <3>6, <3>7 DEF FormatInv
  <2> QED BY <2>2, <2>3 DEF FormatInv
<1>2. CASE FormatNext /\ fmt = <<>>
  <2>1. FormatInit BY <1>2, TriedIs DEF FormatInv
  <2>2. PICK flags \in Flags, w \in Widths, prec \in Precisions, qual \in Qualifiers, c \in Conversions :
          \E a \in Argument(c) :
            Format(<<"a", "%">> \o flags \o w \o prec \o qual \o <<c, "=", "%", "d">>,
                   IF c = "%" THEN <<5>> ELSE <<a, 5>>)
    BY <1>2 DEF FormatNext, Literal, Converted, Ignored, StarReturns, Finish, Running
  <2>3. PICK a \in Argument(c) :
          Format(FormatOf(flags, w, prec, qual, c), IF c = "%" THEN <<5>> ELSE <<a, 5>>)
    BY <2>2 DEF FormatOf
  <2>4. /\ fmt' = FormatOf(flags, w, prec, qual, c) /\ given' = (IF c = "%" THEN <<5>> ELSE <<a, 5>>)
        /\ args' = given' /\ at' = at /\ out' = out /\ length' = length /\ fields' = fields
    BY <2>3 DEF Format
  <2>5. Tried' BY <2>4 DEF Tried
  <2>6. Stage' BY <2>1, <2>4 DEF Stage, FormatInit
  <2>7. out' \in Seq(Characters) BY <2>1, <2>4 DEF FormatInit
  <2> QED BY <2>5, <2>6, <2>7 DEF FormatInv
<1>3. CASE FormatNext /\ fmt # <<>>
  <2>1. Tried /\ out \in Seq(Characters) /\ Stage BY <1>3 DEF FormatInv, FormatInit
  <2>2. Literal \/ Converted \/ Ignored \/ StarReturns \/ Finish
    BY <1>3 DEF FormatNext, Format
  <2>3. Tried' /\ (out \in Seq(Characters))' /\ Stage'
    BY <2>1, <2>2, LiteralKeeps, ConvertedKeeps, IgnoredKeeps, StarKeeps, FinishKeeps
  <2> QED BY <2>3 DEF FormatInv
<1> QED BY <1>1, <1>2, <1>3

-----------------------------------------------------------------------------
(* Every field is what is printed of its argument.                         *)
LEMMA FieldsGood ==
  ASSUME FormatInv
  PROVE  \A k \in DOMAIN fields : FieldGood(k)
<1>1. fields = <<>> \/ OneDone \/ BothDone BY DEF FormatInv, FormatInit, Stage
<1>2. CASE fields = <<>> BY <1>2
<1>3. ASSUME NEW f, NEW g PROVE DOMAIN <<f>> = {1} /\ DOMAIN <<f, g>> = {1, 2}
  <2>1. DOMAIN <<f>> = 1 .. 1 /\ DOMAIN <<f, g>> = 1 .. 2 OBVIOUS
  <2> QED BY <2>1
<1>4. CASE OneDone
  <2>1. fields = <<>> \/ (fields = <<fields[1]>> /\ FieldGood(1)) BY <1>4 DEF OneDone
  <2> QED BY <1>2, <1>3, <2>1
<1>5. CASE BothDone
  <2>1. FieldGood(1) /\ (fields = <<fields[1]>> \/ (fields = <<fields[1], fields[2]>> /\ FieldGood(2)))
    BY <1>5 DEF BothDone
  <2>2. DOMAIN fields = {1} \/ (DOMAIN fields = {1, 2} /\ FieldGood(2)) BY <1>3, <2>1
  <2> QED BY <2>1, <2>2
<1> QED BY <1>1, <1>2, <1>4, <1>5

(* Cut out of what is printed of an argument, the argument reads back.     *)
LEMMA PrintedReadsBack ==
  ASSUME NEW d, NEW arg, Fits(d, arg), NEW s, s = Printed(d, arg)
  PROVE  \E before, after \in 0 .. Len(s) :
           LET marks == Marks(d)
               x == SubSeq(s, before + Len(marks) + 1, Len(s) - after)
           IN  /\ s = Times(Space, before) \o marks \o x \o Times(Space, after)
               /\ ReadsBack(d, x, arg)
<1>2. <<>> \in Seq(Characters) OBVIOUS
<1>3. ASSUME NEW m \in Seq(Characters), NEW x \in Seq(Characters), Stands(s, m, x),
             Marks(d) = m, ReadsBack(d, x, arg)
      PROVE  \E before, after \in 0 .. Len(s) :
               LET marks == Marks(d)
                   y == SubSeq(s, before + Len(marks) + 1, Len(s) - after)
               IN  /\ s = Times(Space, before) \o marks \o y \o Times(Space, after)
                   /\ ReadsBack(d, y, arg)
  <2>1. PICK b \in Nat, a \in Nat : s = Times(Space, b) \o m \o x \o Times(Space, a)
    BY <1>3 DEF Stands
  <2>2. PICK tb \in Seq(Characters), ta \in Seq(Characters) :
          tb = Times(Space, b) /\ ta = Times(Space, a) /\ Len(tb) = b /\ Len(ta) = a
    BY CharactersAre, TimesIs
  <2>3. LET t == tb \o m \o x \o ta
        IN  /\ Len(t) = Len(tb) + Len(m) + Len(x) + Len(ta)
            /\ SubSeq(t, Len(tb) + Len(m) + 1, Len(t) - Len(ta)) = x
    BY CutOut
  <2>4. Len(s) = b + Len(m) + Len(x) + a /\ SubSeq(s, b + Len(m) + 1, Len(s) - a) = x
    BY <2>1, <2>2, <2>3
  <2>5. Len(m) \in Nat /\ Len(x) \in Nat OBVIOUS
  <2>6. b \in 0 .. Len(s) /\ a \in 0 .. Len(s) BY <2>4, <2>5
  <2> QED BY <1>3, <2>1, <2>4, <2>6
<1>4. CASE d.conv = "c"
  <2>1. arg \in Characters /\ d.width \in Int BY <1>4 DEF Fits
  <2>2. Stands(Character(arg, d.width, d.flags), <<>>, <<arg>>) BY <2>1, CharacterField
  <2>3. s = Character(arg, d.width, d.flags) BY <1>4, PrintedIs
  <2>4. Marks(d) = <<>> /\ ReadsBack(d, <<arg>>, arg) BY <1>4 DEF Marks, ReadsBack
  <2>5. <<arg>> \in Seq(Characters) BY <2>1
  <2> QED BY <1>2, <1>3, <2>2, <2>3, <2>4, <2>5
<1>5. CASE d.conv = "s"
  <2>1. arg \in Seq(Characters) /\ d.width \in Int BY <1>5 DEF Fits
  <2>2. Stands(Text(arg, d.width, d.flags), <<>>, arg) BY <2>1, TextField
  <2>3. s = Text(arg, d.width, d.flags) BY <1>5, PrintedIs
  <2>4. Marks(d) = <<>> /\ ReadsBack(d, arg, arg) BY <1>5 DEF Marks, ReadsBack
  <2> QED BY <1>2, <1>3, <2>1, <2>2, <2>3, <2>4
<1>6. CASE d.conv \notin {"c", "s"}
  <2>1. PICK base \in {10, 16}, num \in Nat : base = Base(d.conv) /\ num = arg % Word
    <3>1. Base(d.conv) \in {10, 16} /\ arg % Word \in 0 .. (Word - 1) BY <1>6, PrintedIs
    <3>2. arg % Word \in Nat BY <3>1, WordAssumption
    <3> QED BY <3>1, <3>2
  <2>2. d.width \in Int /\ d.precision \in Int BY DEF Fits
  <2>3. /\ MarksOf(base, d.flags) \in Seq(Characters)
        /\ StandsAsNumber(Number(num, base, d.width, d.precision, d.flags), MarksOf(base, d.flags),
                          base, num, d.precision)
    BY <2>1, <2>2, NumberReadsBack
  <2>4. s = Number(num, base, d.width, d.precision, d.flags) BY <1>6, <2>1, PrintedIs
  <2>5. PICK core \in Seq(DigitsIn(base)) :
          /\ Stands(s, MarksOf(base, d.flags), core)
          /\ ValueIn(base, core) = num /\ Len(core) >= Greater(d.precision, 1)
    BY <2>3, <2>4 DEF StandsAsNumber
  <2>6. core \in Seq(Characters) BY <2>1, <2>5, PartsAreText
  <2>7. Marks(d) = MarksOf(base, d.flags) BY <1>6, <2>1 DEF Marks, MarksOf
  <2>8. \A i \in DOMAIN core : \E j \in 1 .. base : core[i] = DigitChars[j]
    <3>1. DOMAIN core = 1 .. Len(core) BY <2>5
    <3>2. \A i \in 1 .. Len(core) : core[i] \in DigitsIn(base) BY <2>5
    <3> QED BY <3>1, <3>2 DEF DigitsIn
  <2>9. ReadsBack(d, core, arg) BY <1>6, <2>1, <2>5, <2>8, Zenon DEF ReadsBack
  <2> QED BY <1>3, <2>3, <2>5, <2>6, <2>7, <2>9
<1> QED BY <1>4, <1>5, <1>6

(* What is printed of an argument fills its field.                         *)
LEMMA PrintedFills ==
  ASSUME NEW d, NEW arg, Fits(d, arg), NEW s, s = Printed(d, arg), NEW need,
         need = IF d.conv = "c" THEN 1
                ELSE NeededBy(Base(d.conv), d.flags, d.precision, DigitCount(arg % Word, Base(d.conv)))
  PROVE  IF d.conv = "s" THEN d.width = -1 => s = arg ELSE Filled(s, need, d.width, d.flags)
<1>1. CASE d.conv = "c"
  <2>1. arg \in Characters /\ arg # Space /\ d.width \in Int BY <1>1 DEF Fits
  <2>2. Filled(Character(arg, d.width, d.flags), 1, d.width, d.flags) BY <2>1, CharacterField
  <2>3. s = Character(arg, d.width, d.flags) BY <1>1, PrintedIs
  <2> QED BY <1>1, <2>2, <2>3
<1>2. CASE d.conv = "s"
  <2>1. arg \in Seq(Characters) /\ d.width \in Int BY <1>2 DEF Fits
  <2>2. d.width = -1 => Text(arg, d.width, d.flags) = arg BY <2>1, TextField
  <2>3. s = Text(arg, d.width, d.flags) BY <1>2, PrintedIs
  <2> QED BY <1>2, <2>2, <2>3
<1>3. CASE d.conv \notin {"c", "s"}
  <2>1. PICK base \in {10, 16}, num \in 0 .. (Word - 1) : base = Base(d.conv) /\ num = arg % Word
    BY <1>3, PrintedIs
  <2>2. num \in Nat BY <2>1, WordAssumption
  <2>3. d.width \in Int /\ d.precision \in Int BY DEF Fits
  <2>4. s = Number(num, base, d.width, d.precision, d.flags) BY <1>3, <2>1, PrintedIs
  <2>5. Filled(Number(num, base, d.width, d.precision, d.flags),
               NeededBy(base, d.flags, d.precision, Len(DigitsOf(num, base))), d.width, d.flags)
    BY <2>1, <2>2, <2>3, NumberFills
  <2>6. DigitCount(num, base) = Len(DigitsOf(num, base)) BY <2>1, CountIsLength
  <2>7. need = NeededBy(base, d.flags, d.precision, Len(DigitsOf(num, base))) BY <1>3, <2>1, <2>6
  <2> QED BY <1>3, <2>4, <2>5, <2>7
<1> QED BY <1>1, <1>2, <1>3

(* The invariant holds in every state of every call.                       *)
LEMMA FormatInvHolds == FormatSpec => []FormatInv
<1>1. FormatInit => FormatInv BY DEF FormatInv
<1> QED BY <1>1, FormatInvKept, PTL DEF FormatSpec

(* Whatever the flags, the width, the precision, the qualifier and the     *)
(* argument, what vsprintf prints of an argument reads back as it, with    *)
(* nothing but blanks around it; of a negative number only that it is in   *)
(* digits.                                                                 *)
THEOREM ArgumentsReadBack == FormatSpec => []FieldsReadBack
<1>1. FormatInv => FieldsReadBack
  <2> SUFFICES ASSUME FormatInv, NEW k \in DOMAIN fields
               PROVE  \E before, after \in 0 .. Len(Shown(k)) :
                        LET marks == Marks(fields[k].spec)
                            s == SubSeq(Shown(k), before + Len(marks) + 1, Len(Shown(k)) - after)
                        IN  /\ Shown(k) = Times(Space, before) \o marks \o s \o Times(Space, after)
                            /\ ReadsBack(fields[k].spec, s, given[k])
    BY DEF FieldsReadBack
  <2>1. Fits(fields[k].spec, given[k]) /\ Shown(k) = Printed(fields[k].spec, given[k])
    BY FieldsGood DEF FieldGood
  <2> QED BY <2>1, PrintedReadsBack
<1> QED BY <1>1, FormatInvHolds, PTL

(* A character or a number takes exactly its field width, or what it needs *)
(* if that is more, with its blanks on the side the flags ask for.         *)
THEOREM FieldsAsWide == FormatSpec => []FieldsFillWidth
<1>1. FormatInv => FieldsFillWidth
  <2> SUFFICES ASSUME FormatInv PROVE FieldsFillWidth OBVIOUS
  <2>1. ASSUME NEW k \in DOMAIN fields
        PROVE  IF fields[k].spec.conv = "s" THEN fields[k].spec.width = -1 => Shown(k) = given[k]
               ELSE /\ Len(Shown(k)) = Greater(fields[k].spec.width, Needed(k))
                    /\ IF "-" \in fields[k].spec.flags
                       THEN Spaces(Shown(k), (Needed(k) + 1) .. Len(Shown(k)))
                       ELSE Shown(k)[Len(Shown(k))] # Space
    <3>1. Fits(fields[k].spec, given[k]) /\ Shown(k) = Printed(fields[k].spec, given[k])
      BY FieldsGood DEF FieldGood
    <3>2. PICK d, arg, s, need :
            d = fields[k].spec /\ arg = given[k] /\ s = Shown(k) /\ need = Needed(k)
      OBVIOUS
    <3>3. need = IF d.conv = "c" THEN 1
                 ELSE NeededBy(Base(d.conv), d.flags, d.precision, DigitCount(arg % Word, Base(d.conv)))
      BY <3>2 DEF Needed, NeededBy
    <3>4. Fits(d, arg) /\ s = Printed(d, arg) BY <3>1, <3>2
    <3>5. IF d.conv = "s" THEN d.width = -1 => s = arg ELSE Filled(s, need, d.width, d.flags)
      BY <3>3, <3>4, PrintedFills
    <3> QED BY <3>2, <3>5 DEF Filled
  <2> QED BY <2>1 DEF FieldsFillWidth
<1> QED BY <1>1, FormatInvHolds, PTL

(* vsprintf returns the number of characters before the terminator, and    *)
(* all of the format has become text, but for a star, for which it returns *)
(* 0 and leaves the text without an end.                                   *)
THEOREM LengthIsOfText == FormatSpec => []LengthReturned
<1>1. FormatInv => LengthReturned
  <2> SUFFICES ASSUME FormatInv, length # -1
               PROVE  IF \E i \in DOMAIN fmt : fmt[i] = "*" THEN length = 0 /\ ~ Contains(out, Nul)
                      ELSE out = <<"a">> \o (IF Len(given) = 2 THEN Shown(1) ELSE <<>>) \o <<"=">>
                                         \o Shown(Len(given)) \o <<Nul>>
                           /\ length = Len(out) - 1
    BY DEF LengthReturned
  <2>1. \/ out = <<"a">> /\ length = 0 /\ Starred
        \/ /\ ~ Starred /\ length = Len(out) - 1
           /\ out = TextBefore \o <<"=">> \o Shown(Len(given)) \o <<Nul>>
    BY DEF FormatInv, FormatInit, Stage, OneDone, BothDone
  <2>2. CASE out = <<"a">> /\ length = 0 /\ Starred
    <3>1. "a" # Nul BY DEF Nul
    <3>2. ~ Contains(<<"a">>, Nul) BY <3>1 DEF Contains
    <3> QED BY <2>2, <3>2 DEF Starred
  <2>3. CASE /\ ~ Starred /\ length = Len(out) - 1
             /\ out = TextBefore \o <<"=">> \o Shown(Len(given)) \o <<Nul>>
    BY <2>3, Zenon DEF Starred, TextBefore
  <2> QED BY <2>1, <2>2, <2>3
<1> QED BY <1>1, FormatInvHolds, PTL
=============================================================================
