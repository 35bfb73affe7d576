---------------------------- MODULE MemoryProofs ----------------------------
(***************************************************************************)
(* What holds of module Memory for every size of memory, of a page, and of *)
(* the requests: bitmap_scan is first fit, the tables agree with what is   *)
(* held, and both allocators implement PageAllocator.                      *)
(***************************************************************************)
EXTENDS Memory, NatSets, FiniteSetTheorems

-----------------------------------------------------------------------------
(* Sizes.                                                                  *)

Bits == ((KernelPages - BasePage) \div BitsPerByte) * BitsPerByte

LEMMA Sizes ==
  /\ Bits = KernelPages - BasePage /\ Bits \in Nat
  /\ MapPages \in Nat \ {0} /\ StartPage = BasePage + MapPages
  /\ StartPage <= KernelPages /\ KernelPages < TotalPages
  /\ BasePage \in Nat \ {0} /\ StartPage \in Nat
  /\ KernelPages \in Nat /\ TotalPages \in Nat
  /\ B!Index = BasePage .. (KernelPages - 1)
<1>1. Bits = KernelPages - BasePage
  BY MemoryAssumption DEF Bits
<1>2. MapPages \in Nat \ {0}
  BY MemoryAssumption DEF MapPages
<1>3. B!Index = BasePage .. (BasePage + Bits - 1)
  BY DEF B!Index, Bits
<1> QED BY <1>1, <1>2, <1>3, MemoryAssumption DEF StartPage

-----------------------------------------------------------------------------
(* The loop of bitmap_scan.                                                *)

(* The recursive function inside ClearRuns obeys its own equation.         *)
LEMMA RunsUnfold ==
  ASSUME NEW bits
  PROVE  \A i \in 0 .. Bits :
           B!ClearRuns(bits)[i] =
             IF i = 0 THEN 0
             ELSE IF BasePage + i - 1 \in bits THEN 0 ELSE B!ClearRuns(bits)[i - 1] + 1
<1> DEFINE Step(before, i) == IF BasePage + i - 1 \in bits THEN 0 ELSE before + 1
           UpTo(g, n) == g = [i \in 0 .. n |-> IF i = 0 THEN 0 ELSE Step(g[i - 1], i)]
           Exists == {n \in Nat : \E g : UpTo(g, n)}
<1>1. Nat \subseteq Exists
  <2>1. 0 \in Exists
    <3> DEFINE g == [i \in 0 .. 0 |-> 0]
    <3>1. UpTo(g, 0) OBVIOUS
    <3> QED BY <3>1
  <2>2. ASSUME NEW n \in Nat, n \in Exists PROVE n + 1 \in Exists
    <3>1. PICK g : UpTo(g, n) BY <2>2
    <3> HIDE DEF Step
    <3> DEFINE h == [i \in 0 .. (n + 1) |-> IF i = n + 1 THEN Step(g[n], i) ELSE g[i]]
    <3>2. ASSUME NEW i \in 0 .. (n + 1)
          PROVE  h[i] = IF i = 0 THEN 0 ELSE Step(h[i - 1], i)
      <4>1. CASE i = n + 1 BY <4>1
      <4>2. CASE i # n + 1
        <5>1. i \in 0 .. n BY <4>2
        <5>2. h[i] = g[i] BY <4>2
        <5>3. g[i] = IF i = 0 THEN 0 ELSE Step(g[i - 1], i) BY <3>1, <5>1
        <5>4. i # 0 => h[i - 1] = g[i - 1] BY <5>1
        <5> QED BY <5>2, <5>3, <5>4
      <4> QED BY <4>1, <4>2
    <3>3. UpTo(h, n + 1) BY <3>2
    <3> HIDE DEF h, UpTo
    <3> QED BY <3>3
  <2> HIDE DEF Exists
  <2> QED BY <2>1, <2>2, SetInduction
<1>2. PICK g : UpTo(g, Bits)
  BY <1>1, Sizes
<1> DEFINE found == CHOOSE f : UpTo(f, Bits)
<1>3. UpTo(found, Bits) BY <1>2
<1>4. B!ClearRuns(bits) = found
  BY DEF B!ClearRuns, Bits
<1> HIDE DEF found
<1> QED BY <1>3, <1>4

(* What bits_already_find is after i iterations: the length of the longest *)
(* run of clear bits that ends there, and one less at each step back.      *)
RunAt(found, bits, i) ==
  /\ found[i] \in 0 .. i
  /\ \A k \in 0 .. found[i] : found[i - k] = found[i] - k
  /\ \A k \in 0 .. (found[i] - 1) : BasePage + i - 1 - k \notin bits
  /\ found[i] = i \/ BasePage + i - 1 - found[i] \in bits

LEMMA RunsCounted ==
  ASSUME NEW bits, NEW i \in 0 .. Bits
  PROVE  RunAt(B!ClearRuns(bits), bits, i)
<1> DEFINE found == B!ClearRuns(bits)
           Good == {n \in Nat : n <= Bits => RunAt(found, bits, n)}
<1>1. 0 \in Good
  <2>1. found[0] = 0 BY RunsUnfold, Sizes
  <2> HIDE DEF found
  <2> QED BY <2>1 DEF RunAt
<1>2. ASSUME NEW n \in Nat, n \in Good PROVE n + 1 \in Good
  <2> SUFFICES ASSUME n + 1 <= Bits PROVE RunAt(found, bits, n + 1)
    OBVIOUS
  <2>1. RunAt(found, bits, n) BY <1>2, Sizes
  <2>2. n + 1 \in 0 .. Bits BY Sizes
  <2>3. found[n + 1] = IF BasePage + n \in bits THEN 0 ELSE found[n] + 1
    <3>1. found[n + 1] = IF BasePage + (n + 1) - 1 \in bits THEN 0 ELSE found[(n + 1) - 1] + 1
      BY <2>2, RunsUnfold
    <3> HIDE DEF found
    <3>2. BasePage + (n + 1) - 1 = BasePage + n /\ (n + 1) - 1 = n BY Sizes
    <3> QED BY <3>1, <3>2
  <2> HIDE DEF found
  <2>4. CASE BasePage + n \in bits
    <3>1. found[n + 1] = 0 BY <2>3, <2>4
    <3>2. BasePage + (n + 1) - 1 - 0 = BasePage + n BY Sizes
    <3> QED BY <3>1, <3>2, <2>4 DEF RunAt
  <2>5. CASE BasePage + n \notin bits
    <3>1. found[n + 1] = found[n] + 1 /\ found[n] \in 0 .. n
      BY <2>1, <2>3, <2>5 DEF RunAt
    <3>2. ASSUME NEW k \in 0 .. found[n + 1] PROVE found[n + 1 - k] = found[n + 1] - k
      <4>1. CASE k = 0 BY <4>1, <3>1
      <4>2. CASE k # 0
        <5>1. k - 1 \in 0 .. found[n] BY <3>1, <4>2
        <5>2. found[n - (k - 1)] = found[n] - (k - 1) BY <5>1, <2>1 DEF RunAt
        <5>3. n - (k - 1) = n + 1 - k BY <3>1
        <5> QED BY <3>1, <5>2, <5>3
      <4> QED BY <4>1, <4>2
    <3>3. ASSUME NEW k \in 0 .. (found[n + 1] - 1) PROVE BasePage + (n + 1) - 1 - k \notin bits
      <4>1. CASE k = 0
        <5>1. BasePage + (n + 1) - 1 - k = BasePage + n BY <4>1, Sizes
        <5> QED BY <5>1, <2>5
      <4>2. CASE k # 0
        <5>1. k - 1 \in 0 .. (found[n] - 1) BY <3>1, <4>2
        <5>2. BasePage + n - 1 - (k - 1) \notin bits BY <5>1, <2>1 DEF RunAt
        <5>3. BasePage + n - 1 - (k - 1) = BasePage + (n + 1) - 1 - k BY <3>1, Sizes
        <5> QED BY <5>2, <5>3
      <4> QED BY <4>1, <4>2
    <3>4. found[n + 1] = n + 1 \/ BasePage + (n + 1) - 1 - found[n + 1] \in bits
      <4>1. found[n] = n \/ BasePage + n - 1 - found[n] \in bits BY <2>1 DEF RunAt
      <4>2. BasePage + n - 1 - found[n] = BasePage + (n + 1) - 1 - found[n + 1]
        BY <3>1, Sizes
      <4>3. found[n] = n => found[n + 1] = n + 1 BY <3>1
      <4> QED BY <4>1, <4>2, <4>3
    <3>5. found[n + 1] \in 0 .. (n + 1) BY <3>1
    <3> QED BY <3>2, <3>3, <3>4, <3>5 DEF RunAt
  <2> QED BY <2>4, <2>5
<1>3. Nat \subseteq Good
  <2> HIDE DEF Good
  <2> QED BY <1>1, <1>2, SetInduction
<1> QED BY <1>3, Sizes

(* Where a run of count clear bits is, the loop stops at its end or before. *)
LEMMA EndReached ==
  ASSUME NEW bits, NEW count \in Nat \ {0}, NEW s \in B!Fits(bits, count)
  PROVE  \E j \in B!Ends(bits, count) : BasePage + j - count <= s
<1> DEFINE found == B!ClearRuns(bits)
           i == s - BasePage + count
<1>1. /\ s \in BasePage .. (KernelPages - 1)
      /\ \A k \in s .. (s + count - 1) : k < KernelPages /\ k \notin bits
  BY Sizes DEF B!Fits, B!Run
<1>2. s + count - 1 \in s .. (s + count - 1) BY <1>1, Sizes
<1>3. i \in 1 .. Bits /\ i >= count BY <1>1, <1>2, Sizes
<1>4. RunAt(found, bits, i) BY <1>3, RunsCounted
<1> HIDE DEF found
<1>5. found[i] >= count
  <2> SUFFICES ASSUME found[i] < count PROVE FALSE BY <1>3, <1>4 DEF RunAt
  <2>1. found[i] \in Nat /\ found[i] # i BY <1>3, <1>4 DEF RunAt
  <2>2. BasePage + i - 1 - found[i] \in bits BY <2>1, <1>4 DEF RunAt
  <2>3. BasePage + i - 1 - found[i] \in s .. (s + count - 1) BY <2>1, <1>1, Sizes
  <2> QED BY <2>2, <2>3, <1>1
<1> DEFINE k == found[i] - count
<1>6. k \in 0 .. found[i] /\ found[i] \in 0 .. i BY <1>3, <1>4, <1>5 DEF RunAt
<1>7. found[i - k] = found[i] - k BY <1>4, <1>6 DEF RunAt
<1>8. found[i - k] = count /\ i - k \in 1 .. Bits
  <2>1. found[i] - k = count BY <1>6
  <2>2. i - k >= count /\ i - k <= i BY <1>3, <1>6, Sizes
  <2> QED BY <1>3, <1>6, <1>7, <2>1, <2>2, Sizes
<1>9. i - k \in B!Ends(bits, count) BY <1>8 DEF B!Ends, found, Bits
<1>10. BasePage + (i - k) - count <= s BY <1>1, <1>3, <1>6, Sizes
<1> QED BY <1>9, <1>10

(* What bitmap_scan finds: the lowest run of clear bits that is long       *)
(* enough, and it sets exactly these; or none, and there is none.          *)
LEMMA ScanFinds ==
  ASSUME NEW bits, NEW count \in Nat \ {0}
  PROVE  LET first == B!BitmapScan(bits, count)
         IN  \/ /\ first = B!EOF /\ B!Fits(bits, count) = {}
                /\ B!ScanMarks(bits, count) = bits
             \/ /\ first # B!EOF /\ first \in B!Fits(bits, count)
                /\ \A s \in B!Fits(bits, count) : first <= s
                /\ B!ScanMarks(bits, count) = bits \cup B!Run(first, count)
<1> DEFINE ends == B!Ends(bits, count)
           first == B!BitmapScan(bits, count)
<1>1. CASE ends = {}
  <2>1. first = B!EOF /\ B!ScanMarks(bits, count) = bits
    BY <1>1 DEF B!BitmapScan, B!ScanMarks
  <2>2. B!Fits(bits, count) = {} BY <1>1, EndReached
  <2> QED BY <2>1, <2>2
<1>2. CASE ends # {}
  <2> DEFINE e == B!ScanEnd(bits, count)
  <2>1. e \in ends /\ \A j \in ends : e <= j
    <3>1. ends \subseteq Nat BY Sizes DEF B!Ends, Bits
    <3>2. \E x \in ends : \A y \in ends : x <= y BY <1>2, <3>1, LeastExists
    <3> QED BY <3>2 DEF B!ScanEnd
  <2>2. e \in 1 .. Bits /\ B!ClearRuns(bits)[e] = count
    BY <2>1 DEF B!Ends, Bits
  <2>3. /\ first = BasePage + e - count
        /\ B!ScanMarks(bits, count) = bits \cup {BasePage + e - 1 - k : k \in 0 .. (count - 1)}
    BY <1>2 DEF B!BitmapScan, B!ScanMarks
  <2> HIDE DEF ends, e, first
  <2>4. RunAt(B!ClearRuns(bits), bits, e) BY <2>2, RunsCounted
  <2>5. /\ count <= e
        /\ \A k \in 0 .. (count - 1) : BasePage + e - 1 - k \notin bits
    BY <2>2, <2>4 DEF RunAt
  <2>6. first \in BasePage .. (KernelPages - 1) /\ first # B!EOF
    BY <2>2, <2>3, <2>5, Sizes DEF B!EOF
  <2>7. ASSUME NEW p \in B!Run(first, count)
        PROVE  p \in B!Index /\ p \notin bits /\ \E k \in 0 .. (count - 1) : p = BasePage + e - 1 - k
    <3>1. BasePage + e - 1 - p \in 0 .. (count - 1) /\ p \in Int
      BY <2>2, <2>3, <2>5, Sizes DEF B!Run
    <3>2. p = BasePage + e - 1 - (BasePage + e - 1 - p) BY <3>1, <2>2, Sizes
    <3>3. p \notin bits BY <3>1, <3>2, <2>5
    <3>4. p \in B!Index BY <2>2, <2>3, <2>5, Sizes DEF B!Run
    <3> QED BY <3>1, <3>2, <3>3, <3>4
  <2>8. first \in B!Fits(bits, count) BY <2>6, <2>7, Sizes DEF B!Fits
  <2>9. ASSUME NEW k \in 0 .. (count - 1) PROVE BasePage + e - 1 - k \in B!Run(first, count)
    BY <2>2, <2>3, Sizes DEF B!Run
  <2>10. B!ScanMarks(bits, count) = bits \cup B!Run(first, count)
    BY <2>3, <2>7, <2>9
  <2>11. ASSUME NEW s \in B!Fits(bits, count) PROVE first <= s
    <3>1. PICK j \in ends : BasePage + j - count <= s BY EndReached DEF ends
    <3>2. e <= j /\ j \in Int BY <2>1, <3>1 DEF ends, B!Ends, Bits
    <3>3. s \in Int BY Sizes DEF B!Fits
    <3> QED BY <2>2, <2>3, <3>1, <3>2, <3>3, Sizes
  <2> QED BY <2>6, <2>8, <2>10, <2>11 DEF first
<1> QED BY <1>1, <1>2

(* bitmap_scan agrees with first fit on every bitmap.                      *)
LEMMA FirstFitFound ==
  ASSUME NEW bits, NEW count \in Nat \ {0}
  PROVE  B!BitmapScan(bits, count) = B!FirstFit(bits, count)
<1> DEFINE first == B!BitmapScan(bits, count)
           fits == B!Fits(bits, count)
<1>1. CASE fits = {} BY <1>1, ScanFinds DEF B!FirstFit
<1>2. CASE fits # {}
  <2>1. first \in fits /\ \A s \in fits : first <= s BY <1>2, ScanFinds
  <2>2. fits \subseteq Int BY Sizes DEF B!Fits
  <2> DEFINE other == CHOOSE s \in fits : \A r \in fits : s <= r
  <2>3. other \in fits /\ \A r \in fits : other <= r BY <2>1
  <2>4. B!FirstFit(bits, count) = other BY <1>2 DEF B!FirstFit
  <2> HIDE DEF first, fits, other
  <2>5. first = other BY <2>1, <2>2, <2>3
  <2> QED BY <2>4, <2>5 DEF first
<1> QED BY <1>1, <1>2

-----------------------------------------------------------------------------
(* The inductive invariant: what each stage leaves for the next, and then  *)
(* the two tables, each against what callers hold.                         *)
MInv ==
  /\ stage \in {"map", "paging", "run"}
  /\ frame \in [Frame -> 0 .. (RefWord - 1)]
  /\ owned \subseteq StartPage .. (KernelPages - 1)
  /\ held \subseteq KernelPages .. (TotalPages - 1)
  /\ stage # "run" => owned = {} /\ held = {}
  /\ stage = "map" => bitmap = {} /\ free_pages = TotalPages - BasePage
  /\ stage = "paging" => /\ free_pages = TotalPages - StartPage
                         /\ frame = [f \in Frame |-> InitiallyUsed(f)]
  /\ stage # "map" => /\ start_page = StartPage
                      /\ bitmap = (BasePage .. (StartPage - 1)) \cup owned
  /\ stage = "run" => /\ mapped = IdentityMapped
                      /\ \A f \in StartPage .. (KernelPages - 1) : frame[f] # 0
  /\ CountsMatchHeld

LEMMA HeldFinite ==
  ASSUME held \subseteq KernelPages .. (TotalPages - 1)
  PROVE  IsFiniteSet(held) /\ Cardinality(held) \in Nat
<1>1. IsFiniteSet(KernelPages .. (TotalPages - 1)) BY FS_Interval, Sizes
<1>2. IsFiniteSet(held) BY <1>1, FS_Subset
<1> QED BY <1>2, FS_CardinalityType

LEMMA InitMInv == MemoryInit => MInv
BY Sizes DEF MemoryInit, MInv, RefWord, CountsMatchHeld

(* The scan of the empty bitmap finds the first pages for the frame table. *)
LEMMA MapInitMInv == MInv /\ MemoryMapInit => MInv'
<1> SUFFICES ASSUME MInv, MemoryMapInit PROVE MInv'
  OBVIOUS
<1> DEFINE first == B!BitmapScan({}, MapPages)
<1>1. BasePage \in B!Fits({}, MapPages)
  BY Sizes, MemoryAssumption DEF B!Fits, B!Run
<1>2. /\ first \in B!Fits({}, MapPages) /\ first <= BasePage
      /\ B!ScanMarks({}, MapPages) = {} \cup B!Run(first, MapPages)
  BY <1>1, ScanFinds, Sizes
<1>3. first \in BasePage .. (KernelPages - 1) BY <1>2, Sizes DEF B!Fits
<1> HIDE DEF first
<1>4. first = BasePage BY <1>2, <1>3, Sizes
<1>5. B!ScanMarks({}, MapPages) = BasePage .. (StartPage - 1)
  BY <1>2, <1>4, Sizes DEF B!Run
<1>6. /\ stage = "map" /\ stage' = "paging" /\ start_page' = StartPage
      /\ free_pages' = TotalPages - StartPage
      /\ frame' = [f \in Frame |-> InitiallyUsed(f)]
      /\ bitmap' = BasePage .. (StartPage - 1)
      /\ owned' = {} /\ held' = {}
  BY <1>4, <1>5, Sizes DEF MemoryMapInit, MInv, first
<1> QED BY <1>6, Sizes DEF MInv, CountsMatchHeld, InitiallyUsed, RefWord

(* The identity map references every kernel page, and no frame above.      *)
LEMMA PagingInitMInv == MInv /\ PagingInit => MInv'
<1> SUFFICES ASSUME MInv, PagingInit PROVE MInv'
  OBVIOUS
<1>1. /\ stage = "paging" /\ stage' = "run" /\ start_page' = StartPage
      /\ free_pages' = TotalPages - StartPage
      /\ mapped' = IdentityMapped /\ owned' = {} /\ held' = {}
      /\ bitmap' = BasePage .. (StartPage - 1)
      /\ frame' = [f \in Frame |-> MapCount(f)]
  BY DEF PagingInit, MInv
<1>2. ASSUME NEW f \in Frame
      PROVE  /\ frame'[f] \in 0 .. (RefWord - 1)
             /\ f \in StartPage .. (KernelPages - 1) => frame'[f] # 0
             /\ f \in KernelPages .. (TotalPages - 1) => frame'[f] = 0
  <2>1. frame[f] = InitiallyUsed(f) BY DEF MInv, PagingInit
  <2>2. frame'[f] = IF f \in IdentityMapped THEN (InitiallyUsed(f) + 1) % 256 ELSE InitiallyUsed(f)
    BY <1>1, <2>1 DEF MapCount, RefWord
  <2>3. (0 + 1) % 256 = 1 /\ (1 + 1) % 256 = 2 OBVIOUS
  <2> QED BY <2>2, <2>3, Sizes DEF InitiallyUsed, IdentityMapped, RefWord, Frame
<1>3. Cardinality({}) = 0 BY FS_EmptySet
<1>4. CountsMatchHeld'
  <2>1. \A f \in KernelPages .. (TotalPages - 1) : frame'[f] = 0
    BY <1>2, Sizes DEF Frame
  <2> QED BY <1>1, <1>3, <2>1, Sizes DEF CountsMatchHeld
<1>5. \A f \in StartPage .. (KernelPages - 1) : frame'[f] # 0
  BY <1>2, Sizes DEF Frame
<1>6. frame' \in [Frame -> 0 .. (RefWord - 1)] BY <1>1, <1>2
<1> QED BY <1>1, <1>4, <1>5, <1>6 DEF MInv

(* get_page takes a frame that nobody holds, from above the identity map.  *)
LEMMA GetPageTakes ==
  ASSUME MInv, GetPage
  PROVE  \/ UNCHANGED <<frame, free_pages, held>>
         \/ \E f \in (KernelPages .. (TotalPages - 1)) \ held :
              /\ frame' = [frame EXCEPT ![f] = 1]
              /\ free_pages' = free_pages - 1
              /\ held' = held \cup {f}
<1>1. CASE Unreferenced = {} BY <1>1 DEF GetPage
<1>2. CASE Unreferenced # {}
  <2> DEFINE f == FirstUnreferenced
  <2>1. f \in Unreferenced
    <3>1. Unreferenced \subseteq Nat BY Sizes DEF Unreferenced, Frame
    <3>2. \E x \in Unreferenced : \A y \in Unreferenced : x <= y
      BY <1>2, <3>1, LeastExists
    <3> QED BY <3>2 DEF FirstUnreferenced
  <2>2. /\ frame' = [frame EXCEPT ![f] = 1] /\ free_pages' = free_pages - 1
        /\ held' = held \cup {f}
    BY <1>2 DEF GetPage
  <2> HIDE DEF f
  <2>3. f \in Frame /\ StartPage <= f /\ frame[f] = 0
    BY <2>1 DEF Unreferenced, MInv, GetPage
  <2>4. f \in KernelPages .. (TotalPages - 1)
    BY <2>3, Sizes DEF MInv, GetPage, Frame
  <2>5. f \notin held BY <2>3, <2>4 DEF MInv, GetPage, CountsMatchHeld
  <2> QED BY <2>2, <2>4, <2>5
<1> QED BY <1>1, <1>2

LEMMA GetPageMInv == MInv /\ GetPage => MInv'
<1> SUFFICES ASSUME MInv, GetPage PROVE MInv'
  OBVIOUS
<1>1. /\ stage = "run"
      /\ UNCHANGED <<stage, start_page, bitmap, mapped, owned>>
  BY DEF GetPage
<1>2. CASE UNCHANGED <<frame, free_pages, held>>
  BY <1>1, <1>2 DEF MInv, CountsMatchHeld
<1>3. ASSUME NEW f \in (KernelPages .. (TotalPages - 1)) \ held,
             frame' = [frame EXCEPT ![f] = 1], free_pages' = free_pages - 1,
             held' = held \cup {f}
      PROVE  MInv'
  <2>1. f \in Frame BY Sizes DEF Frame
  <2>2. Cardinality(held') = Cardinality(held) + 1 /\ Cardinality(held) \in Nat
    BY <1>3, HeldFinite, FS_AddElement DEF MInv
  <2>3. CountsMatchHeld'
    <3>1. \A g \in KernelPages .. (TotalPages - 1) :
            frame'[g] = IF g \in held' THEN 1 ELSE 0
      BY <1>1, <1>3, Sizes, SMTT(30) DEF MInv, CountsMatchHeld, Frame
    <3>2. free_pages = TotalPages - KernelPages - Cardinality(held)
                         + (KernelPages - StartPage)
      BY <1>1 DEF MInv, CountsMatchHeld
    <3> QED BY <1>3, <2>2, <3>1, <3>2, Sizes, SMTT(30) DEF CountsMatchHeld
  <2>4. frame' \in [Frame -> 0 .. (RefWord - 1)] BY <1>3, <2>1 DEF MInv, RefWord
  <2>5. \A g \in StartPage .. (KernelPages - 1) : frame'[g] # 0
    BY <1>1, <1>3, Sizes DEF MInv, Frame
  <2> QED BY <1>1, <1>3, <2>3, <2>4, <2>5 DEF MInv
<1> QED BY <1>2, <1>3, GetPageTakes

(* put_page, of a frame that is held, frees it.                            *)
LEMMA PutPageGives ==
  ASSUME MInv, NEW f \in held, PutPage(f)
  PROVE  /\ f \in KernelPages .. (TotalPages - 1) /\ f \in Frame
         /\ frame' = [frame EXCEPT ![f] = 0]
         /\ free_pages' = free_pages + 1
         /\ held' = held \ {f}
<1>1. stage = "run" /\ f \in KernelPages .. (TotalPages - 1) BY DEF MInv, PutPage
<1>2. frame[f] = 1 /\ start_page = StartPage BY <1>1 DEF MInv, CountsMatchHeld
<1>3. ~ (f < start_page \/ f >= TotalPages \/ frame[f] = 0)
  BY <1>1, <1>2, Sizes
<1>4. f \in Frame BY <1>1, Sizes DEF Frame
<1> QED BY <1>1, <1>2, <1>3, <1>4 DEF PutPage, FreedBy

LEMMA PutPageMInv == ASSUME NEW f \in held PROVE MInv /\ PutPage(f) => MInv'
<1> SUFFICES ASSUME MInv, PutPage(f) PROVE MInv'
  OBVIOUS
<1>1. /\ stage = "run"
      /\ UNCHANGED <<stage, start_page, bitmap, mapped, owned>>
  BY DEF PutPage
<1>2. /\ f \in KernelPages .. (TotalPages - 1) /\ f \in Frame
      /\ frame' = [frame EXCEPT ![f] = 0] /\ free_pages' = free_pages + 1
      /\ held' = held \ {f}
  BY PutPageGives
<1>3. Cardinality(held') = Cardinality(held) - 1 /\ Cardinality(held) \in Nat
  BY <1>2, HeldFinite, FS_RemoveElement DEF MInv
<1>4. CountsMatchHeld'
  <2>1. \A g \in KernelPages .. (TotalPages - 1) :
          frame'[g] = IF g \in held' THEN 1 ELSE 0
    BY <1>1, <1>2, Sizes, SMTT(30) DEF MInv, CountsMatchHeld, Frame
  <2>2. free_pages = TotalPages - KernelPages - Cardinality(held)
                       + (KernelPages - StartPage)
    BY <1>1 DEF MInv, CountsMatchHeld
  <2> QED BY <1>2, <1>3, <2>1, <2>2, Sizes, SMTT(30) DEF CountsMatchHeld
<1>5. frame' \in [Frame -> 0 .. (RefWord - 1)] BY <1>2 DEF MInv, RefWord
<1>6. \A g \in StartPage .. (KernelPages - 1) : frame'[g] # 0
  BY <1>1, <1>2, Sizes DEF MInv, Frame
<1> QED BY <1>1, <1>2, <1>4, <1>5, <1>6 DEF MInv

(* alloc_kernel_page takes a run of pages that nobody holds, from above    *)
(* the frame table and inside the identity map.                            *)
LEMMA AllocTakes ==
  ASSUME MInv, NEW count \in Counts, AllocKernelPage(count)
  PROVE  \/ UNCHANGED <<bitmap, owned>>
         \/ \E first \in StartPage .. (KernelPages - 1) :
              /\ B!Run(first, count) \subseteq (StartPage .. (KernelPages - 1)) \ owned
              /\ bitmap' = bitmap \cup B!Run(first, count)
              /\ owned' = owned \cup B!Run(first, count)
<1> DEFINE first == B!BitmapScan(bitmap, count)
<1>1. CASE first = B!EOF BY <1>1 DEF AllocKernelPage
<1>2. CASE first # B!EOF
  <2>1. /\ bitmap' = B!ScanMarks(bitmap, count)
        /\ owned' = owned \cup B!Run(first, count)
    BY <1>2 DEF AllocKernelPage
  <2>2. first \in B!Fits(bitmap, count)
        /\ B!ScanMarks(bitmap, count) = bitmap \cup B!Run(first, count)
    BY <1>2, ScanFinds, RequestsAssumption
  <2>3. bitmap = (BasePage .. (StartPage - 1)) \cup owned
    BY DEF MInv, AllocKernelPage
  <2> HIDE DEF first
  <2>4. B!Run(first, count) \subseteq B!Index \ bitmap /\ first \in B!Index
    BY <2>2 DEF B!Fits
  <2>5. (BasePage .. (KernelPages - 1)) \ bitmap \subseteq (StartPage .. (KernelPages - 1)) \ owned
    BY <2>3, Sizes
  <2>6. first \in B!Run(first, count) BY <2>4, Sizes, RequestsAssumption DEF B!Run
  <2> QED BY <2>1, <2>2, <2>4, <2>5, <2>6, Sizes
<1> QED BY <1>1, <1>2

LEMMA AllocMInv == ASSUME NEW count \in Counts PROVE MInv /\ AllocKernelPage(count) => MInv'
<1> SUFFICES ASSUME MInv, AllocKernelPage(count) PROVE MInv'
  OBVIOUS
<1>1. /\ stage = "run"
      /\ UNCHANGED <<stage, frame, free_pages, start_page, mapped, held>>
  BY DEF AllocKernelPage
<1>2. /\ owned' \subseteq StartPage .. (KernelPages - 1)
      /\ bitmap' = (BasePage .. (StartPage - 1)) \cup owned'
  BY <1>1, AllocTakes DEF MInv
<1> QED BY <1>1, <1>2 DEF MInv, CountsMatchHeld

LEMMA FreeMInv ==
  ASSUME NEW first \in owned, NEW count \in Counts, B!Run(first, count) \subseteq owned
  PROVE  MInv /\ FreeKernelPage(first, count) => MInv'
<1> SUFFICES ASSUME MInv, FreeKernelPage(first, count) PROVE MInv'
  OBVIOUS
<1>1. /\ stage = "run"
      /\ UNCHANGED <<stage, frame, free_pages, start_page, mapped, held>>
  BY DEF FreeKernelPage
<1>2. /\ bitmap = (BasePage .. (StartPage - 1)) \cup owned
      /\ owned \subseteq StartPage .. (KernelPages - 1)
  BY <1>1 DEF MInv
<1>3. bitmap' = bitmap \ B!Run(first, count) /\ owned' = owned \ B!Run(first, count)
  BY <1>2 DEF FreeKernelPage, ResetPage
<1>4. (BasePage .. (StartPage - 1)) \cap owned = {} BY <1>2, Sizes
<1>5. bitmap' = (BasePage .. (StartPage - 1)) \cup owned' BY <1>2, <1>3, <1>4
<1> QED BY <1>1, <1>2, <1>3, <1>5 DEF MInv, CountsMatchHeld

(* The invariant holds of every step, and so for ever.                     *)
LEMMA StepMInv == MInv /\ [MemoryNext]_memoryVars => MInv'
<1> SUFFICES ASSUME MInv, [MemoryNext]_memoryVars PROVE MInv'
  OBVIOUS
<1>1. CASE UNCHANGED memoryVars BY <1>1 DEF memoryVars, MInv, CountsMatchHeld
<1>2. CASE MemoryNext
  BY <1>2, MapInitMInv, PagingInitMInv, GetPageMInv, PutPageMInv, AllocMInv, FreeMInv DEF MemoryNext
<1> QED BY <1>1, <1>2

(* The inductive invariant of the two allocators and their tables.         *)
THEOREM InvariantHolds == MemorySpec => []MInv
BY InitMInv, StepMInv, PTL DEF MemorySpec

(* The counters agree with what callers hold, for every size of memory and *)
(* of its tables, whatever was taken and given back.                       *)
THEOREM CountsAgree == MemorySpec => []CountsMatchHeld
<1>1. MInv => CountsMatchHeld BY DEF MInv
<1> QED BY <1>1, InvariantHolds, PTL

(* The bitmap is the frame table and what callers hold, and all of it is   *)
(* mapped.                                                                 *)
THEOREM BitmapAgrees == MemorySpec => []BitmapMatchesOwners
<1>1. ASSUME MInv PROVE BitmapMatchesOwners
  <2> SUFFICES ASSUME stage = "run" PROVE BitmapMatchesOwners
    BY DEF BitmapMatchesOwners
  <2>1. /\ bitmap = (BasePage .. (StartPage - 1)) \cup owned
        /\ owned \subseteq StartPage .. (KernelPages - 1)
        /\ mapped = 1 .. (KernelPages - 1)
    BY <1>1 DEF MInv, IdentityMapped
  <2>2. /\ BasePage .. (StartPage - 1) \subseteq 1 .. (KernelPages - 1)
        /\ StartPage .. (KernelPages - 1) \subseteq 1 .. (KernelPages - 1)
    BY Sizes
  <2> QED BY <2>1, <2>2 DEF BitmapMatchesOwners
<1> QED BY <1>1, InvariantHolds, PTL

(* bitmap_scan is first fit, on the bitmaps that arise as on all others.   *)
THEOREM ScanFindsFirstFit == MemorySpec => []ScanIsFirstFit
<1>1. ScanIsFirstFit BY FirstFitFound, RequestsAssumption DEF ScanIsFirstFit
<1> QED BY <1>1, PTL

-----------------------------------------------------------------------------
(* The allocators implement PageAllocator.                                 *)

LEMMA KernelStep ==
  MInv /\ [MemoryNext]_memoryVars =>
    [KernelAllocator!Alloc \/ KernelAllocator!Free]_owned
<1> SUFFICES ASSUME MInv, MemoryNext, owned' # owned
             PROVE  KernelAllocator!Alloc \/ KernelAllocator!Free
  BY DEF memoryVars
<1>1. \/ \E count \in Counts : AllocKernelPage(count)
      \/ \E first \in owned, count \in Counts :
           B!Run(first, count) \subseteq owned /\ FreeKernelPage(first, count)
  BY DEF MemoryNext, MemoryMapInit, PagingInit, GetPage, PutPage
<1>2. ASSUME NEW count \in Counts, AllocKernelPage(count) PROVE KernelAllocator!Alloc
  BY <1>2, AllocTakes DEF KernelAllocator!Alloc, KernelAllocator!Run, B!Run
<1>3. ASSUME NEW first \in owned, NEW count \in Counts,
             B!Run(first, count) \subseteq owned, FreeKernelPage(first, count)
      PROVE  KernelAllocator!Free
  <2>1. first \in StartPage .. (KernelPages - 1) BY DEF MInv
  <2>2. owned' = owned \ B!Run(first, count) BY <1>3 DEF FreeKernelPage
  <2> QED BY <1>3, <2>1, <2>2 DEF KernelAllocator!Free, KernelAllocator!Run, B!Run
<1> QED BY <1>1, <1>2, <1>3

(* Kernel pages: no page is handed out twice, none outside the identity    *)
(* map, for every size of memory and every sequence of requests.           *)
THEOREM KernelPagesRefine == MemorySpec => KernelPagesImplement
<1>1. MemoryInit => KernelAllocator!Init BY DEF MemoryInit, KernelAllocator!Init
<1>2. MemorySpec => [][KernelAllocator!Alloc \/ KernelAllocator!Free]_owned
  BY KernelStep, InvariantHolds, PTL DEF MemorySpec
<1> QED BY <1>1, <1>2, PTL DEF MemorySpec, KernelPagesImplement, KernelAllocator!Spec

LEMMA FrameStep ==
  MInv /\ [MemoryNext]_memoryVars => [FrameAllocator!Alloc \/ FrameAllocator!Free]_held
<1> SUFFICES ASSUME MInv, MemoryNext, held' # held
             PROVE  FrameAllocator!Alloc \/ FrameAllocator!Free
  BY DEF memoryVars
<1>1. GetPage \/ \E f \in held : PutPage(f)
  BY DEF MemoryNext, MemoryMapInit, PagingInit, AllocKernelPage, FreeKernelPage
<1>2. ASSUME NEW f \in KernelPages .. (TotalPages - 1) PROVE FrameAllocator!Run(f, 1) = {f}
  BY Sizes DEF FrameAllocator!Run
<1>3. CASE GetPage
  <2>1. PICK f \in (KernelPages .. (TotalPages - 1)) \ held : held' = held \cup {f}
    BY <1>3, GetPageTakes
  <2> QED BY <1>2, <2>1 DEF FrameAllocator!Alloc
<1>4. ASSUME NEW f \in held, PutPage(f) PROVE FrameAllocator!Free
  <2>1. f \in KernelPages .. (TotalPages - 1) /\ held' = held \ {f}
    BY <1>4, PutPageGives
  <2> QED BY <1>2, <2>1 DEF FrameAllocator!Free
<1> QED BY <1>1, <1>3, <1>4

(* Frames: none is handed out twice, and none that is also a kernel page.  *)
THEOREM FramesRefine == MemorySpec => FramesImplement
<1>1. MemoryInit => FrameAllocator!Init BY DEF MemoryInit, FrameAllocator!Init
<1>2. MemorySpec => [][FrameAllocator!Alloc \/ FrameAllocator!Free]_held
  BY FrameStep, InvariantHolds, PTL DEF MemorySpec
<1> QED BY <1>1, <1>2, PTL DEF MemorySpec, FramesImplement, FrameAllocator!Spec

=============================================================================
