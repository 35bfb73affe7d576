------------------------------- MODULE Bitmap -------------------------------
(***************************************************************************)
(* The bitmap of l_bitmap.c: the set of the indices whose bit is 1.  An    *)
(* index is global: it counts from offset, and the buffer has 8 * length   *)
(* bits.                                                                   *)
(***************************************************************************)
EXTENDS Integers

CONSTANTS Offset, \* bitmap_t field offset
          Bits    \* 8 * length, how many bits the buffer has

Index == Offset .. (Offset + Bits - 1)
EOF == 0 - 1

\* Mutant: a bit that is set does not end the run of clear bits.
ClearRunsKept(bits) ==
  LET found[i \in 0 .. Bits] ==
        IF i = 0 THEN 0
        ELSE IF Offset + i - 1 \in bits THEN found[i - 1] ELSE found[i - 1] + 1
  IN  found

(* bits_already_find after i iterations of the loop of bitmap_scan: the    *)
(* length of the run of clear bits that ends there.                        *)
ClearRuns(bits) ==
  LET found[i \in 0 .. Bits] ==
        IF i = 0 THEN 0
        ELSE IF Offset + i - 1 \in bits THEN 0 ELSE found[i - 1] + 1
  IN  found

(* Where the loop of bitmap_scan stops: the first run that is long enough. *)
Ends(bits, count) == LET found == ClearRuns(bits) IN {i \in 1 .. Bits : found[i] = count}

ScanEnd(bits, count) ==
  CHOOSE i \in Ends(bits, count) : \A j \in Ends(bits, count) : i <= j

(* The index bitmap_scan returns. *)
BitmapScan(bits, count) ==
  IF Ends(bits, count) = {} THEN EOF ELSE Offset + ScanEnd(bits, count) - count

\* Mutant: one bit too few is set.
ScanMarksShort(bits, count) ==
  bits \cup {Offset + ScanEnd(bits, count) - 1 - k : k \in 0 .. (count - 2)}

(* The bits it leaves set: it walks back from where the loop stopped.      *)
ScanMarks(bits, count) ==
  IF Ends(bits, count) = {} THEN bits
  ELSE bits \cup {Offset + ScanEnd(bits, count) - 1 - k : k \in 0 .. (count - 1)}

Run(first, count) == first .. (first + count - 1)

(* First fit: what bitmap_scan promises. *)
Fits(bits, count) == {s \in Index : Run(s, count) \subseteq Index \ bits}

FirstFit(bits, count) ==
  IF Fits(bits, count) = {} THEN EOF
  ELSE CHOOSE s \in Fits(bits, count) : \A r \in Fits(bits, count) : s <= r

=============================================================================
