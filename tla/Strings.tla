------------------------------- MODULE Strings -------------------------------
(***************************************************************************)
(* l_string.c, one call on a small memory, one iteration of its loop a     *)
(* step.  The first argument points to address 0, the second to Second.    *)
(* Callers pass areas that do not overlap, strings that end, and a first   *)
(* area with room for what is written to it.                               *)
(***************************************************************************)
EXTENDS Integers

CONSTANTS Chars,  \* bound: characters other than the terminator
          Second, \* bound: where the second area begins
          Bytes   \* bound: the size of the memory

Eos == 0
Byte == {Eos} \cup Chars
Address == 0 .. (Bytes - 1)
Undefined == -2   \* what a function that ends without a return leaves in eax
NullPtr == -1

ASSUME AreasAssumption ==
  Chars \subseteq Int \ {0} /\ Bytes \in Nat /\ Second \in 1 .. (Bytes - 1)

VARIABLES mem,      \* the memory
          function, \* the function called, "none" before, "done" after
          called,   \* ghost: the function, its arguments and the memory then
          p, q, n,  \* the two pointers and the counter of the loop
          result    \* eax

stringVars == <<mem, function, called, p, q, n, result>>

StringInit ==
  /\ mem = [a \in Address |-> Eos] /\ function = "none"
  /\ called = [function |-> "none", ch |-> 0, count |-> 0, mem |-> mem]
  /\ p = 0 /\ q = Second /\ n = 0 /\ result = Undefined

(* What the standard functions of the same names look at.                  *)
Ends(m, a) == {b \in Address : b >= a /\ m[b] = Eos}
StringEnd(m, a) == CHOOSE b \in Ends(m, a) : \A c \in Ends(m, a) : b <= c
StringLength(m, a) == StringEnd(m, a) - a

Terminated == {"string_copy", "string_n_copy", "strint_cat", "string_compare",
               "string_find_char_first", "string_find_char_last", "string_len"}
Counted == {"memory_set", "memory_copy", "memory_compare", "memory_find_char_first"}

(* The contract as it is documented: strings end before the next area      *)
(* does, what is copied or appended fits with its terminator, and          *)
(* string_n_copy, which writes before the area otherwise, is given room    *)
(* for a terminator.                                                       *)
Legal(f, m, count) ==
  /\ m[Bytes - 1] = Eos
  /\ f \in Terminated => StringEnd(m, 0) < Second
  /\ f = "string_copy" => StringLength(m, Second) < Second
  /\ f = "strint_cat" => StringLength(m, 0) + StringLength(m, Second) < Second
  /\ f = "string_n_copy" => 0 < count
  /\ f \in Counted => count < Second
  /\ f = "memory_copy" => count <= Bytes - Second

Call(f, m, ch, count) ==
  /\ Legal(f, m, count)
  /\ mem' = m /\ function' = f
  /\ called' = [function |-> f, ch |-> ch, count |-> count, mem |-> m]
  /\ UNCHANGED <<p, q, n, result>>

Return(value) == function' = "done" /\ result' = value
Loop(dp, dq) == p' = p + dp /\ q' = q + dq /\ n' = n + 1

(* The next iteration, or the return with a value.                         *)
Otherwise(stop, value, dp, dq) ==
  /\ IF stop THEN Return(value) ELSE UNCHANGED <<function, result>>
  /\ IF stop THEN UNCHANGED <<p, q, n>> ELSE Loop(dp, dq)
  /\ UNCHANGED called

-----------------------------------------------------------------------------
\* Mutant: the second store goes one byte further.
StoredTwiceFar(m) == [m EXCEPT ![p] = m[q], ![p + 2] = m[q]]

(* Each character is stored at the pointer, and again behind it.           *)
StoredTwice(m) == [m EXCEPT ![p] = m[q], ![p + 1] = m[q]]

StringCopy ==
  /\ function = "string_copy"
  /\ mem' = StoredTwice(mem)
  /\ Otherwise(mem[q] = Eos, 0, 1, 1)

StringNCopy ==
  /\ function = "string_n_copy"
  /\ IF n < called.count
     THEN mem' = [mem EXCEPT ![p] = mem[q]] /\ Otherwise(mem[q] = Eos, 0, 1, 1)
     ELSE mem' = [mem EXCEPT ![n - 1] = Eos] /\ Otherwise(TRUE, 0, 0, 0)

(* The loop to the end of the first string is p's start.                   *)
StrintCat ==
  /\ function = "strint_cat"
  /\ LET at == IF n = 0 THEN StringEnd(mem, 0) ELSE p
     IN  /\ mem' = [mem EXCEPT ![at] = mem[q]]
         /\ Otherwise(mem[q] = Eos, 0, at + 1 - p, 1)

Order(a, b) == IF a > b THEN 1 ELSE -1

StringCompare ==
  /\ function = "string_compare"
  /\ Otherwise(mem[p] # mem[q] \/ mem[p] = Eos,
               IF mem[p] = mem[q] THEN 0 ELSE Order(mem[p], mem[q]), 1, 1)
  /\ UNCHANGED mem

StringFindCharFirst ==
  /\ function = "string_find_char_first"
  /\ Otherwise(mem[p] \in {called.ch, Eos}, IF mem[p] = called.ch THEN p ELSE NullPtr, 1, 0)
  /\ UNCHANGED mem

(* q holds ans: the last address found, or where it began.                 *)
StringFindCharLast ==
  /\ function = "string_find_char_last"
  /\ LET ans == IF mem[p] = called.ch THEN p ELSE q
     IN  Otherwise(mem[p] = Eos, IF ans = Second THEN NullPtr ELSE ans, 1, ans - q)
  /\ UNCHANGED mem

\* Mutant: the terminator is counted.
LengthAtWith == p + 1

LengthAt == p

StringLen ==
  /\ function = "string_len"
  /\ Otherwise(mem[p] = Eos, LengthAt, 1, 0)
  /\ UNCHANGED mem

MemorySet ==
  /\ function = "memory_set"
  /\ mem' = IF n < called.count THEN [mem EXCEPT ![p] = called.ch] ELSE mem
  /\ Otherwise(n >= called.count, 0, 1, 0)

MemoryCopy ==
  /\ function = "memory_copy"
  /\ mem' = IF n < called.count THEN [mem EXCEPT ![p] = mem[q]] ELSE mem
  /\ Otherwise(n >= called.count, 0, 1, 1)

(* The counter is never counted up: only a difference or a terminator ends *)
(* the loop.                                                               *)
MemoryCompare ==
  /\ function = "memory_compare"
  /\ Otherwise(called.count = 0 \/ mem[p] # mem[q] \/ mem[p] = Eos,
               IF called.count = 0 \/ mem[p] = mem[q] THEN 0 ELSE Order(mem[p], mem[q]), 1, 1)
  /\ UNCHANGED mem

MemoryFindCharFirst ==
  /\ function = "memory_find_char_first"
  /\ IF n >= called.count THEN Otherwise(TRUE, Undefined, 0, 0)
     ELSE Otherwise(mem[p] \in {called.ch, Eos}, IF mem[p] = called.ch THEN p ELSE NullPtr, 1, 0)
  /\ UNCHANGED mem

(* The arguments that a function does not take are fixed.                  *)
CharsFor(f) ==
  IF f \in {"string_find_char_first", "string_find_char_last", "memory_set",
            "memory_find_char_first"} THEN Byte ELSE {Eos}
CountsFor(f) == IF f \in Counted \cup {"string_n_copy"} THEN 0 .. Second ELSE {0}

StringNext ==
  \/ /\ function = "none"
     /\ \E f \in Terminated \cup Counted, m \in [Address -> Byte] :
          \E ch \in CharsFor(f), count \in CountsFor(f) : Call(f, m, ch, count)
  \/ StringCopy \/ StringNCopy \/ StrintCat \/ StringCompare \/ StringFindCharFirst
  \/ StringFindCharLast \/ StringLen \/ MemorySet \/ MemoryCopy \/ MemoryCompare
  \/ MemoryFindCharFirst

StringSpec == StringInit /\ [][StringNext]_stringVars

-----------------------------------------------------------------------------
Given == called.mem
Count == called.count
Source == StringLength(Given, Second)

(* How many bytes from the first address on the documentation lets a call  *)
(* change.                                                                 *)
Room ==
  CASE called.function = "string_copy" -> Source + 1
    [] called.function \in {"string_n_copy", "memory_set", "memory_copy"} -> Count
    [] called.function = "strint_cat" -> StringLength(Given, 0) + Source + 1
    [] OTHER -> 0

(* string_copy stores its terminator once more, behind that room.          *)
Spill == IF called.function = "string_copy" THEN 1 ELSE 0

(* No loop of l_string.c changes a byte outside the room its caller gave   *)
(* it, whatever the lengths and however far the loop is, but string_copy:  *)
(* it changes the one byte behind its room and none other.                 *)
OnlyRoomWritten == \A a \in Address : a >= Room + Spill => mem[a] = Given[a]

\* length characters of the memory stand where the call found them at "from".
Copied(to, from, length) == \A i \in 0 .. (length - 1) : mem[to + i] = Given[from + i]

Found(bound) == {a \in 0 .. bound : Given[a] = called.ch}
Leftmost(s) == IF s = {} THEN NullPtr ELSE CHOOSE a \in s : \A b \in s : a <= b
Rightmost(s) == IF s = {} THEN NullPtr ELSE CHOOSE a \in s : \A b \in s : a >= b

\* The sign of the first difference of two strings, 0 if they are equal.
Comparison ==
  LET d == CHOOSE i \in 0 .. (Bytes - 1 - Second) :
             /\ Given[i] # Given[Second + i] \/ Given[i] = Eos
             /\ \A j \in 0 .. (i - 1) : Given[j] = Given[Second + j] /\ Given[j] # Eos
  IN  IF Given[d] = Given[Second + d] THEN 0 ELSE Order(Given[d], Given[Second + d])

Differing == {i \in 0 .. (Count - 1) : Given[i] # Given[Second + i]}
EndWithin == \E e \in 0 .. (Count - 1) : Given[e] = Eos

\* Up to the first terminator.
FirstString(s) == {a \in s : \A b \in 0 .. (a - 1) : Given[b] # Eos}

(* What memory_compare and memory_find_char_first make of bytes that       *)
(* decide within count, and before a terminator does.                      *)
ComparedInCount ==
  /\ Count = 0 => result = 0
  /\ EndWithin /\ Differing = {} => result = 0
  /\ \A d \in Differing :
       (\A j \in 0 .. (d - 1) : Given[j] = Given[Second + j] /\ Given[j] # Eos) =>
         result = Order(Given[d], Given[Second + d])

FoundInCount ==
  LET first == FirstString(Found(Count - 1))
  IN  /\ first # {} => result = Leftmost(first)
      /\ EndWithin /\ Found(Count - 1) = {} => result = NullPtr

(* Every call ends with what is documented of it, a copy cut short by      *)
(* count with a terminator besides.  memory_compare and                    *)
(* memory_find_char_first break their promises (StringsAsDocumented); of   *)
(* them this is about the calls that a string within count decides.        *)
ResultsMatch ==
  function = "done" =>
    CASE called.function = "string_copy" -> Copied(0, Second, Source + 1)
      [] called.function = "string_n_copy" ->
           IF Source < Count THEN Copied(0, Second, Source + 1)
           ELSE Copied(0, Second, Count - 1) /\ mem[Count - 1] = Eos
      [] called.function = "strint_cat" ->
           Copied(0, 0, StringLength(Given, 0)) /\ Copied(StringLength(Given, 0), Second, Source + 1)
      [] called.function = "memory_set" -> \A a \in 0 .. (Count - 1) : mem[a] = called.ch
      [] called.function = "memory_copy" -> Copied(0, Second, Count)
      [] called.function = "string_compare" -> result = Comparison
      [] called.function = "memory_compare" -> ComparedInCount
      [] called.function = "string_len" -> result = StringLength(Given, 0)
      [] called.function = "string_find_char_first" -> result = Leftmost(Found(StringEnd(Given, 0)))
      [] called.function = "string_find_char_last" -> result = Rightmost(Found(StringEnd(Given, 0)))
      [] called.function = "memory_find_char_first" -> FoundInCount

(* What three doc comments of l_string.c say: string_copy copies the       *)
(* string and its terminator (4), memory_compare compares the first count  *)
(* bytes (179), and memory_find_char_first gives a null pointer if count   *)
(* bytes, of which there are some, do not hold the character (207).        *)
StringsAsDocumented ==
  /\ \A a \in Address : a >= Room => mem[a] = Given[a]
  /\ function = "done" /\ called.function = "memory_compare" =>
       result = LET d == Leftmost(Differing)
                IN  IF Differing = {} THEN 0 ELSE Order(Given[d], Given[Second + d])
  /\ function = "done" /\ called.function = "memory_find_char_first" /\ Count > 0 =>
       result = Leftmost(Found(Count - 1))
=============================================================================
