------------------------------- MODULE Vsprintf -------------------------------
(***************************************************************************)
(* vsprintf: one iteration of its loop over the format a step, a format    *)
(* being a sequence of characters.  An argument is an integer, or for %s a *)
(* sequence of characters.                                                 *)
(***************************************************************************)
EXTENDS Integers, SequencesExt

CONSTANTS Flags,       \* bound: the flags tried
          Widths,      \* bound: the field widths tried, as characters
          Precisions,  \* bound: the precisions tried, with their point
          Qualifiers,  \* bound: the qualifiers tried
          Conversions, \* bound: the conversions tried
          Numbers,     \* bound: the numbers printed
          Texts,       \* bound: the strings printed
          Word         \* bound: 2^w for a word of w bits, 2^32 in the code

Space == "SP"  \* the blank character
FlagChars == {"-", "+", Space, "#", "0"}
DigitChars == <<"0", "1", "2", "3", "4", "5", "6", "7", "8", "9", "A", "B", "C", "D", "E", "F">>
Decimal == {DigitChars[i] : i \in 1 .. 10}

ASSUME WordAssumption == Word \in Nat /\ Word > 9

\* The parts of the directives tried; a leading 0 of a width is a flag.
ASSUME DirectivesAssumption ==
  /\ Flags \subseteq Seq(FlagChars)
  /\ \A w \in Widths : w = <<>> \/ w = <<"*">> \/ (w \in Seq(Decimal) /\ Head(w) # "0")
  /\ \A p \in Precisions :
       \/ p = <<>> \/ p = <<".", "*">>
       \/ p \in Seq(Decimal \cup {"."}) /\ Head(p) = "." /\ Tail(p) \in Seq(Decimal)
  /\ Qualifiers \subseteq {<<>>, <<"h">>, <<"l">>, <<"L">>}
  /\ Conversions \subseteq {"c", "s", "d", "u", "x", "%"}
ASSUME ArgumentsAssumption == Numbers \subseteq Int /\ Texts \subseteq Seq(STRING)

VARIABLES fmt,    \* the format, empty before the call
          at,     \* how far the loop is in it
          args,   \* the arguments not yet fetched
          out,    \* what has been written to the buffer
          length, \* what vsprintf returned, -1 while it runs
          given,  \* ghost: the arguments of the call
          fields  \* ghost: per argument fetched, its directive and its place in out

formatVars == <<fmt, at, args, out, length, given, fields>>

FormatInit ==
  fmt = <<>> /\ at = 1 /\ args = <<>> /\ out = <<>> /\ length = -1 /\ given = <<>> /\ fields = <<>>

Running == fmt # <<>> /\ length = -1
Nul == "NUL"
Digit(c) == (CHOOSE i \in 1 .. 16 : DigitChars[i] = c) - 1

\* The first position from i on whose character is not in the set.
SkipAll(i, set) == CHOOSE j \in i .. Len(fmt) :
  fmt[j] \notin set /\ \A k \in i .. (j - 1) : fmt[k] \in set

Times(c, k) == [i \in 1 .. k |-> c]
AtLeast0(k) == IF k > 0 THEN k ELSE 0
Greater(a, b) == IF a > b THEN a ELSE b

ValueIn(base, s) ==
  LET value[i \in 0 .. Len(s)] == IF i = 0 THEN 0 ELSE value[i - 1] * base + Digit(s[i])
  IN  value[Len(s)]

SkipAtoi(i) ==
  IF fmt[i] \in Decimal THEN ValueIn(10, SubSeq(fmt, i, SkipAll(i, Decimal) - 1)) ELSE -1

(* What the directive at i, a percent sign, asks for.  A point without a   *)
(* number is precision 0; a star ends the call.                            *)
Directive(i) ==
  LET w == SkipAll(i + 1, FlagChars)
      p == SkipAll(w, Decimal)
      point == fmt[p] = "."
      q == IF point THEN SkipAll(p + 1, Decimal) ELSE p
      conv == IF fmt[q] \in {"h", "l", "L"} THEN q + 1 ELSE q
  IN  [flags |-> {fmt[j] : j \in (i + 1) .. (w - 1)},
       width |-> SkipAtoi(w),
       precision |-> IF point THEN AtLeast0(SkipAtoi(p + 1)) ELSE -1,
       star |-> fmt[w] = "*" \/ (point /\ fmt[p + 1] = "*"),
       conv |-> fmt[conv], last |-> conv]

\* Mutant: the digits are copied out in the order they were found.
DigitsOfBackwards(num, base) ==
  LET digits[k \in Nat] ==
        IF k < base THEN <<DigitChars[k + 1]>>
        ELSE <<DigitChars[(k % base) + 1]>> \o digits[k \div base]
  IN  digits[num]

DigitsOf(num, base) ==
  LET digits[k \in Nat] ==
        IF k < base THEN <<DigitChars[k + 1]>>
        ELSE Append(digits[k \div base], DigitChars[(k % base) + 1])
  IN  digits[num]
-----------------------------------------------------------------------------
(* The test for a negative number never holds: num is unsigned.            *)
Sign(flags) ==
  IF "+" \in flags THEN <<"+">> ELSE IF Space \in flags THEN <<Space>> ELSE <<>>

Prefix(base, flags) == IF "#" \in flags /\ base = 16 THEN <<"0", "X">> ELSE <<>>

\* Mutant: the sign and the prefix are not taken off the width.
SizeLeftWrong(width, lead, digits) == AtLeast0(width - digits)

\* The size that is left to fill when a sign and prefix and the digits are in.
SizeLeft(width, lead, digits) == AtLeast0(width - lead - digits)

ZeroPadded(flags) == "0" \in flags /\ "-" \notin flags

Number(num, base, width, precision, flags) ==
  LET digits == DigitsOf(num, base)
      lead == Sign(flags) \o Prefix(base, flags)
      zeros == AtLeast0(precision - Len(digits))
      size == SizeLeft(width, Len(lead), zeros + Len(digits))
  IN  Times(Space, IF {"0", "-"} \cap flags = {} THEN size ELSE 0)
      \o lead
      \o (Times("0", IF ZeroPadded(flags) THEN size ELSE 0) \o (Times("0", zeros) \o digits))
      \o Times(Space, IF "-" \in flags THEN size ELSE 0)

Character(c, width, flags) ==
  LET pad == Times(Space, AtLeast0(width - 1))
  IN  IF "-" \in flags THEN <<c>> \o pad ELSE pad \o <<c>>

(* field_width is counted down by both loops, whichever side is padded.    *)
Text(s, width, flags) ==
  LET before == IF "-" \in flags THEN 0 ELSE AtLeast0(width - 1 - Len(s))
      left == IF "-" \in flags THEN width ELSE width - 1 - before
  IN  Times(Space, before) \o s \o Times(Space, AtLeast0(left - 1))

Base(conv) == IF conv = "x" THEN 16 ELSE 10

Printed(d, arg) ==
  CASE d.conv = "c" -> Character(arg, d.width, d.flags)
    [] d.conv = "s" -> Text(arg, d.width, d.flags)
    [] OTHER -> Number(arg % Word, Base(d.conv), d.width, d.precision, d.flags)
-----------------------------------------------------------------------------
Format(f, a) ==
  /\ fmt = <<>>
  /\ fmt' = f /\ args' = a /\ given' = a
  /\ UNCHANGED <<at, out, length, fields>>

Literal ==
  /\ Running /\ at <= Len(fmt) /\ fmt[at] # "%"
  /\ out' = Append(out, fmt[at]) /\ at' = at + 1
  /\ UNCHANGED <<fmt, args, length, given, fields>>

Converted ==
  /\ Running /\ at <= Len(fmt) /\ fmt[at] = "%"
  /\ LET d == Directive(at)
         text == Printed(d, Head(args))
     IN  /\ ~d.star /\ d.conv \in {"c", "s", "x", "d", "u"}
         /\ out' = out \o text
         /\ fields' = Append(fields, [spec |-> d, from |-> Len(out) + 1, to |-> Len(out \o text)])
         /\ args' = Tail(args) /\ at' = d.last + 1
  /\ UNCHANGED <<fmt, length, given>>

(* Another conversion, a second percent sign for one, prints nothing.      *)
Ignored ==
  /\ Running /\ at <= Len(fmt) /\ fmt[at] = "%"
  /\ LET d == Directive(at)
     IN  ~d.star /\ d.conv \notin {"c", "s", "x", "d", "u"} /\ at' = d.last + 1
  /\ UNCHANGED <<fmt, args, out, length, given, fields>>

(* A star returns 0 and leaves the text without its end.                   *)
StarReturns ==
  /\ Running /\ at <= Len(fmt) /\ fmt[at] = "%" /\ Directive(at).star
  /\ length' = 0
  /\ UNCHANGED <<fmt, at, args, out, given, fields>>

\* Mutant: the terminator is counted.
ReturnedWithNul(o) == Len(o) + 1

Returned(o) == Len(o)

Finish ==
  /\ Running /\ at > Len(fmt)
  /\ out' = Append(out, Nul) /\ length' = Returned(out)
  /\ UNCHANGED <<fmt, at, args, given, fields>>

Argument(conv) == CASE conv = "s" -> Texts
                    [] conv = "c" -> {"A", "0"}
                    [] OTHER -> Numbers

\* A directive under test, then a plain one, with text around them.
FormatNext ==
  \/ /\ fmt = <<>>
     /\ \E flags \in Flags, w \in Widths, p \in Precisions, q \in Qualifiers, c \in Conversions :
          \E a \in Argument(c) :
            Format(<<"a", "%">> \o flags \o w \o p \o q \o <<c, "=", "%", "d">>,
                   IF c = "%" THEN <<5>> ELSE <<a, 5>>)
  \/ Literal \/ Converted \/ Ignored \/ StarReturns \/ Finish
FormatSpec == FormatInit /\ [][FormatNext]_formatVars
-----------------------------------------------------------------------------
Shown(k) == SubSeq(out, fields[k].from, fields[k].to)
Spaces(s, places) == \A i \in places : s[i] = Space

\* What is printed of a number before its digits.
Marks(d) ==
  IF d.conv \in {"c", "s"} THEN <<>>
  ELSE (IF "+" \in d.flags THEN <<"+">> ELSE <<>>) \o Prefix(Base(d.conv), d.flags)

\* The word is passed as a negative number.
Negative(d, arg) == d.conv = "d" /\ arg % Word >= Word \div 2

ReadsBack(d, s, arg) ==
  CASE d.conv = "c" -> s = <<arg>>
    [] d.conv = "s" -> s = arg
    [] OTHER -> /\ \A i \in DOMAIN s : \E j \in 1 .. Base(d.conv) : s[i] = DigitChars[j]
                /\ Negative(d, arg) \/ ValueIn(Base(d.conv), s) = arg % Word
                /\ Len(s) >= Greater(d.precision, 1)

(* What vsprintf prints of the k-th argument reads back as that argument,  *)
(* whatever the flags, the width and the precision and whatever was        *)
(* printed before it, with nothing but spaces around it: a number in its   *)
(* base, an unsigned one modulo the word, with at least precision digits,  *)
(* behind the sign and the prefix asked for; a character and a string as   *)
(* themselves.  Of a negative number this says only that digits are        *)
(* printed: its sign is lost (MinusIsPrinted).                             *)
FieldsReadBack ==
  \A k \in DOMAIN fields :
    \E before, after \in 0 .. Len(Shown(k)) :
      LET marks == Marks(fields[k].spec)
          s == SubSeq(Shown(k), before + Len(marks) + 1, Len(Shown(k)) - after)
      IN  /\ Shown(k) = Times(Space, before) \o marks \o s \o Times(Space, after)
          /\ ReadsBack(fields[k].spec, s, given[k])

(* A negative number of %d has a minus sign in front (docs/024-printk.md:  *)
(* 17, and the test of l_vsprintf.c:65).                                   *)
MinusIsPrinted ==
  \A k \in DOMAIN fields :
    Negative(fields[k].spec, given[k]) => \E i \in DOMAIN Shown(k) : Shown(k)[i] = "-"

\* The least number of k + 1 digits, how many digits a number has, and how long
\* its field is at the least.
LeastLonger(base, k) == ValueIn(base, <<"1">> \o Times("0", k))
DigitCount(num, base) ==
  CHOOSE k \in 1 .. Word :
    LeastLonger(base, k) > num /\ (k = 1 \/ LeastLonger(base, k - 1) <= num)
Needed(k) ==
  LET d == fields[k].spec
  IN  IF d.conv = "c" THEN 1
      ELSE (IF {"+", Space} \cap d.flags # {} THEN 1 ELSE 0) + Len(Prefix(Base(d.conv), d.flags))
           + Greater(d.precision, DigitCount(given[k] % Word, Base(d.conv)))

(* A character or a number takes exactly its field width, or what it needs *)
(* if that is more, and the spaces are on the side the flags ask for: none *)
(* behind it without a minus sign, none before it, but the sign, with one. *)
(* A string with a width does not keep to it; without one it takes its own *)
(* length.                                                                 *)
FieldsFillWidth ==
  \A k \in DOMAIN fields :
    LET d == fields[k].spec
        s == Shown(k)
    IN  IF d.conv = "s" THEN d.width = -1 => s = given[k]
        ELSE /\ Len(s) = Greater(d.width, Needed(k))
             /\ IF "-" \in d.flags
                THEN Spaces(s, (Needed(k) + 1) .. Len(s))
                ELSE s[Len(s)] # Space

(* The value returned, which printk passes to console_write, is the number *)
(* of characters before the terminator, and all of the format has become   *)
(* text; only a star, for which vsprintf returns 0, leaves the text of the *)
(* characters before it without an end.                                    *)
LengthReturned ==
  length # -1 =>
    IF \E i \in DOMAIN fmt : fmt[i] = "*" THEN length = 0 /\ ~Contains(out, Nul)
    ELSE out = <<"a">> \o (IF Len(given) = 2 THEN Shown(1) ELSE <<>>) \o <<"=">>
                       \o Shown(Len(given)) \o <<Nul>>
         /\ length = Len(out) - 1
=============================================================================
