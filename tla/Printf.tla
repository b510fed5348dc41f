--------------------------------- MODULE Printf --------------------------------
(***************************************************************************)
(* kfprintf, kernel/lib/cstd/stdio/vfprintf.c, for one conversion: the     *)
(* specification is parsed, the argument is fetched and printed.  What     *)
(* leaves is a sequence of symbols, the digits "0" to "15"; a string's       *)
(* characters are "s".  The output function writes all that it is given.   *)
(***************************************************************************)
EXTENDS Integers, Sequences, SequencesExt

CONSTANTS
  Bits,       \* the width of the integers that each length modifier stands for
  Words,      \* the widths of size_t in the builds
  EnumBits    \* the width of enum width_special

VARIABLES
  word,    \* the width of size_t in this build
  conv,    \* what was written between % and the end of the conversion, as a record
  value,   \* the argument, a number or the length of a string
  output,  \* what was written
  fault    \* what has stopped the kernel

\* WIDTH_EMPTY and PREC_EMPTY, WIDTH_VAR and PREC_VAR: the width holds more than the enum on some machines.
Empty == 2 ^ EnumBits - 2
Var == 2 ^ EnumBits - 1

-----------------------------------------------------------------------------
(* parse_conv_spec *)

Digit == [d \in {"0", "1", "2", "3", "4", "5", "6", "7", "8", "9"} |->
            CHOOSE n \in 0 .. 9 : ToString(n) = d]
Flag == {"-", "+", " ", "#", "0"}

\* The first position from i on whose symbol is not one of these.
After(f, i, symbols) == CHOOSE j \in i .. Len(f) : f[j] \notin symbols /\ \A k \in i .. j - 1 : f[k] \in symbols

\* vfprintf_atoi
Number(f, i, j) == FoldLeft(LAMBDA n, d : 10 * n + Digit[d], 0, SubSeq(f, i, j - 1))

\* Where a width or a precision that begins at i ends, and what it is; absent is what it is without digits.
NumberEnd(f, i) == IF f[i] = "*" THEN i + 1 ELSE After(f, i, DOMAIN Digit)
NumberAt(f, i, absent) ==
  IF f[i] = "*" THEN Var ELSE IF f[i] \in DOMAIN Digit THEN Number(f, i, NumberEnd(f, i)) ELSE absent

LengthEnd(f, i) ==
  IF f[i] \notin {"h", "l", "j", "z", "t", "L"} THEN i
  ELSE IF f[i] \in {"h", "l"} /\ f[i + 1] = f[i] THEN i + 2 ELSE i + 1

Parse(f) ==
  LET w == After(f, 1, Flag)
      dot == NumberEnd(f, w)
      p == IF f[dot] = "." THEN dot + 1 ELSE dot
      l == IF f[dot] = "." THEN NumberEnd(f, p) ELSE dot
      s == LengthEnd(f, l)
  IN  [flags |-> {f[i] : i \in 1 .. w - 1},
       width |-> NumberAt(f, w, Empty),
       prec |-> IF f[dot] = "." THEN NumberAt(f, p, 0) ELSE Empty,
       length |-> SubSeq(f, l, s - 1),
       spec |-> f[s]]

-----------------------------------------------------------------------------
(* fetch_arg *)

Signed(v, bits) == ((v + 2 ^ (bits - 1)) % (2 ^ bits)) - 2 ^ (bits - 1)

Fetch(c, v) ==
  CASE c.spec = "d" -> Signed(v, Bits[c.length])
    [] c.spec \in {"o", "u", "x", "X"} -> v % (2 ^ Bits[c.length])
    [] c.spec = "p" -> v % (2 ^ word)
    [] OTHER -> v

\* CS_INT, CS_UDEC, CS_UOCTAL and the hexadecimal conversions
Base(c) == IF c.spec = "o" THEN 8 ELSE IF c.spec \in {"d", "u"} THEN 10 ELSE 16
Hex(c) == c.spec \in {"x", "X", "p"}

-----------------------------------------------------------------------------
(* print_conv_spec *)

Abs(n) == IF n < 0 THEN 0 - n ELSE n
Rep(symbol, n) == [i \in 1 .. n |-> symbol]

\* The loops of dec_print, oct_print and hex_print
Digits(n, base) ==
  LET digits[k \in 0 .. n] ==
        IF k < base THEN <<ToString(k)>> ELSE Append(digits[k \div base], ToString(k % base))
  IN  digits[n]

\* length_for_intnumbase, with as many digits as the buffers have
NumLength(n, base) == CHOOSE i \in 1 .. 22 : (i = 1 \/ n >= base ^ (i - 1)) /\ n < base ^ i

NoDigits(c, arg) == c.spec # "p" /\ c.prec = 0 /\ arg = 0

\* The length functions of cs_funcs_table
Length(c, arg) ==
  CASE c.spec = "c" -> 1
    [] c.spec = "s" -> IF c.prec # Empty /\ c.prec < arg THEN c.prec ELSE arg
    [] OTHER ->
       LET length == NumLength(Abs(arg), Base(c))
       IN  IF NoDigits(c, arg) THEN 0
           ELSE IF ~Hex(c) /\ c.prec # Empty /\ c.prec >= length THEN c.prec ELSE length

\* The print functions of cs_funcs_table
Body(c, arg) ==
  CASE c.spec = "c" -> <<"c">>
    [] c.spec = "s" -> Rep("s", Length(c, arg))
    [] OTHER ->
       LET digits == Digits(Abs(arg), Base(c))
       IN  IF NoDigits(c, arg) THEN <<>>
           ELSE IF Hex(c) \/ c.prec = Empty THEN digits ELSE Rep("0", c.prec - Len(digits)) \o digits

\* hex_prefix
Prefix(c) == IF c.spec = "p" \/ (Hex(c) /\ "#" \in c.flags) THEN <<"0", "x">> ELSE <<>>

\* put_flags
Sign(c, arg) ==
  IF c.spec = "d" /\ arg < 0 THEN <<"-">>
  ELSE IF "+" \in c.flags THEN <<"+">> ELSE IF " " \in c.flags THEN <<" ">> ELSE <<>>

\* Mutant of Fill: the sign is not counted.
FillUnsigned(c, arg) == c.width - Length(c, arg) - Len(Prefix(c))

\* width_to_fill; more than half of the addresses is a negative number.
Fill(c, arg) == c.width - Length(c, arg) - Len(Prefix(c)) - Len(Sign(c, arg))

PrintConvSpec(c, arg) ==
  LET zero == "0" \in c.flags
      minus == "-" \in c.flags
      ahead == Prefix(c) \o Sign(c, arg)
      pad == IF c.width = Empty THEN 0 ELSE Fill(c, arg)
  IN  (IF minus \/ c.width = Empty THEN <<>>
       ELSE (IF zero THEN ahead ELSE <<>>) \o Rep(IF zero THEN "0" ELSE " ", pad))
      \o (IF zero THEN <<>> ELSE ahead)
      \o Body(c, arg)
      \o (IF minus THEN Rep(" ", pad) ELSE <<>>)

-----------------------------------------------------------------------------
(* The text of a conversion, outside of vfprintf.c *)

Order(flags) == SelectSeq(<<"#", "0", "-", " ", "+">>, LAMBDA f : f \in flags)
Decimal(n) == IF n > 9 THEN <<ToString(n \div 10), ToString(n % 10)>> ELSE <<ToString(n)>>

Text(c) ==
  Order(c.flags)
  \o (IF c.width = Empty THEN <<>> ELSE IF c.width = Var THEN <<"*">> ELSE Decimal(c.width))
  \o (IF c.prec = Empty THEN <<>> ELSE <<".">> \o Decimal(c.prec))
  \o c.length \o <<c.spec>>

NoConversion == [flags |-> {}, width |-> Empty, prec |-> Empty, length |-> <<>>, spec |-> "%"]

Init == word \in Words /\ conv = NoConversion /\ value = 0 /\ output = <<>>

\* kfprintf with one conversion.  The kassert on the width sees the number that stands for none.
Printf(c, v) ==
  LET parsed == Parse(Text(c))
  IN  /\ conv' = c /\ value' = v /\ UNCHANGED word
      /\ IF parsed.spec = "%" THEN output' = <<"%">> /\ UNCHANGED fault
         ELSE IF parsed.spec = "n" THEN fault' = "fetch_arg" /\ output' = <<>>
         ELSE IF parsed.width >= 2 ^ (word - 1) - 1 THEN fault' = "width" /\ output' = <<>>
         ELSE output' = PrintConvSpec(parsed, Fetch(parsed, v)) /\ UNCHANGED fault

-----------------------------------------------------------------------------

\* The conversions of numbers that the code prints as C does.  It does not with 0 and
\* no width, - or a precision next to it, with a precision for hexadecimal digits, with
\* # for zero or for octal digits, and with + or a blank for unsigned numbers.
AsInC(c, arg) ==
  /\ c.spec \in {"d", "u", "o", "x", "X"}
  /\ "0" \in c.flags => c.width # Empty /\ c.prec = Empty /\ "-" \notin c.flags
  /\ c.flags \cap {"+", " "} # {} => c.spec = "d"
  /\ "#" \in c.flags => Hex(c) /\ arg # 0
  /\ Hex(c) => c.prec \in {Empty, 0, 1}

Denoted(digits, base) == FoldLeft(LAMBDA n, d : base * n + (CHOOSE k \in 0 .. base - 1 : ToString(k) = d), 0, digits)

\* A printed number is what C's standard says of its conversion: the blanks, the sign,
\* the prefix, zeros and the digits of the value come in this order, the field is as
\* wide as asked for and no wider than it must be, and a blank or a zero fills the side
\* that the flags name (vfprintf.c, print_conv_spec and the two functions that predict
\* and print the digits).
FieldsAreStandard ==
  LET arg == Fetch(conv, value)
      sign == IF arg < 0 THEN <<"-">>
              ELSE IF "+" \in conv.flags THEN <<"+">> ELSE IF " " \in conv.flags THEN <<" ">> ELSE <<>>
      ahead == sign \o (IF "#" \in conv.flags THEN <<"0", "x">> ELSE <<>>)
      width == IF conv.width = Empty THEN 0 ELSE conv.width
  IN  fault = "none" /\ AsInC(conv, arg) =>
        \E left, right, zeros \in 0 .. Len(output) :
          LET first == left + Len(ahead) + zeros
              digits == SubSeq(output, first + 1, Len(output) - right)
              asked == IF conv.prec = Empty THEN 1 ELSE conv.prec
          IN  /\ output = Rep(" ", left) \o ahead \o Rep("0", zeros) \o digits \o Rep(" ", right)
              /\ \A i \in DOMAIN digits : digits[i] \in {ToString(k) : k \in 0 .. Base(conv) - 1}
              /\ Denoted(digits, Base(conv)) = Abs(arg) /\ (digits # <<>> => digits[1] # "0" \/ arg = 0)
              /\ zeros + Len(digits) >= asked
              /\ zeros + Len(digits) > asked /\ zeros > 0 => "0" \in conv.flags
              /\ left + right + zeros > 0 /\ zeros + Len(digits) # asked => Len(output) = width
              /\ Len(output) >= width
              /\ left > 0 => conv.flags \cap {"-", "0"} = {}
              /\ right > 0 => "-" \in conv.flags

================================================================================
