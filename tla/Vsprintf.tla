------------------------------ MODULE Vsprintf ------------------------------
(***************************************************************************)
(* vsprintf and number, lib/vsprintf.c: a format is read one character at  *)
(* a time, arguments are taken as it asks for them, and fields are padded  *)
(* by counting down what is left of their size.                            *)
(*                                                                         *)
(* The format is written out from a list of items, each a character or a   *)
(* conversion with its arguments; vsprintf only sees the characters and    *)
(* the list of arguments.                                                  *)
(***************************************************************************)
EXTENDS Integers, Sequences, SequencesExt

CONSTANTS
  IntBits, ShortBits, \* widths of int (and long), and of short: 32 and 16
  PointerDigits,      \* 2 * sizeof(void *)
  Characters,              \* the characters, but for NUL
  Formats               \* the formats with their arguments, as lists of items

Nul == "NUL"

(* Powers that a number of this many bits can reach. *)
Power(base, e) ==
  LET P[k \in 0 .. 2 * IntBits] == IF k = 0 THEN 1 ELSE base * P[k - 1] IN P[e]

IntMax   == Power(2, IntBits)
ShortMax == Power(2, ShortBits)
LongLongMax == Power(2, 2 * IntBits)

LowerDigits == <<"0", "1", "2", "3", "4", "5", "6", "7", "8", "9", "a", "b", "c", "d", "e", "f">>
UpperDigits == [LowerDigits EXCEPT ![11] = "A", ![12] = "B", ![13] = "C",
                                   ![14] = "D", ![15] = "E", ![16] = "F"]
DecimalDigits == {LowerDigits[d] : d \in 1 .. 10}
DigitValue == [c \in DecimalDigits |-> CHOOSE d \in 0 .. 9 : LowerDigits[d + 1] = c]

Largest(a, b)  == IF a > b THEN a ELSE b
Smallest(a, b) == IF a < b THEN a ELSE b
Times(n, c)   == [k \in 1 .. Largest(n, 0) |-> c]
----------------------------------------------------------------------------
(* What a format stands for.  An item is a character on its own, or a      *)
(* conversion: its flags in some order; width and precision, which are     *)
(* missing, or given by how they are written and a number; a qualifier;    *)
(* the conversion's character; and the argument, a number or a string.  A  *)
(* character is a string of length 1, a null pointer to one is <<NUL>>,    *)
(* and the pointer that %n takes is a number.                              *)

FlagChars      == {"-", "+", " ", "#", "0"}
QualifierChars == {"h", "l", "L", "Z"}
Numbers        == {"d", "i", "u", "o", "x", "X"}

(* Widths and precisions are so far within an int that no size in number   *)
(* overflows; a field beyond them fits in no memory.  A width that is      *)
(* written begins with no 0, which would be a flag.                        *)
Amounts == [how : {"missing", "digits", "star", "point"}, n : -(IntMax \div 4) .. IntMax \div 4]

FormatItems ==
  {x \in [flags : Seq(FlagChars), width : Amounts, precision : Amounts,
          qualifier : QualifierChars \cup {"none"}, conversion : Characters \cup {Nul, "text"},
          number : Int, string : Seq(Characters \cup {Nul})] :
     /\ x.width.how # "point"
     /\ x.width.how = "missing" => x.width.n = -1
     /\ x.width.how = "digits" => x.width.n > 0
     /\ x.precision.how = "digits" => x.precision.n >= 0
     /\ x.precision.how = "point" => x.precision.n = 0
     /\ x.qualifier = "none" =>
          x.conversion \notin FlagChars \cup DecimalDigits \cup {"*", "."} \cup QualifierChars
     /\ x.conversion = "text" => \E c \in Characters \ {"%"} : x.string = <<c>>
     /\ x.conversion = "c" => Len(x.string) = 1
     /\ x.conversion = "s" => x.string = <<Nul>> \/ x.string \in Seq(Characters)}

(* A conversion that is cut off is the last. *)
ASSUME VsprintfAssumption ==
  /\ {IntBits, ShortBits, PointerDigits} \subseteq Nat \ {0}
  /\ ShortBits <= IntBits
  /\ {LowerDigits[d] : d \in 1 .. 16} \cup {UpperDigits[d] : d \in 1 .. 16} \subseteq Characters
  /\ FlagChars \cup QualifierChars \cup Numbers \cup {"p", "c", "s", "n", "%", "*", "."} \subseteq Characters
  /\ {"<", "N", "U", "L", ">"} \subseteq Characters
  /\ {Nul, "text", "none"} \cap Characters = {}
  /\ \A t \in Formats : t \in Seq(FormatItems) /\ \A k \in 1 .. Len(t) - 1 : t[k].conversion # Nul

Missing == [how |-> "missing", n |-> -1]

DigitsNeeded(n, base) ==
  CHOOSE d \in 1 .. 2 * IntBits : n < Power(base, d) /\ (d > 1 => n >= Power(base, d - 1))

(* n in base, in so many digits, or more if it has more. *)
Numeral(n, base, least, digits) ==
  LET d == DigitsNeeded(n, base)
  IN Times(least - d, "0") \o [k \in 1 .. d |-> digits[((n \div Power(base, d - k)) % base) + 1]]

Decimal(n) == Numeral(n, 10, 1, LowerDigits)

AmountText(x) == CASE x.how = "digits" -> Decimal(x.n)
                   [] x.how = "star"   -> <<"*">>
                   [] OTHER            -> <<>>

FormatOf(x) ==
  IF x.conversion = "text" THEN x.string
  ELSE <<"%">> \o x.flags \o AmountText(x.width)
         \o (IF x.precision.how = "missing" THEN <<>> ELSE <<".">> \o AmountText(x.precision))
         \o (IF x.qualifier = "none" THEN <<>> ELSE <<x.qualifier>>)
         \o (IF x.conversion = Nul THEN <<>> ELSE <<x.conversion>>)

ArgumentsOf(x) ==
  IF x.conversion = "text" THEN <<>>
  ELSE (IF x.width.how = "star" THEN <<x.width.n>> ELSE <<>>)
         \o (IF x.precision.how = "star" THEN <<x.precision.n>> ELSE <<>>)
         \o (CASE x.conversion \in Numbers \cup {"p", "n"} -> <<x.number>>
               [] x.conversion \in {"c", "s"} -> <<x.string>>
               [] OTHER -> <<>>)

(* Padded to the width that was asked for. *)
Field(x, body) ==
  LET w    == IF x.width.n < 0 THEN -x.width.n ELSE x.width.n
      rest == Times(w - Len(body), " ")
  IN IF x.width.how = "missing" THEN body
     ELSE IF "-" \in ToSet(x.flags) \/ x.width.n < 0 THEN body \o rest
     ELSE rest \o body

(* The number that an argument is, for the type that the qualifier names,  *)
(* signed or not. *)
NumberMeant(x) ==
  LET size == CASE x.conversion # "p" /\ x.qualifier = "L" -> LongLongMax
                [] x.conversion # "p" /\ x.qualifier = "h" -> ShortMax
                [] OTHER -> IntMax
      signed == x.conversion \in {"d", "i"} /\ x.qualifier # "Z"
      v      == x.number % size
  IN IF signed /\ 2 * v >= size THEN v - size ELSE v

(* A sign, a prefix, and as many digits as the number and the precision    *)
(* need, or as it takes to fill the width with zeros.                      *)
NumberText(x) ==
  LET v      == NumberMeant(x)
      abs    == IF v < 0 THEN -v ELSE v
      flags  == ToSet(x.flags)
      base   == CASE x.conversion = "o" -> 8 [] x.conversion \in {"x", "X", "p"} -> 16 [] OTHER -> 10
      signed == x.conversion \in {"d", "i"}
      sign   == CASE signed /\ v < 0 -> <<"-">>
                  [] signed /\ v >= 0 /\ "+" \in flags -> <<"+">>
                  [] signed /\ v >= 0 /\ "+" \notin flags /\ " " \in flags -> <<" ">>
                  [] OTHER -> <<>>
      prefix == CASE "#" \in flags /\ base = 8  -> <<"0">>
                  [] "#" \in flags /\ base = 16 -> <<"0", IF x.conversion = "X" THEN "X" ELSE "x">>
                  [] OTHER -> <<>>
      plain  == x.conversion = "p" /\ x.width.how = "missing"
      zeros  == IF "-" \in flags \/ (x.width.how # "missing" /\ x.width.n < 0) THEN 0
                ELSE IF plain THEN PointerDigits - Len(prefix)
                ELSE IF "0" \in flags THEN x.width.n - Len(sign) - Len(prefix) ELSE 0
      body   == sign \o prefix \o
                  Numeral(abs, base,
                          Largest(zeros, IF x.precision.how = "missing" THEN 0 ELSE x.precision.n),
                          IF x.conversion = "X" THEN UpperDigits ELSE LowerDigits)
  IN IF plain THEN Field([x EXCEPT !.width = [how |-> "digits", n |-> PointerDigits]], body)
     ELSE Field(x, body)

StringText(x) ==
  LET s == IF x.string = <<Nul>> THEN <<"<", "N", "U", "L", "L", ">">> ELSE x.string
  IN Field(x, IF x.precision.how = "missing" THEN s
              ELSE SubSeq(s, 1, Smallest(Len(s), Largest(x.precision.n, 0))))

(* A negative precision, which only an argument can give, is no limit.     *)
WithLimit(x) == IF x.precision.n < 0 THEN [x EXCEPT !.precision = Missing] ELSE x

(* What an item stands for, as the comments in vsprintf have it.  The      *)
(* precision of a string is the most characters it may have, unless it is  *)
(* negative (vsprintf.c:229).                                              *)
Meaning(x) ==
  CASE x.conversion = "text" -> x.string
    [] x.conversion \in Numbers \cup {"p"} -> NumberText(x)
    [] x.conversion = "c" -> Field(x, x.string)
    [] x.conversion = "s" -> StringText(WithLimit(x))
    [] x.conversion = "n" -> <<>>
    [] x.conversion = "%" -> <<"%">>
    [] x.conversion = Nul -> <<"%">>
    [] OTHER -> <<"%", x.conversion>>

(* What vsprintf makes of it: the same, but that a negative precision of a *)
(* string is taken for 0, so that nothing of the string is shown.          *)
NothingShown(x) == x.conversion = "s" /\ x.precision.how = "star" /\ x.precision.n < 0

TextOf(x) == IF NothingShown(x) THEN Field(x, <<>>) ELSE Meaning(x)

----------------------------------------------------------------------------
VARIABLES
  items,              \* the text that is asked for, which vsprintf does not see
  format, fmt,        \* the format, and the position in it
  args,               \* arguments not taken yet
  str,                \* what has been written
  counts,             \* what %n has stored, in order
  at,                 \* where in the loop vsprintf is
  flags, field_width, precision, qualifier

reading == <<flags, field_width, precision, qualifier>>
vsprintfVars == <<items, format, fmt, args, str, counts, at, reading>>

(* The format, the text, and what %n stores and where, up to an item; the  *)
(* arguments behind it. *)
FormatTo(k)      == FlattenSeq([j \in 1 .. k |-> FormatOf(items[j])])
TextTo(k)        == FlattenSeq([j \in 1 .. k |-> TextOf(items[j])])
CountsTo(k)      == FlattenSeq([j \in 1 .. k |->
                      IF items[j].conversion # "n" THEN <<>>
                      ELSE <<[pointer |-> items[j].number, length |-> Len(TextTo(j))]>>])
ArgumentsFrom(k) == FlattenSeq([j \in 1 .. Len(items) - k |-> ArgumentsOf(items[k + j])])

Char(k) == IF k <= Len(format) THEN format[k] ELSE Nul
----------------------------------------------------------------------------
(* skip_atoi, from position k: the number, and the position after it.      *)
DigitsEnd(k) == CHOOSE e \in k .. Len(format) + 1 :
                  /\ Char(e) \notin DecimalDigits
                  /\ \A j \in k .. e - 1 : Char(j) \in DecimalDigits

skip_atoi(k) ==
  LET V[j \in 0 .. DigitsEnd(k) - k] ==
        IF j = 0 THEN 0 ELSE V[j - 1] * 10 + DigitValue[Char(k + j - 1)]
  IN V[DigitsEnd(k) - k]

(* do_div divides 64 bits in two steps of 32. *)
do_div(n, base) ==
  LET high  == n \div IntMax
      upper == IF high # 0 THEN high % base ELSE high
      both  == (upper * IntMax) + (n % IntMax)
  IN [quotient |-> ((IF high # 0 THEN high \div base ELSE high) * IntMax) + (both \div base),
      mod      |-> both % base]

(* The digits of n, last first. *)
Tmp(n, base) ==
  LET T[m \in 0 .. LongLongMax - 1] ==
        IF m < base THEN <<do_div(m, base).mod>>
        ELSE <<do_div(m, base).mod>> \o T[do_div(m, base).quotient]
  IN T[n]

(* `while (size-- > 0) *str++ = c': what is written, and size afterwards.  *)
Fill(size, c)  == Times(size, c)
Filled(size)   == IF size > 0 THEN -1 ELSE size - 1

(* Fault: a size that has been used for blanks in front is used again.     *)
SizeWithoutBlanks(size, type) == size

(* Blanks in front use the size up. *)
SizeAfterBlanks(size, type) == IF type \cap {"ZEROPAD", "LEFT"} = {} THEN Filled(size) ELSE size

number(n, base, width, least, type0) ==
  LET digits == IF "LARGE" \in type0 THEN UpperDigits ELSE LowerDigits
      type   == IF "LEFT" \in type0 THEN type0 \ {"ZEROPAD"} ELSE type0
      neg    == "SIGN" \in type /\ n >= LongLongMax \div 2
      sign   == IF "SIGN" \notin type THEN <<>>
                ELSE IF neg THEN <<"-">>
                ELSE IF "PLUS" \in type THEN <<"+">>
                ELSE IF "SPACE" \in type THEN <<" ">> ELSE <<>>
      prefix == IF "SPECIAL" \notin type THEN <<>>
                ELSE IF base = 16 THEN <<"0", IF "LARGE" \in type THEN "X" ELSE "x">>
                ELSE IF base = 8 THEN <<"0">> ELSE <<>>
      tmp    == Tmp(IF neg THEN (-n) % LongLongMax ELSE n, base)
      size1  == width - Len(sign) - Len(prefix) - Largest(least, Len(tmp))
      size2  == SizeAfterBlanks(size1, type)
      size3  == IF "LEFT" \in type THEN size2 ELSE Filled(size2)
      c      == IF "ZEROPAD" \in type THEN "0" ELSE " "
  IN (IF type \cap {"ZEROPAD", "LEFT"} = {} THEN Fill(size1, " ") ELSE <<>>)
       \o sign \o prefix
       \o (IF "LEFT" \in type THEN <<>> ELSE Fill(size2, c))
       \o Times(least - Len(tmp), "0")
       \o [k \in 1 .. Len(tmp) |-> digits[tmp[Len(tmp) + 1 - k] + 1]]
       \o Fill(size3, " ")
----------------------------------------------------------------------------
Emit(s) == str' = str \o s

(* `++fmt' of the loop. *)
NextChar == fmt' = fmt + 1 /\ at' = "text"

CopyChar ==
  /\ at = "text" /\ Char(fmt) \notin {"%", Nul}
  /\ Emit(<<Char(fmt)>>) /\ NextChar
  /\ UNCHANGED <<items, format, args, counts, reading>>

BeginConversion ==
  /\ at = "text" /\ Char(fmt) = "%"
  /\ flags' = {}
  /\ fmt' = fmt + 1 /\ at' = "flags"
  /\ UNCHANGED <<items, format, args, str, counts, field_width, precision, qualifier>>

FlagOf == [c \in FlagChars |->
  CASE c = "-" -> "LEFT" [] c = "+" -> "PLUS" [] c = " " -> "SPACE" [] c = "#" -> "SPECIAL" [] OTHER -> "ZEROPAD"]

ReadFlag ==
  /\ at = "flags" /\ Char(fmt) \in FlagChars
  /\ flags' = flags \cup {FlagOf[Char(fmt)]}
  /\ fmt' = fmt + 1
  /\ UNCHANGED <<items, format, args, str, counts, at, field_width, precision, qualifier>>

(* Digits, or an argument, or neither.  A negative argument asks for the   *)
(* left. *)
ReadWidth ==
  /\ at = "flags" /\ Char(fmt) \notin FlagChars
  /\ \/ /\ Char(fmt) \in DecimalDigits
        /\ field_width' = skip_atoi(fmt) /\ fmt' = DigitsEnd(fmt)
        /\ UNCHANGED <<flags, args>>
     \/ /\ Char(fmt) = "*"
        /\ field_width' = IF Head(args) < 0 THEN -Head(args) ELSE Head(args)
        /\ flags' = IF Head(args) < 0 THEN flags \cup {"LEFT"} ELSE flags
        /\ fmt' = fmt + 1 /\ args' = Tail(args)
     \/ /\ Char(fmt) \notin DecimalDigits \cup {"*"}
        /\ field_width' = -1
        /\ UNCHANGED <<flags, fmt, args>>
  /\ at' = "precision"
  /\ UNCHANGED <<items, format, str, counts, precision, qualifier>>

LeastPrecision(p) == Largest(p, 0)

(* After a point the precision is 0 unless it says more. *)
ReadPrecision ==
  /\ at = "precision"
  /\ \/ /\ Char(fmt) # "."
        /\ precision' = -1
        /\ UNCHANGED <<fmt, args>>
     \/ /\ Char(fmt) = "." /\ Char(fmt + 1) \in DecimalDigits
        /\ precision' = LeastPrecision(skip_atoi(fmt + 1)) /\ fmt' = DigitsEnd(fmt + 1)
        /\ UNCHANGED args
     \/ /\ Char(fmt) = "." /\ Char(fmt + 1) = "*"
        /\ precision' = LeastPrecision(Head(args)) /\ fmt' = fmt + 2
        /\ args' = Tail(args)
     \/ /\ Char(fmt) = "." /\ Char(fmt + 1) \notin DecimalDigits \cup {"*"}
        /\ precision' = LeastPrecision(-1) /\ fmt' = fmt + 1
        /\ UNCHANGED args
  /\ at' = "qualifier"
  /\ UNCHANGED <<items, format, str, counts, flags, field_width, qualifier>>

ReadQualifier ==
  /\ at = "qualifier"
  /\ IF Char(fmt) \in QualifierChars
       THEN qualifier' = Char(fmt) /\ fmt' = fmt + 1
       ELSE qualifier' = "none" /\ fmt' = fmt
  /\ at' = "conversion"
  /\ UNCHANGED <<items, format, args, str, counts, flags, field_width, precision>>

Converts(c) == at = "conversion" /\ Char(fmt) = c

(* Blanks until less than one character is missing, on the one side or the *)
(* other. *)
PrintChar ==
  /\ Converts("c")
  /\ LET blanks == Times(field_width - 1, " ")
     IN Emit(IF "LEFT" \in flags THEN Head(args) \o blanks ELSE blanks \o Head(args))
  /\ args' = Tail(args) /\ NextChar
  /\ UNCHANGED <<items, format, counts, reading>>

(* strnlen(s, -1) has no limit, as its parameter is unsigned. *)
strnlen(s, count) == IF count < 0 THEN Len(s) ELSE Smallest(Len(s), count)

PrintString ==
  /\ Converts("s")
  /\ LET s      == IF Head(args) = <<Nul>> THEN <<"<", "N", "U", "L", "L", ">">> ELSE Head(args)
         len    == strnlen(s, precision)
         blanks == Times(field_width - len, " ")
         shown  == SubSeq(s, 1, len)
     IN Emit(IF "LEFT" \in flags THEN shown \o blanks ELSE blanks \o shown)
  /\ args' = Tail(args) /\ NextChar
  /\ UNCHANGED <<items, format, counts, reading>>

PrintPointer ==
  /\ Converts("p")
  /\ LET plain == field_width = -1
     IN Emit(number(Head(args) % IntMax, 16,
                    IF plain THEN PointerDigits ELSE field_width, precision,
                    IF plain THEN flags \cup {"ZEROPAD"} ELSE flags))
  /\ args' = Tail(args) /\ NextChar
  /\ UNCHANGED <<items, format, counts, reading>>

(* Fault: the pointer is read but not passed by. *)
StoreCountKeepingArgument ==
  /\ Converts("n")
  /\ counts' = Append(counts, [pointer |-> Head(args), length |-> Len(str)])
  /\ NextChar
  /\ UNCHANGED <<items, format, args, str, reading>>

(* A long *, a size_t * or an int *: the qualifier only tells the type.    *)
StoreCount ==
  /\ Converts("n")
  /\ counts' = Append(counts, [pointer |-> Head(args), length |-> Len(str)])
  /\ args' = Tail(args) /\ NextChar
  /\ UNCHANGED <<items, format, str, reading>>

PrintPercent ==
  /\ Converts("%")
  /\ Emit(<<"%">>) /\ NextChar
  /\ UNCHANGED <<items, format, args, counts, reading>>

(* The argument as a long long: of the qualifier's width, and with the     *)
(* sign extended if the conversion has one, but for Z. *)
Extended(v, max, signed) == IF signed /\ v >= max \div 2 THEN (v - max) % LongLongMax ELSE v

Num(signed) ==
  CASE qualifier = "L" -> Head(args) % LongLongMax
    [] qualifier = "Z" -> Head(args) % IntMax
    [] qualifier = "h" -> Extended(Head(args) % ShortMax, ShortMax, signed)
    [] OTHER -> Extended(Head(args) % IntMax, IntMax, signed)

PrintNumber ==
  /\ at = "conversion" /\ Char(fmt) \in Numbers
  /\ LET c    == Char(fmt)
         type == flags \cup (IF c = "X" THEN {"LARGE"} ELSE {})
                       \cup (IF c \in {"d", "i"} THEN {"SIGN"} ELSE {})
         base == CASE c = "o" -> 8 [] c \in {"x", "X"} -> 16 [] OTHER -> 10
     IN Emit(number(Num("SIGN" \in type), base, field_width, precision, type))
  /\ args' = Tail(args) /\ NextChar
  /\ UNCHANGED <<items, format, counts, reading>>

(* What is not known is copied; the end of the format is met again.        *)
PrintUnknown ==
  /\ at = "conversion" /\ Char(fmt) \notin Numbers \cup {"c", "s", "p", "n", "%"}
  /\ IF Char(fmt) = Nul
       THEN Emit(<<"%">>) /\ fmt' = fmt /\ at' = "text"
       ELSE Emit(<<"%", Char(fmt)>>) /\ NextChar
  /\ UNCHANGED <<items, format, args, counts, reading>>

Return ==
  /\ at = "text" /\ Char(fmt) = Nul
  /\ at' = "done"
  /\ UNCHANGED <<items, format, fmt, args, str, counts, reading>>

VsprintfInit ==
  /\ items \in Formats
  /\ format = FormatTo(Len(items)) /\ fmt = 1
  /\ args = ArgumentsFrom(0)
  /\ str = <<>> /\ counts = <<>>
  /\ at = "text"
  /\ flags = {} /\ field_width = -1 /\ precision = -1 /\ qualifier = "none"

VsprintfNext ==
  \/ CopyChar \/ BeginConversion \/ ReadFlag \/ ReadWidth \/ ReadPrecision \/ ReadQualifier
  \/ PrintChar \/ PrintString \/ PrintPointer \/ StoreCount \/ PrintPercent \/ PrintNumber
  \/ PrintUnknown \/ Return

VsprintfSpec == VsprintfInit /\ [][VsprintfNext]_vsprintfVars
----------------------------------------------------------------------------
(* Whenever vsprintf is back at the head of its loop it stands at the end  *)
(* of an item, has written what the items up to there stand for (but for   *)
(* strings of negative precision, see TextOf), has taken their arguments  *)
(* and no others, the pointers of %n among them, and has stored through    *)
(* these how long the text was there; at its return all items are done.    *)
(* So it never runs past the format's end, nor past the last argument.     *)
TextRight ==
  at \in {"text", "done"} =>
    \E k \in 0 .. Len(items) :
      /\ fmt = Len(FormatTo(k)) + 1
      /\ str = TextTo(k)
      /\ args = ArgumentsFrom(k)
      /\ counts = CountsTo(k)
      /\ at = "done" => k = Len(items)

(* %lld and the like, which the comments offer for a long long (244): to   *)
(* vsprintf the item is %l, whose conversion l it does not know, and the   *)
(* d behind it is text. *)
LongLong(k) ==
  /\ items[k].qualifier = "l" /\ items[k].conversion = "l"
  /\ k < Len(items) /\ items[k + 1].conversion = "text" /\ items[k + 1].string[1] \in Numbers

Commented(k) ==
  IF LongLong(k)
    THEN Meaning([items[k] EXCEPT !.qualifier = "L", !.conversion = items[k + 1].string[1]])
    ELSE IF k > 1 /\ LongLong(k - 1) THEN <<>> ELSE Meaning(items[k])

(* The text is what the comments promise: a negative precision means that  *)
(* there is no limit (vsprintf.c:229), and %lld formats a long long (244). *)
ReadAsCommented == at = "done" => str = FlattenSeq([k \in DOMAIN items |-> Commented(k)])
=============================================================================
