----------------------------- MODULE MCVsprintf -----------------------------
(* int has 6 bits, short 3 and long long 12.  All flags with the widths and *)
(* precisions that matter for numbers, all qualifiers with numbers at the  *)
(* borders of their types, all conversions; and conversions that are       *)
(* unknown, cut off by the end of the format, or stand next to others.     *)
EXTENDS Vsprintf

Digits(n) == [how |-> "digits", n |-> n]
Star(n)   == [how |-> "star", n |-> n]
Point     == [how |-> "point", n |-> 0]

Item(f, w, p, q, c, v, s) ==
  [flags |-> f, width |-> w, precision |-> p, qualifier |-> q, conversion |-> c,
   number |-> v, string |-> s]

Literal(c) == Item(<<>>, Missing, Missing, "none", "text", 0, <<c>>)

(* A set of flags in a fixed order. *)
FlagLists == {SelectSeq(<<"0", "#", " ", "-", "+">>, LAMBDA c : c \in F) :
                F \in SUBSET {"-", "+", " ", "#", "0"}}

Widths == {Missing, Digits(3), Digits(10), Star(0), Star(5), Star(-6)}
Precisions == {Missing, Point, Digits(2), Digits(4), Star(-1), Star(3)}

Formatted ==
  {Item(f, w, p, "none", c, v, <<>>) :
     f \in FlagLists, w \in Widths, p \in {Missing, Point, Digits(4), Star(-1)},
     c \in {"d", "x"}, v \in {0, 5, -7}}
  \cup {Item(f, w, p, "none", c, v, <<>>) :
     f \in {<<>>, <<"-">>, <<"0">>, <<"#">>, <<"-", "0", "#">>}, w \in Widths, p \in Precisions,
     c \in {"o", "X", "u", "p"}, v \in {0, 7, 11}}

Qualified ==
  {Item(f, w, Missing, q, c, v, <<>>) :
     f \in {<<>>, <<"+", "#">>}, w \in {Missing, Digits(5)}, q \in {"none", "h", "l", "L", "Z"},
     c \in Numbers, v \in {0, 3, 4, -4, -1, 31, 32, -32, 64, 2047, 2048, -2048, 4095}}

Strings ==
  {Item(f, w, p, "none", "s", 0, v) :
     f \in {<<>>, <<"-">>, <<"0">>}, w \in Widths, p \in Precisions,
     v \in {<<Nul>>, <<>>, <<"a">>, <<"a", "b", "c", "d">>}}
  \cup {Item(f, w, p, "none", "c", 0, <<"y">>) :
     f \in {<<>>, <<"-">>, <<"0">>}, w \in Widths, p \in Precisions}

Others ==
  {x \in {Item(f, w, p, q, c, 17, <<>>) :
     f \in {<<>>, <<"-", "+">>}, w \in {Missing, Digits(12), Star(2)}, p \in {Missing, Point},
     q \in {"none", "l", "Z"}, c \in {"n", "%", "q", "l", Nul}} :
     x.conversion = "l" => x.qualifier # "none"}

MCCharacters == {LowerDigits[d] : d \in 1 .. 16} \cup {UpperDigits[d] : d \in 1 .. 16}
             \cup FlagChars \cup QualifierChars \cup Numbers
             \cup {"p", "c", "s", "n", "%", "*", ".", "<", ">", "N", "U", "q", "y"}

(* What stands in front and behind: characters that could be taken for     *)
(* part of a conversion, and conversions that take arguments. *)
Near == {Literal("d"), Literal("5"),
         Item(<<>>, Star(3), Star(2), "none", "d", 5, <<>>),
         Item(<<"-">>, Digits(4), Missing, "h", "x", 6, <<>>),
         Item(<<>>, Missing, Missing, "none", "n", 18, <<>>),
         Item(<<>>, Missing, Digits(1), "none", "s", 0, <<"a", "b">>)}

Few == {x \in Formatted : x.flags \in {<<"0">>, <<"-">>} /\ x.number = -7} \cup Others
         \cup {x \in Strings : x.flags = <<>> /\ x.precision = Star(3)}

MCFormats ==
  {<<x>> : x \in Formatted \cup Qualified \cup Strings \cup Others}
  \cup {<<x, y>> : x \in {z \in Few : z.conversion # Nul}, y \in Near}
  \cup {<<y, x, z>> : x \in {z \in Few : z.conversion # Nul}, y \in Near, z \in {Literal("d")}}
  \cup {<<y, x>> : x \in Few, y \in Near}

(* "%.*s%lld" with -1, "ab" and 5. *)
MCCommented ==
  {<<Item(<<>>, Missing, Star(-1), "none", "s", 0, <<"a", "b">>),
     Item(<<>>, Missing, Missing, "l", "l", 5, <<>>), Literal("d")>>}
=============================================================================
