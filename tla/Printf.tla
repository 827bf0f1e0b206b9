------------------------------- MODULE Printf -------------------------------
(***************************************************************************)
(* Formatted output, libc/stdio.c with stdarg.h.  print reads the format   *)
(* one character at a time and an argument at each conversion; format and  *)
(* arguments are chosen as they are read.  A character is a string of one  *)
(* letter, without NUL.  An argument is a stack slot of two halves, as     *)
(* va_arg of an int16 steps over one half only.                            *)
(***************************************************************************)
EXTENDS Integers, Sequences, FiniteSetsExt, SequencesExt

CONSTANTS
  BYTE,           \* stands for 2^8
  HALF,           \* stands for 2^16: values of an int16; HALF * HALF for 2^32
  HEXH,           \* hexadecimal digits of a half, sizeof(int16) * 2
  Chars,          \* characters that formats are made of
  Values,         \* values of argument slots
  Text,           \* Text[v]: the string a pointer v # 0 leads to
  MaxFormat,      \* bound: characters of a format
  MaxWidth        \* bound: width of a field

WORD == HALF * HALF

ASSUME PrintfAssumption ==
  /\ {BYTE, HALF, HEXH, MaxFormat, MaxWidth} \subseteq Nat \ {0}
  /\ Values \subseteq 0 .. WORD - 1
  /\ BYTE > 1 /\ HALF = BYTE * BYTE
  /\ \A v \in 1 .. WORD - 1 : Text[v] \in Seq(STRING)

VARIABLES
  stage,          \* where print is in the format
  read,           \* characters of the format read
  flags, width,   \* of the directive being read
  internal_flags,
  rest,           \* halves of the last argument that are not yet consumed
  last            \* history: the last conversion and its output

vars == <<stage, read, flags, width, internal_flags, rest, last>>

FlagChars == {"-", "+", " ", "#", "0"}
Digits == <<"0", "1", "2", "3", "4", "5", "6", "7", "8", "9">>
Lower == Digits \o <<"a", "b", "c", "d", "e", "f">>
Upper == Digits \o <<"A", "B", "C", "D", "E", "F">>
Nothing == [conv |-> "none", short |-> FALSE]

Init ==
  /\ stage = "idle" /\ read = 0
  /\ flags = {} /\ width = 0 /\ internal_flags = {}
  /\ rest = <<>> /\ last = Nothing

-----------------------------------------------------------------------------
\* prints: the string in a field of at least width characters.
prints(string, w, fl) ==
  LET pad == IF Len(string) >= w THEN <<>>
             ELSE [k \in 1 .. w - Len(string) |-> IF "0" \in fl THEN "0" ELSE " "]
      hexd == IF "#" \in fl THEN <<"0", "x">> ELSE <<>>
  IN CASE "-" \in fl /\ "0" \notin fl -> hexd \o string \o pad
       [] "0" \in fl -> hexd \o pad \o string
       [] OTHER -> pad \o hexd \o string

\* Bug: the bits of a negative number are converted as they are.
magnitude_raw(num, neg) == num

\* u = -num, in the width of the type: the least number stays what it is.
magnitude(num, neg) == IF neg THEN (-num) % WORD ELSE num

\* The loop of printi over the digits, the last one first.
numeral(u, base, convbase) ==
  LET digits[n \in 0 .. WORD - 1] ==
        IF n = 0 THEN <<>> ELSE Append(digits[n \div base], convbase[(n % base) + 1])
  IN digits[u]

\* Bug: a sign in front of the zeros does not count.
sign_width_full(w, signs) == w

\* width-- for a sign that is put in front of zeros.
sign_width(w, signs) == w - Len(signs)

\* printi: num is the word of an int64, of which a signed one has a sign bit.
printi(num, base, sign, w, fl, convbase) ==
  LET fs == IF base # 16 THEN fl \ {"#"} ELSE fl
      neg == sign /\ base = 10 /\ num >= WORD \div 2
      signs == IF " " \in fs \/ base # 10 THEN <<>>
               ELSE IF neg THEN <<"-">> ELSE IF "+" \in fs THEN <<"+">> ELSE <<>>
      string == numeral(magnitude(num, neg), base, convbase)
  IN IF num = 0 THEN prints(<<"0">>, w, fs)
     ELSE IF "0" \in fs THEN signs \o prints(string, sign_width(w, signs), fs)
     ELSE prints(signs \o string, w, fs)

\* The sanity check of the flags.
resolved(fl) ==
  LET f1 == IF {" ", "+"} \subseteq fl THEN fl \ {" ", "+"} ELSE fl
  IN IF {"#", "+"} \subseteq f1 THEN f1 \ {"#", "+"} ELSE f1

\* DATA_SHRT after the sanity check.
Short == internal_flags = {"h"}

\* Bug: h is not dropped when it stands together with l.
halves_unresolved == IF "h" \in internal_flags THEN 1 ELSE 2

\* __va_size of the argument, in halves: int64 is long, of 32 bits, as int32.
halves == IF Short THEN 1 ELSE 2

\* va_arg: n halves from what is left of the last slot and then from slot v.
Stream(n, v) == IF Len(rest) >= n THEN rest ELSE rest \o <<v % HALF, v \div HALF>>
Loaded(n, v) ==
  LET s == Stream(n, v) IN IF n = 1 THEN s[1] ELSE s[1] + HALF * s[2]
Left(n, v) ==
  LET s == Stream(n, v) IN SubSeq(s, n + 1, Len(s))

\* The word of an int16 or a uint16 that becomes an int64.
Extended(h, sign) == IF sign /\ h >= HALF \div 2 THEN h + WORD - HALF ELSE h

-----------------------------------------------------------------------------
\* k_printf, k_printfln or vprintf is called; with no format it returns.
k_printf ==
  /\ stage = "idle"
  /\ stage' = "text" /\ read' = 0
  /\ rest' = <<>> /\ last' = Nothing
  /\ UNCHANGED <<flags, width, internal_flags>>

\* One more character of the format is read.
Read ==
  /\ read < MaxFormat
  /\ read' = read + 1

\* Any character but '%', or "%%".
print_literal(c) ==
  /\ \/ stage = "text" /\ c # "%"
     \/ stage = "percent" /\ c = "%"
  /\ Read
  /\ stage' = "text"
  /\ last' = [conv |-> "literal", short |-> last.short, text |-> <<c>>]
  /\ UNCHANGED <<flags, width, internal_flags, rest>>

print_percent ==
  /\ stage = "text"
  /\ Read
  /\ stage' = "percent"
  /\ flags' = {} /\ width' = 0 /\ internal_flags' = {}
  /\ UNCHANGED <<rest, last>>

\* What a character is depends on how far the directive has been read.
InDirective == stage \in {"percent", "flags", "width", "length"}
IsFlag(c) == stage \in {"percent", "flags"} /\ c \in FlagChars
IsDigit(c) == c \in Range(Digits)
IsWidth(c) == IsDigit(c) /\ ~IsFlag(c) /\ stage \in {"percent", "flags", "width"}
IsLength(c) == InDirective /\ c \in {"h", "l"}
Numbers == {"d", "i", "u", "x", "X", "p"}

print_flag(c) ==
  /\ IsFlag(c)
  /\ Read
  /\ stage' = "flags"
  /\ flags' = flags \union {c}
  /\ UNCHANGED <<width, internal_flags, rest, last>>

print_width(c) ==
  /\ IsWidth(c)
  /\ \E d \in 0 .. 9 : c = Digits[d + 1] /\ width' = width * 10 + d
  /\ width' <= MaxWidth
  /\ Read
  /\ stage' = "width"
  /\ UNCHANGED <<flags, internal_flags, rest, last>>

print_length(c) ==
  /\ IsLength(c)
  /\ Read
  /\ stage' = "length"
  /\ internal_flags' = internal_flags \union
       {IF c = "l" /\ "l" \in internal_flags THEN "ll" ELSE c}
  /\ UNCHANGED <<flags, width, rest, last>>

\* The conversions of numbers; the flags and the width of p are its own.
print_number(c, v) ==
  /\ InDirective
  /\ c \in Numbers
  /\ Read
  /\ stage' = "text"
  /\ rest' = Left(halves, v)
  /\ LET sign == c \in {"d", "i"}
         base == IF c \in {"d", "i", "u"} THEN 10 ELSE 16
         fl == IF c = "p" THEN {"#", "0"} ELSE resolved(flags)
         w == IF c = "p" THEN halves * HEXH ELSE width
         num == IF Short THEN Extended(Loaded(1, v), sign) ELSE Loaded(halves, v)
     IN last' = [conv |-> c, base |-> base, sign |-> sign, flags |-> fl, width |-> w,
                 num |-> num, slot |-> v, short |-> last.short \/ Short,
                 text |-> printi(num, base, sign, w, fl, IF c \in {"X", "p"} THEN Upper ELSE Lower)]
  /\ UNCHANGED <<flags, width, internal_flags>>

\* s and c take a whole slot, whatever the length modifier says.
print_string(c, v) ==
  /\ InDirective
  /\ c \in {"s", "c"}
  /\ Read
  /\ stage' = "text"
  /\ rest' = Left(2, v)
  /\ LET arg == Loaded(2, v)
         string == CASE c = "c" -> IF arg % BYTE = 0 THEN <<>> ELSE <<"c">>
                     [] c = "s" /\ arg = 0 -> <<"(", "n", "u", "l", "l", ")">>
                     [] OTHER -> Text[arg]
     IN last' = [conv |-> c, flags |-> flags \intersect {"-"}, width |-> width,
                 num |-> arg, slot |-> v, short |-> last.short, string |-> string,
                 text |-> prints(string, width, flags \intersect {"-"})]
  /\ UNCHANGED <<flags, width, internal_flags>>

\* The default of the switch, a character that is no conversion.
print_other(c) ==
  /\ InDirective
  /\ ~IsFlag(c) /\ ~IsWidth(c) /\ ~IsLength(c)
  /\ c \notin Numbers \union {"s", "c"}
  /\ ~(stage = "percent" /\ c = "%")
  /\ Read
  /\ stage' = "text"
  /\ last' = [conv |-> "literal", short |-> last.short, text |-> <<c>>]
  /\ UNCHANGED <<flags, width, internal_flags, rest>>

\* Where NUL ends the loop of print.  In a directive it is taken for a
\* conversion, and the loop goes on behind it.
ends == {"text", "percent"}

print_nul ==
  /\ stage # "idle" /\ stage # "overrun"
  /\ stage' = IF stage \in ends THEN "idle" ELSE "overrun"
  /\ UNCHANGED <<read, flags, width, internal_flags, rest, last>>

\* print goes on with whatever memory is behind the format.
Overrun == stage = "overrun" /\ UNCHANGED vars

Next ==
  \/ k_printf \/ print_percent \/ print_nul \/ Overrun
  \/ \E c \in Chars :
       \/ print_literal(c) \/ print_flag(c) \/ print_width(c) \/ print_length(c)
       \/ print_other(c)
       \/ \E v \in Values : print_number(c, v) \/ print_string(c, v)

Spec == Init /\ [][Next]_vars

-----------------------------------------------------------------------------
Numeric == last.conv \in Numbers

\* The number a numeral denotes; what is no digit is passed over.
DigitValue(c) == (CHOOSE k \in DOMAIN Lower : c \in {Lower[k], Upper[k]}) - 1
IsHexDigit(c) == c \in Range(Lower) \union Range(Upper)
Denotes(text, base) ==
  LET value[k \in 0 .. Len(text)] ==
        IF k = 0 THEN 0
        ELSE IF IsHexDigit(text[k]) THEN value[k - 1] * base + DigitValue(text[k])
        ELSE value[k - 1]
  IN value[Len(text)]

\* base to the power of d, and the number of digits that u needs.
power(base, d) ==
  LET p[n \in 0 .. WORD] == IF n = 0 THEN 1 ELSE base * p[n - 1]
  IN p[d]
DigitsOf(u, base) ==
  CHOOSE d \in 1 .. u + 1 : u < power(base, d) /\ (d = 1 \/ power(base, d - 1) <= u)

Signed(num) == IF num >= WORD \div 2 THEN num - WORD ELSE num
Negative == last.sign /\ last.num >= WORD \div 2

(***************************************************************************)
(* What is printed of a number reads back as that number, for every width  *)
(* and every combination of flags: no padding changes its value, and it    *)
(* has a minus sign exactly when it is negative and signs are not hidden.  *)
(***************************************************************************)
NumberReadsBack ==
  Numeric =>
    /\ Denotes(last.text, last.base) =
         IF Negative THEN -Signed(last.num) ELSE last.num
    /\ (\E k \in DOMAIN last.text : last.text[k] = "-") <=> Negative /\ " " \notin last.flags

(***************************************************************************)
(* The field is as wide as the directive says, wider only for a numeral    *)
(* that needs it; 0x comes on top.  The sign counts, also before zeros.    *)
(***************************************************************************)
FieldWidth ==
  /\ Numeric =>
       LET u == IF Negative THEN -Signed(last.num) ELSE last.num
           sign == IF last.base = 10 /\ u > 0 /\ " " \notin last.flags
                       /\ (Negative \/ "+" \in last.flags) THEN 1 ELSE 0
           prefix == IF last.base = 16 /\ "#" \in last.flags THEN 2 ELSE 0
       IN Len(last.text) = prefix + Max({last.width, DigitsOf(u, last.base) + sign})
  /\ last.conv \in {"s", "c"} => Len(last.text) = Max({last.width, Len(last.string)})

\* Before any h, every conversion is given the argument passed for it.
ArgumentsInStep ==
  Numeric /\ ~last.short => last.num = last.slot
=============================================================================
