---------------------------- MODULE PrintfProofs ----------------------------
(***************************************************************************)
(* Proofs about Printf: how va_arg steps through the argument slots, and   *)
(* that what printi and prints write is the number, in a field of the      *)
(* width asked for.  What the loop of printi computes for every number is  *)
(* proved by induction, which the least element of a set of naturals       *)
(* gives; a recursive function is first shown to exist.                    *)
(***************************************************************************)
EXTENDS Printf, WellFoundedInduction, TLAPS

-----------------------------------------------------------------------------
(***************************************************************************)
(* A word is put together again from its halves, as va_arg reads a slot of *)
(* which nothing was consumed.                                             *)
(***************************************************************************)
LEMMA WordOfHalves ==
  ASSUME NEW v \in 0 .. WORD - 1
  PROVE  (v % HALF) + HALF * (v \div HALF) = v
<1>1. HALF \in Nat \ {0} BY PrintfAssumption
<1>2. WORD \in Nat BY <1>1 DEF WORD
<1>3. v \in Nat BY <1>2
<1> QED BY <1>1, <1>3

(***************************************************************************)
(* va_arg of a whole slot when nothing is left of the last one: it yields  *)
(* the slot and leaves nothing.                                            *)
(***************************************************************************)
LEMMA WholeSlot ==
  ASSUME NEW v \in Values, rest = <<>>
  PROVE  Loaded(2, v) = v /\ Left(2, v) = <<>>
<1>1. v \in 0 .. WORD - 1 BY PrintfAssumption
<1>2. PICK a, b : a = v % HALF /\ b = v \div HALF OBVIOUS
<1>3. Stream(2, v) = <<a, b>>
  <2>1. Len(rest) = 0 OBVIOUS
  <2>2. rest \o <<a, b>> = <<a, b>>
    <3>1. <<a, b>> \in Seq({a, b}) OBVIOUS
    <3> QED BY <3>1
  <2> QED BY <1>2, <2>1, <2>2 DEF Stream
<1>4. Loaded(2, v) = a + HALF * b BY <1>3 DEF Loaded
<1>5. Left(2, v) = <<>>
  <2>1. SubSeq(<<a, b>>, 2 + 1, Len(<<a, b>>)) = <<>>
    <3>1. <<a, b>> \in Seq({a, b}) /\ Len(<<a, b>>) = 2 OBVIOUS
    <3> QED BY <3>1
  <2> QED BY <1>3, <2>1, Zenon DEF Left
<1>6. a + HALF * b = v BY <1>1, <1>2, WordOfHalves
<1> QED BY <1>4, <1>5, <1>6

-----------------------------------------------------------------------------
\* Before any h nothing is left over of a slot; this makes it inductive.
SlotsConsumed == ~last.short => rest = <<>>
ArgumentsInv == last.short \in BOOLEAN /\ SlotsConsumed /\ ArgumentsInStep

(***************************************************************************)
(* A call starts in step: k_printf has consumed nothing.                   *)
(***************************************************************************)
LEMMA InitInStep == Init => ArgumentsInv
BY DEF Init, ArgumentsInv, SlotsConsumed, ArgumentsInStep, Numeric, Numbers, Nothing

(***************************************************************************)
(* A conversion of a number keeps the arguments in step, or is the first   *)
(* with h and says so.                                                     *)
(***************************************************************************)
LEMMA NumberInStep ==
  ASSUME ArgumentsInv, NEW c, NEW v \in Values, print_number(c, v)
  PROVE  ArgumentsInv'
<1>1. PICK num : /\ num = IF Short THEN Extended(Loaded(1, v), c \in {"d", "i"})
                               ELSE Loaded(halves, v)
                 /\ last'.num = num /\ last'.slot = v
                 /\ last'.short = (last.short \/ Short)
  BY DEF print_number
<1>2. rest' = Left(halves, v) BY DEF print_number
<1>3. last'.short \in BOOLEAN BY <1>1, Zenon
<1>4. CASE ~last'.short
  <2>1. ~last.short /\ ~Short BY <1>1, <1>4, Zenon
  <2>2. rest = <<>> BY <2>1 DEF ArgumentsInv, SlotsConsumed
  <2>3. halves = 2 BY <2>1 DEF halves
  <2>4. num = v BY <1>1, <2>1, <2>2, <2>3, WholeSlot, Zenon
  <2>5. rest' = <<>> BY <1>2, <2>2, <2>3, WholeSlot, Zenon
  <2> QED BY <1>1, <1>3, <2>4, <2>5, Zenon DEF ArgumentsInv, SlotsConsumed, ArgumentsInStep
<1>5. CASE last'.short
  BY <1>3, <1>5, Zenon DEF ArgumentsInv, SlotsConsumed, ArgumentsInStep
<1> QED BY <1>4, <1>5

(***************************************************************************)
(* The conversions s and c take a whole slot and keep the arguments in     *)
(* step.                                                                   *)
(***************************************************************************)
LEMMA StringInStep ==
  ASSUME ArgumentsInv, NEW c, NEW v \in Values, print_string(c, v)
  PROVE  ArgumentsInv'
<1>1. last'.conv = c /\ c \in {"s", "c"} /\ last'.short = last.short
  BY DEF print_string
<1>2. rest' = Left(2, v) BY DEF print_string
<1>3. ~last.short => rest' = <<>>
  BY <1>2, WholeSlot, Zenon DEF ArgumentsInv, SlotsConsumed
<1>4. c \notin Numbers BY <1>1 DEF Numbers
<1>5. ~Numeric' BY <1>1, <1>4, Zenon DEF Numeric
<1>6. last'.short \in BOOLEAN BY <1>1 DEF ArgumentsInv
<1> QED BY <1>1, <1>3, <1>5, <1>6, Zenon DEF ArgumentsInv, SlotsConsumed, ArgumentsInStep

(***************************************************************************)
(* Every step of print keeps the arguments in step.                        *)
(***************************************************************************)
LEMMA NextInStep == ArgumentsInv /\ [Next]_vars => ArgumentsInv'
<1> SUFFICES ASSUME ArgumentsInv, [Next]_vars PROVE ArgumentsInv' OBVIOUS
<1>1. ASSUME UNCHANGED <<rest, last>> PROVE ArgumentsInv'
  BY <1>1 DEF ArgumentsInv, SlotsConsumed, ArgumentsInStep, Numeric
<1>2. ASSUME NEW c, UNCHANGED rest,
             last' = [conv |-> "literal", short |-> last.short, text |-> <<c>>]
      PROVE  ArgumentsInv'
  BY <1>2 DEF ArgumentsInv, SlotsConsumed, ArgumentsInStep, Numeric, Numbers
<1>3. CASE k_printf
  BY <1>3 DEF k_printf, ArgumentsInv, SlotsConsumed, ArgumentsInStep, Numeric, Numbers, Nothing
<1>4. CASE print_percent BY <1>1, <1>4 DEF print_percent
<1>5. CASE print_nul BY <1>1, <1>5 DEF print_nul
<1>6. CASE Overrun BY <1>1, <1>6 DEF Overrun, vars
<1>7. CASE UNCHANGED vars BY <1>1, <1>7 DEF vars
<1>8. ASSUME NEW c \in Chars, print_literal(c) PROVE ArgumentsInv'
  BY <1>2, <1>8 DEF print_literal
<1>9. ASSUME NEW c \in Chars, print_flag(c) \/ print_width(c) \/ print_length(c)
      PROVE  ArgumentsInv'
  BY <1>1, <1>9 DEF print_flag, print_width, print_length
<1>10. ASSUME NEW c \in Chars, print_other(c) PROVE ArgumentsInv'
  BY <1>2, <1>10 DEF print_other
<1>11. ASSUME NEW c \in Chars, NEW v \in Values, print_number(c, v) \/ print_string(c, v)
       PROVE  ArgumentsInv'
  BY <1>11, NumberInStep, StringInStep
<1> QED
  BY <1>3, <1>4, <1>5, <1>6, <1>7, <1>8, <1>9, <1>10, <1>11, Zenon DEF Next

(***************************************************************************)
(* Up to the first h every numeric conversion of k_printf is given the     *)
(* argument that was passed for it, for every format and all arguments:    *)
(* va_arg has then consumed whole slots only.                              *)
(***************************************************************************)
THEOREM ArgumentsStayInStep == Spec => []ArgumentsInStep
<1>1. ArgumentsInv => ArgumentsInStep BY DEF ArgumentsInv
<1> QED BY <1>1, InitInStep, NextInStep, PTL DEF Spec

-----------------------------------------------------------------------------
(***************************************************************************)
(* Every nonempty set of naturals has a least element: the first-order     *)
(* form of well-foundedness that the provers can use, on which the         *)
(* inductions below rest.                                                  *)
(***************************************************************************)
LEMMA LeastElement ==
  ASSUME NEW T, T \subseteq Nat, T # {}
  PROVE  \E x \in T : \A y \in T : x <= y
<1> DEFINE R == OpToRel(<, Nat)
<1>1. IsWellFoundedOn(R, Nat) BY NatLessThanWellFounded, Zenon
<1> HIDE DEF R
<1>2. PICK x \in T : \A y \in T : ~ (<<y, x>> \in R) BY <1>1, WFMin, Zenon
<1>3. ASSUME NEW y \in T PROVE x <= y
  <2>1. x \in Nat /\ y \in Nat OBVIOUS
  <2>2. y < x => <<y, x>> \in R BY <2>1 DEF R, OpToRel
  <2>3. ~(y < x) BY <1>2, <2>2, Zenon
  <2> QED BY <2>1, <2>3
<1> QED BY <1>3

(***************************************************************************)
(* Induction over smaller numbers, for the loop of printi, which goes on   *)
(* with u div base.                                                        *)
(***************************************************************************)
LEMMA CourseOfValues ==
  ASSUME NEW S, \A n \in Nat : (\A m \in 0 .. n - 1 : m \in S) => n \in S
  PROVE  \A n \in Nat : n \in S
<1> SUFFICES ASSUME NEW k \in Nat, k \notin S PROVE FALSE OBVIOUS
<1> DEFINE T == {n \in Nat : n \notin S}
<1>1. PICK x \in T : \A y \in T : x <= y
  <2>1. T \subseteq Nat /\ T # {} OBVIOUS
  <2> HIDE DEF T
  <2> QED BY <2>1, LeastElement
<1>2. ASSUME NEW m \in 0 .. x - 1 PROVE m \in S BY <1>1
<1> QED BY <1>2

(***************************************************************************)
(* Induction from n to n + 1, for positions of a text and for powers.      *)
(***************************************************************************)
LEMMA Induction ==
  ASSUME NEW S, 0 \in S, \A n \in Nat : n \in S => n + 1 \in S
  PROVE  \A n \in Nat : n \in S
<1>1. ASSUME NEW n \in Nat, \A m \in 0 .. n - 1 : m \in S PROVE n \in S
  <2>1. CASE n = 0 BY <2>1
  <2>2. CASE n # 0
    <3>1. n - 1 \in Nat /\ n - 1 \in S BY <1>1, <2>2
    <3>2. (n - 1) + 1 \in S BY <3>1
    <3> QED BY <3>2
  <2> QED BY <2>1, <2>2
<1> QED BY <1>1, CourseOfValues

-----------------------------------------------------------------------------
(***************************************************************************)
(* The number of words is a natural number.                                *)
(***************************************************************************)
LEMMA WordIsNat == WORD \in Nat
BY PrintfAssumption DEF WORD

\* The bases of the conversions, and the equation of the loop over the
\* digits.
Bases == {10, 16}
IsNumerals(f, N, base, convbase) ==
  f = [n \in 0 .. N - 1 |->
         IF n = 0 THEN <<>> ELSE Append(f[n \div base], convbase[(n % base) + 1])]

(***************************************************************************)
(* One step of the loop of printi: the remainder is a digit, the quotient  *)
(* is smaller, and the two determine the number.                           *)
(***************************************************************************)
LEMMA Quotient ==
  ASSUME NEW base \in Bases, NEW n \in Nat
  PROVE  /\ n \div base \in Nat /\ n % base \in 0 .. base - 1
         /\ n = (n \div base) * base + (n % base)
         /\ n # 0 => n \div base < n
         /\ n < base <=> n \div base = 0
<1>1. CASE base = 10 BY <1>1
<1>2. CASE base = 16 BY <1>2
<1> QED BY <1>1, <1>2 DEF Bases

(***************************************************************************)
(* The recursive function behind numeral exists, built up from its values  *)
(* on smaller numbers: the loop of printi ends for every u.                *)
(***************************************************************************)
LEMMA NumeralsExist ==
  ASSUME NEW base \in Bases, NEW convbase
  PROVE  \A N \in Nat : \E f : IsNumerals(f, N, base, convbase)
<1> DEFINE S == {N \in Nat : \E f : IsNumerals(f, N, base, convbase)}
<1>1. 0 \in S
  <2>1. IsNumerals([n \in {} |-> n], 0, base, convbase) BY DEF IsNumerals
  <2> QED BY <2>1
<1>2. ASSUME NEW N \in Nat, N \in S PROVE N + 1 \in S
  <2>1. PICK f : IsNumerals(f, N, base, convbase) BY <1>2
  <2> DEFINE d(n) == convbase[(n % base) + 1]
             g == [n \in 0 .. N |-> IF n < N THEN f[n]
                                    ELSE IF n = 0 THEN <<>> ELSE Append(f[n \div base], d(n))]
  <2>2. ASSUME NEW n \in 0 .. N
        PROVE  g[n] = IF n = 0 THEN <<>> ELSE Append(g[n \div base], d(n))
    <3>1. n \in Nat /\ n \div base \in Nat /\ (n # 0 => n \div base < n) BY Quotient
    <3>2. n # 0 => n \div base \in 0 .. N /\ n \div base < N BY <3>1
    <3> HIDE DEF d
    <3>3. n # 0 => g[n \div base] = f[n \div base] BY <3>2
    <3>4. CASE n < N
      <4>1. n \in 0 .. N - 1 BY <3>1, <3>4
      <4>2. f[n] = IF n = 0 THEN <<>> ELSE Append(f[n \div base], d(n))
        BY <2>1, <4>1 DEF IsNumerals, d
      <4> QED BY <3>3, <3>4, <4>2
    <3>5. CASE ~(n < N) BY <3>3, <3>5
    <3> QED BY <3>4, <3>5
  <2>3. g = [n \in 0 .. N |-> g[n]] OBVIOUS
  <2>4. 0 .. (N + 1) - 1 = 0 .. N BY <1>2
  <2> HIDE DEF g
  <2>5. g = [n \in 0 .. N |-> IF n = 0 THEN <<>> ELSE Append(g[n \div base], d(n))]
    BY <2>2, <2>3, Zenon
  <2>6. IsNumerals(g, N + 1, base, convbase) BY <2>4, <2>5, Zenon DEF IsNumerals
  <2> QED BY <2>6
<1> HIDE DEF S
<1>3. \A N \in Nat : N \in S BY <1>1, <1>2, Induction
<1> QED BY <1>3 DEF S

(***************************************************************************)
(* What one turn of the loop of printi does: the digits of u are those of  *)
(* u div base and then the digit of u mod base.                            *)
(***************************************************************************)
LEMMA NumeralEquation ==
  ASSUME NEW base \in Bases, NEW convbase, NEW u \in 0 .. WORD - 1
  PROVE  numeral(u, base, convbase) =
           IF u = 0 THEN <<>>
           ELSE Append(numeral(u \div base, base, convbase), convbase[(u % base) + 1])
<1>1. WORD \in Nat BY WordIsNat, Zenon
<1>2. \E f : IsNumerals(f, WORD, base, convbase) BY <1>1, NumeralsExist
<1>3. PICK f : /\ IsNumerals(f, WORD, base, convbase)
               /\ \A n : numeral(n, base, convbase) = f[n]
  BY <1>2, Zenon DEF numeral, IsNumerals
<1>4. f[u] = IF u = 0 THEN <<>> ELSE Append(f[u \div base], convbase[(u % base) + 1])
  BY <1>3, Zenon DEF IsNumerals
<1> QED BY <1>3, <1>4, Zenon

-----------------------------------------------------------------------------
\* The equation of the powers of a base.
IsPowers(p, N, base) == p = [n \in 0 .. N |-> IF n = 0 THEN 1 ELSE base * p[n - 1]]

(***************************************************************************)
(* The recursive function behind power exists.                             *)
(***************************************************************************)
LEMMA PowersExist ==
  ASSUME NEW base \in Bases
  PROVE  \A N \in Nat : \E p : IsPowers(p, N, base)
<1> DEFINE S == {N \in Nat : \E p : IsPowers(p, N, base)}
<1>1. 0 \in S
  <2> DEFINE p == [n \in 0 .. 0 |-> 1]
  <2>1. p = [n \in 0 .. 0 |-> IF n = 0 THEN 1 ELSE base * p[n - 1]] OBVIOUS
  <2>2. IsPowers(p, 0, base) BY <2>1 DEF IsPowers
  <2> QED BY <2>2
<1>2. ASSUME NEW N \in Nat, N \in S PROVE N + 1 \in S
  <2>1. PICK p : IsPowers(p, N, base) BY <1>2
  <2> DEFINE g == [n \in 0 .. N + 1 |-> IF n <= N THEN p[n] ELSE base * p[n - 1]]
  <2>2. ASSUME NEW n \in 0 .. N + 1
        PROVE  g[n] = IF n = 0 THEN 1 ELSE base * g[n - 1]
    <3>1. n # 0 => g[n - 1] = p[n - 1] OBVIOUS
    <3>2. CASE n <= N
      <4>1. n \in 0 .. N BY <3>2
      <4>2. p[n] = IF n = 0 THEN 1 ELSE base * p[n - 1] BY <2>1, <4>1 DEF IsPowers
      <4> QED BY <3>1, <3>2, <4>2
    <3>3. CASE ~(n <= N) BY <3>1, <3>3
    <3> QED BY <3>2, <3>3
  <2>3. g = [n \in 0 .. N + 1 |-> g[n]] OBVIOUS
  <2> HIDE DEF g
  <2>4. g = [n \in 0 .. N + 1 |-> IF n = 0 THEN 1 ELSE base * g[n - 1]]
    BY <2>2, <2>3, Zenon
  <2>5. IsPowers(g, N + 1, base) BY <2>4, Zenon DEF IsPowers
  <2> QED BY <2>5
<1> HIDE DEF S
<1>3. \A N \in Nat : N \in S BY <1>1, <1>2, Induction
<1> QED BY <1>3 DEF S

(***************************************************************************)
(* The equations of powers of the base.                                    *)
(***************************************************************************)
LEMMA PowerEquation ==
  ASSUME NEW base \in Bases
  PROVE  /\ power(base, 0) = 1
         /\ \A n \in 1 .. WORD : power(base, n) = base * power(base, n - 1)
<1>1. WORD \in Nat BY WordIsNat, Zenon
<1>2. \E p : IsPowers(p, WORD, base) BY <1>1, PowersExist
<1>3. PICK p : IsPowers(p, WORD, base) /\ \A n : power(base, n) = p[n]
  BY <1>2, Zenon DEF power, IsPowers
<1>4. \A n \in 0 .. WORD : p[n] = IF n = 0 THEN 1 ELSE base * p[n - 1]
  BY <1>3, Zenon DEF IsPowers
<1>5. 0 \in 0 .. WORD BY <1>1
<1>6. ASSUME NEW n \in 1 .. WORD PROVE n \in 0 .. WORD /\ n # 0 BY <1>1
<1>7. p[0] = 1 BY <1>4, <1>5
<1>8. ASSUME NEW n \in 1 .. WORD PROVE p[n] = base * p[n - 1] BY <1>4, <1>6
<1> QED BY <1>3, <1>7, <1>8, Zenon

(***************************************************************************)
(* A power of the base is a positive number.                               *)
(***************************************************************************)
LEMMA PowerPositive ==
  ASSUME NEW base \in Bases
  PROVE  \A n \in 0 .. WORD : power(base, n) \in Nat \ {0}
<1>1. WORD \in Nat BY WordIsNat, Zenon
<1> DEFINE S == {n \in Nat : n <= WORD => power(base, n) \in Nat \ {0}}
<1>2. 0 \in S BY PowerEquation
<1>3. ASSUME NEW n \in Nat, n \in S PROVE n + 1 \in S
  <2>1. CASE n + 1 <= WORD
    <3>1. n + 1 \in 1 .. WORD /\ (n + 1) - 1 = n BY <1>1, <2>1
    <3>2. power(base, n + 1) = base * power(base, n) BY <3>1, PowerEquation
    <3>3. power(base, n) \in Nat \ {0} BY <1>1, <1>3, <2>1
    <3>4. base \in Nat \ {0} BY DEF Bases
    <3>5. base * power(base, n) \in Nat \ {0} BY <3>3, <3>4
    <3> QED BY <3>2, <3>5
  <2>2. CASE ~(n + 1 <= WORD) BY <2>2
  <2> QED BY <2>1, <2>2
<1> HIDE DEF S
<1>4. \A n \in Nat : n \in S BY <1>2, <1>3, Induction
<1> QED BY <1>1, <1>4 DEF S

(***************************************************************************)
(* A larger exponent does not make a power smaller.                        *)
(***************************************************************************)
LEMMA PowerMonotone ==
  ASSUME NEW base \in Bases, NEW m \in 0 .. WORD
  PROVE  \A n \in m .. WORD : power(base, m) <= power(base, n)
<1>1. WORD \in Nat BY WordIsNat, Zenon
<1> DEFINE S == {n \in Nat : n \in m .. WORD => power(base, m) <= power(base, n)}
<1>2. 0 \in S
  <2>1. 0 \in m .. WORD => m = 0 BY <1>1
  <2>2. power(base, 0) = 1 BY PowerEquation
  <2> QED BY <2>1, <2>2
<1>3. ASSUME NEW n \in Nat, n \in S PROVE n + 1 \in S
  <2>1. CASE n + 1 \in m .. WORD /\ n + 1 # m
    <3>1. n + 1 \in 1 .. WORD /\ (n + 1) - 1 = n /\ n \in 0 .. WORD /\ n \in m .. WORD
      BY <1>1, <2>1
    <3>2. power(base, n + 1) = base * power(base, n) BY <3>1, PowerEquation
    <3>3. power(base, n) \in Nat /\ power(base, m) \in Nat BY <3>1, PowerPositive
    <3>4. power(base, m) <= power(base, n) BY <1>3, <3>1
    <3>5. power(base, n) <= base * power(base, n)
      <4>1. CASE base = 10 BY <3>3, <4>1
      <4>2. CASE base = 16 BY <3>3, <4>2
      <4> QED BY <4>1, <4>2 DEF Bases
    <3>6. base * power(base, n) \in Nat BY <3>3 DEF Bases
    <3> QED BY <3>2, <3>3, <3>4, <3>5, <3>6
  <2>2. CASE n + 1 = m
    <3>1. power(base, m) \in Nat BY PowerPositive
    <3> QED BY <2>2, <3>1
  <2>3. CASE ~(n + 1 \in m .. WORD) BY <2>3
  <2> QED BY <2>1, <2>2, <2>3
<1> HIDE DEF S
<1>4. \A n \in Nat : n \in S BY <1>2, <1>3, Induction
<1> QED BY <1>1, <1>4 DEF S

-----------------------------------------------------------------------------
\* The digits with convbase 'a' and with 'A'.
Alphabets == {Lower, Upper}

(***************************************************************************)
(* The length of a sequence is a natural number.                           *)
(***************************************************************************)
LEMMA SeqLength ==
  ASSUME NEW S, NEW s \in Seq(S)
  PROVE  Len(s) \in Nat
OBVIOUS

(***************************************************************************)
(* What a concatenation holds, and where.                                  *)
(***************************************************************************)
LEMMA Concatenation ==
  ASSUME NEW S, NEW s \in Seq(S), NEW t \in Seq(S)
  PROVE  /\ s \o t \in Seq(S)
         /\ Len(s \o t) = Len(s) + Len(t)
         /\ \A i \in 1 .. Len(s) : (s \o t)[i] = s[i]
         /\ \A i \in 1 .. Len(t) : (s \o t)[Len(s) + i] = t[i]
OBVIOUS

(***************************************************************************)
(* The digits of printi one by one: '0' + rem, or convbase + rem - 10.     *)
(***************************************************************************)
LEMMA Alphabet ==
  /\ Len(Lower) = 16 /\ Len(Upper) = 16 /\ DOMAIN Lower = 1 .. 16 /\ DOMAIN Upper = 1 .. 16
  /\ Lower[1] = "0" /\ Lower[2] = "1" /\ Lower[3] = "2" /\ Lower[4] = "3"
  /\ Lower[5] = "4" /\ Lower[6] = "5" /\ Lower[7] = "6" /\ Lower[8] = "7"
  /\ Lower[9] = "8" /\ Lower[10] = "9" /\ Lower[11] = "a" /\ Lower[12] = "b"
  /\ Lower[13] = "c" /\ Lower[14] = "d" /\ Lower[15] = "e" /\ Lower[16] = "f"
  /\ Upper[1] = "0" /\ Upper[2] = "1" /\ Upper[3] = "2" /\ Upper[4] = "3"
  /\ Upper[5] = "4" /\ Upper[6] = "5" /\ Upper[7] = "6" /\ Upper[8] = "7"
  /\ Upper[9] = "8" /\ Upper[10] = "9" /\ Upper[11] = "A" /\ Upper[12] = "B"
  /\ Upper[13] = "C" /\ Upper[14] = "D" /\ Upper[15] = "E" /\ Upper[16] = "F"
<1> DEFINE l == <<"a", "b", "c", "d", "e", "f">>
           u == <<"A", "B", "C", "D", "E", "F">>
           S == {"0", "1", "2", "3", "4", "5", "6", "7", "8", "9",
                 "a", "b", "c", "d", "e", "f", "A", "B", "C", "D", "E", "F"}
<1>1. /\ Digits \in Seq(S) /\ Len(Digits) = 10
      /\ Digits[1] = "0" /\ Digits[2] = "1" /\ Digits[3] = "2" /\ Digits[4] = "3"
      /\ Digits[5] = "4" /\ Digits[6] = "5" /\ Digits[7] = "6" /\ Digits[8] = "7"
      /\ Digits[9] = "8" /\ Digits[10] = "9"
  BY DEF Digits
<1>2. /\ l \in Seq(S) /\ Len(l) = 6
      /\ l[1] = "a" /\ l[2] = "b" /\ l[3] = "c" /\ l[4] = "d" /\ l[5] = "e" /\ l[6] = "f"
  OBVIOUS
<1>3. /\ u \in Seq(S) /\ Len(u) = 6
      /\ u[1] = "A" /\ u[2] = "B" /\ u[3] = "C" /\ u[4] = "D" /\ u[5] = "E" /\ u[6] = "F"
  OBVIOUS
<1>4. Lower = Digits \o l /\ Upper = Digits \o u BY DEF Lower, Upper
<1> HIDE DEF l, u, S
<1>5. /\ Lower \in Seq(S) /\ Len(Lower) = 16
      /\ \A k \in 1 .. 10 : Lower[k] = Digits[k]
      /\ \A k \in 1 .. 6 : Lower[10 + k] = l[k]
  <2>1. Digits \in Seq(S) /\ l \in Seq(S) BY <1>1, <1>2
  <2>2. /\ Lower \in Seq(S)
        /\ Len(Lower) = Len(Digits) + Len(l)
        /\ \A i \in 1 .. Len(Digits) : Lower[i] = Digits[i]
        /\ \A i \in 1 .. Len(l) : Lower[Len(Digits) + i] = l[i]
    BY <1>4, <2>1, Concatenation
  <2>3. Len(Digits) = 10 /\ Len(l) = 6 BY <1>1, <1>2
  <2> QED BY <2>2, <2>3
<1>6. /\ Upper \in Seq(S) /\ Len(Upper) = 16
      /\ \A k \in 1 .. 10 : Upper[k] = Digits[k]
      /\ \A k \in 1 .. 6 : Upper[10 + k] = u[k]
  <2>1. Digits \in Seq(S) /\ u \in Seq(S) BY <1>1, <1>3
  <2>2. /\ Upper \in Seq(S)
        /\ Len(Upper) = Len(Digits) + Len(u)
        /\ \A i \in 1 .. Len(Digits) : Upper[i] = Digits[i]
        /\ \A i \in 1 .. Len(u) : Upper[Len(Digits) + i] = u[i]
    BY <1>4, <2>1, Concatenation
  <2>3. Len(Digits) = 10 /\ Len(u) = 6 BY <1>1, <1>3
  <2> QED BY <2>2, <2>3
<1>7. /\ Lower[1] = "0" /\ Lower[2] = "1" /\ Lower[3] = "2" /\ Lower[4] = "3"
      /\ Lower[5] = "4" /\ Lower[6] = "5" /\ Lower[7] = "6" /\ Lower[8] = "7"
      /\ Lower[9] = "8" /\ Lower[10] = "9"
  BY <1>1, <1>5
<1>8. /\ Lower[11] = "a" /\ Lower[12] = "b"
      /\ Lower[13] = "c" /\ Lower[14] = "d" /\ Lower[15] = "e" /\ Lower[16] = "f"
  BY <1>2, <1>5
<1>9. /\ Upper[1] = "0" /\ Upper[2] = "1" /\ Upper[3] = "2" /\ Upper[4] = "3"
      /\ Upper[5] = "4" /\ Upper[6] = "5" /\ Upper[7] = "6" /\ Upper[8] = "7"
      /\ Upper[9] = "8" /\ Upper[10] = "9"
  BY <1>1, <1>6
<1>10. /\ Upper[11] = "A" /\ Upper[12] = "B"
       /\ Upper[13] = "C" /\ Upper[14] = "D" /\ Upper[15] = "E" /\ Upper[16] = "F"
  BY <1>3, <1>6
<1>11. DOMAIN Lower = 1 .. 16 /\ DOMAIN Upper = 1 .. 16 BY <1>5, <1>6
<1> QED BY <1>5, <1>6, <1>7, <1>8, <1>9, <1>10

(***************************************************************************)
(* A digit of either alphabet reads back as its place: converting a        *)
(* remainder and reading the character are inverse.                        *)
(***************************************************************************)
LEMMA DigitsOfAlphabet ==
  ASSUME NEW convbase \in Alphabets, NEW k \in 1 .. 16
  PROVE  IsHexDigit(convbase[k]) /\ DigitValue(convbase[k]) = k - 1
<1>1. convbase[k] \in {Lower[k], Upper[k]} BY DEF Alphabets
<1>2. IsHexDigit(convbase[k])
  BY Alphabet DEF Alphabets, IsHexDigit, Range
<1>3. ASSUME NEW j \in 1 .. 16, convbase[k] \in {Lower[j], Upper[j]} PROVE j = k
  BY <1>1, <1>3, Alphabet
<1>4. DOMAIN Lower = 1 .. 16 BY Alphabet
<1>5. (CHOOSE j \in DOMAIN Lower : convbase[k] \in {Lower[j], Upper[j]}) = k
  BY <1>1, <1>3, <1>4
<1> QED BY <1>2, <1>5 DEF DigitValue

(***************************************************************************)
(* The letters of the two alphabets.                                       *)
(***************************************************************************)
LEMMA AlphabetElements ==
  ASSUME NEW k \in 1 .. 16
  PROVE  {Lower[k], Upper[k]} \subseteq
           {"0", "1", "2", "3", "4", "5", "6", "7", "8", "9",
            "a", "b", "c", "d", "e", "f", "A", "B", "C", "D", "E", "F"}
<1>1. k = 1 \/ k = 2 \/ k = 3 \/ k = 4 \/ k = 5 \/ k = 6 \/ k = 7 \/ k = 8
      \/ k = 9 \/ k = 10 \/ k = 11 \/ k = 12 \/ k = 13 \/ k = 14 \/ k = 15 \/ k = 16
  OBVIOUS
<1>2. k <= 10 => Lower[k] = Upper[k] /\ Lower[k] \in {"0", "1", "2", "3", "4", "5", "6", "7", "8", "9"}
  BY <1>1, Alphabet
<1>3. k > 10 => Lower[k] \in {"a", "b", "c", "d", "e", "f"} BY <1>1, Alphabet
<1>4. k > 10 => Upper[k] \in {"A", "B", "C", "D", "E", "F"} BY <1>1, Alphabet
<1> QED BY <1>2, <1>3, <1>4

(***************************************************************************)
(* Blanks, signs and the x of 0x are no digits, and a padding zero has the *)
(* value 0.                                                                *)
(***************************************************************************)
LEMMA NoDigits ==
  /\ ~IsHexDigit(" ") /\ ~IsHexDigit("+") /\ ~IsHexDigit("-") /\ ~IsHexDigit("x")
  /\ IsHexDigit("0") /\ DigitValue("0") = 0
<1>1. ASSUME NEW c \in {" ", "+", "-", "x"} PROVE ~IsHexDigit(c)
  <2> DEFINE S == {"0", "1", "2", "3", "4", "5", "6", "7", "8", "9",
                   "a", "b", "c", "d", "e", "f", "A", "B", "C", "D", "E", "F"}
  <2>1. ASSUME NEW k \in 1 .. 16 PROVE Lower[k] \in S /\ Upper[k] \in S BY AlphabetElements
  <2>2. c \notin S OBVIOUS
  <2> HIDE DEF S
  <2>3. DOMAIN Lower = 1 .. 16 /\ DOMAIN Upper = 1 .. 16 BY Alphabet
  <2> QED BY <2>1, <2>2, <2>3 DEF IsHexDigit, Range
<1>2. IsHexDigit("0") /\ DigitValue("0") = 0
  <2>1. Lower \in Alphabets /\ Lower[1] = "0" /\ 1 \in 1 .. 16 BY Alphabet DEF Alphabets
  <2> QED BY <2>1, DigitsOfAlphabet
<1> QED BY <1>1, <1>2

-----------------------------------------------------------------------------
\* The characters that numeric conversions are printed with.
Letters == {"0", "1", "2", "3", "4", "5", "6", "7", "8", "9",
            "a", "b", "c", "d", "e", "f", "A", "B", "C", "D", "E", "F",
            " ", "+", "-", "x"}

(***************************************************************************)
(* The character of a remainder is a digit of that value, and no sign.     *)
(***************************************************************************)
LEMMA DigitLetter ==
  ASSUME NEW base \in Bases, NEW convbase \in Alphabets, NEW n \in Nat
  PROVE  LET c == convbase[(n % base) + 1]
         IN c \in Letters /\ c # "-" /\ IsHexDigit(c) /\ DigitValue(c) = n % base
<1> DEFINE k == (n % base) + 1
<1>1. n % base \in 0 .. base - 1 BY Quotient
<1>2. k \in 1 .. 16 /\ k - 1 = n % base BY <1>1 DEF Bases
<1> HIDE DEF k
<1>3. convbase[k] \in {Lower[k], Upper[k]} BY DEF Alphabets
<1>4. convbase[k] \in {"0", "1", "2", "3", "4", "5", "6", "7", "8", "9",
                       "a", "b", "c", "d", "e", "f", "A", "B", "C", "D", "E", "F"}
  BY <1>2, <1>3, AlphabetElements
<1>5. convbase[k] \in Letters /\ convbase[k] # "-" BY <1>4 DEF Letters
<1>6. IsHexDigit(convbase[k]) /\ DigitValue(convbase[k]) = k - 1
  BY <1>2, DigitsOfAlphabet
<1> QED BY <1>2, <1>5, <1>6 DEF k

(***************************************************************************)
(* A numeral consists of digits only.                                      *)
(***************************************************************************)
LEMMA NumeralType ==
  ASSUME NEW base \in Bases, NEW convbase \in Alphabets, NEW u \in 0 .. WORD - 1
  PROVE  /\ numeral(u, base, convbase) \in Seq(Letters \ {"-"})
         /\ Len(numeral(u, base, convbase)) <= u
<1> DEFINE w(n) == numeral(n, base, convbase)
           S == {n \in Nat : n < WORD => w(n) \in Seq(Letters \ {"-"}) /\ Len(w(n)) <= n}
<1>1. WORD \in Nat BY WordIsNat, Zenon
<1>2. ASSUME NEW n \in Nat, \A m \in 0 .. n - 1 : m \in S, n < WORD
      PROVE  w(n) \in Seq(Letters \ {"-"}) /\ Len(w(n)) <= n
  <2>1. n \in 0 .. WORD - 1 BY <1>1, <1>2
  <2>2. w(n) = IF n = 0 THEN <<>> ELSE Append(w(n \div base), convbase[(n % base) + 1])
    BY <2>1, NumeralEquation
  <2>3. CASE n = 0 BY <2>2, <2>3
  <2>4. CASE n # 0
    <3>1. n \div base \in 0 .. n - 1 BY <2>4, Quotient
    <3>2. w(n \div base) \in Seq(Letters \ {"-"}) /\ Len(w(n \div base)) <= n \div base
      BY <1>1, <1>2, <3>1
    <3>3. PICK c : c = convbase[(n % base) + 1] OBVIOUS
    <3>4. c \in Letters \ {"-"} BY <3>3, DigitLetter
    <3>5. PICK t, m : t = w(n \div base) /\ m = n \div base OBVIOUS
    <3>6. w(n) = Append(t, c) BY <2>2, <2>4, <3>3, <3>5
    <3>7. t \in Seq(Letters \ {"-"}) /\ Len(t) <= m /\ m < n /\ m \in Nat BY <3>1, <3>2, <3>5
    <3> HIDE DEF w
    <3>8. w(n) \in Seq(Letters \ {"-"}) /\ Len(w(n)) = Len(t) + 1 BY <3>4, <3>6, <3>7
    <3> QED BY <3>7, <3>8
  <2> QED BY <2>3, <2>4
<1>3. ASSUME NEW n \in Nat, \A m \in 0 .. n - 1 : m \in S PROVE n \in S BY <1>2, <1>3
<1> HIDE DEF S
<1>4. \A n \in Nat : n \in S BY <1>3, CourseOfValues
<1>5. u \in Nat /\ u < WORD /\ u \in S BY <1>1, <1>4
<1> QED BY <1>5 DEF S

(***************************************************************************)
(* A numeral of L digits denotes a number from base^(L-1) up to base^L:    *)
(* printi writes no leading zero and drops no digit.                       *)
(***************************************************************************)
LEMMA NumeralLength ==
  ASSUME NEW base \in Bases, NEW convbase \in Alphabets, NEW u \in 1 .. WORD - 1
  PROVE  LET L == Len(numeral(u, base, convbase))
         IN L \in 1 .. u /\ power(base, L - 1) <= u /\ u < power(base, L)
<1> DEFINE L(n) == Len(numeral(n, base, convbase))
           P(n) == L(n) \in 1 .. n /\ power(base, L(n) - 1) <= n /\ n < power(base, L(n))
           S == {n \in Nat : n \in 1 .. WORD - 1 => P(n)}
<1>1. WORD \in Nat BY WordIsNat, Zenon
<1>2. ASSUME NEW n \in Nat, \A m \in 0 .. n - 1 : m \in S, n \in 1 .. WORD - 1
      PROVE  P(n)
  <2>1. PICK q, r : /\ q = n \div base /\ r = n % base
                    /\ q \in Nat /\ r \in 0 .. base - 1 /\ n = q * base + r /\ q < n
    BY <1>2, Quotient
  <2>2. n \in 0 .. WORD - 1 /\ n # 0 /\ q \in 0 .. WORD - 1 BY <1>1, <1>2, <2>1
  <2>3. PICK t, c : /\ t = numeral(q, base, convbase) /\ c = convbase[(n % base) + 1]
                    /\ numeral(n, base, convbase) = Append(t, c)
    BY <2>1, <2>2, NumeralEquation
  <2>4. t \in Seq(Letters \ {"-"}) /\ Len(t) \in Nat /\ Len(t) <= q BY <2>2, <2>3, NumeralType
  <2>5. c \in Letters \ {"-"} BY <2>3, DigitLetter
  <2>6. L(n) = Len(t) + 1 BY <2>3, <2>4, <2>5
  <2>7. L(n) \in 1 .. n /\ L(n) \in 1 .. WORD /\ L(n) - 1 = Len(t)
    BY <1>1, <1>2, <2>1, <2>4, <2>6
  <2>8. power(base, L(n)) = base * power(base, Len(t)) BY <2>7, PowerEquation
  <2>9. power(base, Len(t)) \in Nat /\ power(base, L(n)) \in Nat
    BY <1>1, <2>4, <2>7, PowerPositive
  <2>10. CASE q = 0
    <3>1. t = <<>> BY <1>1, <2>2, <2>3, <2>10, NumeralEquation
    <3>2. power(base, 0) = 1 BY PowerEquation
    <3>3. power(base, Len(t)) = 1 /\ power(base, L(n)) = base BY <2>8, <3>1, <3>2 DEF Bases
    <3>4. n < base BY <2>1, <2>10 DEF Bases
    <3> QED BY <1>2, <2>7, <3>3, <3>4
  <2>11. CASE q # 0
    <3>1. q \in 0 .. n - 1 /\ q \in 1 .. WORD - 1 BY <2>1, <2>2, <2>11
    <3>2. P(q) BY <1>2, <3>1
    <3>3. L(q) = Len(t) BY <2>3
    <3>4. PICK a, b : a = power(base, Len(t) - 1) /\ b = power(base, Len(t)) OBVIOUS
    <3>5. a <= q /\ q < b /\ Len(t) \in 1 .. WORD BY <1>1, <3>1, <3>2, <3>3, <3>4
    <3>6. b = base * a BY <3>4, <3>5, PowerEquation
    <3>7. a \in Nat /\ b \in Nat BY <1>1, <3>4, <3>5, PowerPositive
    <3>8. base * a <= n /\ n < base * b
      <4>1. CASE base = 10 BY <2>1, <3>5, <3>7, <4>1
      <4>2. CASE base = 16 BY <2>1, <3>5, <3>7, <4>2
      <4> QED BY <4>1, <4>2 DEF Bases
    <3>9. b <= n /\ n < power(base, L(n)) BY <2>8, <3>4, <3>6, <3>8
    <3> QED BY <2>7, <3>4, <3>9
  <2> QED BY <2>10, <2>11
<1> HIDE DEF P
<1>3. ASSUME NEW n \in Nat, \A m \in 0 .. n - 1 : m \in S PROVE n \in S BY <1>2, <1>3
<1> HIDE DEF S
<1>4. \A n \in Nat : n \in S BY <1>3, CourseOfValues
<1>5. P(u) BY <1>1, <1>4 DEF S
<1> QED BY <1>5 DEF P

(***************************************************************************)
(* The local buffer of printi is large enough: a number below base^d has   *)
(* at most d digits, for every base and word size. A word of 32 bits has   *)
(* thus at most ten decimal or eight hexadecimal digits, which with a sign *)
(* and NUL are far below the 65 bytes of PRINT_BUF_LEN.                    *)
(***************************************************************************)
THEOREM NumeralsFit ==
  ASSUME NEW base \in Bases, NEW convbase \in Alphabets, NEW u \in 0 .. WORD - 1,
         NEW d \in 0 .. WORD, u < power(base, d)
  PROVE  Len(numeral(u, base, convbase)) <= d
<1>1. WORD \in Nat BY WordIsNat
<1>2. PICK L : L = Len(numeral(u, base, convbase)) OBVIOUS
<1>3. CASE u = 0
  <2>1. L <= u /\ L \in Nat BY <1>2, NumeralType
  <2> QED BY <1>2, <1>3, <2>1
<1>4. CASE u # 0
  <2>1. u \in 1 .. WORD - 1 BY <1>1, <1>4
  <2>2. L \in 1 .. u /\ power(base, L - 1) <= u BY <1>2, <2>1, NumeralLength
  <2> SUFFICES ASSUME d < L PROVE FALSE BY <1>1, <1>2, <2>2
  <2>3. L - 1 \in d .. WORD BY <1>1, <2>1, <2>2
  <2>4. power(base, d) <= power(base, L - 1) BY <2>3, PowerMonotone
  <2>5. power(base, d) \in Nat /\ power(base, L - 1) \in Nat BY <1>1, <2>3, PowerPositive
  <2> QED BY <1>1, <2>2, <2>4, <2>5
<1> QED BY <1>3, <1>4

(***************************************************************************)
(* The number of digits printi writes is the least that is enough.         *)
(***************************************************************************)
LEMMA DigitsCounted ==
  ASSUME NEW base \in Bases, NEW convbase \in Alphabets, NEW u \in 0 .. WORD - 1
  PROVE  DigitsOf(u, base) = IF u = 0 THEN 1 ELSE Len(numeral(u, base, convbase))
<1>1. WORD \in Nat BY WordIsNat, Zenon
<1>2. power(base, 0) = 1 /\ (WORD >= 1 => power(base, 1) = base)
  BY <1>1, PowerEquation DEF Bases
<1>3. PICK d : d = IF u = 0 THEN 1 ELSE Len(numeral(u, base, convbase)) OBVIOUS
<1>4. /\ d \in 1 .. u + 1 /\ d \in 1 .. WORD
      /\ u < power(base, d) /\ (d = 1 \/ power(base, d - 1) <= u)
  <2>1. CASE u = 0 BY <1>1, <1>2, <1>3, <2>1 DEF Bases
  <2>2. CASE u # 0
    <3>1. u \in 1 .. WORD - 1 BY <1>1, <2>2
    <3> QED BY <1>1, <1>3, <2>2, <3>1, NumeralLength
  <2> QED BY <2>1, <2>2
<1>5. ASSUME NEW e \in 1 .. u + 1, u < power(base, e), e = 1 \/ power(base, e - 1) <= u
      PROVE  e = d
  <2>1. e \in 1 .. WORD /\ e - 1 \in 0 .. WORD /\ d - 1 \in 0 .. WORD BY <1>1, <1>4
  <2>2. \A n \in 0 .. WORD : power(base, n) \in Nat BY PowerPositive
  <2>3. CASE e < d
    <3>1. d - 1 \in e .. WORD /\ e \in 0 .. WORD BY <1>4, <2>1, <2>3
    <3>2. power(base, e) <= power(base, d - 1) BY <3>1, PowerMonotone
    <3>3. power(base, d - 1) <= u BY <1>4, <2>1, <2>3
    <3> QED BY <1>1, <1>5, <2>1, <2>2, <3>1, <3>2, <3>3
  <2>4. CASE d < e
    <3>1. e - 1 \in d .. WORD /\ d \in 0 .. WORD BY <1>4, <2>1, <2>4
    <3>2. power(base, d) <= power(base, e - 1) BY <3>1, PowerMonotone
    <3>3. power(base, e - 1) <= u BY <1>4, <1>5, <2>1, <2>4
    <3> QED BY <1>1, <1>4, <2>1, <2>2, <3>1, <3>2, <3>3
  <2> QED BY <1>4, <2>1, <2>3, <2>4
<1>6. DigitsOf(u, base) = d
  <2> DEFINE Q(e) == u < power(base, e) /\ (e = 1 \/ power(base, e - 1) <= u)
  <2>1. d \in 1 .. u + 1 /\ Q(d) BY <1>4
  <2>2. \A e \in 1 .. u + 1 : Q(e) => e = d BY <1>5
  <2>3. DigitsOf(u, base) = CHOOSE e \in 1 .. u + 1 : Q(e) BY DEF DigitsOf
  <2> HIDE DEF Q
  <2> QED BY <2>1, <2>2, <2>3
<1> QED BY <1>3, <1>6

-----------------------------------------------------------------------------
\* Reading one more character of a text, and the equation of Denotes.
ReadOn(v, c, base) == IF IsHexDigit(c) THEN v * base + DigitValue(c) ELSE v

IsValues(f, N, text, base) ==
  f = [k \in 0 .. N |-> IF k = 0 THEN 0
                        ELSE IF IsHexDigit(text[k]) THEN f[k - 1] * base + DigitValue(text[k])
                        ELSE f[k - 1]]

(***************************************************************************)
(* The recursive function behind Denotes exists.                           *)
(***************************************************************************)
LEMMA ValuesExist ==
  ASSUME NEW text, NEW base
  PROVE  \A N \in Nat : \E f : IsValues(f, N, text, base)
<1> DEFINE S == {N \in Nat : \E f : IsValues(f, N, text, base)}
<1>1. 0 \in S
  <2> DEFINE f == [k \in 0 .. 0 |-> 0]
  <2>1. f = [k \in 0 .. 0 |-> IF k = 0 THEN 0
                              ELSE IF IsHexDigit(text[k]) THEN f[k - 1] * base + DigitValue(text[k])
                              ELSE f[k - 1]]
    OBVIOUS
  <2>2. IsValues(f, 0, text, base) BY <2>1 DEF IsValues
  <2> QED BY <2>2
<1>2. ASSUME NEW N \in Nat, N \in S PROVE N + 1 \in S
  <2>1. PICK f : IsValues(f, N, text, base) BY <1>2
  <2> DEFINE g == [k \in 0 .. N + 1 |-> IF k <= N THEN f[k] ELSE ReadOn(f[k - 1], text[k], base)]
  <2>2. ASSUME NEW k \in 0 .. N + 1
        PROVE  g[k] = IF k = 0 THEN 0 ELSE ReadOn(g[k - 1], text[k], base)
    <3>1. k # 0 => g[k - 1] = f[k - 1] OBVIOUS
    <3>2. CASE k <= N
      <4>1. k \in 0 .. N BY <3>2
      <4>2. f[k] = IF k = 0 THEN 0 ELSE ReadOn(f[k - 1], text[k], base)
        BY <2>1, <4>1, Zenon DEF IsValues, ReadOn
      <4> QED BY <3>1, <3>2, <4>2
    <3>3. CASE ~(k <= N) BY <3>1, <3>3
    <3> QED BY <3>2, <3>3
  <2>3. g = [k \in 0 .. N + 1 |-> g[k]] OBVIOUS
  <2> HIDE DEF g
  <2>4. g = [k \in 0 .. N + 1 |-> IF k = 0 THEN 0 ELSE ReadOn(g[k - 1], text[k], base)]
    BY <2>2, <2>3, Zenon
  <2>5. IsValues(g, N + 1, text, base) BY <2>4, Zenon DEF IsValues, ReadOn
  <2> QED BY <2>5
<1> HIDE DEF S
<1>3. \A N \in Nat : N \in S BY <1>1, <1>2, Induction
<1> QED BY <1>3 DEF S

\* f gives the value read up to each position of the text.
ReadsAs(f, text, base) ==
  /\ f[0] = 0
  /\ \A k \in 1 .. Len(text) : f[k] = ReadOn(f[k - 1], text[k], base)

(***************************************************************************)
(* The number a text denotes is what reading it from left to right gives.  *)
(***************************************************************************)
LEMMA DenotesEquation ==
  ASSUME NEW text, Len(text) \in Nat, NEW base
  PROVE  \E f : ReadsAs(f, text, base) /\ Denotes(text, base) = f[Len(text)]
<1>1. \E f : IsValues(f, Len(text), text, base) BY ValuesExist
<1>2. PICK f : IsValues(f, Len(text), text, base) /\ Denotes(text, base) = f[Len(text)]
  BY <1>1, Zenon DEF Denotes, IsValues
<1>3. \A k \in 0 .. Len(text) : f[k] = IF k = 0 THEN 0 ELSE ReadOn(f[k - 1], text[k], base)
  BY <1>2, Zenon DEF IsValues, ReadOn
<1>4. 0 \in 0 .. Len(text) /\ \A k \in 1 .. Len(text) : k \in 0 .. Len(text) /\ k # 0 OBVIOUS
<1>5. ReadsAs(f, text, base) BY <1>3, <1>4, Zenon DEF ReadsAs
<1> QED BY <1>2, <1>5

\* Characters that leave a value of 0 as it is, and where they stand.
Blanks == {" ", "+", "-", "x", "0"}
Preceded(text, a) == \A i \in 1 .. a : text[i] \in Blanks
Holds(text, a, s) == a + Len(s) <= Len(text) /\ \A i \in 1 .. Len(s) : text[a + i] = s[i]
Space == {" "}
Padded(text, a) == \A i \in a + 1 .. Len(text) : text[i] \in Space

(***************************************************************************)
(* Before the first digit that counts the value read is 0: blanks, signs,  *)
(* the prefix 0x and padding zeros do not change it.                       *)
(***************************************************************************)
LEMMA BlanksReadAsZero ==
  ASSUME NEW f, NEW text, Len(text) \in Nat, NEW base \in Bases, ReadsAs(f, text, base),
         NEW a \in 0 .. Len(text), Preceded(text, a)
  PROVE  f[a] = 0
<1> DEFINE S == {n \in Nat : n <= a => f[n] = 0}
<1>1. 0 \in S BY DEF ReadsAs
<1>2. ASSUME NEW n \in Nat, n \in S PROVE n + 1 \in S
  <2>1. CASE n + 1 <= a
    <3>1. n + 1 \in 1 .. Len(text) /\ n + 1 \in 1 .. a /\ (n + 1) - 1 = n BY <2>1
    <3>2. f[n + 1] = ReadOn(f[n], text[n + 1], base) BY <3>1 DEF ReadsAs
    <3>3. f[n] = 0 BY <1>2, <2>1
    <3>4. text[n + 1] \in Blanks BY <3>1 DEF Preceded
    <3>5. ReadOn(0, text[n + 1], base) = 0
      <4>1. IsHexDigit(text[n + 1]) => text[n + 1] = "0" BY <3>4, NoDigits DEF Blanks
      <4>2. 0 * base + 0 = 0 BY DEF Bases
      <4> QED BY <4>1, <4>2, NoDigits DEF ReadOn
    <3> QED BY <3>2, <3>3, <3>5
  <2>2. CASE ~(n + 1 <= a) BY <2>2
  <2> QED BY <2>1, <2>2
<1> HIDE DEF S
<1>3. \A n \in Nat : n \in S BY <1>1, <1>2, Induction
<1> QED BY <1>3 DEF S

(***************************************************************************)
(* The spaces behind a numeral do not change the value read.               *)
(***************************************************************************)
LEMMA BlanksKeepValue ==
  ASSUME NEW f, NEW text, Len(text) \in Nat, NEW base, ReadsAs(f, text, base),
         NEW a \in 0 .. Len(text), Padded(text, a)
  PROVE  f[Len(text)] = f[a]
<1> DEFINE S == {n \in Nat : a + n <= Len(text) => f[a + n] = f[a]}
<1>1. 0 \in S OBVIOUS
<1>2. ASSUME NEW n \in Nat, n \in S PROVE n + 1 \in S
  <2>1. CASE a + (n + 1) <= Len(text)
    <3>1. /\ a + (n + 1) \in 1 .. Len(text) /\ a + (n + 1) \in a + 1 .. Len(text)
          /\ (a + (n + 1)) - 1 = a + n
      BY <2>1
    <3>2. f[a + (n + 1)] = ReadOn(f[a + n], text[a + (n + 1)], base) BY <3>1 DEF ReadsAs
    <3>3. f[a + n] = f[a] BY <1>2, <2>1
    <3>4. text[a + (n + 1)] = " " BY <3>1, Zenon DEF Padded, Space
    <3>5. ReadOn(f[a], " ", base) = f[a] BY NoDigits, Zenon DEF ReadOn
    <3>6. f[a + (n + 1)] = f[a] BY <3>2, <3>3, <3>4, <3>5, Zenon
    <3> QED BY <3>6
  <2>2. CASE ~(a + (n + 1) <= Len(text)) BY <2>2
  <2> QED BY <2>1, <2>2
<1> HIDE DEF S
<1>3. \A n \in Nat : n \in S BY <1>1, <1>2, Induction
<1>4. Len(text) - a \in Nat /\ a + (Len(text) - a) = Len(text) OBVIOUS
<1>5. Len(text) - a \in S BY <1>3, <1>4
<1> QED BY <1>4, <1>5 DEF S

(***************************************************************************)
(* Reading the digits of u after a value of 0 gives u: the digits of       *)
(* printi are the number, by induction over the turns of its loop.         *)
(***************************************************************************)
LEMMA NumeralReads ==
  ASSUME NEW f, NEW text, Len(text) \in Nat, NEW base \in Bases, ReadsAs(f, text, base),
         NEW a \in 0 .. Len(text), f[a] = 0,
         NEW convbase \in Alphabets, NEW u \in 0 .. WORD - 1,
         Holds(text, a, numeral(u, base, convbase))
  PROVE  f[a + Len(numeral(u, base, convbase))] = u
<1> DEFINE w(n) == numeral(n, base, convbase)
           S == {n \in Nat : n < WORD /\ Holds(text, a, w(n)) => f[a + Len(w(n))] = n}
<1>1. WORD \in Nat BY WordIsNat, Zenon
<1>2. ASSUME NEW n \in Nat, \A m \in 0 .. n - 1 : m \in S, n < WORD, Holds(text, a, w(n))
      PROVE  f[a + Len(w(n))] = n
  <2>1. n \in 0 .. WORD - 1 BY <1>1, <1>2
  <2>2. w(n) = IF n = 0 THEN <<>> ELSE Append(w(n \div base), convbase[(n % base) + 1])
    BY <2>1, NumeralEquation
  <2>3. CASE n = 0
    <3>1. Len(w(n)) = 0 BY <2>2, <2>3
    <3> QED BY <2>3, <3>1
  <2>4. CASE n # 0
    <3>1. PICK q, r : /\ q = n \div base /\ r = n % base
                      /\ q \in Nat /\ r \in 0 .. base - 1 /\ n = q * base + r /\ q < n
      BY <2>4, Quotient
    <3>2. PICK t, c : t = w(q) /\ c = convbase[(n % base) + 1] OBVIOUS
    <3>3. q \in 0 .. WORD - 1 /\ q \in 0 .. n - 1 /\ q < WORD BY <1>1, <1>2, <3>1
    <3>4. t \in Seq(Letters \ {"-"}) BY <3>2, <3>3, NumeralType
    <3>5. c \in Letters \ {"-"} /\ IsHexDigit(c) /\ DigitValue(c) = r
      BY <3>1, <3>2, DigitLetter
    <3>6. w(n) = Append(t, c) BY <2>2, <2>4, <3>1, <3>2
    <3> HIDE DEF w
    <3>7. /\ Len(w(n)) = Len(t) + 1 /\ Len(t) \in Nat
          /\ w(n)[Len(t) + 1] = c /\ \A i \in 1 .. Len(t) : w(n)[i] = t[i]
      BY <3>4, <3>5, <3>6
    <3>8. Holds(text, a, w(q)) BY <1>2, <3>2, <3>7 DEF Holds
    <3>9. f[a + Len(t)] = q BY <1>2, <3>2, <3>3, <3>8
    <3>10. /\ a + (Len(t) + 1) \in 1 .. Len(text) /\ (a + (Len(t) + 1)) - 1 = a + Len(t)
           /\ text[a + (Len(t) + 1)] = c
      BY <1>2, <3>7 DEF Holds
    <3>11. f[a + (Len(t) + 1)] = ReadOn(q, c, base) BY <3>9, <3>10 DEF ReadsAs
    <3>12. ReadOn(q, c, base) = q * base + r BY <3>5 DEF ReadOn
    <3> QED BY <3>1, <3>7, <3>11, <3>12
  <2> QED BY <2>3, <2>4
<1>3. ASSUME NEW n \in Nat, \A m \in 0 .. n - 1 : m \in S PROVE n \in S BY <1>2, <1>3
<1> HIDE DEF S
<1>4. \A n \in Nat : n \in S BY <1>3, CourseOfValues
<1>5. u \in Nat /\ u < WORD /\ u \in S BY <1>1, <1>4
<1> QED BY <1>5 DEF S

-----------------------------------------------------------------------------
\* Padding and prefix of a field, its size, and a string laid out in it.
Fill == {" ", "0", "x"}
Wider(n, w) == IF n >= w THEN n ELSE w
PrefixLen(fl) == IF "#" \in fl THEN 2 ELSE 0
Fills(s) == \A i \in 1 .. Len(s) : s[i] \in Fill
Spaces(s) == \A i \in 1 .. Len(s) : s[i] \in Space
Filled(text, a) == \A i \in 1 .. a : text[i] \in Fill
Laid(text, a, s) ==
  Filled(text, a) /\ Holds(text, a, s) /\ Padded(text, a + Len(s))

(***************************************************************************)
(* A string between a prefix of fill characters and a tail of spaces       *)
(* stands where the prefix ends.                                           *)
(***************************************************************************)
LEMMA LaidOut ==
  ASSUME NEW S, NEW A \in Seq(S), NEW B \in Seq(S), NEW C \in Seq(S),
         Fills(A), Spaces(C)
  PROVE  /\ A \o B \o C \in Seq(S)
         /\ Len(A \o B \o C) = Len(A) + Len(B) + Len(C)
         /\ Laid(A \o B \o C, Len(A), B)
<1>1. PICK D : D = A \o B OBVIOUS
<1>2. /\ D \in Seq(S) /\ Len(D) = Len(A) + Len(B)
      /\ \A i \in 1 .. Len(A) : D[i] = A[i]
      /\ \A i \in 1 .. Len(B) : D[Len(A) + i] = B[i]
  BY <1>1, Concatenation
<1>3. PICK t : t = D \o C OBVIOUS
<1>4. /\ t \in Seq(S) /\ Len(t) = Len(D) + Len(C)
      /\ \A i \in 1 .. Len(D) : t[i] = D[i]
      /\ \A i \in 1 .. Len(C) : t[Len(D) + i] = C[i]
  <2>1. D \in Seq(S) BY <1>2
  <2> QED BY <1>3, <2>1, Concatenation
<1>5. Len(A) \in Nat /\ Len(B) \in Nat /\ Len(C) \in Nat OBVIOUS
<1>6. Filled(t, Len(A)) BY <1>2, <1>4, <1>5 DEF Filled, Fills
<1>7. Holds(t, Len(A), B) BY <1>2, <1>4, <1>5 DEF Holds
<1>8. ASSUME NEW i \in Len(A) + Len(B) + 1 .. Len(t) PROVE t[i] \in Space
  <2>1. i - Len(D) \in 1 .. Len(C) /\ Len(D) + (i - Len(D)) = i BY <1>2, <1>4, <1>5
  <2>2. t[i] = C[i - Len(D)] BY <1>4, <2>1
  <2> QED BY <2>1, <2>2 DEF Spaces
<1>9. Padded(t, Len(A) + Len(B)) BY <1>8, Zenon DEF Padded
<1> QED BY <1>1, <1>2, <1>3, <1>4, <1>5, <1>6, <1>7, <1>9, Zenon DEF Laid

(***************************************************************************)
(* What prints writes, for every width and all flags: the string with fill *)
(* characters in front of it and only spaces behind it, as wide as the     *)
(* field or as the string, and 0x on top.                                  *)
(***************************************************************************)
LEMMA PrintsLayout ==
  ASSUME NEW S, Fill \subseteq S, NEW string \in Seq(S), NEW w \in Int, NEW fl
  PROVE  LET t == prints(string, w, fl)
             n == Len(string)
         IN /\ t \in Seq(S)
            /\ Len(t) = Wider(n, w) + PrefixLen(fl)
            /\ \E a \in Nat : a + n <= Len(t) /\ Laid(t, a, string)
<1> DEFINE n == Len(string)
           padc == IF "0" \in fl THEN "0" ELSE " "
           pad == IF Len(string) >= w THEN <<>> ELSE [k \in 1 .. w - Len(string) |-> padc]
           hexd == IF "#" \in fl THEN <<"0", "x">> ELSE <<>>
           none == <<>>
           t == prints(string, w, fl)
<1>1. n \in Nat OBVIOUS
<1>2. padc \in Fill /\ padc \in S /\ ("0" \notin fl => padc \in Space) BY DEF Fill, Space
<1> HIDE DEF padc
<1>3. /\ pad \in Seq(S) /\ Len(pad) = (IF n >= w THEN 0 ELSE w - n)
      /\ Fills(pad) /\ ("0" \notin fl => Spaces(pad))
  <2>1. CASE n >= w BY <2>1 DEF Fills, Spaces
  <2>2. CASE ~(n >= w)
    <3>1. w - n \in Nat BY <1>1, <2>2
    <3>2. PICK p : p = [k \in 1 .. w - n |-> padc] OBVIOUS
    <3>3. pad = p BY <2>2, <3>2
    <3>4. p \in Seq(S) /\ Len(p) = w - n /\ \A i \in 1 .. Len(p) : p[i] = padc
      BY <1>2, <3>1, <3>2
    <3>5. Fills(p) /\ ("0" \notin fl => Spaces(p)) BY <1>2, <3>4, Zenon DEF Fills, Spaces
    <3> QED BY <2>2, <3>3, <3>4, <3>5
  <2> QED BY <2>1, <2>2
<1>4. /\ hexd \in Seq(S) /\ Len(hexd) = PrefixLen(fl)
      /\ Fills(hexd)
  <2>1. CASE "#" \in fl
    <3>1. PICK h : h = <<"0", "x">> OBVIOUS
    <3>2. "0" \in Fill /\ "x" \in Fill BY DEF Fill
    <3>3. "0" \in S /\ "x" \in S BY <3>2
    <3>4. h \in Seq(S) /\ Len(h) = 2 BY <3>1, <3>3
    <3>5. h[1] \in Fill /\ h[2] \in Fill BY <3>1, <3>2
    <3>6. Fills(h) BY <3>4, <3>5 DEF Fills
    <3> QED BY <2>1, <3>1, <3>4, <3>6 DEF PrefixLen
  <2>2. CASE "#" \notin fl BY <2>2 DEF Fills, PrefixLen
  <2> QED BY <2>1, <2>2
<1>5. Len(pad) \in Nat /\ Len(hexd) \in Nat BY <1>3, <1>4 DEF PrefixLen
<1>6. none \in Seq(S) /\ Len(none) = 0 /\ Spaces(none) BY DEF Spaces
<1>7. t = CASE "-" \in fl /\ "0" \notin fl -> hexd \o string \o pad
            [] "0" \in fl -> hexd \o pad \o string
            [] OTHER -> pad \o hexd \o string
  BY Zenon DEF prints, padc
<1> HIDE DEF t, pad, hexd, none
<1>8. ASSUME NEW A \in Seq(S), NEW C \in Seq(S), t = A \o string \o C,
             Fills(A), Spaces(C),
             Len(A) + Len(C) = Len(pad) + Len(hexd)
      PROVE  /\ t \in Seq(S)
             /\ Len(t) = Wider(n, w) + PrefixLen(fl)
             /\ \E a \in Nat : a + n <= Len(t) /\ Laid(t, a, string)
  <2>1. t \in Seq(S) /\ Len(t) = Len(A) + n + Len(C) /\ Laid(t, Len(A), string)
    BY <1>8, LaidOut
  <2>2. Len(A) \in Nat /\ Len(C) \in Nat BY <1>8
  <2>3. Len(t) = Wider(n, w) + PrefixLen(fl)
    <3>1. Len(t) = n + Len(pad) + Len(hexd)
      <4>1. Len(A) + Len(C) = Len(pad) + Len(hexd) BY <1>8, Zenon
      <4>2. Len(t) = Len(A) + n + Len(C) BY <2>1, Zenon
      <4> QED BY <1>1, <1>5, <2>2, <4>1, <4>2
    <3>2. n + Len(pad) = Wider(n, w) BY <1>1, <1>3 DEF Wider
    <3> QED BY <1>4, <3>1, <3>2, Zenon
  <2>4. Len(A) + n <= Len(t) BY <1>1, <2>1, <2>2
  <2> QED BY <2>1, <2>2, <2>3, <2>4
<1>9. CASE "-" \in fl /\ "0" \notin fl
  <2>1. t = hexd \o string \o pad BY <1>7, <1>9
  <2>2. Spaces(pad) BY <1>3, <1>9
  <2>3. Len(hexd) + Len(pad) = Len(pad) + Len(hexd) BY <1>5
  <2> QED BY <1>3, <1>4, <1>8, <2>1, <2>2, <2>3 DEF t
<1>10. ASSUME NEW A \in Seq(S), t = A \o string, Len(A) = Len(pad) + Len(hexd),
             Fills(A)
      PROVE  /\ t \in Seq(S)
             /\ Len(t) = Wider(n, w) + PrefixLen(fl)
             /\ \E a \in Nat : a + n <= Len(t) /\ Laid(t, a, string)
  <2>1. A \o string \in Seq(S) BY <1>10, Concatenation
  <2>2. (A \o string) \o none = A \o string BY <2>1 DEF none
  <2>3. Len(A) + Len(none) = Len(pad) + Len(hexd) BY <1>1, <1>3, <1>4, <1>6, <1>10
  <2> QED BY <1>6, <1>8, <1>10, <2>2, <2>3
<1>11. ASSUME NEW A \in Seq(S), NEW B \in Seq(S),
              Fills(A), Fills(B)
       PROVE  /\ A \o B \in Seq(S) /\ Len(A \o B) = Len(A) + Len(B)
              /\ Fills(A \o B)
  <2>1. PICK D : D = A \o B OBVIOUS
  <2>2. /\ D \in Seq(S) /\ Len(D) = Len(A) + Len(B)
        /\ \A i \in 1 .. Len(A) : D[i] = A[i]
        /\ \A i \in 1 .. Len(B) : D[Len(A) + i] = B[i]
    BY <2>1, Concatenation
  <2>3. ASSUME NEW i \in 1 .. Len(D) PROVE D[i] \in Fill
    <3>1. Len(A) \in Nat /\ Len(B) \in Nat OBVIOUS
    <3>2. CASE i <= Len(A) BY <1>11, <2>2, <3>1, <3>2 DEF Fills
    <3>3. CASE i > Len(A)
      <4>1. i - Len(A) \in 1 .. Len(B) /\ Len(A) + (i - Len(A)) = i BY <2>2, <3>1, <3>3
      <4>2. D[i] = B[i - Len(A)] BY <2>2, <4>1
      <4> QED BY <1>11, <4>1, <4>2 DEF Fills
    <3> QED BY <3>2, <3>3
  <2> QED BY <2>1, <2>2, <2>3 DEF Fills
<1>12. CASE "0" \in fl
  <2>1. t = (hexd \o pad) \o string BY <1>7, <1>12
  <2>2. /\ hexd \o pad \in Seq(S) /\ Len(hexd \o pad) = Len(hexd) + Len(pad)
        /\ Fills(hexd \o pad)
    BY <1>3, <1>4, <1>11
  <2>3. Len(hexd \o pad) = Len(pad) + Len(hexd) BY <1>5, <2>2
  <2> QED BY <1>10, <2>1, <2>2, <2>3 DEF t
<1>13. CASE "-" \notin fl /\ "0" \notin fl
  <2>1. t = (pad \o hexd) \o string BY <1>7, <1>13
  <2>2. /\ pad \o hexd \in Seq(S) /\ Len(pad \o hexd) = Len(pad) + Len(hexd)
        /\ Fills(pad \o hexd)
    BY <1>3, <1>4, <1>11
  <2> QED BY <1>10, <2>1, <2>2 DEF t
<1> QED BY <1>9, <1>12, <1>13

-----------------------------------------------------------------------------
\* A text with a minus sign.
Minus == {"-"}
HasMinus(text) == \E k \in 1 .. Len(text) : text[k] \in Minus

(***************************************************************************)
(* A field holds a minus exactly when its string does: padding adds none.  *)
(***************************************************************************)
LEMMA LaidMinus ==
  ASSUME NEW text, Len(text) \in Nat, NEW a \in Nat, NEW s, Len(s) \in Nat, Laid(text, a, s)
  PROVE  HasMinus(text) <=> HasMinus(s)
<1>1. Filled(text, a) /\ Holds(text, a, s) /\ Padded(text, a + Len(s)) BY DEF Laid
<1>2. ASSUME NEW k \in 1 .. Len(s), s[k] \in Minus PROVE HasMinus(text)
  <2>1. a + k \in 1 .. Len(text) /\ text[a + k] = s[k] BY <1>1 DEF Holds
  <2> QED BY <1>2, <2>1 DEF HasMinus
<1>3. Fill \intersect Minus = {} /\ Space \intersect Minus = {} BY DEF Fill, Space, Minus
<1>4. ASSUME NEW k \in 1 .. Len(text), text[k] \in Minus PROVE HasMinus(s)
  <2>1. CASE k <= a
    <3>1. k \in 1 .. a BY <2>1
    <3>2. text[k] \in Fill BY <1>1, <3>1 DEF Filled
    <3> QED BY <1>3, <1>4, <3>2
  <2>2. CASE k > a + Len(s)
    <3>1. k \in a + Len(s) + 1 .. Len(text) BY <2>2
    <3>2. text[k] \in Space BY <1>1, <3>1, Zenon DEF Padded
    <3> QED BY <1>3, <1>4, <3>2
  <2>3. CASE k > a /\ k <= a + Len(s)
    <3>1. k - a \in 1 .. Len(s) /\ a + (k - a) = k BY <2>3
    <3>2. text[k] = s[k - a] BY <1>1, <3>1 DEF Holds
    <3> QED BY <1>4, <3>1, <3>2 DEF HasMinus
  <2> QED BY <2>1, <2>2, <2>3
<1> QED BY <1>2, <1>4 DEF HasMinus

(***************************************************************************)
(* A concatenation holds a minus exactly when one of its parts does.       *)
(***************************************************************************)
LEMMA JoinMinus ==
  ASSUME NEW S, NEW s \in Seq(S), NEW t \in Seq(S)
  PROVE  HasMinus(s \o t) <=> HasMinus(s) \/ HasMinus(t)
<1>1. PICK D : D = s \o t OBVIOUS
<1>2. /\ Len(D) = Len(s) + Len(t)
      /\ \A i \in 1 .. Len(s) : D[i] = s[i]
      /\ \A i \in 1 .. Len(t) : D[Len(s) + i] = t[i]
  BY <1>1, Concatenation
<1>3. Len(s) \in Nat /\ Len(t) \in Nat OBVIOUS
<1>4. ASSUME NEW k \in 1 .. Len(s), s[k] \in Minus PROVE HasMinus(D)
  BY <1>2, <1>3, <1>4 DEF HasMinus
<1>5. ASSUME NEW k \in 1 .. Len(t), t[k] \in Minus PROVE HasMinus(D)
  <2>1. Len(s) + k \in 1 .. Len(D) /\ D[Len(s) + k] = t[k] BY <1>2, <1>3
  <2> QED BY <1>5, <2>1 DEF HasMinus
<1>6. ASSUME NEW k \in 1 .. Len(D), D[k] \in Minus PROVE HasMinus(s) \/ HasMinus(t)
  <2>1. CASE k <= Len(s)
    <3>1. k \in 1 .. Len(s) /\ D[k] = s[k] BY <1>2, <1>3, <2>1
    <3> QED BY <1>6, <3>1 DEF HasMinus
  <2>2. CASE k > Len(s)
    <3>1. k - Len(s) \in 1 .. Len(t) /\ Len(s) + (k - Len(s)) = k BY <1>2, <1>3, <2>2
    <3>2. D[k] = t[k - Len(s)] BY <1>2, <3>1
    <3> QED BY <1>6, <3>1, <3>2 DEF HasMinus
  <2> QED BY <1>3, <2>1, <2>2
<1>7. HasMinus(D) <=> HasMinus(s) \/ HasMinus(t) BY <1>4, <1>5, <1>6, Zenon DEF HasMinus
<1> QED BY <1>1, <1>7, Zenon

\* Signs, and a text in which s stands behind b blanks and before spaces.
Signs == {"+", "-"}
AllSigns(s) == \A i \in 1 .. Len(s) : s[i] \in Signs
Shown(text, b, s) ==
  /\ b \in Nat /\ b + Len(s) <= Len(text)
  /\ Preceded(text, b) /\ Holds(text, b, s) /\ Padded(text, b + Len(s))

(***************************************************************************)
(* Signs that outchar writes before the field of prints leave the numeral  *)
(* shown: only signs and fill characters precede it.                       *)
(***************************************************************************)
LEMMA SignsInFront ==
  ASSUME NEW signs \in Seq(Letters), AllSigns(signs),
         NEW p \in Seq(Letters), NEW s \in Seq(Letters),
         NEW a \in Nat, a + Len(s) <= Len(p), Laid(p, a, s)
  PROVE  Shown(signs \o p, Len(signs) + a, s)
<1>1. PICK t : t = signs \o p OBVIOUS
<1>2. /\ Len(t) = Len(signs) + Len(p)
      /\ \A i \in 1 .. Len(signs) : t[i] = signs[i]
      /\ \A i \in 1 .. Len(p) : t[Len(signs) + i] = p[i]
  BY <1>1, Concatenation
<1>3. Len(signs) \in Nat /\ Len(p) \in Nat /\ Len(s) \in Nat OBVIOUS
<1>4. Filled(p, a) /\ Holds(p, a, s) /\ Padded(p, a + Len(s)) BY DEF Laid
<1>5. PICK b : b = Len(signs) + a OBVIOUS
<1>6. b \in Nat /\ b + Len(s) <= Len(t) BY <1>2, <1>3, <1>5
<1>7. Signs \subseteq Blanks /\ Fill \subseteq Blanks BY DEF Signs, Fill, Blanks
<1>8. ASSUME NEW i \in 1 .. b PROVE t[i] \in Blanks
  <2>1. CASE i <= Len(signs)
    <3>1. i \in 1 .. Len(signs) BY <1>3, <2>1
    <3> QED BY <1>2, <1>7, <3>1 DEF AllSigns
  <2>2. CASE i > Len(signs)
    <3>1. /\ i - Len(signs) \in 1 .. a /\ i - Len(signs) \in 1 .. Len(p)
          /\ Len(signs) + (i - Len(signs)) = i
      BY <1>3, <1>5, <2>2
    <3>2. t[i] = p[i - Len(signs)] BY <1>2, <3>1
    <3>3. p[i - Len(signs)] \in Fill BY <1>4, <3>1 DEF Filled
    <3> QED BY <1>7, <3>2, <3>3
  <2> QED BY <1>3, <2>1, <2>2
<1>9. ASSUME NEW i \in 1 .. Len(s) PROVE t[b + i] = s[i]
  <2>1. /\ a + i \in 1 .. Len(p) /\ b + i = Len(signs) + (a + i) BY <1>3, <1>5
  <2>2. t[b + i] = p[a + i] BY <1>2, <2>1
  <2>3. p[a + i] = s[i] BY <1>4 DEF Holds
  <2> QED BY <2>2, <2>3
<1>10. ASSUME NEW i \in b + Len(s) + 1 .. Len(t) PROVE t[i] \in Space
  <2>1. /\ i - Len(signs) \in a + Len(s) + 1 .. Len(p) /\ i - Len(signs) \in 1 .. Len(p)
        /\ Len(signs) + (i - Len(signs)) = i
    BY <1>2, <1>3, <1>5
  <2>2. t[i] = p[i - Len(signs)] BY <1>2, <2>1
  <2>3. p[i - Len(signs)] \in Space BY <1>4, <2>1, Zenon DEF Padded
  <2> QED BY <2>2, <2>3
<1>11. Shown(t, b, s) BY <1>6, <1>8, <1>9, <1>10, Zenon DEF Shown, Preceded, Holds, Padded
<1> QED BY <1>1, <1>5, <1>11, Zenon

(***************************************************************************)
(* Signs that are part of the string of prints leave the numeral shown.    *)
(***************************************************************************)
LEMMA SignsInside ==
  ASSUME NEW signs \in Seq(Letters), AllSigns(signs),
         NEW s \in Seq(Letters), NEW t \in Seq(Letters),
         NEW a \in Nat, a + Len(signs \o s) <= Len(t), Laid(t, a, signs \o s)
  PROVE  Shown(t, a + Len(signs), s)
<1>1. PICK D : D = signs \o s OBVIOUS
<1>2. /\ Len(D) = Len(signs) + Len(s)
      /\ \A i \in 1 .. Len(signs) : D[i] = signs[i]
      /\ \A i \in 1 .. Len(s) : D[Len(signs) + i] = s[i]
  BY <1>1, Concatenation
<1>3. Len(signs) \in Nat /\ Len(t) \in Nat /\ Len(s) \in Nat OBVIOUS
<1>4. Filled(t, a) /\ Holds(t, a, D) /\ Padded(t, a + Len(D)) BY <1>1 DEF Laid
<1>5. PICK b : b = a + Len(signs) OBVIOUS
<1>6. b \in Nat /\ b + Len(s) <= Len(t) /\ a + Len(D) = b + Len(s) BY <1>1, <1>2, <1>3, <1>5
<1>7. Signs \subseteq Blanks /\ Fill \subseteq Blanks BY DEF Signs, Fill, Blanks
<1>8. ASSUME NEW i \in 1 .. b PROVE t[i] \in Blanks
  <2>1. CASE i <= a
    <3>1. i \in 1 .. a BY <2>1
    <3> QED BY <1>4, <1>7, <3>1 DEF Filled
  <2>2. CASE i > a
    <3>1. i - a \in 1 .. Len(signs) /\ i - a \in 1 .. Len(D) /\ a + (i - a) = i
      BY <1>2, <1>3, <1>5, <2>2
    <3>2. t[i] = D[i - a] BY <1>4, <3>1 DEF Holds
    <3>3. D[i - a] = signs[i - a] BY <1>2, <3>1
    <3>4. signs[i - a] \in Signs BY <3>1 DEF AllSigns
    <3> QED BY <1>7, <3>2, <3>3, <3>4
  <2> QED BY <2>1, <2>2
<1>9. ASSUME NEW i \in 1 .. Len(s) PROVE t[b + i] = s[i]
  <2>1. Len(signs) + i \in 1 .. Len(D) /\ b + i = a + (Len(signs) + i) BY <1>2, <1>3, <1>5
  <2>2. t[b + i] = D[Len(signs) + i] BY <1>4, <2>1 DEF Holds
  <2> QED BY <1>2, <2>2
<1>10. Padded(t, b + Len(s)) BY <1>4, <1>6
<1>11. Shown(t, b, s) BY <1>6, <1>8, <1>9, <1>10, Zenon DEF Shown, Preceded, Holds
<1> QED BY <1>5, <1>11, Zenon

(***************************************************************************)
(* A text that shows the numeral of u, with blanks around it, denotes u.   *)
(***************************************************************************)
LEMMA ShownReads ==
  ASSUME NEW base \in Bases, NEW convbase \in Alphabets, NEW u \in 0 .. WORD - 1,
         NEW t, Len(t) \in Nat, NEW b, Shown(t, b, numeral(u, base, convbase))
  PROVE  Denotes(t, base) = u
<1>1. PICK s : s = numeral(u, base, convbase) OBVIOUS
<1>2. Len(s) \in Nat BY <1>1, NumeralType
<1>3. /\ b \in Nat /\ b + Len(s) <= Len(t)
      /\ Preceded(t, b) /\ Holds(t, b, s) /\ Padded(t, b + Len(s))
  BY <1>1 DEF Shown
<1>4. PICK f : ReadsAs(f, t, base) /\ Denotes(t, base) = f[Len(t)] BY DenotesEquation
<1>5. b \in 0 .. Len(t) /\ b + Len(s) \in 0 .. Len(t) BY <1>2, <1>3
<1>6. f[b] = 0 BY <1>3, <1>4, <1>5, BlanksReadAsZero
<1>7. f[b + Len(s)] = u BY <1>1, <1>3, <1>4, <1>5, <1>6, NumeralReads
<1>8. f[Len(t)] = f[b + Len(s)] BY <1>3, <1>4, <1>5, BlanksKeepValue
<1> QED BY <1>4, <1>7, <1>8, Zenon

-----------------------------------------------------------------------------
(***************************************************************************)
(* A half and a word have at least two values, and half of the words are   *)
(* negative.                                                               *)
(***************************************************************************)
LEMMA WordHalves ==
  /\ HALF \in Nat /\ HALF >= 2
  /\ WORD \in Nat /\ WORD >= 2 /\ WORD \div 2 \in 1 .. WORD - 1
<1>1. BYTE \in Nat /\ BYTE >= 2 /\ HALF = BYTE * BYTE BY PrintfAssumption
<1>2. HALF \in Nat /\ HALF >= 2
  <2>1. BYTE * BYTE >= 2 * BYTE /\ BYTE * BYTE \in Nat BY <1>1
  <2> QED BY <1>1, <2>1
<1>3. WORD \in Nat /\ WORD >= 2
  <2>1. HALF * HALF >= 2 * HALF /\ HALF * HALF \in Nat BY <1>2
  <2> QED BY <1>2, <2>1 DEF WORD
<1>4. WORD \div 2 \in 1 .. WORD - 1 BY <1>3
<1> QED BY <1>2, <1>3, <1>4

(***************************************************************************)
(* The negative of a number in W-bit arithmetic.                           *)
(***************************************************************************)
LEMMA Negation ==
  ASSUME NEW W \in Nat, NEW n \in 1 .. W - 1
  PROVE  (-n) % W = W - n
OBVIOUS

\* The number that printi has to show, and whether it is negative.
IsNegative(num, base, sign) == sign /\ base = 10 /\ num >= WORD \div 2
Shows(num, base, sign) == IF IsNegative(num, base, sign) THEN WORD - num ELSE num

(***************************************************************************)
(* u = -num is the magnitude of num for every negative word, the least one *)
(* included, and is 0 only for 0.                                          *)
(***************************************************************************)
LEMMA MagnitudeShown ==
  ASSUME NEW num \in 0 .. WORD - 1, NEW base, NEW sign \in BOOLEAN
  PROVE  /\ Shows(num, base, sign) \in 0 .. WORD - 1
         /\ magnitude(num, IsNegative(num, base, sign)) = Shows(num, base, sign)
         /\ Shows(num, base, sign) = 0 <=> num = 0
         /\ num = 0 => ~IsNegative(num, base, sign)
<1>1. WORD \in Nat /\ WORD \div 2 \in 1 .. WORD - 1 BY WordHalves
<1>2. num = 0 => ~(num >= WORD \div 2) BY <1>1
<1>3. CASE IsNegative(num, base, sign)
  <2>1. num \in 1 .. WORD - 1 BY <1>1, <1>2, <1>3 DEF IsNegative
  <2>2. (-num) % WORD = WORD - num BY <1>1, <2>1, Negation
  <2>3. WORD - num \in 1 .. WORD - 1 BY <1>1, <2>1
  <2> QED BY <1>3, <2>1, <2>2, <2>3 DEF Shows, magnitude
<1>4. CASE ~IsNegative(num, base, sign)
  BY <1>2, <1>4, Zenon DEF Shows, magnitude
<1> QED BY <1>3, <1>4

\* The characters that a sign and 0x take.
SignLen(u, neg, base, fl) ==
  IF base = 10 /\ u # 0 /\ " " \notin fl /\ (neg \/ "+" \in fl) THEN 1 ELSE 0
HexLen(base, fl) == IF base = 16 THEN PrefixLen(fl) ELSE 0

\* t is what printi has to print of num.
PrintedRight(t, num, base, sign, w, fl) ==
  LET neg == IsNegative(num, base, sign)
      u == Shows(num, base, sign)
      digits == DigitsOf(u, base)
      signs == SignLen(u, neg, base, fl)
      prefix == HexLen(base, fl)
  IN /\ t \in Seq(Letters)
     /\ Denotes(t, base) = u
     /\ HasMinus(t) <=> neg /\ " " \notin fl
     /\ Len(t) = prefix + Wider(digits + signs, w)

(***************************************************************************)
(* printi is right for every number, base, width and set of flags: its     *)
(* text denotes the number, has a minus exactly when the number is         *)
(* negative and signs are not hidden, and is as wide as the field or as    *)
(* the digits and the sign require.                                        *)
(***************************************************************************)
LEMMA PrintiShows ==
  ASSUME NEW num \in 0 .. WORD - 1, NEW base \in Bases, NEW sign \in BOOLEAN,
         NEW w \in Int, NEW fl, NEW convbase \in Alphabets
  PROVE  PrintedRight(printi(num, base, sign, w, fl, convbase), num, base, sign, w, fl)
<1> DEFINE t == printi(num, base, sign, w, fl, convbase)
           neg == IsNegative(num, base, sign)
           u == Shows(num, base, sign)
           fs == IF base # 16 THEN fl \ {"#"} ELSE fl
           signs == IF " " \in fs \/ base # 10 THEN <<>>
                    ELSE IF neg THEN <<"-">> ELSE IF "+" \in fs THEN <<"+">> ELSE <<>>
           string == numeral(u, base, convbase)
           nsigns == SignLen(u, neg, base, fl)
           prefix == HexLen(base, fl)
<1>1. u \in 0 .. WORD - 1 /\ magnitude(num, neg) = u /\ (u = 0 <=> num = 0) /\ (num = 0 => ~neg)
  BY MagnitudeShown, Zenon
<1>2. t = IF num = 0 THEN prints(<<"0">>, w, fs)
          ELSE IF "0" \in fs THEN signs \o prints(string, sign_width(w, signs), fs)
          ELSE prints(signs \o string, w, fs)
  BY <1>1, Zenon DEF printi, IsNegative
<1>3. prefix = PrefixLen(fs) /\ prefix \in Nat BY DEF Bases, HexLen, PrefixLen
<1>4. (" " \in fs <=> " " \in fl) /\ ("+" \in fs <=> "+" \in fl) OBVIOUS
<1>5. /\ signs \in Seq(Letters) /\ (u # 0 => Len(signs) = nsigns)
      /\ AllSigns(signs)
      /\ HasMinus(signs) <=> neg /\ " " \notin fl
  <2>1. CASE " " \in fs \/ base # 10
    <3>1. signs = <<>> BY <2>1
    <3>2. u # 0 => nsigns = 0 BY <1>4, <2>1 DEF SignLen
    <3>3. neg /\ " " \notin fl <=> FALSE BY <1>4, <2>1 DEF IsNegative
    <3>4. PICK z : z = <<>> OBVIOUS
    <3>5. z \in Seq(Letters) /\ Len(z) = 0 /\ AllSigns(z) /\ ~HasMinus(z)
      BY <3>4 DEF Letters, AllSigns, Signs, HasMinus, Minus
    <3> HIDE DEF signs, neg, nsigns, u
    <3> QED BY <3>1, <3>2, <3>3, <3>4, <3>5, Zenon
  <2>2. CASE ~(" " \in fs \/ base # 10) /\ neg
    <3>1. signs = <<"-">> BY <2>2
    <3>2. u # 0 => nsigns = 1 BY <1>4, <2>2 DEF SignLen
    <3>3. neg /\ " " \notin fl <=> TRUE BY <1>4, <2>2
    <3>4. PICK z : z = <<"-">> OBVIOUS
    <3>5. z \in Seq(Letters) /\ Len(z) = 1 /\ AllSigns(z) /\ HasMinus(z)
      BY <3>4 DEF Letters, AllSigns, Signs, HasMinus, Minus
    <3> HIDE DEF signs, neg, nsigns, u
    <3> QED BY <3>1, <3>2, <3>3, <3>4, <3>5, Zenon
  <2>3. CASE ~(" " \in fs \/ base # 10) /\ ~neg /\ "+" \in fs
    <3>1. signs = <<"+">> BY <2>3
    <3>2. u # 0 => nsigns = 1 BY <1>4, <2>3 DEF SignLen
    <3>3. neg /\ " " \notin fl <=> FALSE BY <1>4, <2>3
    <3>4. PICK z : z = <<"+">> OBVIOUS
    <3>5. z \in Seq(Letters) /\ Len(z) = 1 /\ AllSigns(z) /\ ~HasMinus(z)
      BY <3>4 DEF Letters, AllSigns, Signs, HasMinus, Minus
    <3> HIDE DEF signs, neg, nsigns, u
    <3> QED BY <3>1, <3>2, <3>3, <3>4, <3>5, Zenon
  <2>4. CASE ~(" " \in fs \/ base # 10) /\ ~neg /\ "+" \notin fs
    <3>1. signs = <<>> BY <2>4
    <3>2. u # 0 => nsigns = 0 BY <1>4, <2>4 DEF SignLen
    <3>3. neg /\ " " \notin fl <=> FALSE BY <1>4, <2>4
    <3>4. PICK z : z = <<>> OBVIOUS
    <3>5. z \in Seq(Letters) /\ Len(z) = 0 /\ AllSigns(z) /\ ~HasMinus(z)
      BY <3>4 DEF Letters, AllSigns, Signs, HasMinus, Minus
    <3> HIDE DEF signs, neg, nsigns, u
    <3> QED BY <3>1, <3>2, <3>3, <3>4, <3>5, Zenon
  <2> QED BY <2>1, <2>2, <2>3, <2>4, Zenon
<1>6. string \in Seq(Letters \ {"-"}) BY <1>1, NumeralType
<1>7. string \in Seq(Letters) /\ ~HasMinus(string)
  <2> HIDE DEF string
  <2>1. string \in Seq(Letters) BY <1>6
  <2>2. \A i \in 1 .. Len(string) : string[i] \in Letters \ {"-"} BY <1>6
  <2>3. ~HasMinus(string) BY <2>2 DEF HasMinus, Minus
  <2> QED BY <2>1, <2>3
<1>8. DigitsOf(u, base) = IF u = 0 THEN 1 ELSE Len(string) BY <1>1, DigitsCounted
<1>9. Fill \subseteq Letters BY DEF Fill, Letters
<1> HIDE DEF t, neg, u, fs, signs, string, nsigns, prefix
<1>10. CASE num = 0
  <2>1. PICK z : z = <<"0">> OBVIOUS
  <2>2. z \in Seq(Letters) /\ Len(z) = 1 /\ z[1] = "0" /\ ~HasMinus(z)
    BY <2>1 DEF Letters, HasMinus, Minus
  <2>3. t = prints(z, w, fs) BY <1>2, <1>10, <2>1
  <2>4. /\ t \in Seq(Letters)
        /\ Len(t) = Wider(1, w) + PrefixLen(fs)
    BY <1>9, <2>2, <2>3, PrintsLayout
  <2>5. PICK a \in Nat : a + 1 <= Len(t) /\ Laid(t, a, z)
    BY <1>9, <2>2, <2>3, PrintsLayout
  <2>6. ~HasMinus(t) BY <2>2, <2>4, <2>5, LaidMinus
  <2>7. Denotes(t, base) = u
    <3>1. u = 0 /\ string = <<>> BY <1>1, <1>10, NumeralEquation DEF string
    <3>2. Filled(t, a) /\ Holds(t, a, z) /\ Padded(t, a + 1) BY <2>2, <2>5 DEF Laid
    <3>3. t[a + 1] = z[1] BY <2>2, <3>2 DEF Holds
    <3>4. Fill \subseteq Blanks /\ "0" \in Blanks BY DEF Fill, Blanks
    <3>5. t[a + 1] \in Blanks BY <2>2, <3>3, <3>4, Zenon
    <3>6. ASSUME NEW i \in 1 .. a + 1 PROVE t[i] \in Blanks
      <4>1. CASE i = a + 1 BY <3>5, <4>1
      <4>2. CASE i # a + 1
        <5>1. i \in 1 .. a BY <4>2
        <5> QED BY <3>2, <3>4, <5>1 DEF Filled
      <4> QED BY <4>1, <4>2
    <3>7. Len(string) = 0 BY <3>1
    <3>8. Holds(t, a + 1, string) BY <2>5, <3>7 DEF Holds
    <3>9. a + 1 \in Nat /\ (a + 1) + Len(string) = a + 1 BY <3>7
    <3>10. Shown(t, a + 1, string)
      BY <2>5, <3>2, <3>6, <3>8, <3>9, Zenon DEF Shown, Preceded
    <3>11. Len(t) \in Nat BY <2>4
    <3> QED BY <1>1, <3>10, <3>11, ShownReads DEF string
  <2>8. DigitsOf(u, base) = 1 /\ nsigns = 0 /\ ~neg BY <1>1, <1>8, <1>10 DEF nsigns, SignLen
  <2>9. Len(t) = prefix + Wider(DigitsOf(u, base) + nsigns, w)
    <3>1. DigitsOf(u, base) + nsigns = 1 BY <2>8
    <3>2. Len(t) = Wider(1, w) + prefix BY <1>3, <2>4, Zenon
    <3>3. Wider(1, w) \in Int BY DEF Wider
    <3> QED BY <1>3, <3>1, <3>2, <3>3
  <2> QED BY <2>4, <2>6, <2>7, <2>8, <2>9, Zenon DEF PrintedRight, t, u, neg, nsigns, prefix
<1>11. ASSUME num # 0, NEW b, Shown(t, b, string), t \in Seq(Letters),
              HasMinus(t) <=> HasMinus(signs),
              Len(t) = Wider(Len(signs) + Len(string), w) + PrefixLen(fs)
       PROVE  /\ t \in Seq(Letters)
              /\ Denotes(t, base) = u
              /\ HasMinus(t) <=> neg /\ " " \notin fl
              /\ Len(t) = prefix + Wider(DigitsOf(u, base) + nsigns, w)
  <2>1. Len(t) \in Nat BY <1>11, SeqLength, Zenon
  <2>2. Denotes(t, base) = u BY <1>1, <1>11, <2>1, ShownReads DEF string
  <2>3. DigitsOf(u, base) = Len(string) /\ Len(signs) = nsigns BY <1>1, <1>5, <1>8, <1>11
  <2>4. Len(string) \in Nat /\ Len(signs) \in Nat BY <1>5, <1>7, SeqLength, Zenon
  <2>5. Len(t) = Wider(Len(signs) + Len(string), w) + prefix
    BY <1>3, <1>11, Zenon
  <2>6. DigitsOf(u, base) + nsigns = Len(signs) + Len(string)
    BY <2>3, <2>4
  <2>7. Wider(Len(signs) + Len(string), w) \in Int BY <2>4 DEF Wider
  <2>8. Len(t) = prefix + Wider(DigitsOf(u, base) + nsigns, w)
    BY <1>3, <2>5, <2>6, <2>7
  <2> QED BY <1>5, <1>11, <2>2, <2>8
<1>12. CASE num # 0 /\ "0" \in fs
  <2>1. PICK p, v : v = sign_width(w, signs) /\ p = prints(string, v, fs) OBVIOUS
  <2>2. t = signs \o p BY <1>2, <1>12, <2>1
  <2>3. Len(signs) \in Nat /\ Len(string) \in Nat BY <1>5, <1>7, SeqLength, Zenon
  <2>4. v = w - Len(signs) /\ v \in Int BY <2>1, <2>3 DEF sign_width
  <2>5. /\ p \in Seq(Letters)
        /\ Len(p) = Wider(Len(string), v) + PrefixLen(fs)
    BY <1>7, <1>9, <2>1, <2>4, PrintsLayout
  <2>6. PICK a \in Nat : a + Len(string) <= Len(p) /\ Laid(p, a, string)
    BY <1>7, <1>9, <2>1, <2>4, PrintsLayout
  <2>7. Shown(t, Len(signs) + a, string) BY <1>5, <1>7, <2>2, <2>5, <2>6, SignsInFront
  <2>8. t \in Seq(Letters) /\ Len(t) = Len(signs) + Len(p) BY <1>5, <2>2, <2>5, Concatenation
  <2>9. HasMinus(p) <=> HasMinus(string) BY <2>3, <2>5, <2>6, LaidMinus
  <2>10. HasMinus(t) <=> HasMinus(signs) BY <1>5, <1>7, <2>2, <2>5, <2>9, JoinMinus
  <2>11. Len(t) = Wider(Len(signs) + Len(string), w) + PrefixLen(fs)
    <3>1. Len(t) = Len(signs) + (Wider(Len(string), v) + prefix) BY <1>3, <2>5, <2>8, Zenon
    <3>2. Len(t) = Wider(Len(signs) + Len(string), w) + prefix
      BY <1>3, <2>3, <2>4, <3>1 DEF Wider
    <3> QED BY <1>3, <3>2, Zenon
  <2> QED BY <1>11, <1>12, <2>7, <2>8, <2>10, <2>11, Zenon DEF PrintedRight, t, u, neg, nsigns, prefix
<1>13. CASE num # 0 /\ "0" \notin fs
  <2>1. PICK D : D = signs \o string OBVIOUS
  <2>2. t = prints(D, w, fs) BY <1>2, <1>13, <2>1
  <2>3. D \in Seq(Letters) /\ Len(D) = Len(signs) + Len(string)
    BY <1>5, <1>7, <2>1, Concatenation
  <2>4. /\ t \in Seq(Letters)
        /\ Len(t) = Wider(Len(D), w) + PrefixLen(fs)
    BY <1>9, <2>2, <2>3, PrintsLayout
  <2>5. PICK a \in Nat : a + Len(D) <= Len(t) /\ Laid(t, a, D)
    BY <1>9, <2>2, <2>3, PrintsLayout
  <2>6. Shown(t, a + Len(signs), string) BY <1>5, <1>7, <2>1, <2>4, <2>5, SignsInside
  <2>7. HasMinus(t) <=> HasMinus(D) BY <2>3, <2>4, <2>5, LaidMinus
  <2>8. HasMinus(t) <=> HasMinus(signs) BY <1>5, <1>7, <2>1, <2>7, JoinMinus
  <2>9. Len(t) = Wider(Len(signs) + Len(string), w) + PrefixLen(fs)
    BY <2>3, <2>4, Zenon
  <2> QED BY <1>11, <1>13, <2>4, <2>6, <2>8, <2>9, Zenon DEF PrintedRight, t, u, neg, nsigns, prefix
<1> QED BY <1>10, <1>12, <1>13, Zenon

-----------------------------------------------------------------------------
\* The halves of slots, and what may be left of the last one.
Halves == 0 .. HALF - 1
RestOK(r) == r \in Seq(Halves) /\ Len(r) <= 1

(***************************************************************************)
(* An element of a sequence.                                               *)
(***************************************************************************)
LEMMA Elements ==
  ASSUME NEW S, NEW s \in Seq(S), NEW i \in Nat, i >= 1, i <= Len(s)
  PROVE  s[i] \in S
OBVIOUS

(***************************************************************************)
(* What is left of a sequence after its first n elements.                  *)
(***************************************************************************)
LEMMA Tails ==
  ASSUME NEW S, NEW s \in Seq(S), NEW n \in Nat, n <= Len(s)
  PROVE  /\ SubSeq(s, n + 1, Len(s)) \in Seq(S)
         /\ Len(SubSeq(s, n + 1, Len(s))) = Len(s) - n
<1>1. Len(s) \in Nat BY SeqLength
<1>2. \A i \in n + 1 .. Len(s) : s[i] \in S
  <2> TAKE i \in n + 1 .. Len(s)
  <2>1. i \in Nat /\ i >= 1 /\ i <= Len(s) BY <1>1
  <2> QED BY <2>1, Elements
<1> QED BY <1>1, <1>2

(***************************************************************************)
(* A slot is a sequence of its two halves.                                 *)
(***************************************************************************)
LEMMA TwoElements ==
  ASSUME NEW S, NEW a \in S, NEW b \in S
  PROVE  <<a, b>> \in Seq(S) /\ Len(<<a, b>>) = 2
OBVIOUS

(***************************************************************************)
(* The halves of an argument slot are values of an int16.                  *)
(***************************************************************************)
LEMMA HalvesOfSlot ==
  ASSUME NEW v \in Values
  PROVE  v % HALF \in 0 .. HALF - 1 /\ v \div HALF \in 0 .. HALF - 1
<1>1. HALF \in Nat /\ HALF >= 2 BY WordHalves
<1>2. v \in Nat /\ v < HALF * HALF BY <1>1, PrintfAssumption DEF WORD
<1>3. v % HALF \in 0 .. HALF - 1 BY <1>1, <1>2
<1>4. v = HALF * (v \div HALF) + (v % HALF) /\ v \div HALF \in Nat BY <1>1, <1>2
<1>5. v \div HALF < HALF
  <2> SUFFICES ASSUME v \div HALF >= HALF PROVE FALSE BY <1>1, <1>4
  <2>1. PICK q : q = v \div HALF OBVIOUS
  <2>2. q \in Nat /\ q >= HALF BY <1>4, <2>1
  <2>3. HALF * q >= HALF * HALF BY <1>1, <2>2
  <2>4. v >= HALF * q BY <1>1, <1>2, <1>3, <1>4, <2>1
  <2>5. HALF * q \in Nat /\ HALF * HALF \in Nat BY <1>1, <2>2
  <2> QED BY <1>2, <2>3, <2>4, <2>5
<1> QED BY <1>1, <1>3, <1>4, <1>5

(***************************************************************************)
(* va_arg, however many halves were consumed before: it yields an int16 or *)
(* a word of the type, and leaves at most one half of a slot.              *)
(***************************************************************************)
LEMMA Loads ==
  ASSUME NEW v \in Values, RestOK(rest)
  PROVE  /\ Loaded(1, v) \in 0 .. HALF - 1 /\ RestOK(Left(1, v))
         /\ Loaded(2, v) \in 0 .. WORD - 1 /\ RestOK(Left(2, v))
<1>1. HALF \in Nat /\ HALF >= 2 /\ WORD \in Nat BY WordHalves
<1>2. PICK a, b : a = v % HALF /\ b = v \div HALF OBVIOUS
<1>3. a \in Halves /\ b \in Halves BY <1>2, HalvesOfSlot DEF Halves
<1>4. \A x, y \in Halves : x + HALF * y \in 0 .. WORD - 1
  <2> SUFFICES ASSUME NEW x \in 0 .. HALF - 1, NEW y \in 0 .. HALF - 1
               PROVE  x + HALF * y \in 0 .. WORD - 1
    BY DEF Halves
  <2>1. HALF * y <= HALF * (HALF - 1) /\ HALF * y \in Nat BY <1>1
  <2>2. HALF * (HALF - 1) = WORD - HALF BY <1>1 DEF WORD
  <2> QED BY <1>1, <2>1, <2>2
<1>5. ASSUME NEW n \in {1, 2}
      PROVE  /\ Stream(n, v) \in Seq(Halves) /\ Len(Stream(n, v)) \in Nat
             /\ Len(Stream(n, v)) >= n /\ Len(Stream(n, v)) <= n + 1
  <2>1. rest \in Seq(Halves) /\ Len(rest) \in Nat /\ Len(rest) <= 1 BY SeqLength, Zenon DEF RestOK
  <2>2. PICK slot : slot = <<a, b>> OBVIOUS
  <2>3. slot \in Seq(Halves) /\ Len(slot) = 2 BY <1>3, <2>2, TwoElements, Zenon
  <2>4. PICK s : s = rest \o slot OBVIOUS
  <2>5. s \in Seq(Halves) /\ Len(s) = Len(rest) + Len(slot)
    BY <2>1, <2>3, <2>4, Concatenation
  <2>6. Stream(n, v) = IF Len(rest) >= n THEN rest ELSE s
    BY <1>2, <2>2, <2>4, Zenon DEF Stream
  <2>7. CASE Len(rest) >= n
    <3>1. Stream(n, v) = rest BY <2>6, <2>7
    <3>2. Len(rest) <= n + 1 BY <2>1
    <3> QED BY <2>1, <2>7, <3>1, <3>2, Zenon
  <2>8. CASE ~(Len(rest) >= n)
    <3>1. Stream(n, v) = s BY <2>6, <2>8
    <3>2. Len(s) \in Nat /\ Len(s) >= n /\ Len(s) <= n + 1 BY <2>1, <2>3, <2>5, <2>8
    <3> QED BY <2>5, <3>1, <3>2, Zenon
  <2> QED BY <2>7, <2>8
<1>6. ASSUME NEW n \in {1, 2} PROVE RestOK(Left(n, v))
  <2>1. PICK s : s = Stream(n, v) OBVIOUS
  <2>2. s \in Seq(Halves) /\ Len(s) \in Nat /\ Len(s) >= n /\ Len(s) <= n + 1 BY <1>5, <2>1, Zenon
  <2>3. Left(n, v) = SubSeq(s, n + 1, Len(s)) BY <2>1 DEF Left
  <2>4. n \in Nat /\ n <= Len(s) BY <2>2
  <2>5. /\ Left(n, v) \in Seq(Halves)
        /\ Len(Left(n, v)) = Len(s) - n
    BY <2>2, <2>3, <2>4, Tails
  <2>6. Len(s) - n <= 1 BY <2>2
  <2> QED BY <2>5, <2>6 DEF RestOK
<1>7. Loaded(1, v) \in Halves
  <2>1. PICK s : s = Stream(1, v) OBVIOUS
  <2>2. s \in Seq(Halves) /\ Len(s) \in Nat /\ Len(s) >= 1 BY <1>5, <2>1, Zenon
  <2>3. s[1] \in Halves BY <2>2, Elements
  <2>4. Loaded(1, v) = s[1] BY <2>1, Zenon DEF Loaded
  <2> QED BY <2>3, <2>4, Zenon
<1>8. Loaded(2, v) \in 0 .. WORD - 1
  <2>1. PICK s : s = Stream(2, v) OBVIOUS
  <2>2. s \in Seq(Halves) /\ Len(s) \in Nat /\ Len(s) >= 2 BY <1>5, <2>1, Zenon
  <2>3. PICK x, y : x = s[1] /\ y = s[2] OBVIOUS
  <2>4. x \in Halves /\ y \in Halves BY <2>2, <2>3, Elements
  <2>5. 2 # 1 OBVIOUS
  <2>6. Loaded(2, v) = x + HALF * y BY <2>1, <2>3, <2>5, Zenon DEF Loaded
  <2> QED BY <1>4, <2>4, <2>6
<1> QED BY <1>6, <1>7, <1>8 DEF Halves

(***************************************************************************)
(* The larger of two numbers.                                              *)
(***************************************************************************)
LEMMA MaxOfTwo ==
  ASSUME NEW a \in Int, NEW b \in Int
  PROVE  Max({a, b}) = Wider(b, a)
<1>1. PICK m : m = Wider(b, a) OBVIOUS
<1>2. m \in {a, b} /\ \A y \in {a, b} : m >= y BY <1>1 DEF Wider
<1>3. ASSUME NEW x \in {a, b}, \A y \in {a, b} : x >= y PROVE x = m BY <1>2, <1>3
<1>4. Max({a, b}) = m BY <1>2, <1>3 DEF Max
<1> QED BY <1>1, <1>4

(***************************************************************************)
(* A minus somewhere in a text, by the domain or by the length.            *)
(***************************************************************************)
LEMMA MinusSeen ==
  ASSUME NEW t \in Seq(Letters)
  PROVE  (\E k \in DOMAIN t : t[k] = "-") <=> HasMinus(t)
<1>1. DOMAIN t = 1 .. Len(t) OBVIOUS
<1> QED BY <1>1, Zenon DEF HasMinus, Minus

\* The inductive invariant: what was printed last is right, and the state
\* that the next conversion reads is of its type.
OutputInv == NumberReadsBack /\ FieldWidth
PrintfInv == width \in Nat /\ RestOK(rest) /\ OutputInv

(***************************************************************************)
(* A conversion of a number prints it right, whatever was left of the      *)
(* arguments.                                                              *)
(***************************************************************************)
LEMMA NumberShown ==
  ASSUME PrintfInv, NEW c, NEW v \in Values, print_number(c, v)
  PROVE  PrintfInv'
<1> DEFINE sign == c \in {"d", "i"}
           base == IF c \in {"d", "i", "u"} THEN 10 ELSE 16
           fl == IF c = "p" THEN {"#", "0"} ELSE resolved(flags)
           w == IF c = "p" THEN halves * HEXH ELSE width
           num == IF Short THEN Extended(Loaded(1, v), sign) ELSE Loaded(halves, v)
           convbase == IF c \in {"X", "p"} THEN Upper ELSE Lower
           t == printi(num, base, sign, w, fl, convbase)
<1>1. /\ last'.conv = c /\ last'.base = base /\ last'.sign = sign /\ last'.flags = fl
      /\ last'.width = w /\ last'.num = num /\ last'.text = t
  BY DEF print_number
<1>2. rest' = Left(halves, v) /\ width' = width BY DEF print_number
<1>3. c \in Numbers BY DEF print_number
<1>4. halves \in {1, 2} BY DEF halves
<1>5. width' \in Nat /\ RestOK(rest)'
  <2>1. RestOK(Left(halves, v)) BY <1>4, Loads DEF PrintfInv
  <2> QED BY <1>2, <2>1 DEF PrintfInv, RestOK
<1>6. num \in 0 .. WORD - 1
  <2>1. RestOK(rest) BY DEF PrintfInv
  <2>2. HALF \in Nat /\ HALF >= 2 /\ WORD \in Nat BY WordHalves
  <2>3. WORD >= HALF
    <3>1. HALF * HALF >= 2 * HALF /\ HALF * HALF \in Nat BY <2>2
    <3> QED BY <2>2, <3>1 DEF WORD
  <2>4. CASE Short
    <3>1. PICK h \in 0 .. HALF - 1 : h = Loaded(1, v) BY <2>1, Loads
    <3>2. num = Extended(h, sign) BY <2>4, <3>1
    <3>3. Extended(h, sign) \in {h, h + WORD - HALF} BY DEF Extended
    <3>4. h \in 0 .. WORD - 1 /\ h + WORD - HALF \in 0 .. WORD - 1 BY <2>2, <2>3
    <3> HIDE DEF num
    <3> QED BY <3>2, <3>3, <3>4
  <2>5. CASE ~Short
    <3>1. halves = 2 BY <2>5 DEF halves
    <3> QED BY <2>1, <2>5, <3>1, Loads
  <2> QED BY <2>4, <2>5
<1>7. base \in Bases /\ convbase \in Alphabets /\ sign \in BOOLEAN BY DEF Bases, Alphabets
<1>8. sign => base = 10 OBVIOUS
<1>9. w \in Nat
  <2>1. halves * HEXH \in Nat
    <3>1. HEXH \in Nat BY PrintfAssumption
    <3> QED BY <1>4, <3>1
  <2> QED BY <2>1 DEF PrintfInv
<1> HIDE DEF sign, base, fl, w, num, convbase, t
<1> DEFINE neg == IsNegative(num, base, sign)
           u == Shows(num, base, sign)
           signs == SignLen(u, neg, base, fl)
           prefix == HexLen(base, fl)
<1>10. /\ t \in Seq(Letters)
       /\ Denotes(t, base) = u
       /\ HasMinus(t) <=> neg /\ " " \notin fl
       /\ Len(t) = prefix + Wider(DigitsOf(u, base) + signs, w)
  <2>1. w \in Int BY <1>9
  <2>2. PrintedRight(t, num, base, sign, w, fl) BY <1>6, <1>7, <2>1, PrintiShows DEF t
  <2> QED BY <2>2, Zenon DEF PrintedRight
<1>11. Negative' <=> neg BY <1>1, <1>8, Zenon DEF Negative, IsNegative
<1>12. u = (IF Negative THEN -Signed(last.num) ELSE last.num)'
  <2>1. WORD \in Nat BY WordHalves
  <2>2. CASE neg
    <3>1. num >= WORD \div 2 BY <2>2 DEF IsNegative
    <3>2. Signed(num) = num - WORD BY <3>1 DEF Signed
    <3>3. -(num - WORD) = WORD - num BY <1>6, <2>1
    <3>4. u = WORD - num BY <2>2, Zenon DEF Shows
    <3> HIDE DEF u, neg
    <3> QED BY <1>1, <1>11, <2>2, <3>2, <3>3, <3>4
  <2>3. CASE ~neg
    <3>1. u = num BY <2>3, Zenon DEF Shows
    <3> QED BY <1>1, <1>11, <2>3, <3>1, Zenon
  <2> QED BY <2>2, <2>3
<1>13. NumberReadsBack'
  <2>1. (\E k \in DOMAIN t : t[k] = "-") <=> neg /\ " " \notin fl BY <1>10, MinusSeen, Zenon
  <2> HIDE DEF u, neg
  <2> QED BY <1>1, <1>10, <1>11, <1>12, <2>1, Zenon DEF NumberReadsBack
<1>14. u \in Nat /\ DigitsOf(u, base) \in Nat
  <2>1. u \in 0 .. WORD - 1 BY <1>6, <1>7, MagnitudeShown
  <2>2. u \in Nat BY <2>1, WordIsNat
  <2>3. DigitsOf(u, base) = IF u = 0 THEN 1 ELSE Len(numeral(u, base, convbase))
    BY <1>7, <2>1, DigitsCounted
  <2>4. Len(numeral(u, base, convbase)) \in Nat BY <1>7, <2>1, NumeralType
  <2> QED BY <2>2, <2>3, <2>4
<1>15. FieldWidth'
  <2>1. c \notin {"s", "c"} BY <1>3 DEF Numbers
  <2>2. signs \in Nat BY DEF SignLen
  <2>3. DigitsOf(u, base) + signs \in Int BY <1>14, <2>2
  <2>4. Max({w, DigitsOf(u, base) + signs}) = Wider(DigitsOf(u, base) + signs, w)
    BY <1>9, <2>3, MaxOfTwo
  <2>5. signs = (IF base = 10 /\ u > 0 /\ " " \notin fl /\ (neg \/ "+" \in fl) THEN 1 ELSE 0)
    <3>1. u > 0 <=> u # 0 BY <1>14
    <3> QED BY <3>1, Zenon DEF SignLen
  <2>6. prefix = (IF base = 16 /\ "#" \in fl THEN 2 ELSE 0) BY DEF HexLen, PrefixLen
  <2>7. Len(t) = prefix + Max({w, DigitsOf(u, base) + signs}) BY <1>10, <2>4, Zenon
  <2> HIDE DEF u, neg, signs, prefix
  <2> QED BY <1>1, <1>11, <1>12, <2>1, <2>5, <2>6, <2>7, Zenon DEF FieldWidth
<1> QED BY <1>5, <1>13, <1>15 DEF PrintfInv, OutputInv

\* The string of an s or a c.
Chosen(c, arg) ==
  CASE c = "c" -> IF arg % BYTE = 0 THEN <<>> ELSE <<"c">>
    [] c = "s" /\ arg = 0 -> <<"(", "n", "u", "l", "l", ")">>
    [] OTHER -> Text[arg]

(***************************************************************************)
(* What s and c print is a string: the text of the pointer, (null), one    *)
(* character or none.                                                      *)
(***************************************************************************)
LEMMA ChosenIsText ==
  ASSUME NEW c \in {"s", "c"}, NEW arg \in 0 .. WORD - 1
  PROVE  \E S : Fill \subseteq S /\ Chosen(c, arg) \in Seq(S)
<1>1. CASE c = "c"
  <2>1. PICK e, f : e = <<>> /\ f = <<"c">> OBVIOUS
  <2>2. PICK S : S = Fill \union {"c"} OBVIOUS
  <2>3. e \in Seq(S) /\ f \in Seq(S) BY <2>1, <2>2
  <2>4. Chosen(c, arg) = IF arg % BYTE = 0 THEN e ELSE f BY <1>1, <2>1, Zenon DEF Chosen
  <2>5. Chosen(c, arg) \in Seq(S) BY <2>3, <2>4, Zenon
  <2> QED BY <2>2, <2>5
<1>2. CASE c # "c" /\ arg = 0
  <2>1. PICK f : f = <<"(", "n", "u", "l", "l", ")">> OBVIOUS
  <2>2. PICK S : S = Fill \union {"(", "n", "u", "l", ")"} OBVIOUS
  <2>3. f \in Seq(S) BY <2>1, <2>2
  <2>4. c = "s" BY <1>2
  <2>5. Chosen(c, arg) = f BY <1>2, <2>1, <2>4, Zenon DEF Chosen
  <2> QED BY <2>2, <2>3, <2>5
<1>3. CASE c # "c" /\ arg # 0
  <2>1. PICK f : f = Text[arg] OBVIOUS
  <2>2. arg \in 1 .. WORD - 1 BY <1>3, WordIsNat
  <2>3. f \in Seq(STRING) BY <2>1, <2>2, PrintfAssumption
  <2>4. PICK S : S = Fill \union STRING OBVIOUS
  <2>5. f \in Seq(S) BY <2>3, <2>4
  <2>6. Chosen(c, arg) = f BY <1>3, <2>1, Zenon DEF Chosen
  <2> QED BY <2>4, <2>5, <2>6
<1> QED BY <1>1, <1>2, <1>3

(***************************************************************************)
(* The conversions s and c fill their field.                               *)
(***************************************************************************)
LEMMA StringShown ==
  ASSUME PrintfInv, NEW c, NEW v \in Values, print_string(c, v)
  PROVE  PrintfInv'
<1> DEFINE arg == Loaded(2, v)
           string == Chosen(c, arg)
           fl == flags \intersect {"-"}
           t == prints(string, width, fl)
<1>1. c \in {"s", "c"} BY DEF print_string
<1>2. last'.conv = c /\ last'.width = width /\ last'.string = string /\ last'.text = t
  BY DEF print_string, Chosen
<1>3. rest' = Left(2, v) /\ width' = width BY DEF print_string
<1>4. RestOK(rest) /\ width \in Nat BY DEF PrintfInv
<1>5. RestOK(Left(2, v)) /\ arg \in 0 .. WORD - 1 BY <1>4, Loads
<1>6. width' \in Nat /\ RestOK(rest)' BY <1>3, <1>4, <1>5 DEF RestOK, Halves
<1>7. ~Numeric'
  <2>1. c \notin Numbers BY <1>1 DEF Numbers
  <2> QED BY <1>2, <2>1, Zenon DEF Numeric
<1>8. PrefixLen(fl) = 0 BY DEF PrefixLen
<1> HIDE DEF arg, string, fl
<1>9. PICK S : Fill \subseteq S /\ string \in Seq(S)
  BY <1>1, <1>5, ChosenIsText DEF string
<1>10. width \in Int /\ Len(string) \in Nat BY <1>4, <1>9, SeqLength
<1>11. Len(t) = Wider(Len(string), width) + PrefixLen(fl)
  BY <1>9, <1>10, PrintsLayout
<1> HIDE DEF t
<1>12. Len(t) = Max({width, Len(string)})
  <2>1. Max({width, Len(string)}) = Wider(Len(string), width) BY <1>10, MaxOfTwo
  <2>2. Wider(Len(string), width) \in Int BY <1>10 DEF Wider
  <2> QED BY <1>8, <1>11, <2>1, <2>2
<1>13. FieldWidth' BY <1>2, <1>7, <1>12, Zenon DEF FieldWidth
<1>14. NumberReadsBack' BY <1>7, Zenon DEF NumberReadsBack
<1> QED BY <1>6, <1>13, <1>14 DEF PrintfInv, OutputInv

(***************************************************************************)
(* Nothing is printed before the first call.                               *)
(***************************************************************************)
LEMMA InitShown == Init => PrintfInv
<1> SUFFICES ASSUME Init PROVE PrintfInv OBVIOUS
<1>1. last.conv = "none" BY DEF Init, Nothing
<1>2. ~Numeric /\ last.conv \notin {"s", "c"} BY <1>1 DEF Numeric, Numbers
<1>3. OutputInv BY <1>2, Zenon DEF OutputInv, NumberReadsBack, FieldWidth
<1>4. rest = <<>> /\ width = 0 BY DEF Init
<1>5. RestOK(rest) BY <1>4 DEF RestOK
<1> QED BY <1>3, <1>4, <1>5 DEF PrintfInv

(***************************************************************************)
(* Every step of print keeps the output right.                             *)
(***************************************************************************)
LEMMA NextShown == PrintfInv /\ [Next]_vars => PrintfInv'
<1> SUFFICES ASSUME PrintfInv, [Next]_vars PROVE PrintfInv' OBVIOUS
<1>1. ASSUME UNCHANGED <<rest, last>>, width' \in Nat PROVE PrintfInv'
  <2>1. RestOK(rest)' BY <1>1 DEF PrintfInv, RestOK, Halves
  <2>2. last' = last BY <1>1
  <2>3. NumberReadsBack' BY <2>2, Zenon DEF PrintfInv, OutputInv, NumberReadsBack, Numeric, Negative
  <2>4. FieldWidth' BY <2>2, Zenon DEF PrintfInv, OutputInv, FieldWidth, Numeric, Negative
  <2> QED BY <1>1, <2>1, <2>3, <2>4 DEF PrintfInv, OutputInv
<1>2. ASSUME last'.conv \in {"none", "literal"}, width' = width, RestOK(rest)' PROVE PrintfInv'
  <2>1. ~Numeric' /\ last'.conv \notin {"s", "c"} BY <1>2 DEF Numeric, Numbers
  <2>2. NumberReadsBack' /\ FieldWidth' BY <2>1, Zenon DEF NumberReadsBack, FieldWidth
  <2> QED BY <1>2, <2>2 DEF PrintfInv, OutputInv
<1>3. width \in Nat /\ RestOK(rest) BY DEF PrintfInv
<1>4. CASE k_printf
  <2>1. rest' = <<>> /\ width' = width /\ last'.conv = "none" BY <1>4 DEF k_printf, Nothing
  <2>2. RestOK(rest)' BY <2>1 DEF RestOK
  <2> QED BY <1>2, <2>1, <2>2
<1>5. CASE print_percent BY <1>1, <1>5 DEF print_percent
<1>6. CASE print_nul BY <1>1, <1>3, <1>6 DEF print_nul
<1>7. CASE UNCHANGED vars BY <1>1, <1>3, <1>7 DEF vars
<1>8. CASE Overrun BY <1>7, <1>8 DEF Overrun
<1>9. ASSUME NEW c \in Chars, print_literal(c) \/ print_other(c) PROVE PrintfInv'
  <2>1. rest' = rest /\ width' = width /\ last'.conv = "literal"
    BY <1>9 DEF print_literal, print_other
  <2>2. RestOK(rest)' BY <1>3, <2>1 DEF RestOK, Halves
  <2> QED BY <1>2, <2>1, <2>2
<1>10. ASSUME NEW c \in Chars, print_flag(c) \/ print_length(c) PROVE PrintfInv'
  BY <1>1, <1>3, <1>10 DEF print_flag, print_length
<1>11. ASSUME NEW c \in Chars, print_width(c) PROVE PrintfInv'
  <2>1. PICK d \in 0 .. 9 : width' = width * 10 + d BY <1>11, Zenon DEF print_width
  <2>2. width' \in Nat BY <1>3, <2>1
  <2>3. UNCHANGED <<rest, last>> BY <1>11 DEF print_width
  <2> QED BY <1>1, <2>2, <2>3
<1>12. ASSUME NEW c \in Chars, NEW v \in Values, print_number(c, v) \/ print_string(c, v)
       PROVE  PrintfInv'
  BY <1>12, NumberShown, StringShown
<1> QED
  BY <1>4, <1>5, <1>6, <1>7, <1>8, <1>9, <1>10, <1>11, <1>12, Zenon DEF Next

(***************************************************************************)
(* Every number that k_printf prints reads back as that number, with its   *)
(* sign, for every format, all arguments, widths and flags, and every size *)
(* of the words: printi neither drops nor adds a digit, and the padding of *)
(* prints changes no value.                                                *)
(***************************************************************************)
THEOREM NumbersReadBack == Spec => []NumberReadsBack
<1>1. PrintfInv => NumberReadsBack BY DEF PrintfInv, OutputInv
<1> QED BY <1>1, InitShown, NextShown, PTL DEF Spec

(***************************************************************************)
(* Every field is as wide as its directive says and wider only for a       *)
(* string or a numeral that needs it, for every format and all arguments:  *)
(* the sign before zeros is counted, and 0x comes on top.                  *)
(***************************************************************************)
THEOREM FieldsAreWide == Spec => []FieldWidth
<1>1. PrintfInv => FieldWidth BY DEF PrintfInv, OutputInv
<1> QED BY <1>1, InitShown, NextShown, PTL DEF Spec
=============================================================================
