---------------------------- MODULE StringsProofs ----------------------------
(***************************************************************************)
(* Proofs about libc/string.c, for a memory of any size and content and    *)
(* every position and overlap of the operands in it.                       *)
(***************************************************************************)
EXTENDS Strings, WellFoundedInduction, TLAPS

-----------------------------------------------------------------------------
(***************************************************************************)
(* The inductive invariant behind CopiesSource and ResultRight: what each  *)
(* loop has done after i bytes.                                            *)
(***************************************************************************)

\* The call, its blocks and strings in the memory, and its progress.
CallOK ==
  /\ mem \in [Addresses -> Bytes] /\ before \in [Addresses -> Bytes]
  /\ op \in Blocks \union {"strcpy", "strlen", "strcmp"}
  /\ dst \in Addresses /\ src \in Addresses /\ n \in Nat /\ i \in Nat
  /\ c \in Bytes
  /\ pc \in {"run", "done", "overrun"}
  /\ op \in Blocks => /\ dst + n <= SIZE /\ src + n <= SIZE
                      /\ i <= n /\ (pc = "done" => i = n)
  /\ op \notin Blocks => IsString(before, src)
  /\ op = "strcmp" => IsString(before, dst)

\* memmove backwards: the last k bytes have arrived.
CopiedBack(k) ==
  /\ Changed \subseteq dst + n - k .. dst + n - 1
  /\ \A j \in n - k .. n - 1 : mem[dst + j] = before[src + j]

BlocksDone ==
  /\ op = "memset" => /\ Changed \subseteq dst .. dst + i - 1
                      /\ \A j \in 0 .. i - 1 : mem[dst + j] = c
  /\ op = "memcpy" /\ (dst <= src \/ dst >= src + n) => Copied(i)
  /\ op = "memmove" => IF dst < src THEN Copied(i) ELSE CopiedBack(i)

StringsDone ==
  /\ op \in {"strlen", "strcmp"} =>
       mem = before /\ \A j \in 0 .. i - 1 : before[src + j] # 0
  /\ op = "strcmp" => \A j \in 0 .. i - 1 : before[dst + j] = before[src + j]

StringsInv == CallOK /\ BlocksDone /\ StringsDone /\ ResultRight

-----------------------------------------------------------------------------
(***************************************************************************)
(* Where a string ends.                                                    *)
(***************************************************************************)

\* A set of numbers that is not empty has a least one.
LEMMA Least ==
  ASSUME NEW S \in SUBSET Nat, S # {}
  PROVE  \E m \in S : \A j \in S : m <= j
<1>1. PICK m \in S : \A j \in S : ~(<<j, m>> \in OpToRel(<, Nat))
  BY NatLessThanWellFounded, WFMin, Zenon
<1>2. ASSUME NEW j \in S PROVE m <= j
  <2>1. <<j, m>> \in OpToRel(<, Nat) <=> j < m
    BY DEF OpToRel
  <2>2. ~(j < m)
    BY <1>1, <2>1, Zenon
  <2> QED
    BY <2>2
<1> QED
  BY <1>2

\* The byte at Length is the first 0 from a on.
LEMMA LengthIs ==
  ASSUME NEW m, NEW a \in Addresses, IsString(m, a)
  PROVE  /\ Length(m, a) \in 0 .. SIZE - 1 - a
         /\ m[a + Length(m, a)] = 0
         /\ \A k \in 0 .. Length(m, a) - 1 : m[a + k] # 0
<1> DEFINE S == {k \in 0 .. SIZE - 1 - a : m[a + k] = 0}
<1>1. S \in SUBSET Nat /\ S # {}
  BY DEF IsString
<1>2. \E x \in S : \A z \in S : x <= z
  <2> HIDE DEF S
  <2> QED
    BY <1>1, Least
<1>3. Length(m, a) \in S /\ \A z \in S : Length(m, a) <= z
  BY <1>2 DEF Length, Min
<1>4. ASSUME NEW k \in 0 .. Length(m, a) - 1, m[a + k] = 0
      PROVE  FALSE
  <2>1. SIZE \in Nat /\ a \in Nat
    BY StringsAssumption DEF Addresses
  <2>2. Length(m, a) \in 0 .. SIZE - 1 - a
    BY <1>3
  <2> HIDE DEF S
  <2>3. k \in 0 .. SIZE - 1 - a /\ k < Length(m, a)
    BY <1>4, <2>1, <2>2
  <2>4. k \in S
    BY <1>4, <2>3 DEF S
  <2> QED
    BY <1>3, <2>2, <2>3, <2>4
<1> QED
  BY <1>3, <1>4

\* No other place has that property.
LEMMA LengthUnique ==
  ASSUME NEW m, NEW a \in Addresses, NEW k \in 0 .. SIZE - 1 - a,
         m[a + k] = 0, \A j \in 0 .. k - 1 : m[a + j] # 0
  PROVE  Length(m, a) = k
<1>1. IsString(m, a)
  BY DEF IsString
<1> DEFINE len == Length(m, a)
<1>2. /\ len \in 0 .. SIZE - 1 - a /\ m[a + len] = 0
      /\ \A j \in 0 .. len - 1 : m[a + j] # 0
  BY <1>1, LengthIs
<1> HIDE DEF len
<1>3. SIZE \in Nat /\ a \in Nat
  BY StringsAssumption DEF Addresses
<1>4. ~(k < len)
  BY <1>2, <1>3
<1>5. ~(len < k)
  BY <1>2, <1>3
<1>6. len = k
  BY <1>2, <1>3, <1>4, <1>5
<1> QED
  BY <1>6 DEF len

-----------------------------------------------------------------------------
(***************************************************************************)
(* One byte more.                                                          *)
(***************************************************************************)

\* Addresses are numbers below SIZE.
LEMMA AddressIs ==
  ASSUME NEW a \in Int
  PROVE  a \in Addresses <=> (0 <= a /\ a < SIZE)
BY StringsAssumption DEF Addresses

LEMMA StoreOne ==
  ASSUME CallOK, NEW a \in Addresses, NEW b \in Bytes,
         mem' = [mem EXCEPT ![a] = b], before' = before
  PROVE  /\ mem' \in [Addresses -> Bytes]
         /\ mem'[a] = b
         /\ \A z \in Addresses \ {a} : mem'[z] = mem[z]
         /\ Changed' \subseteq Changed \union {a}
<1>1. /\ mem' \in [Addresses -> Bytes] /\ mem'[a] = b
      /\ \A z \in Addresses \ {a} : mem'[z] = mem[z]
  BY DEF CallOK
<1>2. Changed' \subseteq Changed \union {a}
  BY <1>1 DEF Changed
<1> QED
  BY <1>1, <1>2

\* A byte of the source that no store has reached is what it was.
LEMMA Untouched ==
  ASSUME CallOK, NEW lo \in Int, NEW hi \in Int, Changed \subseteq lo .. hi,
         NEW a \in Addresses, a < lo \/ a > hi
  PROVE  mem[a] = before[a]
<1>1. a \in Int /\ a \notin lo .. hi
  BY StringsAssumption DEF Addresses
<1> QED
  BY <1>1 DEF Changed

\* Forwards: byte k follows the first k.
LEMMA CopyOne ==
  ASSUME CallOK, NEW k \in Nat, Copied(k),
         dst + k \in Addresses, src + k \in Addresses,
         mem[src + k] = before[src + k],
         mem' = [mem EXCEPT ![dst + k] = mem[src + k]],
         UNCHANGED <<dst, src, before>>
  PROVE  Copied(k + 1)' /\ mem' \in [Addresses -> Bytes]
<1>1. /\ mem' \in [Addresses -> Bytes] /\ mem'[dst + k] = mem[src + k]
      /\ \A z \in Addresses \ {dst + k} : mem'[z] = mem[z]
      /\ Changed' \subseteq Changed \union {dst + k}
  BY StoreOne DEF CallOK
<1>2. dst \in Nat /\ dst < SIZE /\ SIZE \in Nat /\ dst + k < SIZE
  BY AddressIs, StringsAssumption DEF CallOK, Addresses
<1>3. Changed' \subseteq dst .. dst + (k + 1) - 1
  <2>1. Changed \subseteq dst .. dst + k - 1
    BY DEF Copied
  <2>2. dst .. dst + k - 1 \subseteq dst .. dst + (k + 1) - 1
        /\ dst + k \in dst .. dst + (k + 1) - 1
    BY <1>2
  <2> QED
    BY <1>1, <2>1, <2>2, Zenon
<1>4. ASSUME NEW j \in 0 .. (k + 1) - 1
      PROVE  mem'[dst + j] = before[src + j]
  <2>1. CASE j = k
    BY <1>1, <2>1
  <2>2. CASE j # k
    <3>1. j \in 0 .. k - 1 /\ dst + j # dst + k /\ dst + j \in Addresses
      BY <1>2, <2>2 DEF Addresses
    <3>2. mem[dst + j] = before[src + j]
      BY <3>1 DEF Copied
    <3> QED
      BY <1>1, <3>1, <3>2
  <2> QED
    BY <2>1, <2>2
<1> QED
  BY <1>1, <1>3, <1>4 DEF Copied

\* Backwards: byte n - 1 - k precedes the last k.
LEMMA CopyBackOne ==
  ASSUME CallOK, NEW k \in Nat, k < n, dst + n <= SIZE, CopiedBack(k),
         dst + (n - 1 - k) \in Addresses, src + (n - 1 - k) \in Addresses,
         mem[src + (n - 1 - k)] = before[src + (n - 1 - k)],
         mem' = [mem EXCEPT ![dst + (n - 1 - k)] = mem[src + (n - 1 - k)]],
         UNCHANGED <<dst, src, n, before>>
  PROVE  CopiedBack(k + 1)' /\ mem' \in [Addresses -> Bytes]
<1> DEFINE p == n - 1 - k
<1>0. p \in Nat /\ n \in Nat /\ n - k = p + 1 /\ n - (k + 1) = p
  BY DEF CallOK
<1>1. /\ mem' \in [Addresses -> Bytes] /\ mem'[dst + p] = mem[src + p]
      /\ \A z \in Addresses \ {dst + p} : mem'[z] = mem[z]
      /\ Changed' \subseteq Changed \union {dst + p}
  <2>1. mem[src + p] \in Bytes
    BY DEF CallOK
  <2>2. mem' = [mem EXCEPT ![dst + p] = mem[src + p]] /\ dst + p \in Addresses
    OBVIOUS
  <2> HIDE DEF p
  <2> QED
    BY <2>1, <2>2, StoreOne
<1>2. dst \in Nat /\ dst < SIZE /\ SIZE \in Nat
  BY AddressIs, StringsAssumption DEF CallOK, Addresses
<1> HIDE DEF p
<1>3. Changed' \subseteq dst + n - (k + 1) .. dst + n - 1
  <2>1. Changed \subseteq dst + n - k .. dst + n - 1
    BY DEF CopiedBack
  <2>2. /\ dst + n - k .. dst + n - 1 \subseteq dst + n - (k + 1) .. dst + n - 1
        /\ dst + p \in dst + n - (k + 1) .. dst + n - 1
    BY <1>0, <1>2
  <2> QED
    BY <1>1, <2>1, <2>2, Zenon
<1>4. ASSUME NEW j \in n - (k + 1) .. n - 1
      PROVE  mem'[dst + j] = before[src + j]
  <2>1. CASE j = p
    BY <1>1, <2>1 DEF p
  <2>2. CASE j # p
    <3>1. j \in n - k .. n - 1 /\ dst + j # dst + p
      BY <1>0, <1>2, <2>2
    <3>2. dst + j \in Addresses
      BY <1>0, <1>2, <3>1, AddressIs DEF CallOK
    <3>3. mem[dst + j] = before[src + j]
      BY <3>1 DEF CopiedBack
    <3> QED
      BY <1>1, <3>1, <3>2, <3>3
  <2> QED
    BY <2>1, <2>2
<1> QED
  BY <1>1, <1>3, <1>4 DEF CopiedBack

-----------------------------------------------------------------------------
(***************************************************************************)
(* The invariant, routine by routine.                                      *)
(***************************************************************************)

LEMMA InitStrings == Init => StringsInv
<1> SUFFICES ASSUME Init PROVE StringsInv
  OBVIOUS
<1>1. mem \in [Addresses -> Bytes] /\ before = mem /\ i = 0 /\ pc = "run"
      /\ dst \in Addresses /\ src \in Addresses
      /\ op \in Blocks \union {"strcpy", "strlen", "strcmp"}
  BY DEF Init
<1>2. dst \in Nat /\ src \in Nat /\ dst < SIZE /\ src < SIZE /\ SIZE \in Nat
  BY <1>1, StringsAssumption DEF Addresses
<1>3. n \in Nat /\ (op \in Blocks => dst + n <= SIZE /\ src + n <= SIZE)
  <2> DEFINE m == Max({dst, src})
  <2>1. m \in {dst, src} /\ m >= dst /\ m >= src
    BY <1>2 DEF Max
  <2>2. op \in Blocks => n \in 0 .. SIZE - m
    BY DEF Init
  <2>3. op \notin Blocks => n = 0
    BY DEF Init
  <2> HIDE DEF m
  <2> QED
    BY <1>2, <2>1, <2>2, <2>3
<1>4. c \in Bytes
  BY StringsAssumption DEF Init
<1>5. CallOK
  BY <1>1, <1>3, <1>4 DEF CallOK, Init
<1>6. Changed = {}
  BY <1>1 DEF Changed
<1>7. Copied(0) /\ CopiedBack(0)
  BY <1>2, <1>3, <1>6 DEF Copied, CopiedBack
<1>8. BlocksDone
  BY <1>1, <1>2, <1>6, <1>7 DEF BlocksDone
<1>9. StringsDone
  <2>1. op = "strcpy" => Length(before, src) \in Nat
    BY <1>1, <1>5, LengthIs DEF CallOK, Blocks
  <2> QED
    BY <1>1, <1>7, <2>1 DEF StringsDone
<1>10. ResultRight
  BY <1>1 DEF ResultRight
<1> QED
  BY <1>5, <1>8, <1>9, <1>10 DEF StringsInv

LEMMA MemsetStep ==
  ASSUME StringsInv, memset
  PROVE  StringsInv'
<1>1. /\ CallOK /\ BlocksDone /\ op = "memset" /\ op \in Blocks /\ i < n
      /\ pc = "run" /\ pc' = "run"
  BY DEF StringsInv, memset, more, Store, Blocks
<1>2. /\ mem' = [mem EXCEPT ![dst + i] = c] /\ i' = i + 1
      /\ UNCHANGED <<op, dst, src, n, c, before, result, pc>>
  BY DEF memset, Store
<1>3. /\ dst \in Nat /\ SIZE \in Nat /\ n \in Nat /\ i \in Nat /\ c \in Bytes
      /\ dst + n <= SIZE
  BY <1>1, StringsAssumption DEF CallOK, Addresses
<1>4. dst + i \in Addresses
  BY <1>1, <1>3 DEF Addresses
<1>5. /\ mem' \in [Addresses -> Bytes] /\ mem'[dst + i] = c
      /\ \A z \in Addresses \ {dst + i} : mem'[z] = mem[z]
      /\ Changed' \subseteq Changed \union {dst + i}
  BY <1>1, <1>2, <1>3, <1>4, StoreOne
<1>6. CallOK'
  BY <1>1, <1>2, <1>3, <1>5 DEF CallOK, IsString
<1>7. BlocksDone'
  <2>1. Changed' \subseteq dst .. dst + i' - 1
    <3>1. Changed \subseteq dst .. dst + i - 1
      BY <1>1 DEF BlocksDone
    <3>2. /\ dst .. dst + i - 1 \subseteq dst .. dst + i' - 1
          /\ dst + i \in dst .. dst + i' - 1
      BY <1>2, <1>3
    <3> QED
      BY <1>5, <3>1, <3>2, Zenon
  <2>2. ASSUME NEW j \in 0 .. i' - 1 PROVE mem'[dst + j] = c
    <3>1. CASE j = i
      BY <1>5, <3>1
    <3>2. CASE j # i
      <4>1. j \in 0 .. i - 1 /\ dst + j \in Addresses /\ dst + j # dst + i
        BY <1>1, <1>2, <1>3, <3>2 DEF Addresses
      <4> QED
        BY <1>1, <1>5, <4>1 DEF BlocksDone
    <3> QED
      BY <3>1, <3>2
  <2> QED
    BY <1>1, <1>2, <2>1, <2>2 DEF BlocksDone
<1>8. StringsDone' /\ ResultRight'
  BY <1>1, <1>2 DEF StringsDone, ResultRight
<1> QED
  BY <1>6, <1>7, <1>8 DEF StringsInv

(***************************************************************************)
(* memcpy reads a byte that it may have overwritten, unless the operands   *)
(* lie as CopiesSource demands.                                            *)
(***************************************************************************)
LEMMA MemcpyStep ==
  ASSUME StringsInv, memcpy
  PROVE  StringsInv'
<1>1. /\ CallOK /\ BlocksDone /\ op = "memcpy" /\ op \in Blocks /\ i < n
      /\ pc = "run" /\ pc' = "run"
  BY DEF StringsInv, memcpy, more, Store, Blocks
<1>2. /\ mem' = [mem EXCEPT ![dst + i] = mem[src + i]] /\ i' = i + 1
      /\ UNCHANGED <<op, dst, src, n, c, before, result, pc>>
  BY DEF memcpy, Store
<1>3. /\ dst \in Nat /\ src \in Nat /\ SIZE \in Nat /\ n \in Nat /\ i \in Nat
      /\ dst + n <= SIZE /\ src + n <= SIZE
  BY <1>1, StringsAssumption DEF CallOK, Addresses
<1>4. dst + i \in Addresses /\ src + i \in Addresses
  BY <1>1, <1>3 DEF Addresses
<1>5. mem' \in [Addresses -> Bytes]
  BY <1>1, <1>2, <1>4 DEF CallOK
<1>6. CallOK'
  BY <1>1, <1>2, <1>3, <1>5 DEF CallOK, IsString
<1>7. ASSUME dst <= src \/ dst >= src + n
      PROVE  Copied(i)'
  <2>0. PICK k \in Nat : k = i
    BY <1>3
  <2>1. Copied(k)
    BY <1>1, <1>7, <2>0 DEF BlocksDone
  <2>2. Changed \subseteq dst .. dst + i - 1 /\ dst + i - 1 \in Int
    BY <1>3, <2>0, <2>1 DEF Copied
  <2>3. src + i < dst \/ src + i > dst + i - 1
    BY <1>1, <1>3, <1>7
  <2>4. mem[src + i] = before[src + i]
    <3>1. CallOK /\ dst \in Int
      BY <1>1, <1>3
    <3> QED
      BY <1>4, <2>2, <2>3, <3>1, Untouched
  <2>5. Copied(k + 1)'
    BY <1>1, <1>2, <1>4, <2>0, <2>1, <2>4, CopyOne
  <2> QED
    BY <1>2, <2>0, <2>5 DEF Copied
<1>8. BlocksDone'
  BY <1>1, <1>2, <1>7 DEF BlocksDone
<1>9. StringsDone' /\ ResultRight'
  BY <1>1, <1>2 DEF StringsDone, ResultRight
<1> QED
  BY <1>6, <1>8, <1>9 DEF StringsInv

\* memmove copies in the direction in which it never reads what it wrote.
LEMMA MemmoveStep ==
  ASSUME StringsInv, memmove
  PROVE  StringsInv'
<1>1. /\ CallOK /\ BlocksDone /\ op = "memmove" /\ op \in Blocks /\ i < n
      /\ pc = "run" /\ pc' = "run"
  BY DEF StringsInv, memmove, more, Store, Blocks
<1>2. /\ mem' = [mem EXCEPT ![dst + moved_index] = mem[src + moved_index]]
      /\ i' = i + 1
      /\ UNCHANGED <<op, dst, src, n, c, before, result, pc>>
  BY DEF memmove, Store
<1>3. /\ dst \in Nat /\ src \in Nat /\ SIZE \in Nat /\ n \in Nat /\ i \in Nat
      /\ dst + n <= SIZE /\ src + n <= SIZE
  BY <1>1, StringsAssumption DEF CallOK, Addresses
<1>4. ASSUME dst < src
      PROVE  mem' \in [Addresses -> Bytes] /\ BlocksDone'
  <2>0. PICK k \in Nat : k = i
    BY <1>3
  <2>1. moved_index = i
    BY <1>4 DEF moved_index
  <2>2. dst + i \in Addresses /\ src + i \in Addresses
    BY <1>1, <1>3 DEF Addresses
  <2>3. Copied(k)
    BY <1>1, <1>4, <2>0 DEF BlocksDone
  <2>4. Changed \subseteq dst .. dst + i - 1 /\ dst + i - 1 \in Int
        /\ src + i > dst + i - 1
    BY <1>3, <1>4, <2>0, <2>3 DEF Copied
  <2>5. mem[src + i] = before[src + i]
    <3>1. CallOK /\ dst \in Int
      BY <1>1, <1>3
    <3> QED
      BY <2>2, <2>4, <3>1, Untouched
  <2>6. Copied(k + 1)' /\ mem' \in [Addresses -> Bytes]
    BY <1>1, <1>2, <2>0, <2>1, <2>2, <2>3, <2>5, CopyOne
  <2>7. Copied(i)'
    BY <1>2, <2>0, <2>6 DEF Copied
  <2> QED
    BY <1>1, <1>2, <1>4, <2>6, <2>7 DEF BlocksDone
<1>5. ASSUME ~(dst < src)
      PROVE  mem' \in [Addresses -> Bytes] /\ BlocksDone'
  <2>0. PICK k \in Nat : k = i
    BY <1>3
  <2>1. moved_index = n - 1 - i
    BY <1>5 DEF moved_index
  <2>2. dst + (n - 1 - i) \in Addresses /\ src + (n - 1 - i) \in Addresses
    BY <1>1, <1>3 DEF Addresses
  <2>3. CopiedBack(k)
    BY <1>1, <1>5, <2>0 DEF BlocksDone
  <2>4. Changed \subseteq dst + n - i .. dst + n - 1
        /\ dst + n - i \in Int /\ dst + n - 1 \in Int
        /\ src + (n - 1 - i) < dst + n - i
    BY <1>3, <1>5, <2>0, <2>3 DEF CopiedBack
  <2>5. mem[src + (n - 1 - i)] = before[src + (n - 1 - i)]
    BY <1>1, <2>2, <2>4, Untouched
  <2>6. CopiedBack(k + 1)' /\ mem' \in [Addresses -> Bytes]
    <3>1. dst + n <= SIZE /\ k < n
      BY <1>1, <1>3, <2>0
    <3> QED
      BY <1>1, <1>2, <2>0, <2>1, <2>2, <2>3, <2>5, <3>1, CopyBackOne
  <2>7. CopiedBack(i)'
    BY <1>2, <2>0, <2>6 DEF CopiedBack
  <2> QED
    BY <1>1, <1>2, <1>5, <2>6, <2>7 DEF BlocksDone
<1>6. mem' \in [Addresses -> Bytes] /\ BlocksDone'
  BY <1>4, <1>5
<1>7. CallOK'
  BY <1>1, <1>2, <1>3, <1>6 DEF CallOK, IsString
<1>8. StringsDone' /\ ResultRight'
  BY <1>1, <1>2 DEF StringsDone, ResultRight
<1> QED
  BY <1>6, <1>7, <1>8 DEF StringsInv

\* A block routine returns once all n bytes are done.
LEMMA BlockReturnStep ==
  ASSUME StringsInv, block_return
  PROVE  StringsInv'
<1>1. /\ CallOK /\ BlocksDone /\ op \in Blocks /\ ~(i < n)
      /\ result' = dst /\ pc' = "done"
      /\ UNCHANGED <<op, dst, src, n, c, mem, before, i>>
  BY DEF StringsInv, block_return, more, Return
<1>2. i = n
  BY <1>1 DEF CallOK
<1>3. CallOK'
  BY <1>1, <1>2 DEF CallOK, IsString
<1>4. BlocksDone'
  BY <1>1 DEF BlocksDone, Copied, CopiedBack, Changed
<1>5. StringsDone' /\ ResultRight'
  BY <1>1 DEF StringsDone, ResultRight, Blocks
<1> QED
  BY <1>3, <1>4, <1>5 DEF StringsInv

(***************************************************************************)
(* strcpy stays in the memory; the proofs claim nothing of what it copies. *)
(***************************************************************************)
LEMMA StrcpyStep ==
  ASSUME StringsInv, strcpy
  PROVE  StringsInv'
<1>1. /\ CallOK /\ StringsDone /\ op = "strcpy" /\ op \notin Blocks
      /\ pc = "run" /\ dst + i < SIZE /\ src + i < SIZE
  BY DEF StringsInv, strcpy, Blocks
<1>2. /\ mem' = [mem EXCEPT ![dst + i] = mem[src + i]] /\ i' = i + 1
      /\ UNCHANGED <<op, dst, src, n, c, before, result, pc>>
  BY DEF strcpy, Store
<1>3. dst \in Nat /\ src \in Nat /\ SIZE \in Nat /\ i \in Nat
  BY <1>1, StringsAssumption DEF CallOK, Addresses
<1>4. dst + i \in Addresses /\ src + i \in Addresses
  BY <1>1, <1>3 DEF Addresses
<1>5. mem' \in [Addresses -> Bytes]
  BY <1>1, <1>2, <1>4 DEF CallOK
<1>6. CallOK'
  BY <1>1, <1>2, <1>3, <1>5 DEF CallOK, IsString
<1>7. StringsDone'
  BY <1>1, <1>2 DEF StringsDone
<1>8. BlocksDone' /\ ResultRight'
  BY <1>1, <1>2 DEF BlocksDone, ResultRight, Blocks
<1> QED
  BY <1>6, <1>7, <1>8 DEF StringsInv

LEMMA StrcpyReturnStep ==
  ASSUME StringsInv, strcpy_return
  PROVE  StringsInv'
<1>1. /\ CallOK /\ op = "strcpy" /\ op \notin Blocks
      /\ pc' = "done" /\ UNCHANGED <<op, dst, src, n, c, mem, before, i>>
  BY DEF StringsInv, strcpy_return, Return, Blocks
<1>2. CallOK'
  BY <1>1 DEF CallOK, IsString
<1>3. StringsDone' /\ BlocksDone' /\ ResultRight'
  BY <1>1 DEF StringsDone, BlocksDone, ResultRight, Blocks
<1> QED
  BY <1>2, <1>3 DEF StringsInv

LEMMA StrcpyOverrunStep ==
  ASSUME StringsInv, strcpy_overrun
  PROVE  StringsInv'
<1>1. /\ CallOK /\ BlocksDone /\ StringsDone /\ pc' = "overrun"
      /\ UNCHANGED <<op, dst, src, n, c, mem, before, i, result>>
  BY DEF StringsInv, strcpy_overrun
<1>2. CallOK' /\ BlocksDone'
  BY <1>1 DEF CallOK, IsString, BlocksDone, Copied, CopiedBack, Changed
<1>3. StringsDone'
  BY <1>1 DEF StringsDone
<1>4. ResultRight'
  BY <1>1 DEF ResultRight
<1> QED
  BY <1>2, <1>3, <1>4 DEF StringsInv

(***************************************************************************)
(* strlen and strcmp only read; their index has not passed the terminator. *)
(***************************************************************************)
LEMMA Reading ==
  ASSUME StringsInv, op \in {"strlen", "strcmp"}
  PROVE  /\ mem = before /\ i <= Length(before, src)
         /\ i \in 0 .. SIZE - 1 - src
         /\ op \notin Blocks /\ op # "strcpy"
<1> DEFINE len == Length(before, src)
<1>1. /\ CallOK /\ mem = before /\ op \notin Blocks /\ op # "strcpy"
      /\ \A j \in 0 .. i - 1 : before[src + j] # 0
  BY DEF StringsInv, StringsDone, Blocks
<1>2. len \in 0 .. SIZE - 1 - src /\ before[src + len] = 0
  BY <1>1, LengthIs DEF CallOK
<1>3. i \in Nat /\ src \in Nat /\ SIZE \in Nat
  BY <1>1, StringsAssumption DEF CallOK, Addresses
<1> HIDE DEF len
<1>4. ~(len < i)
  <2>1. len < i => len \in 0 .. i - 1
    BY <1>2, <1>3
  <2> QED
    BY <1>1, <1>2, <2>1
<1>5. i <= len /\ i \in 0 .. SIZE - 1 - src
  BY <1>2, <1>3, <1>4
<1> QED
  BY <1>1, <1>5 DEF len

LEMMA AdvanceStep ==
  ASSUME StringsInv, strlen \/ strcmp
  PROVE  StringsInv'
<1>1. /\ CallOK /\ StringsDone /\ op \in {"strlen", "strcmp"}
      /\ pc = "run" /\ pc' = "run" /\ i' = i + 1
      /\ UNCHANGED <<op, dst, src, n, c, mem, before, result, pc>>
  BY DEF StringsInv, strlen, strcmp, Advance
<1>2. mem = before /\ op \notin Blocks /\ op # "strcpy"
  BY <1>1, Reading
<1>3. mem[src + i] # 0 /\ (op = "strcmp" => mem[dst + i] = mem[src + i])
  BY DEF strlen, strcmp, same
<1>4. i \in Nat
  BY <1>1 DEF CallOK
<1>5. \A j \in 0 .. i' - 1 : j = i \/ j \in 0 .. i - 1
  BY <1>1, <1>4
<1>6. CallOK'
  BY <1>1, <1>2, <1>4 DEF CallOK, IsString
<1>7. StringsDone'
  BY <1>1, <1>2, <1>3, <1>5 DEF StringsDone
<1>8. BlocksDone' /\ ResultRight'
  BY <1>1, <1>2 DEF BlocksDone, ResultRight, Blocks
<1> QED
  BY <1>6, <1>7, <1>8 DEF StringsInv

LEMMA StrlenReturnStep ==
  ASSUME StringsInv, strlen_return
  PROVE  StringsInv'
<1>1. /\ CallOK /\ StringsDone /\ op = "strlen" /\ mem[src + i] = 0
      /\ result' = i /\ pc' = "done" /\ UNCHANGED <<op, dst, src, n, c, mem, before, i>>
  BY DEF StringsInv, strlen_return, Return
<1>2. mem = before /\ i \in 0 .. SIZE - 1 - src /\ op \notin Blocks /\ op # "strcpy"
  BY <1>1, Reading
<1>3. Length(before, src) = i
  BY <1>1, <1>2, LengthUnique DEF CallOK, StringsDone
<1>4. CallOK'
  BY <1>1, <1>2 DEF CallOK, IsString
<1>5. StringsDone' /\ BlocksDone'
  BY <1>1, <1>2 DEF StringsDone, BlocksDone, Blocks
<1>6. ResultRight'
  BY <1>1, <1>2, <1>3 DEF ResultRight
<1> QED
  BY <1>4, <1>5, <1>6 DEF StringsInv

(***************************************************************************)
(* strcmp stops at the first difference, or where both strings end.        *)
(***************************************************************************)
LEMMA StrcmpReturnStep ==
  ASSUME StringsInv, strcmp_return
  PROVE  StringsInv'
<1>1. /\ CallOK /\ StringsDone /\ op = "strcmp" /\ ~same
      /\ result' = (IF failed THEN 1 ELSE 0) /\ pc' = "done"
      /\ UNCHANGED <<op, dst, src, n, c, mem, before, i>>
  BY DEF StringsInv, strcmp_return, Return
<1>2. mem = before /\ i \in 0 .. SIZE - 1 - src /\ op \notin Blocks /\ op # "strcpy"
  BY <1>1, Reading
<1> DEFINE len == Length(before, src)
           dlen == Length(before, dst)
<1>3. /\ len \in Nat /\ before[src + len] = 0 /\ i <= len
      /\ \A k \in 0 .. len - 1 : before[src + k] # 0
  BY <1>1, LengthIs, Reading DEF CallOK
<1>4. /\ dlen \in 0 .. SIZE - 1 - dst /\ before[dst + dlen] = 0
      /\ \A k \in 0 .. dlen - 1 : before[dst + k] # 0
  BY <1>1, LengthIs DEF CallOK
<1>5. i \in Nat /\ dst \in Nat /\ SIZE \in Nat
  BY <1>1, StringsAssumption DEF CallOK, Addresses
<1>6. \A j \in 0 .. i - 1 : before[src + j] # 0 /\ before[dst + j] = before[src + j]
  BY <1>1 DEF StringsDone
<1> DEFINE E == dlen = len /\ \A j \in 0 .. len : before[dst + j] = before[src + j]
<1> HIDE DEF len, dlen
<1>7. ASSUME failed PROVE ~E /\ result' # 0
  <2>1. before[dst + i] # before[src + i]
    BY <1>1, <1>2, <1>7 DEF failed, same
  <2>2. i \in 0 .. len
    BY <1>3, <1>5
  <2> QED
    BY <1>1, <1>7, <2>1, <2>2
<1>8. ASSUME ~failed PROVE E /\ result' = 0
  <2>1. before[dst + i] = 0 /\ before[src + i] = 0
    BY <1>1, <1>2, <1>8 DEF failed, same
  <2>2. len = i
    <3>1. i < len => i \in 0 .. len - 1
      BY <1>3, <1>5
    <3> QED
      BY <1>3, <1>5, <2>1, <3>1
  <2>3. dlen = i
    <3>1. i < dlen => i \in 0 .. dlen - 1
      BY <1>4, <1>5
    <3>2. dlen < i => dlen \in 0 .. i - 1
      BY <1>4, <1>5
    <3>3. ~(i < dlen)
      BY <1>4, <2>1, <3>1
    <3>4. ~(dlen < i)
      BY <1>4, <1>6, <3>2
    <3> QED
      BY <1>4, <1>5, <3>3, <3>4
  <2>4. \A j \in 0 .. i : j = i \/ j \in 0 .. i - 1
    BY <1>5
  <2> QED
    BY <1>1, <1>6, <1>8, <2>1, <2>2, <2>3, <2>4
<1>9. result' = 0 <=> E
  BY <1>7, <1>8
<1>10. ResultRight'
  BY <1>1, <1>2, <1>9 DEF ResultRight, len, dlen
<1>11. CallOK'
  BY <1>1, <1>2 DEF CallOK, IsString
<1>12. StringsDone' /\ BlocksDone'
  BY <1>1, <1>2 DEF StringsDone, BlocksDone, Blocks
<1> QED
  BY <1>10, <1>11, <1>12 DEF StringsInv

-----------------------------------------------------------------------------
(***************************************************************************)
(* At every step of every loop of string.c, the bytes done so far are the  *)
(* right ones.                                                             *)
(***************************************************************************)
THEOREM StringsInvariant == Spec => []StringsInv
<1>1. StringsInv /\ [Next]_vars => StringsInv'
  <2> SUFFICES ASSUME StringsInv, [Next]_vars PROVE StringsInv'
    OBVIOUS
  <2>1. CASE UNCHANGED vars
    BY <2>1 DEF vars, StringsInv, CallOK, IsString, BlocksDone, StringsDone, ResultRight,
                Copied, CopiedBack, Changed
  <2> QED
    BY <2>1, MemsetStep, MemcpyStep, MemmoveStep, BlockReturnStep, StrcpyStep,
       StrcpyReturnStep, StrcpyOverrunStep, AdvanceStep, StrlenReturnStep, StrcmpReturnStep
    DEF Next, Stopped
<1> QED
  BY <1>1, InitStrings, PTL DEF Spec

(***************************************************************************)
(* When a block routine of string.c returns, memmove has copied the block  *)
(* for every overlap, memcpy wherever the destination does not begin       *)
(* inside the source, memset has filled it, and nothing else has changed;  *)
(* strlen and strcmp change nothing.                                       *)
(***************************************************************************)
THEOREM CopiesAreRight == Spec => []CopiesSource
<1>1. StringsInv => CopiesSource
  <2> SUFFICES ASSUME StringsInv, pc = "done" PROVE CopiesSource
    BY DEF CopiesSource
  <2>1. CallOK /\ BlocksDone /\ StringsDone /\ (op \in Blocks => i = n)
    BY DEF StringsInv, CallOK
  <2>2. CASE op = "memset"
    BY <2>1, <2>2 DEF CopiesSource, BlocksDone, Blocks
  <2>3. CASE op = "memcpy"
    BY <2>1, <2>3 DEF CopiesSource, BlocksDone, Blocks
  <2>4. CASE op = "memmove"
    <3>1. IF dst < src THEN Copied(n) ELSE CopiedBack(n)
      BY <2>1, <2>4 DEF BlocksDone, Blocks
    <3>2. CopiedBack(n) => Copied(n)
      <4>1. dst \in Nat /\ n \in Nat
        BY <2>1, StringsAssumption DEF CallOK, Addresses
      <4>2. dst + n - n = dst /\ n - n = 0
        BY <4>1
      <4> QED
        BY <4>2 DEF Copied, CopiedBack
    <3> QED
      BY <2>4, <3>1, <3>2 DEF CopiesSource
  <2>5. CASE op = "strcpy"
    BY <2>5 DEF CopiesSource
  <2>6. CASE op \in {"strlen", "strcmp"}
    <3>1. Changed = {}
      BY <2>1, <2>6 DEF StringsDone, Changed
    <3> QED
      BY <2>6, <3>1 DEF CopiesSource
  <2> QED
    BY <2>1, <2>2, <2>3, <2>4, <2>5, <2>6 DEF CallOK, Blocks
<1> QED
  BY <1>1, StringsInvariant, PTL

\* strlen and strcmp agree with the definition of a string.
THEOREM ResultsAreRight == Spec => []ResultRight
<1>1. StringsInv => ResultRight
  BY DEF StringsInv
<1> QED
  BY <1>1, StringsInvariant, PTL
=============================================================================
