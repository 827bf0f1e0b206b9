------------------------------- MODULE Strings -------------------------------
(***************************************************************************)
(* The routines of libc/string.c, a byte at a time in a memory in which    *)
(* the operands may overlap.  A call is chosen in Init; blocks lie in the  *)
(* memory and source strings end in it.                                    *)
(***************************************************************************)
EXTENDS Integers, FiniteSetsExt

CONSTANTS
  SIZE,           \* bytes of memory
  Bytes           \* values of a byte, 0 among them

ASSUME StringsAssumption == SIZE \in Nat \ {0} /\ 0 \in Bytes /\ Bytes \subseteq Nat

VARIABLES
  op, dst, src, n, c, \* the call
  mem, before,    \* the memory, and as it was at the call
  i,              \* bytes done
  result,
  pc

vars == <<op, dst, src, n, c, mem, before, i, result, pc>>

Addresses == 0 .. SIZE - 1
Blocks == {"memset", "memcpy", "memmove"}
NoResult == -1

\* The length of the string at a: where its terminator is.
Length(m, a) == Min({k \in 0 .. SIZE - 1 - a : m[a + k] = 0})
IsString(m, a) == \E k \in 0 .. SIZE - 1 - a : m[a + k] = 0

Init ==
  /\ mem \in [Addresses -> Bytes] /\ before = mem
  /\ op \in Blocks \union {"strcpy", "strlen", "strcmp"}
  /\ dst \in Addresses /\ src \in Addresses
  /\ n \in IF op \in Blocks THEN 0 .. SIZE - Max({dst, src}) ELSE {0}
  /\ c \in IF op = "memset" THEN Bytes ELSE {0}
  /\ op \notin Blocks => IsString(mem, src)
  /\ op = "strcmp" => IsString(mem, dst)
  /\ i = 0 /\ result = NoResult /\ pc = "run"

Return(r) ==
  /\ result' = r /\ pc' = "done"
  /\ UNCHANGED <<op, dst, src, n, c, mem, before, i>>

Store(a, b) ==
  /\ mem' = [mem EXCEPT ![a] = b]
  /\ i' = i + 1
  /\ UNCHANGED <<op, dst, src, n, c, before, result, pc>>

\* The condition of the loops over n bytes.
more == i < n

memset == pc = "run" /\ op = "memset" /\ more /\ Store(dst + i, c)

memcpy == pc = "run" /\ op = "memcpy" /\ more /\ Store(dst + i, mem[src + i])

\* Bug: always direct.
moved_index_direct == i

\* Direct copy, or reverse when the destination is not below the source.
moved_index == IF dst < src THEN i ELSE n - 1 - i

memmove ==
  /\ pc = "run" /\ op = "memmove" /\ more
  /\ Store(dst + moved_index, mem[src + moved_index])

block_return == pc = "run" /\ op \in Blocks /\ ~more /\ Return(dst)

\* The first byte is copied before any is tested.
strcpy ==
  /\ pc = "run" /\ op = "strcpy"
  /\ dst + i < SIZE /\ src + i < SIZE
  /\ i = 0 \/ mem[src + i] # 0
  /\ Store(dst + i, mem[src + i])

\* There is no return statement.
strcpy_return ==
  /\ pc = "run" /\ op = "strcpy"
  /\ i > 0 /\ src + i < SIZE /\ mem[src + i] = 0
  /\ Return(NoResult)

\* The copy leaves the memory of the model.
strcpy_overrun ==
  /\ pc = "run" /\ op = "strcpy"
  /\ \/ src + i >= SIZE
     \/ src + i < SIZE /\ dst + i >= SIZE /\ mem[src + i] # 0
  /\ pc' = "overrun"
  /\ UNCHANGED <<op, dst, src, n, c, mem, before, i, result>>

Advance ==
  /\ i' = i + 1
  /\ UNCHANGED <<op, dst, src, n, c, mem, before, result, pc>>

strlen == pc = "run" /\ op = "strlen" /\ mem[src + i] # 0 /\ Advance

strlen_return == pc = "run" /\ op = "strlen" /\ mem[src + i] = 0 /\ Return(i)

\* Neither string (str1 at dst, str2 at src) has ended, and the bytes agree.
same == mem[dst + i] # 0 /\ mem[src + i] # 0 /\ mem[dst + i] = mem[src + i]

strcmp == pc = "run" /\ op = "strcmp" /\ same /\ Advance

\* Bug: only a difference before the end of the shorter string counts.
failed_inside == mem[dst + i] # 0 /\ mem[src + i] # 0

\* Why did the loop exit?
failed == \/ mem[dst + i] # 0 /\ mem[src + i] # 0
          \/ (mem[dst + i] = 0) # (mem[src + i] = 0)

strcmp_return ==
  pc = "run" /\ op = "strcmp" /\ ~same /\ Return(IF failed THEN 1 ELSE 0)

Stopped == pc # "run" /\ UNCHANGED vars

Next ==
  \/ memset \/ memcpy \/ memmove \/ block_return
  \/ strcpy \/ strcpy_return \/ strcpy_overrun
  \/ strlen \/ strlen_return \/ strcmp \/ strcmp_return
  \/ Stopped

Spec == Init /\ [][Next]_vars

-----------------------------------------------------------------------------
Changed == {a \in Addresses : mem[a] # before[a]}

\* The first k bytes of the source are now in the destination, and nothing else changed.
Copied(k) ==
  /\ Changed \subseteq dst .. dst + k - 1
  /\ \A j \in 0 .. k - 1 : mem[dst + j] = before[src + j]

(***************************************************************************)
(* The destination receives what the source was before the call, and no    *)
(* other byte changes: memmove for every overlap, memcpy unless the        *)
(* destination begins inside the source.  strlen and strcmp change         *)
(* nothing.  strcpy has a property of its own, StringCopied.               *)
(***************************************************************************)
CopiesSource ==
  pc = "done" =>
    CASE op = "memset" -> /\ Changed \subseteq dst .. dst + n - 1
                          /\ \A j \in 0 .. n - 1 : mem[dst + j] = c
      [] op = "memmove" -> Copied(n)
      [] op = "memcpy" -> dst <= src \/ dst >= src + n => Copied(n)
      [] op \in {"strlen", "strcmp"} -> Changed = {}
      [] OTHER -> TRUE

(***************************************************************************)
(* What string.h says of strcpy, "Copy the NULL-terminated string src into *)
(* dest": where the two do not overlap and dest has room, a call that      *)
(* returns has put the characters and the terminator in dest, and changed  *)
(* no other byte.  The loop of string.c tests the byte behind the one it   *)
(* copied: it stops in front of the terminator, and runs on through the    *)
(* end of an empty string.                                                 *)
(***************************************************************************)
StringCopied ==
  LET len == Length(before, src)
  IN /\ op = "strcpy" /\ pc = "done"
     /\ dst + len < SIZE
     /\ dst > src + len \/ dst + len < src
     => Copied(len + 1)

(***************************************************************************)
(* strlen counts the bytes before the terminator; strcmp is 0 exactly for  *)
(* equal strings; the block routines return their destination.             *)
(***************************************************************************)
ResultRight ==
  pc = "done" =>
    CASE op \in Blocks -> result = dst
      [] op = "strlen" -> result = Length(before, src)
      [] op = "strcmp" ->
           LET len == Length(before, src)
           IN result = 0 <=> /\ Length(before, dst) = len
                             /\ \A j \in 0 .. len : before[dst + j] = before[src + j]
      [] OTHER -> TRUE
=============================================================================
