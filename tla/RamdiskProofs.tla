---------------------------- MODULE RamdiskProofs ----------------------------
(***************************************************************************)
(* Proofs about Ramdisk: the image of initrd.c, its mount by ramdisk_init  *)
(* and kmain's listing, for every image of up to 64 files.                 *)
(***************************************************************************)
EXTENDS Ramdisk, WellFoundedInduction, TLAPS

-----------------------------------------------------------------------------
(***************************************************************************)
(* The inductive invariant behind the properties of Ramdisk.               *)
(***************************************************************************)
Names == {"dev", Empty, Garbage} \union UNION {{fs[k].name : k \in DOMAIN fs} : fs \in Images}
Inodes == [name : Names, length : 0 .. WORD - 1, ino : Nat, flags : {FS_FILE}]
Entries == [name : Names, ino : Int, from : Int, size : Int]

\* How far the loop of ramdisk_init has come.
NodesMade ==
  /\ nroot_nodes = IF pc = "directories" THEN 0 ELSE Len(files)
  /\ Len(root_nodes) = IF pc = "directories" THEN 0 ELSE IF pc = "nodes" THEN i ELSE Len(files)
  /\ root_nodes \in Seq(Inodes)
  /\ \A k \in 0 .. Len(root_nodes) - 1 :
       Node(k).ino = k /\ (Visible(k) => Node(k).name = files[k + 1].name)

\* The headers are those of the image, with the mapped ones relocated so far.
HeadersHeld ==
  /\ DOMAIN headers = 0 .. Len(files) - 1
  /\ \A k \in DOMAIN headers :
       headers[k] = [image(files)[k] EXCEPT
         !.offset = IF k < Len(root_nodes) /\ Mapped(k, "offset") THEN @ + ADDR ELSE @]

RootHeld ==
  /\ root \in [0 .. (HEADER * SLOTS + 4 - PAGE) \div 4 -> 0 .. WORD - 1]
  /\ pc = "directories" => \A w \in DOMAIN root : root[w] = 0
  /\ RootSurvives

\* How far the loop of kmain has come; the first file of a name that it has
\* passed was not empty, and what was read of it is in the heap.
ListingMade ==
  /\ pc \in {"directories", "nodes", "list", "find", "show", "sti", "panic", "fault"}
  /\ i \in 0 .. Len(files) + 1
  /\ listed \in Seq(Entries)
  /\ Len(listed) = IF pc \in {"directories", "nodes"} THEN 0 ELSE i
  /\ pc \in {"directories", "nodes", "find", "show", "panic", "fault"} => i <= Len(files)
  /\ pc = "directories" => i = 0
  /\ pc \in {"find", "show"} => dentry.name = IF i = 0 THEN "dev" ELSE Node(i - 1).name
  /\ pc = "show" => ino = finddir(ROOT, dentry.name)
  /\ \A k \in 0 .. Len(listed) - 2 :
       /\ Visible(k) /\ files[k + 1].name # "dev"
       /\ \A j \in 0 .. k - 1 : files[j + 1].name # files[k + 1].name
       => files[k + 1].length # 0 /\ ~OutsideHeap(k)

RamdiskInv ==
  files \in Images /\ NodesMade /\ HeadersHeld /\ RootHeld /\ ListingMade /\ ListingInOrder

-----------------------------------------------------------------------------
(***************************************************************************)
(* A set of numbers that is not empty has a least one.                     *)
(***************************************************************************)
LEMMA Least ==
  ASSUME NEW S \in SUBSET Nat, S # {}
  PROVE  \E m \in S : \A j \in S : m <= j
<1>1. PICK m \in S : \A j \in S : ~(<<j, m>> \in OpToRel(<, Nat))
  BY NatLessThanWellFounded, WFMin, Zenon
<1>2. ASSUME NEW j \in S PROVE m <= j
  <2>1. <<j, m>> \in OpToRel(<, Nat) <=> j < m
    BY DEF OpToRel
  <2>2. ~(j < m)
    BY <1>1, <2>1, Zenon
  <2> QED
    BY <2>2
<1> QED
  BY <1>2

(***************************************************************************)
(* The sizes of paging.h, ramdisk.h and initrd.c, as numbers.              *)
(***************************************************************************)
LEMMA Numbers ==
  /\ PAGE = 4096 /\ HEADER = 76 /\ SLOTS = 64 /\ HEADER * SLOTS + 4 = 4868
  /\ ADDR \in Nat /\ 0 < ADDR /\ ADDR < WORD /\ WORD \in Nat /\ 4864 < WORD
  /\ BUF \in Nat /\ 0 < BUF /\ BUF < WORD /\ HEAP_END \in Nat
  /\ (HEADER * SLOTS + 4 - PAGE) \div 4 = 193
<1>1. /\ {ADDR, HEAP_END, PAGE, WORD, HEADER, SLOTS, BUF} \subseteq Nat \ {0}
      /\ PAGE = 4096 /\ HEADER = 76 /\ SLOTS = 64
      /\ ADDR < WORD /\ BUF < WORD /\ HEADER * SLOTS < WORD
  BY RamdiskAssumption, Zenon
<1>2. /\ ADDR \in Nat /\ ADDR # 0 /\ WORD \in Nat /\ BUF \in Nat /\ BUF # 0
      /\ HEAP_END \in Nat
  BY <1>1
<1>3. HEADER * SLOTS = 4864 BY <1>1
<1>4. (4864 + 4 - 4096) \div 4 = 193 OBVIOUS
<1> QED BY <1>1, <1>2, <1>3, <1>4

\* Where the fields of header k are.
PlacesOf(k) ==
  /\ Mapped(k, "offset") <=> k <= 52
  /\ Mapped(k, "length") <=> k <= 52
  /\ Mapped(k, "name") <=> k <= 53
  /\ Visible(k) <=> k <= 52
  /\ k >= 53 => RootWord(k, "offset") = 19 * k - 1006
  /\ k >= 53 => RootWord(k, "length") = 19 * k - 1005
  /\ k >= 54 => RootWord(k, "name") \in 0 .. 193

(***************************************************************************)
(* The first 53 headers are mapped, and the name of the 54th; the others   *)
(* are words of the root inode.                                            *)
(***************************************************************************)
LEMMA Places ==
  ASSUME NEW k \in 0 .. 63
  PROVE  PlacesOf(k)
<1>1. At(k, "offset") = 76 * k + 72 BY Numbers DEF At
<1>2. At(k, "length") = 76 * k + 76 BY Numbers DEF At
<1>3. At(k, "name") = 76 * k + 5 BY Numbers DEF At
<1>4. Mapped(k, "offset") <=> k <= 52 BY <1>1, Numbers DEF Mapped
<1>5. Mapped(k, "length") <=> k <= 52 BY <1>2, Numbers DEF Mapped
<1>6. Mapped(k, "name") <=> k <= 53 BY <1>3, Numbers DEF Mapped
<1>7. k >= 53 => RootWord(k, "offset") = 19 * k - 1006 BY <1>1, Numbers DEF RootWord
<1>8. k >= 53 => RootWord(k, "length") = 19 * k - 1005 BY <1>2, Numbers DEF RootWord
<1>9. k >= 54 => RootWord(k, "name") \in 0 .. 193 BY <1>3, Numbers DEF RootWord
<1> QED BY <1>4, <1>5, <1>6, <1>7, <1>8, <1>9, Zenon DEF PlacesOf, Visible

-----------------------------------------------------------------------------
(***************************************************************************)
(* The offsets of initrd.c, as a function that satisfies the recursion:    *)
(* it exists for every number of files.                                    *)
(***************************************************************************)
Starts(fs, o, n) ==
  o = [k \in 0 .. n |-> IF k = 0 THEN HEADER * SLOTS + 4 ELSE o[k - 1] + fs[k].length]

LEMMA StartsExist ==
  ASSUME NEW fs, NEW n \in Nat
  PROVE  \E o : Starts(fs, o, n)
<1> DEFINE S == {m \in Nat : ~ \E o : Starts(fs, o, m)}
<1> SUFFICES ASSUME S # {} PROVE FALSE OBVIOUS
<1>1. PICK m \in S : \A j \in S : m <= j
  <2>1. S \in SUBSET Nat OBVIOUS
  <2> HIDE DEF S
  <2> QED BY <2>1, Least
<1>2. CASE m = 0
  <2> DEFINE o == [k \in 0 .. 0 |-> HEADER * SLOTS + 4]
  <2>1. o = [k \in 0 .. 0 |-> IF k = 0 THEN HEADER * SLOTS + 4 ELSE o[k - 1] + fs[k].length]
    OBVIOUS
  <2>2. Starts(fs, o, 0) BY <2>1, Zenon DEF Starts
  <2> QED BY <1>2, <2>2
<1>3. CASE m # 0
  <2>1. m - 1 \in Nat /\ m - 1 \notin S BY <1>1, <1>3
  <2>2. PICK p : Starts(fs, p, m - 1) BY <2>1
  <2> DEFINE o == [k \in 0 .. m |-> IF k = 0 THEN HEADER * SLOTS + 4
                                    ELSE p[k - 1] + fs[k].length]
  <2>3. ASSUME NEW k \in 0 .. m - 1 PROVE o[k] = p[k]
    <3>1. p[k] = IF k = 0 THEN HEADER * SLOTS + 4 ELSE p[k - 1] + fs[k].length
      BY <2>2 DEF Starts
    <3>2. k \in 0 .. m BY <2>1, <1>1
    <3> QED BY <3>1, <3>2
  <2>4. ASSUME NEW k \in 0 .. m, k # 0 PROVE o[k - 1] = p[k - 1]
    <3>1. k - 1 \in 0 .. m - 1 BY <1>1, <2>4
    <3> HIDE DEF o
    <3> QED BY <2>3, <3>1
  <2>5. o = [k \in 0 .. m |-> IF k = 0 THEN HEADER * SLOTS + 4 ELSE o[k - 1] + fs[k].length]
    <3>1. \A k \in 0 .. m : (IF k = 0 THEN HEADER * SLOTS + 4 ELSE o[k - 1] + fs[k].length)
                          = (IF k = 0 THEN HEADER * SLOTS + 4 ELSE p[k - 1] + fs[k].length)
      <4> HIDE DEF o
      <4> QED BY <2>4
    <3>2. PICK q : q = o OBVIOUS
    <3>3. \A k \in 0 .. m : (IF k = 0 THEN HEADER * SLOTS + 4 ELSE q[k - 1] + fs[k].length)
                          = (IF k = 0 THEN HEADER * SLOTS + 4 ELSE p[k - 1] + fs[k].length)
      <4> HIDE DEF o
      <4> QED BY <3>1, <3>2
    <3>4. q = [k \in 0 .. m |-> IF k = 0 THEN HEADER * SLOTS + 4 ELSE q[k - 1] + fs[k].length]
      BY <3>2, <3>3
    <3> HIDE DEF o
    <3> QED BY <3>2, <3>4
  <2>6. Starts(fs, o, m)
    <3> HIDE DEF o
    <3> QED BY <2>5, Zenon DEF Starts
  <2> HIDE DEF o
  <2> QED BY <2>6
<1> QED BY <1>2, <1>3

(***************************************************************************)
(* What initrd.c writes: a header per file with its name and its length,   *)
(* and an offset that is that of the recursion.                            *)
(***************************************************************************)
LEMMA ImageIs ==
  ASSUME NEW fs, Len(fs) \in Nat
  PROVE  \E o :
    /\ Starts(fs, o, Len(fs))
    /\ image(fs) = [k \in 0 .. Len(fs) - 1 |->
         [name |-> fs[k + 1].name, offset |-> o[k], length |-> fs[k + 1].length]]
<1>1. PICK o : o = CHOOSE f : f = [k \in 0 .. Len(fs) |->
                 IF k = 0 THEN HEADER * SLOTS + 4 ELSE f[k - 1] + fs[k].length]
  OBVIOUS
<1>2. image(fs) = [k \in 0 .. Len(fs) - 1 |->
         [name |-> fs[k + 1].name, offset |-> o[k], length |-> fs[k + 1].length]]
  BY <1>1, Zenon DEF image
<1>3. \E f : f = [k \in 0 .. Len(fs) |->
                 IF k = 0 THEN HEADER * SLOTS + 4 ELSE f[k - 1] + fs[k].length]
  BY StartsExist, Zenon DEF Starts
<1>4. Starts(fs, o, Len(fs)) BY <1>1, <1>3, Zenon DEF Starts
<1> QED BY <1>2, <1>4, Zenon

(***************************************************************************)
(* The files of an image are as many as there are slots, at most, and each *)
(* has a name and a length.                                                *)
(***************************************************************************)
LEMMA FilesAre ==
  ASSUME NEW fs \in Images
  PROVE  /\ Len(fs) \in 0 .. 64 /\ DOMAIN fs = 1 .. Len(fs)
         /\ \A k \in 1 .. Len(fs) : fs[k].name \in STRING /\ fs[k].length \in 0 .. WORD - 1
<1>1. fs \in Seq(Arguments) /\ Len(fs) <= SLOTS BY RamdiskAssumption, SMT
<1>2. /\ Len(fs) \in Nat /\ DOMAIN fs = 1 .. Len(fs)
      /\ \A k \in 1 .. Len(fs) : fs[k] \in Arguments
  BY <1>1
<1>3. \A a \in Arguments : a.name \in STRING /\ a.length \in 0 .. WORD - 1
  BY DEF Arguments
<1>4. Len(fs) <= 64 BY <1>1, <1>2, Numbers
<1>5. ASSUME NEW k \in 1 .. Len(fs)
      PROVE  fs[k].name \in STRING /\ fs[k].length \in 0 .. WORD - 1
  <2>1. PICK a : a = fs[k] OBVIOUS
  <2>2. a \in Arguments BY <1>2, <2>1
  <2>3. a.name \in STRING /\ a.length \in 0 .. WORD - 1 BY <1>3, <2>2, Zenon
  <2> QED BY <2>1, <2>3
<1>6. Len(fs) \in 0 .. 64
  <2>1. PICK n : n = Len(fs) OBVIOUS
  <2>2. n \in Nat /\ n <= 64 BY <1>2, <1>4, <2>1, Zenon
  <2>3. n \in 0 .. 64 BY <2>2
  <2> QED BY <2>1, <2>3, Zenon
<1> QED BY <1>2, <1>5, <1>6, Zenon

(***************************************************************************)
(* The offsets are numbers behind the table of headers, and each file ends *)
(* where the next one starts, or before.                                   *)
(***************************************************************************)
LEMMA StartsGrow ==
  ASSUME NEW fs \in Images, NEW o, Starts(fs, o, Len(fs))
  PROVE  /\ \A k \in 0 .. Len(fs) : o[k] \in Nat /\ 4868 <= o[k]
         /\ \A k \in 0 .. Len(fs) : \A j \in 0 .. k - 1 : o[j] + fs[j + 1].length <= o[k]
<1>1. o[0] = 4868 BY FilesAre, Numbers DEF Starts
<1>2. ASSUME NEW k \in 0 .. Len(fs), k # 0
      PROVE  /\ k - 1 \in 0 .. Len(fs) /\ fs[k].length \in Nat
             /\ o[k] = o[k - 1] + fs[k].length
  <2>1. k - 1 \in 0 .. Len(fs) /\ fs[k].length \in Nat BY <1>2, FilesAre, Numbers
  <2>2. o[k] = o[k - 1] + fs[k].length BY <1>2 DEF Starts
  <2> QED BY <2>1, <2>2
<1>3. \A k \in 0 .. Len(fs) : o[k] \in Nat /\ 4868 <= o[k]
  <2> DEFINE S == {k \in 0 .. Len(fs) : ~(o[k] \in Nat /\ 4868 <= o[k])}
  <2> SUFFICES ASSUME S # {} PROVE FALSE OBVIOUS
  <2>1. PICK m \in S : \A j \in S : m <= j
    <3>1. S \in SUBSET Nat BY FilesAre
    <3> HIDE DEF S
    <3> QED BY <3>1, Least
  <2>2. m # 0 BY <1>1, <2>1
  <2>3. m - 1 \notin S BY <2>1, <2>2, FilesAre
  <2> QED BY <1>2, <2>1, <2>2, <2>3
<1>4. \A k \in 0 .. Len(fs) : \A j \in 0 .. k - 1 : o[j] + fs[j + 1].length <= o[k]
  <2> DEFINE S == {k \in 0 .. Len(fs) : \E j \in 0 .. k - 1 : ~(o[j] + fs[j + 1].length <= o[k])}
  <2> SUFFICES ASSUME S # {} PROVE FALSE OBVIOUS
  <2>1. PICK m \in S : \A j \in S : m <= j
    <3>1. S \in SUBSET Nat BY FilesAre
    <3> HIDE DEF S
    <3> QED BY <3>1, Least
  <2>2. PICK j \in 0 .. m - 1 : ~(o[j] + fs[j + 1].length <= o[m]) BY <2>1
  <2>3. m \in 0 .. Len(fs) /\ m # 0 /\ Len(fs) \in Nat BY <2>1, <2>2, FilesAre
  <2>4. m - 1 \notin S BY <2>1, <2>3
  <2>5. o[m] = o[m - 1] + fs[m].length /\ fs[m].length \in Nat /\ o[m - 1] \in Nat
    BY <1>2, <1>3, <2>3
  <2>6. CASE j = m - 1 BY <2>2, <2>3, <2>5, <2>6
  <2>7. CASE j # m - 1
    <3>1. j \in 0 .. (m - 1) - 1 BY <2>3, <2>7
    <3>2. o[j] + fs[j + 1].length <= o[m - 1] BY <2>3, <2>4, <3>1
    <3>3. o[j] \in Nat BY <1>3, <2>3
    <3>4. j + 1 \in 1 .. Len(fs) BY <2>3
    <3>5. fs[j + 1].length \in Nat BY <3>4, FilesAre, Numbers
    <3>6. PICK a, b, c, d, e : /\ a = o[j] /\ b = fs[j + 1].length /\ c = o[m - 1]
                               /\ d = fs[m].length /\ e = o[m]
      OBVIOUS
    <3>7. a \in Nat /\ b \in Nat /\ c \in Nat /\ d \in Nat /\ e = c + d /\ a + b <= c
      BY <2>5, <3>2, <3>3, <3>5, <3>6, Zenon
    <3>8. a + b <= e BY <3>7
    <3> QED BY <2>2, <3>6, <3>8, Zenon
  <2> QED BY <2>6, <2>7
<1> QED BY <1>3, <1>4

(***************************************************************************)
(* In particular a file ends before every later one.                       *)
(***************************************************************************)
LEMMA StartsApart ==
  ASSUME NEW fs \in Images, NEW o, Starts(fs, o, Len(fs)),
         NEW k \in 0 .. Len(fs), NEW j \in 0 .. k - 1
  PROVE  o[j] + fs[j + 1].length <= o[k]
BY StartsGrow

(***************************************************************************)
(* What the kernel relies on in an image im of the files fs.               *)
(***************************************************************************)
ImageOK(fs, im) ==
  /\ DOMAIN im = 0 .. Len(fs) - 1
  /\ \A k \in 0 .. Len(fs) - 1 :
       /\ im[k] \in [name : STRING, offset : Nat, length : 0 .. WORD - 1]
       /\ im[k].name = fs[k + 1].name /\ im[k].length = fs[k + 1].length
       /\ 4868 <= im[k].offset /\ ADDR + im[k].offset + im[k].length < WORD
  /\ \A k \in 0 .. Len(fs) - 1 : \A j \in 0 .. k - 1 :
       im[j].offset + im[j].length <= im[k].offset

(***************************************************************************)
(* initrd.c writes such an image.                                          *)
(***************************************************************************)
LEMMA ImageGood ==
  ASSUME NEW fs \in Images
  PROVE  ImageOK(fs, image(fs))
<1>1. Len(fs) \in Nat BY FilesAre
<1>2. PICK o :
        /\ Starts(fs, o, Len(fs))
        /\ image(fs) = [k \in 0 .. Len(fs) - 1 |->
             [name |-> fs[k + 1].name, offset |-> o[k], length |-> fs[k + 1].length]]
  BY <1>1, ImageIs, Zenon
<1>3. PICK im : im = image(fs) OBVIOUS
<1>4. DOMAIN im = 0 .. Len(fs) - 1 BY <1>2, <1>3
<1>5. ASSUME NEW k \in 0 .. Len(fs) - 1
      PROVE  im[k] = [name |-> fs[k + 1].name, offset |-> o[k], length |-> fs[k + 1].length]
  BY <1>2, <1>3, <1>5
<1>6. ASSUME NEW k \in 0 .. Len(fs) - 1
      PROVE  /\ im[k] \in [name : STRING, offset : Nat, length : 0 .. WORD - 1]
             /\ im[k].name = fs[k + 1].name /\ im[k].length = fs[k + 1].length
             /\ im[k].offset = o[k]
             /\ 4868 <= im[k].offset /\ ADDR + im[k].offset + im[k].length < WORD
  <2>1. k \in 0 .. Len(fs) /\ k + 1 \in 1 .. Len(fs) BY <1>1
  <2>2. o[k] \in Nat /\ 4868 <= o[k] BY <1>2, <2>1, StartsGrow
  <2>3. fs[k + 1].name \in STRING /\ fs[k + 1].length \in 0 .. WORD - 1 BY <2>1, FilesAre
  <2>4. ADDR + im[k].offset + im[k].length < WORD BY <1>3, <1>4, ImagesFit, Zenon
  <2>5. PICK n, l, p : n = fs[k + 1].name /\ l = fs[k + 1].length /\ p = o[k] OBVIOUS
  <2>6. im[k] = [name |-> n, offset |-> p, length |-> l] BY <1>5, <2>5, Zenon
  <2>7. n \in STRING /\ l \in 0 .. WORD - 1 /\ p \in Nat BY <2>2, <2>3, <2>5
  <2>8. im[k] \in [name : STRING, offset : Nat, length : 0 .. WORD - 1] BY <2>6, <2>7
  <2>9. im[k].name = n /\ im[k].length = l /\ im[k].offset = p BY <2>6
  <2> QED BY <2>2, <2>4, <2>5, <2>8, <2>9
<1>7. ASSUME NEW k \in 0 .. Len(fs) - 1, NEW j \in 0 .. k - 1
      PROVE  im[j].offset + im[j].length <= im[k].offset
  <2>1. j \in 0 .. Len(fs) - 1 /\ k \in 0 .. Len(fs)
    <3>1. PICK n : n = Len(fs) OBVIOUS
    <3>2. n \in Nat /\ k \in 0 .. n - 1 BY <1>1, <3>1, Zenon
    <3>3. j \in 0 .. n - 1 /\ k \in 0 .. n BY <3>2
    <3> QED BY <3>1, <3>3, Zenon
  <2>2. o[j] + fs[j + 1].length <= o[k] BY <1>2, <2>1, StartsApart, Zenon
  <2>3. im[j].offset = o[j] /\ im[j].length = fs[j + 1].length /\ im[k].offset = o[k]
    <3>1. im[j] = [name |-> fs[j + 1].name, offset |-> o[j], length |-> fs[j + 1].length]
      BY <1>5, <2>1, Zenon
    <3>2. im[k] = [name |-> fs[k + 1].name, offset |-> o[k], length |-> fs[k + 1].length]
      BY <1>5, Zenon
    <3> QED BY <3>1, <3>2
  <2> QED BY <2>2, <2>3, Zenon
<1>8. ImageOK(fs, im)
  <2>1. \A k \in 0 .. Len(fs) - 1 :
          /\ im[k] \in [name : STRING, offset : Nat, length : 0 .. WORD - 1]
          /\ im[k].name = fs[k + 1].name /\ im[k].length = fs[k + 1].length
          /\ 4868 <= im[k].offset /\ ADDR + im[k].offset + im[k].length < WORD
    BY <1>6
  <2>2. \A k \in 0 .. Len(fs) - 1 : \A j \in 0 .. k - 1 :
          im[j].offset + im[j].length <= im[k].offset
    BY <1>7, Zenon
  <2> QED BY <1>4, <2>1, <2>2, Zenon DEF ImageOK
<1> QED BY <1>3, <1>8, Zenon

-----------------------------------------------------------------------------
(***************************************************************************)
(* A file has a slot of the table and an argument of initrd.c.             *)
(***************************************************************************)
LEMMA Slot ==
  ASSUME NEW fs \in Images, NEW k \in 0 .. Len(fs) - 1
  PROVE  k \in 0 .. 63 /\ k + 1 \in 1 .. Len(fs)
<1>1. PICK n : n = Len(fs) OBVIOUS
<1>2. n \in 0 .. 64 BY <1>1, FilesAre, Zenon
<1>3. k \in 0 .. n - 1 BY <1>1, Zenon
<1>4. k \in 0 .. 63 /\ k + 1 \in 1 .. n BY <1>2, <1>3
<1> QED BY <1>1, <1>4, Zenon

(***************************************************************************)
(* The name of every file is among Names.                                  *)
(***************************************************************************)
LEMMA NameOf ==
  ASSUME NEW fs \in Images, NEW k \in DOMAIN fs
  PROVE  fs[k].name \in Names
<1>1. PICK T : T = {fs[j].name : j \in DOMAIN fs} OBVIOUS
<1>2. fs[k].name \in T BY <1>1
<1>3. T \in {{gs[j].name : j \in DOMAIN gs} : gs \in Images} BY <1>1, Zenon
<1>4. fs[k].name \in UNION {{gs[j].name : j \in DOMAIN gs} : gs \in Images} BY <1>2, <1>3, Zenon
<1> QED BY <1>4, Zenon DEF Names

(***************************************************************************)
(* A header of the image as the kernel finds it in memory.                 *)
(***************************************************************************)
LEMMA HeaderIs ==
  ASSUME files \in Images, HeadersHeld, NEW k \in 0 .. Len(files) - 1
  PROVE  /\ headers[k].name = files[k + 1].name /\ headers[k].length = files[k + 1].length
         /\ headers[k].name \in STRING /\ headers[k].length \in 0 .. WORD - 1
         /\ headers[k].offset = image(files)[k].offset
              + (IF k < Len(root_nodes) /\ Mapped(k, "offset") THEN ADDR ELSE 0)
         /\ headers[k].offset \in 0 .. WORD - 1
         /\ image(files)[k].offset \in Nat /\ image(files)[k].offset + ADDR < WORD
<1>1. PICK im : im = image(files) OBVIOUS
<1>2. ImageOK(files, im) BY <1>1, ImageGood, Zenon
<1>3. PICK r : r = im[k] OBVIOUS
<1>4. /\ r \in [name : STRING, offset : Nat, length : 0 .. WORD - 1]
      /\ r.name = files[k + 1].name /\ r.length = files[k + 1].length
      /\ ADDR + r.offset + r.length < WORD
  BY <1>2, <1>3 DEF ImageOK
<1>5. PICK d : d = IF k < Len(root_nodes) /\ Mapped(k, "offset") THEN ADDR ELSE 0 OBVIOUS
<1>6. d \in Nat /\ d <= ADDR BY <1>5, Numbers
<1>7. headers[k] = [r EXCEPT !.offset = @ + d]
  <2>1. headers[k] = [r EXCEPT
         !.offset = IF k < Len(root_nodes) /\ Mapped(k, "offset") THEN @ + ADDR ELSE @]
    BY <1>1, <1>3 DEF HeadersHeld
  <2>2. r.offset \in Nat BY <1>4
  <2>3. r.offset + d = IF k < Len(root_nodes) /\ Mapped(k, "offset")
                       THEN r.offset + ADDR ELSE r.offset
    BY <1>5, <2>2, Numbers
  <2> QED BY <2>1, <2>3
<1>8. /\ headers[k].name = r.name /\ headers[k].length = r.length
      /\ headers[k].offset = r.offset + d
  BY <1>4, <1>7
<1>9. r.offset \in Nat /\ r.length \in Nat /\ r.length \in 0 .. WORD - 1 /\ r.name \in STRING
  BY <1>4, Numbers
<1>10. r.offset + d \in 0 .. WORD - 1 /\ r.offset + ADDR < WORD BY <1>4, <1>6, <1>9, Numbers
<1> QED BY <1>1, <1>3, <1>4, <1>5, <1>8, <1>9, <1>10

(***************************************************************************)
(* What the kernel reads as header k: that of the image when it is mapped, *)
(* and words of the root inode when it is not.                             *)
(***************************************************************************)
LEMMA HeaderRead ==
  ASSUME files \in Images, HeadersHeld, RootHeld, NEW k \in 0 .. Len(files) - 1
  PROVE  /\ HeaderName(k) \in Names /\ HeaderLength(k) \in 0 .. WORD - 1
         /\ HeaderOffset(k) \in 0 .. WORD - 1
         /\ Visible(k) => /\ HeaderName(k) = files[k + 1].name
                          /\ HeaderLength(k) = files[k + 1].length
                          /\ HeaderOffset(k) = headers[k].offset
<1>1. k \in 0 .. 63 BY Slot, Zenon
<1>2. \A w \in 0 .. 193 : root[w] \in 0 .. WORD - 1
  <2>1. root \in [0 .. 193 -> 0 .. WORD - 1] BY Numbers DEF RootHeld
  <2> QED BY <2>1
<1>3. HeaderName(k) \in Names
  <2>1. headers[k].name = files[k + 1].name BY HeaderIs, Zenon
  <2>2. k + 1 \in DOMAIN files BY Slot, FilesAre, Zenon
  <2>3. headers[k].name \in Names BY <2>1, <2>2, NameOf, Zenon
  <2>4. Empty \in Names /\ Garbage \in Names BY DEF Names
  <2> QED BY <2>3, <2>4, Zenon DEF HeaderName
<1>q. PlacesOf(k) BY <1>1, Places, Zenon
<1>p. /\ (Mapped(k, "offset") <=> k <= 52) /\ (Mapped(k, "length") <=> k <= 52)
      /\ (Mapped(k, "name") <=> k <= 53) /\ (Visible(k) <=> k <= 52)
  BY <1>q, Zenon DEF PlacesOf
<1>4. HeaderLength(k) \in 0 .. WORD - 1
  <2>1. CASE k <= 52 BY <1>p, <2>1, HeaderIs, Zenon DEF HeaderLength
  <2>2. CASE k > 52
    <3>1. RootWord(k, "length") \in 0 .. 193
      <4>1. k >= 53 BY <1>1, <2>2
      <4>2. RootWord(k, "length") = 19 * k - 1005 BY <1>q, <4>1, Zenon DEF PlacesOf
      <4>3. 19 * k - 1005 \in 0 .. 193 BY <1>1, <4>1
      <4> QED BY <4>2, <4>3, Zenon
    <3>2. HeaderLength(k) = root[RootWord(k, "length")]
      <4>1. ~(k <= 52) BY <1>1, <2>2
      <4> QED BY <1>p, <4>1, Zenon DEF HeaderLength
    <3> QED BY <1>2, <3>1, <3>2
  <2> QED BY <1>1, <2>1, <2>2
<1>5. HeaderOffset(k) \in 0 .. WORD - 1
  <2>1. CASE k <= 52 BY <1>p, <2>1, HeaderIs, Zenon DEF HeaderOffset
  <2>2. CASE k > 52
    <3>1. RootWord(k, "offset") \in 0 .. 193
      <4>1. k >= 53 BY <1>1, <2>2
      <4>2. RootWord(k, "offset") = 19 * k - 1006 BY <1>q, <4>1, Zenon DEF PlacesOf
      <4>3. 19 * k - 1006 \in 0 .. 193 BY <1>1, <4>1
      <4> QED BY <4>2, <4>3, Zenon
    <3>2. HeaderOffset(k) = root[RootWord(k, "offset")]
      <4>1. ~(k <= 52) BY <1>1, <2>2
      <4> QED BY <1>p, <4>1, Zenon DEF HeaderOffset
    <3> QED BY <1>2, <3>1, <3>2
  <2> QED BY <1>1, <2>1, <2>2
<1>6. ASSUME Visible(k)
      PROVE  /\ HeaderName(k) = files[k + 1].name
             /\ HeaderLength(k) = files[k + 1].length
             /\ HeaderOffset(k) = headers[k].offset
  <2>1. Mapped(k, "name") /\ Mapped(k, "length") /\ Mapped(k, "offset")
    <3>1. k <= 52 BY <1>p, <1>6, Zenon
    <3>2. k <= 53 BY <1>1, <3>1
    <3> QED BY <1>p, <3>1, <3>2, Zenon
  <2> QED BY <2>1, HeaderIs, Zenon DEF HeaderName, HeaderLength, HeaderOffset
<1> QED BY <1>3, <1>4, <1>5, <1>6

(***************************************************************************)
(* Once all inodes are made, finddir takes the first one of the name.      *)
(***************************************************************************)
LEMMA Found ==
  ASSUME files \in Images, NodesMade, pc # "directories",
         NEW k \in 0 .. Len(files) - 1, Node(k).name # "dev"
  PROVE  /\ finddir(ROOT, Node(k).name) \in 0 .. k
         /\ Node(finddir(ROOT, Node(k).name)).name = Node(k).name
         /\ \A j \in 0 .. k : Node(j).name = Node(k).name => finddir(ROOT, Node(k).name) <= j
<1>1. Len(files) \in Nat BY FilesAre
<1>2. nroot_nodes = Len(files) BY DEF NodesMade
<1>3. PICK nm, S : nm = Node(k).name /\ S = {j \in 0 .. nroot_nodes - 1 : Node(j).name = nm}
  OBVIOUS
<1>4. k \in S /\ S \in SUBSET Nat BY <1>1, <1>2, <1>3
<1>5. PICK m \in S : \A j \in S : m <= j BY <1>4, Least, Zenon
<1>6. Min(S) = m
  <2>1. \A x \in S : (\A y \in S : x <= y) => x = m BY <1>4, <1>5
  <2> QED BY <1>5, <2>1, Zenon DEF Min
<1>7. finddir(ROOT, nm) = m
  <2>1. nm # "dev" /\ S # {} BY <1>3, <1>4
  <2> QED BY <1>3, <1>6, <2>1, Zenon DEF finddir
<1>8. m \in 0 .. k /\ Node(m).name = nm BY <1>3, <1>4, <1>5
<1>9. ASSUME NEW j \in 0 .. k, Node(j).name = nm PROVE m <= j
  <2>1. j \in S BY <1>1, <1>2, <1>3, <1>9
  <2> QED BY <1>5, <2>1
<1> QED BY <1>3, <1>7, <1>8, <1>9, Zenon

-----------------------------------------------------------------------------
(***************************************************************************)
(* The image as initrd.c wrote it: no header is relocated yet.             *)
(***************************************************************************)
LEMMA InitInv == Init => RamdiskInv
<1> SUFFICES ASSUME Init PROVE RamdiskInv OBVIOUS
<1>1. /\ files \in Images /\ headers = image(files) /\ root_nodes = <<>> /\ nroot_nodes = 0
      /\ pc = "directories" /\ i = 0 /\ listed = <<>>
      /\ root = [w \in 0 .. (HEADER * SLOTS + 4 - PAGE) \div 4 |-> 0]
  BY Zenon DEF Init
<1>2. Len(root_nodes) = 0 /\ Len(listed) = 0 /\ DOMAIN listed = {} BY <1>1
<1>3. NodesMade
  <2>1. root_nodes \in Seq(Inodes) BY <1>1
  <2> QED BY <1>1, <1>2, <2>1 DEF NodesMade
<1>4. HeadersHeld
  <2>1. PICK im : im = image(files) OBVIOUS
  <2>2. ImageOK(files, im) BY <1>1, <2>1, ImageGood, Zenon
  <2>3. DOMAIN headers = 0 .. Len(files) - 1
    <3>1. DOMAIN im = 0 .. Len(files) - 1 BY <2>2 DEF ImageOK
    <3> QED BY <1>1, <2>1, <3>1, Zenon
  <2>4. ASSUME NEW k \in DOMAIN headers
        PROVE  headers[k] = [image(files)[k] EXCEPT
                 !.offset = IF k < Len(root_nodes) /\ Mapped(k, "offset") THEN @ + ADDR ELSE @]
    <3>1. k \in 0 .. Len(files) - 1 BY <2>3
    <3>2. k \in 0 .. 63 BY <1>1, <3>1, Slot, Zenon
    <3>3. PICK r : r = im[k] OBVIOUS
    <3>4. r \in [name : STRING, offset : Nat, length : 0 .. WORD - 1]
      BY <2>2, <3>1, <3>3 DEF ImageOK
    <3>5. ~(k < Len(root_nodes))
      <4>1. ~(k < 0) BY <3>2
      <4> QED BY <1>2, <4>1, Zenon
    <3>6. [r EXCEPT !.offset = IF k < Len(root_nodes) /\ Mapped(k, "offset") THEN @ + ADDR ELSE @]
            = [r EXCEPT !.offset = @]
      BY <3>5
    <3>7. [r EXCEPT !.offset = @] = r BY <3>4
    <3>8. headers[k] = r BY <1>1, <2>1, <3>3, Zenon
    <3> QED BY <2>1, <3>3, <3>6, <3>7, <3>8
  <2> QED BY <2>3, <2>4, Zenon DEF HeadersHeld
<1>5. RootHeld
  <2>1. root \in [0 .. (HEADER * SLOTS + 4 - PAGE) \div 4 -> 0 .. WORD - 1]
    <3>1. 0 \in 0 .. WORD - 1 BY Numbers
    <3> QED BY <1>1, <3>1
  <2>2. \A w \in DOMAIN root : root[w] = 0 BY <1>1
  <2>3. RootSurvives BY <1>1 DEF RootSurvives
  <2> QED BY <2>1, <2>2, <2>3, Zenon DEF RootHeld
<1>6. ListingMade
  <2>1. listed \in Seq(Entries) BY <1>1
  <2>2. Len(files) \in Nat
    <3>1. Len(files) \in 0 .. 64 BY <1>1, FilesAre, Zenon
    <3> QED BY <3>1
  <2>3. i \in 0 .. Len(files) + 1 /\ i <= Len(files) BY <1>1, <2>2
  <2>4. 0 .. Len(listed) - 2 = {} BY <1>2
  <2> QED BY <1>1, <1>2, <2>1, <2>3, <2>4 DEF ListingMade
<1>7. ListingInOrder BY <1>1, <1>2 DEF ListingInOrder
<1> QED BY <1>1, <1>3, <1>4, <1>5, <1>6, <1>7, Zenon DEF RamdiskInv

(***************************************************************************)
(* The headers stay as they are while neither they nor the inodes change.  *)
(***************************************************************************)
LEMMA HeadersKept ==
  ASSUME HeadersHeld, UNCHANGED <<files, headers, root_nodes>>
  PROVE  HeadersHeld'
<1>1. files' = files /\ headers' = headers /\ root_nodes' = root_nodes OBVIOUS
<1> QED BY <1>1, Zenon DEF HeadersHeld, Mapped

(***************************************************************************)
(* What holds of the listing before kmain starts it.                       *)
(***************************************************************************)
LEMMA NotListed ==
  ASSUME files' \in Images, pc' \in {"directories", "nodes"}, i' \in 0 .. Len(files'),
         listed' = <<>>, pc' = "directories" => i' = 0
  PROVE  ListingMade' /\ ListingInOrder'
<1>1. Len(listed') = 0 /\ DOMAIN listed' = {} /\ listed' \in Seq(Entries) OBVIOUS
<1>2. PICK n : n = Len(files') OBVIOUS
<1>3. n \in 0 .. 64 BY <1>2, FilesAre, Zenon
<1>4. i' \in 0 .. n BY <1>2, Zenon
<1>5. i' \in 0 .. n + 1 /\ i' <= n BY <1>3, <1>4
<1>6. 0 .. Len(listed') - 2 = {} BY <1>1
<1>7. ListingMade' BY <1>1, <1>2, <1>5, <1>6 DEF ListingMade, Entries
<1>8. ListingInOrder' BY <1>1 DEF ListingInOrder
<1> QED BY <1>7, <1>8

(***************************************************************************)
(* Before the listing there is nothing in it.                              *)
(***************************************************************************)
LEMMA NothingListed ==
  ASSUME files \in Images, ListingMade, pc \in {"directories", "nodes"}
  PROVE  listed = <<>> /\ i \in 0 .. Len(files) /\ (pc = "directories" => i = 0)
<1>1. listed \in Seq(Entries) /\ Len(listed) = 0 BY DEF ListingMade
<1>2. listed = <<>> BY <1>1
<1>3. PICK n : n = Len(files) OBVIOUS
<1>4. n \in 0 .. 64 BY <1>3, FilesAre, Zenon
<1>5. i \in 0 .. n + 1 /\ i <= n BY <1>3 DEF ListingMade
<1>6. i \in 0 .. n BY <1>4, <1>5
<1> QED BY <1>2, <1>3, <1>6 DEF ListingMade

(***************************************************************************)
(* ramdisk_init fills the inode of root, whose words were zero, and counts *)
(* the files.                                                              *)
(***************************************************************************)
LEMMA InitStep ==
  ASSUME RamdiskInv, ramdisk_init
  PROVE  RamdiskInv'
<1>1. /\ pc = "directories" /\ pc' = "nodes" /\ nroot_nodes' = Len(files) /\ i' = i
      /\ files' = files /\ headers' = headers /\ root_nodes' = root_nodes /\ listed' = listed
  BY DEF ramdisk_init
<1>2. files \in Images /\ NodesMade /\ HeadersHeld /\ RootHeld /\ ListingMade
  BY Zenon DEF RamdiskInv
<1>3. listed = <<>> /\ i = 0 /\ i \in 0 .. Len(files) BY <1>1, <1>2, NothingListed, Zenon
<1>4. Len(root_nodes) = 0 BY <1>1, <1>2 DEF NodesMade
<1>5. NodesMade'
  <2>1. root_nodes \in Seq(Inodes) BY <1>2 DEF NodesMade
  <2>2. 0 .. Len(root_nodes) - 1 = {} BY <1>4
  <2> QED BY <1>1, <1>3, <1>4, <2>1, <2>2 DEF NodesMade
<1>6. HeadersHeld' BY <1>1, <1>2, HeadersKept, Zenon
<1>7. RootHeld'
  <2> DEFINE W == 0 .. WORD - 1
  <2>1. root \in [0 .. 193 -> W] BY <1>2, Numbers DEF RootHeld
  <2>2. \A w \in 0 .. 193 : root[w] = 0 BY <1>1, <1>2, <2>1 DEF RootHeld
  <2>3. PICK a, b, f, g : /\ a = name_words[1] /\ b = name_words[2]
                          /\ f = fn_readdir /\ g = fn_finddir
    OBVIOUS
  <2>4. a \in W /\ b \in W /\ f \in W /\ g \in W /\ 0 \in W /\ 2 \in W
    BY <2>3, Numbers DEF name_words, fn_readdir, fn_finddir
  <2>5. root' = [root EXCEPT ![0] = a, ![1] = b, ![35] = 2, ![39] = 0, ![43] = f, ![44] = g]
    BY <2>3, Zenon DEF ramdisk_init, FLAGS, READ, READDIR, FINDDIR, FS_DIRECTORY
  <2> HIDE DEF W
  <2>6. root' \in [0 .. 193 -> W] BY <2>1, <2>4, <2>5
  <2>7. ASSUME NEW w \in 35 .. 44
        PROVE  root'[w] = CASE w = 35 -> 2 [] w = 43 -> f [] w = 44 -> g [] OTHER -> 0
    BY <2>1, <2>2, <2>5
  <2>8. RootSurvives'
    <3>1. ASSUME NEW w \in FLAGS .. FINDDIR
          PROVE  root'[w] = CASE w = FLAGS -> FS_DIRECTORY
                              [] w = READDIR -> fn_readdir
                              [] w = FINDDIR -> fn_finddir
                              [] w = READ /\ Len(root_nodes') > 55 -> ADDR
                              [] OTHER -> 0
      <4>1. w \in 35 .. 44 BY DEF FLAGS, FINDDIR
      <4>2. ~(Len(root_nodes') > 55) BY <1>1, <1>4
      <4> QED BY <2>3, <2>7, <4>1, <4>2 DEF FLAGS, FINDDIR, READDIR, READ, FS_DIRECTORY
    <3> QED BY <3>1, Zenon DEF RootSurvives, fn_readdir, fn_finddir
  <2> QED BY <1>1, <2>6, <2>8, Numbers DEF RootHeld, W
<1>8. ListingMade' /\ ListingInOrder' BY <1>1, <1>2, <1>3, NotListed
<1> QED BY <1>1, <1>2, <1>5, <1>6, <1>7, <1>8, Zenon DEF RamdiskInv

(***************************************************************************)
(* The next state of the sequence of inodes when e is appended.            *)
(***************************************************************************)
LEMMA NodeAppended ==
  ASSUME NEW s \in Seq(Inodes), NEW e \in Inodes
  PROVE  /\ Append(s, e) \in Seq(Inodes) /\ Len(Append(s, e)) = Len(s) + 1
         /\ Append(s, e)[Len(s) + 1] = e
         /\ \A k \in 1 .. Len(s) : Append(s, e)[k] = s[k]
OBVIOUS

(***************************************************************************)
(* An iteration of ramdisk_init makes the inode of file i.                 *)
(***************************************************************************)
LEMMA NodeMade ==
  ASSUME RamdiskInv, ramdisk_node
  PROVE  NodesMade'
<1>1. /\ pc = "nodes" /\ i < nroot_nodes /\ i' = i + 1 /\ pc' = pc
      /\ files' = files /\ nroot_nodes' = nroot_nodes
  BY DEF ramdisk_node
<1>2. files \in Images /\ NodesMade /\ HeadersHeld /\ RootHeld /\ ListingMade
  BY Zenon DEF RamdiskInv
<1>3. PICK n : n = Len(files) OBVIOUS
<1>4. n \in 0 .. 64 BY <1>2, <1>3, FilesAre, Zenon
<1>5. nroot_nodes = n BY <1>1, <1>2, <1>3 DEF NodesMade
<1>6. i \in 0 .. n BY <1>1, <1>2, <1>3, NothingListed
<1>7. i \in 0 .. n - 1 BY <1>1, <1>4, <1>5, <1>6
<1>8. i \in 0 .. Len(files) - 1 BY <1>3, <1>7, Zenon
<1>9. root_nodes \in Seq(Inodes) /\ Len(root_nodes) = i BY <1>1, <1>2 DEF NodesMade
<1>10. PICK nm, len : nm = HeaderName(i) /\ len = HeaderLength(i) OBVIOUS
<1>11. nm \in Names /\ len \in 0 .. WORD - 1 /\ (Visible(i) => nm = files[i + 1].name)
  BY <1>2, <1>8, <1>10, HeaderRead
<1>12. PICK e : e = [name |-> nm, length |-> len, ino |-> i, flags |-> FS_FILE] OBVIOUS
<1>13. e \in Inodes BY <1>7, <1>11, <1>12 DEF Inodes
<1>14. root_nodes' = Append(root_nodes, e) BY <1>10, <1>12, Zenon DEF ramdisk_node
<1>15. /\ root_nodes' \in Seq(Inodes) /\ Len(root_nodes') = i + 1
       /\ root_nodes'[i + 1] = e
       /\ \A k \in 1 .. i : root_nodes'[k] = root_nodes[k]
  BY <1>9, <1>13, <1>14, NodeAppended, Zenon
<1>16. ASSUME NEW k \in 0 .. i
       PROVE  Node(k)'.ino = k /\ (Visible(k) => Node(k)'.name = files[k + 1].name)
  <2>1. CASE k = i
    <3>1. Node(k)' = e BY <1>15, <2>1, Zenon DEF Node
    <3>2. e.ino = i /\ e.name = nm BY <1>12
    <3> QED BY <1>11, <2>1, <3>1, <3>2, Zenon
  <2>2. CASE k # i
    <3>1. k \in 0 .. i - 1 /\ k + 1 \in 1 .. i BY <1>7, <2>2
    <3>2. Node(k)' = Node(k) BY <1>15, <3>1, Zenon DEF Node
    <3>3. \A j \in 0 .. i - 1 : Node(j).ino = j /\ (Visible(j) => Node(j).name = files[j + 1].name)
      BY <1>2, <1>9, Zenon DEF NodesMade
    <3> QED BY <3>1, <3>2, <3>3, Zenon
  <2> QED BY <2>1, <2>2
<1>17. 0 .. Len(root_nodes') - 1 = 0 .. i BY <1>7, <1>15
<1>18. \A k \in 0 .. Len(root_nodes') - 1 :
         Node(k)'.ino = k /\ (Visible(k) => Node(k)'.name = files'[k + 1].name)
  BY <1>1, <1>16, <1>17, Zenon
<1>19. Len(root_nodes') = i' BY <1>1, <1>15
<1>20. nroot_nodes' = Len(files') BY <1>1, <1>3, <1>5, Zenon
<1>21. pc' = "nodes" BY <1>1
<1> QED BY <1>15, <1>18, <1>19, <1>20, <1>21, Zenon DEF NodesMade, Visible, Mapped, Node

(***************************************************************************)
(* It relocates header i, if that is mapped, and no other; the sum does    *)
(* not wrap.                                                               *)
(***************************************************************************)
LEMMA HeaderRelocated ==
  ASSUME RamdiskInv, ramdisk_node
  PROVE  HeadersHeld'
<1>1. pc = "nodes" /\ i < nroot_nodes /\ files' = files BY DEF ramdisk_node
<1>2. files \in Images /\ NodesMade /\ HeadersHeld /\ RootHeld /\ ListingMade
  BY Zenon DEF RamdiskInv
<1>3. PICK n : n = Len(files) OBVIOUS
<1>4. n \in 0 .. 64 BY <1>2, <1>3, FilesAre, Zenon
<1>5. nroot_nodes = n BY <1>1, <1>2, <1>3 DEF NodesMade
<1>6. i \in 0 .. n BY <1>1, <1>2, <1>3, NothingListed
<1>7. i \in 0 .. n - 1 BY <1>1, <1>4, <1>5, <1>6
<1>8. i \in 0 .. Len(files) - 1 BY <1>3, <1>7, Zenon
<1>9. Len(root_nodes) = i BY <1>1, <1>2 DEF NodesMade
<1>10. i' = i + 1 /\ pc' = "nodes" BY <1>1 DEF ramdisk_node
<1>11. Len(root_nodes') = i + 1
  <2>1. NodesMade' BY NodeMade
  <2> QED BY <1>10, <2>1 DEF NodesMade
<1>12. PICK im : im = image(files) OBVIOUS
<1>13. DOMAIN headers = 0 .. n - 1 BY <1>2, <1>3 DEF HeadersHeld
<1> DEFINE Held(k, len) == [im[k] EXCEPT
                !.offset = IF k < len /\ Mapped(k, "offset") THEN @ + ADDR ELSE @]
<1>14. \A k \in 0 .. n - 1 : headers[k] = Held(k, i)
  BY <1>2, <1>9, <1>12, <1>13, Zenon DEF HeadersHeld
<1>15. \A k \in 0 .. n - 1 : k # i => Held(k, i) = Held(k, i + 1)
  <2>1. \A k \in 0 .. n - 1 : k # i => (k < i <=> k < i + 1) BY <1>7
  <2> QED BY <2>1, Zenon
<1>16. CASE Mapped(i, "offset")
  <2>1. headers' = [headers EXCEPT ![i]["offset"] = (@ + ADDR) % WORD]
    BY <1>16, Zenon DEF ramdisk_node, relocated
  <2>2. PICK r : r = im[i] OBVIOUS
  <2>3. /\ r \in [name : STRING, offset : Nat, length : 0 .. WORD - 1]
        /\ r.offset \in Nat /\ r.offset + ADDR < WORD
    <3>1. ImageOK(files, im) BY <1>2, <1>12, ImageGood, Zenon
    <3>2. r \in [name : STRING, offset : Nat, length : 0 .. WORD - 1]
      BY <1>8, <2>2, <3>1 DEF ImageOK
    <3>3. r.offset \in Nat /\ r.offset + ADDR < WORD
      BY <1>2, <1>8, <1>12, <2>2, HeaderIs, Zenon
    <3> QED BY <3>2, <3>3
  <2>4. headers[i] = r
    <3>1. ~(i < i) BY <1>7
    <3>2. Held(i, i) = [r EXCEPT !.offset = @] BY <2>2, <3>1, Zenon
    <3>3. [r EXCEPT !.offset = @] = r BY <2>3
    <3> QED BY <1>7, <1>14, <3>2, <3>3, Zenon
  <2>5. headers'[i] = [r EXCEPT !.offset = (r.offset + ADDR) % WORD]
    BY <1>7, <1>13, <2>1, <2>4
  <2>6. (r.offset + ADDR) % WORD = r.offset + ADDR BY <2>3, Numbers
  <2>7. Held(i, i + 1) = [r EXCEPT !.offset = r.offset + ADDR]
    <3>1. i < i + 1 BY <1>7
    <3> QED BY <1>16, <2>2, <3>1, Zenon
  <2>8. headers'[i] = Held(i, i + 1) BY <2>5, <2>6, <2>7, Zenon
  <2>9. DOMAIN headers' = 0 .. n - 1 BY <1>13, <2>1
  <2>10. \A k \in 0 .. n - 1 : k # i => headers'[k] = headers[k]
    BY <1>13, <2>1
  <2>11. \A k \in 0 .. n - 1 : headers'[k] = Held(k, i + 1)
    <3> HIDE DEF Held
    <3> QED BY <1>14, <1>15, <2>8, <2>10
  <2> QED BY <1>1, <1>3, <1>11, <1>12, <2>9, <2>11, Zenon DEF HeadersHeld, Mapped
<1>17. CASE ~Mapped(i, "offset")
  <2>1. headers' = headers BY <1>17, Zenon DEF ramdisk_node, relocated
  <2>2. Held(i, i) = Held(i, i + 1) BY <1>17, Zenon
  <2>3. \A k \in 0 .. n - 1 : headers'[k] = Held(k, i + 1)
    <3> HIDE DEF Held
    <3> QED BY <1>14, <1>15, <2>1, <2>2
  <2> QED BY <1>1, <1>3, <1>11, <1>12, <1>13, <2>1, <2>3, Zenon DEF HeadersHeld, Mapped
<1> QED BY <1>16, <1>17

(***************************************************************************)
(* What RootSurvives says of word w when len inodes are made.              *)
(***************************************************************************)
RootValue(w, len) ==
  CASE w = FLAGS -> FS_DIRECTORY
    [] w = READDIR -> fn_readdir
    [] w = FINDDIR -> fn_finddir
    [] w = READ /\ len > 55 -> ADDR
    [] OTHER -> 0

(***************************************************************************)
(* The words of the root inode when the loop has made a number of inodes.  *)
(***************************************************************************)
LEMMA RootValues ==
  ASSUME NEW w \in 35 .. 44, NEW len \in Nat
  PROVE  RootValue(w, len) = IF w = 35 THEN 2 ELSE IF w = 43 THEN fn_readdir
                             ELSE IF w = 44 THEN fn_finddir
                             ELSE IF w = 39 /\ len > 55 THEN ADDR ELSE 0
BY DEF RootValue, FLAGS, READ, READDIR, FINDDIR, FS_DIRECTORY

(***************************************************************************)
(* An iteration writes into the root inode when header i is not mapped: of *)
(* the words that matter it hits read alone, with the 56th header.         *)
(***************************************************************************)
LEMMA RootRelocated ==
  ASSUME RamdiskInv, ramdisk_node
  PROVE  RootHeld'
<1>1. pc = "nodes" /\ i < nroot_nodes /\ i' = i + 1 /\ pc' = "nodes" BY DEF ramdisk_node
<1>2. files \in Images /\ NodesMade /\ HeadersHeld /\ RootHeld /\ ListingMade
  BY Zenon DEF RamdiskInv
<1>3. PICK n : n = Len(files) OBVIOUS
<1>4. n \in 0 .. 64 BY <1>2, <1>3, FilesAre, Zenon
<1>5. nroot_nodes = n BY <1>1, <1>2, <1>3 DEF NodesMade
<1>6. i \in 0 .. n BY <1>1, <1>2, <1>3, NothingListed
<1>7. i \in 0 .. 63 BY <1>1, <1>4, <1>5, <1>6
<1>8. Len(root_nodes) = i BY <1>1, <1>2 DEF NodesMade
<1>9. Len(root_nodes') = i + 1
  <2>1. NodesMade' BY NodeMade
  <2> QED BY <1>1, <2>1 DEF NodesMade
<1> DEFINE W == 0 .. WORD - 1
<1>10. root \in [0 .. 193 -> W] BY <1>2, Numbers DEF RootHeld
<1>11. \A w \in 35 .. 44 : root[w] = RootValue(w, i)
  <2>1. RootSurvives BY <1>2, Zenon DEF RootHeld
  <2>2. FLAGS .. FINDDIR = 35 .. 44 BY DEF FLAGS, FINDDIR
  <2>3. pc # "directories" BY <1>1
  <2> QED BY <1>8, <2>1, <2>2, <2>3, Zenon DEF RootSurvives, RootValue
<1>12. PlacesOf(i) BY <1>7, Places, Zenon
<1>13. SUFFICES root' \in [0 .. 193 -> W] /\ \A w \in 35 .. 44 : root'[w] = RootValue(w, i + 1)
  <2>1. FLAGS .. FINDDIR = 35 .. 44 BY DEF FLAGS, FINDDIR
  <2>2. RootSurvives'
    BY <1>9, <1>13, <2>1, Zenon DEF RootSurvives, RootValue, fn_readdir, fn_finddir
  <2> QED BY <1>1, <1>13, <2>2, Numbers DEF RootHeld
<1>14. CASE Mapped(i, "offset")
  <2>1. root' = root BY <1>14, Zenon DEF ramdisk_node, relocated
  <2>2. i <= 52 BY <1>12, <1>14, Zenon DEF PlacesOf
  <2>3. ASSUME NEW w \in 35 .. 44 PROVE RootValue(w, i) = RootValue(w, i + 1)
    <3>1. i \in Nat /\ i + 1 \in Nat /\ ~(i > 55) /\ ~(i + 1 > 55) BY <1>7, <2>2
    <3> QED BY <3>1, RootValues
  <2> QED BY <1>10, <1>11, <2>1, <2>3, Zenon
<1>15. CASE ~Mapped(i, "offset")
  <2>1. root' = [root EXCEPT ![RootWord(i, "offset")] = (@ + ADDR) % WORD]
    BY <1>15, Zenon DEF ramdisk_node, relocated
  <2>2. i >= 53
    <3>1. ~(i <= 52) BY <1>12, <1>15, Zenon DEF PlacesOf
    <3> QED BY <1>7, <3>1
  <2>3. PICK v : v = RootWord(i, "offset") OBVIOUS
  <2>4. v = 19 * i - 1006 BY <1>12, <2>2, <2>3, Zenon DEF PlacesOf
  <2>5. v \in 0 .. 193 BY <1>7, <2>2, <2>4
  <2>6. PICK x : x = root[v] OBVIOUS
  <2>7. x \in 0 .. WORD - 1 BY <1>10, <2>5, <2>6
  <2>8. PICK y : y = (x + ADDR) % WORD OBVIOUS
  <2>9. y \in W BY <2>7, <2>8, Numbers
  <2>10. root' = [root EXCEPT ![v] = y] BY <2>1, <2>3, <2>6, <2>8, Zenon
  <2> HIDE DEF W
  <2>11. root' \in [0 .. 193 -> W] BY <1>10, <2>5, <2>9, <2>10
  <2>12. ASSUME NEW w \in 35 .. 44 PROVE root'[w] = RootValue(w, i + 1)
    <3>1. i \in Nat /\ i + 1 \in Nat BY <1>7
    <3>2. CASE w = v
      <4>1. i = 55 /\ w = 39 BY <1>7, <2>2, <2>4, <3>2
      <4>2. RootValue(w, i) = 0 BY <3>1, <4>1, RootValues
      <4>3. x = 0 BY <1>11, <2>6, <3>2, <4>2, Zenon
      <4>4. y = ADDR BY <2>8, <4>3, Numbers
      <4>5. root'[w] = y BY <1>10, <2>5, <2>10, <3>2
      <4>6. RootValue(w, i + 1) = ADDR BY <3>1, <4>1, RootValues
      <4> QED BY <4>4, <4>5, <4>6, Zenon
    <3>3. CASE w # v
      <4>1. root'[w] = root[w] BY <1>10, <2>5, <2>10, <3>3
      <4>2. w = 39 => (i > 55 <=> i + 1 > 55) BY <1>7, <2>4, <3>3
      <4>3. RootValue(w, i) = RootValue(w, i + 1) BY <3>1, <4>2, RootValues
      <4> QED BY <1>11, <4>1, <4>3, Zenon
    <3> QED BY <3>2, <3>3
  <2> QED BY <2>11, <2>12, Zenon
<1> QED BY <1>14, <1>15

(***************************************************************************)
(* An iteration of the loop of ramdisk_init keeps the invariant.           *)
(***************************************************************************)
LEMMA NodeStep ==
  ASSUME RamdiskInv, ramdisk_node
  PROVE  RamdiskInv'
<1>1. /\ pc = "nodes" /\ i < nroot_nodes /\ i' = i + 1 /\ pc' = "nodes"
      /\ files' = files /\ listed' = listed
  BY DEF ramdisk_node
<1>2. files \in Images /\ NodesMade /\ ListingMade BY Zenon DEF RamdiskInv
<1>3. listed = <<>> /\ i \in 0 .. Len(files) BY <1>1, <1>2, NothingListed, Zenon
<1>4. PICK n : n = Len(files) OBVIOUS
<1>5. n \in 0 .. 64 BY <1>2, <1>4, FilesAre, Zenon
<1>6. nroot_nodes = n BY <1>1, <1>2, <1>4 DEF NodesMade
<1>7. i \in 0 .. n BY <1>3, <1>4, Zenon
<1>8. i' \in 0 .. n BY <1>1, <1>5, <1>6, <1>7
<1>9. ListingMade' /\ ListingInOrder' BY <1>1, <1>2, <1>3, <1>4, <1>8, NotListed
<1>10. NodesMade' /\ HeadersHeld' /\ RootHeld' BY NodeMade, HeaderRelocated, RootRelocated
<1> QED BY <1>1, <1>2, <1>9, <1>10, Zenon DEF RamdiskInv

-----------------------------------------------------------------------------
(***************************************************************************)
(* What ListingInOrder says of entry n, if e is shown there, and what      *)
(* ListingMade says of file k once kmain has passed it.                    *)
(***************************************************************************)
EntryRight(n, e) ==
  IF n = 1 THEN e.name = "dev" /\ e.ino = DEV
  ELSE LET k == n - 2 IN
       Visible(k) =>
         /\ e.name = files[k + 1].name
         /\ Unique(k) => /\ e.ino = k
                         /\ e.size = Min({files[k + 1].length, BUF})

Passed(k) ==
  /\ Visible(k) /\ files[k + 1].name # "dev"
  /\ \A j \in 0 .. k - 1 : files[j + 1].name # files[k + 1].name
  => files[k + 1].length # 0 /\ ~OutsideHeap(k)

\* ramdisk_init is done, but for the last test of its loop.
AllMade == pc # "directories" /\ Len(root_nodes) = Len(files)

(***************************************************************************)
(* Once ramdisk_init is done there is an inode for every file, of its own  *)
(* number and, as far as headers are mapped, of its name.                  *)
(***************************************************************************)
LEMMA Nodes ==
  ASSUME RamdiskInv, AllMade
  PROVE  /\ Len(files) \in 0 .. 64 /\ nroot_nodes = Len(files)
         /\ \A k \in 0 .. Len(files) - 1 :
              /\ Node(k).ino = k /\ Node(k).flags = FS_FILE /\ Node(k).name \in Names
              /\ Visible(k) => Node(k).name = files[k + 1].name
<1>1. files \in Images /\ NodesMade BY Zenon DEF RamdiskInv
<1>2. Len(files) \in 0 .. 64 BY <1>1, FilesAre, Zenon
<1>3. pc # "directories" /\ Len(root_nodes) = Len(files) BY DEF AllMade
<1>4. nroot_nodes = Len(files) /\ Len(root_nodes) = Len(files) /\ root_nodes \in Seq(Inodes)
  BY <1>1, <1>3, Zenon DEF NodesMade
<1>5. ASSUME NEW k \in 0 .. Len(files) - 1
      PROVE  /\ Node(k).ino = k /\ Node(k).flags = FS_FILE /\ Node(k).name \in Names
             /\ Visible(k) => Node(k).name = files[k + 1].name
  <2>1. k + 1 \in 1 .. Len(root_nodes) BY <1>1, <1>4, Slot, Zenon
  <2>2. Node(k) \in Inodes BY <1>4, <2>1 DEF Node
  <2>3. PICK nd : nd = Node(k) OBVIOUS
  <2>4. nd \in Inodes BY <2>2, <2>3, Zenon
  <2>5. nd.flags = FS_FILE /\ nd.name \in Names BY <2>4 DEF Inodes
  <2>6. Node(k).ino = k /\ (Visible(k) => Node(k).name = files[k + 1].name)
    BY <1>1, <1>4, Zenon DEF NodesMade
  <2> QED BY <2>3, <2>5, <2>6, Zenon
<1> QED BY <1>2, <1>4, <1>5, Zenon

(***************************************************************************)
(* A listing of dev is empty: the index before 0 is the largest of all.    *)
(***************************************************************************)
LEMMA DevIsEmpty ==
  ASSUME nroot_nodes' \in 0 .. 64
  PROVE  readdir_fs(DEV, 0)' = NoEntry
<1>1. (0 - 1) % WORD = WORD - 1 BY Numbers
<1>2. DEV # ROOT BY DEF DEV, ROOT
<1>3. (0 - 1) % WORD >= nroot_nodes' BY <1>1, Numbers
<1>4. readdir(DEV, 0)' = NoEntry BY <1>2, <1>3, Zenon DEF readdir, NoEntry
<1> QED BY <1>4, Zenon DEF readdir_fs, NoEntry

(***************************************************************************)
(* A step of the listing keeps the invariant, if it does with the position *)
(* and the entries what these conditions say; memory does not change.      *)
(***************************************************************************)
LEMMA ListingStep ==
  ASSUME RamdiskInv, AllMade,
         UNCHANGED <<files, headers, root, root_nodes, nroot_nodes>>,
         pc' \in {"list", "find", "show", "sti", "panic", "fault"},
         i' \in 0 .. Len(files) + 1,
         listed' \in Seq(Entries), Len(listed') = i',
         pc' \in {"find", "show", "panic", "fault"} => i' <= Len(files),
         pc' \in {"find", "show"} =>
           dentry'.name = IF i' = 0 THEN "dev" ELSE Node(i' - 1).name,
         pc' = "show" => ino' = finddir(ROOT, dentry'.name),
         \A k \in 0 .. i' - 2 : Passed(k),
         \A n \in 1 .. i' : EntryRight(n, listed'[n]),
         pc' = "sti" => i' = Len(files) + 1,
         pc' = "panic" => files[i'].length = 0 \/ ~Visible(i' - 1),
         pc' = "fault" => OutsideHeap(i' - 1) \/ ~Visible(i' - 1)
  PROVE  RamdiskInv'
<1>1. files \in Images /\ NodesMade /\ HeadersHeld /\ RootHeld BY Zenon DEF RamdiskInv
<1>2. /\ files' = files /\ headers' = headers /\ root' = root
      /\ root_nodes' = root_nodes /\ nroot_nodes' = nroot_nodes
  OBVIOUS
<1>3. pc # "directories" /\ Len(root_nodes) = Len(files) BY DEF AllMade
<1>4. pc' # "directories" /\ pc' # "nodes" OBVIOUS
<1>5. NodesMade'
  BY <1>1, <1>2, <1>3, <1>4, Zenon DEF NodesMade, Node, Visible, Mapped, Inodes, Names
<1>6. HeadersHeld' BY <1>1, <1>2, HeadersKept, Zenon
<1>7. RootHeld'
  <2>1. RootSurvives' BY <1>1, <1>2, <1>3, Zenon DEF RootHeld, RootSurvives, fn_readdir, fn_finddir
  <2> QED BY <1>1, <1>2, <1>4, <2>1, Zenon DEF RootHeld
<1>8. ListingMade'
  <2>1. pc' \in {"directories", "nodes", "list", "find", "show", "sti", "panic", "fault"}
    OBVIOUS
  <2>2. Len(listed') = IF pc' \in {"directories", "nodes"} THEN 0 ELSE i' BY <1>4, Zenon
  <2>3. pc' \in {"directories", "nodes", "find", "show", "panic", "fault"} => i' <= Len(files')
    BY <1>2, <1>4
  <2>4. pc' \in {"find", "show"} =>
          dentry'.name = IF i' = 0 THEN "dev" ELSE Node(i - 1)'.name
    BY <1>2, Zenon DEF Node
  <2>5. pc' = "show" => ino' = finddir(ROOT, dentry.name)'
    BY <1>2, Zenon DEF finddir, Node, ROOT, DEV, NIL
  <2>6. \A k \in 0 .. Len(listed') - 2 : Passed(k)'
    BY <1>2, Zenon DEF Passed, Visible, Mapped, OutsideHeap
  <2> QED BY <1>2, <1>4, <2>1, <2>2, <2>3, <2>4, <2>5, <2>6, Zenon
        DEF ListingMade, Passed, OutsideHeap, Entries, Names
<1>9. ListingInOrder'
  <2>1. ASSUME NEW n \in DOMAIN listed' PROVE EntryRight(n, listed[n])'
    <3>1. n \in 1 .. i' BY <2>1
    <3> QED BY <1>2, <3>1, Zenon DEF EntryRight, Visible, Mapped, Unique, DEV
  <2>2. pc' = "list" => readdir_fs(DEV, 0)' = NoEntry
    <3>1. nroot_nodes' \in 0 .. 64 BY <1>2, Nodes, Zenon
    <3> QED BY <3>1, DevIsEmpty
  <2>3. pc' = "sti" => Len(listed') = Len(files') + 1 BY <1>2
  <2>4. pc' = "panic" => files'[i'].length = 0 \/ ~Visible(i' - 1) BY <1>2
  <2>5. pc' = "fault" => OutsideHeap(i - 1)' \/ ~Visible(i' - 1)
    BY <1>2, Zenon DEF OutsideHeap
  <2> QED BY <2>1, <2>2, <2>3, <2>4, <2>5, Zenon
        DEF ListingInOrder, EntryRight, Visible, Mapped, DEV, NoEntry
<1> QED BY <1>1, <1>2, <1>5, <1>6, <1>7, <1>8, <1>9, Zenon DEF RamdiskInv

(***************************************************************************)
(* In the listing all inodes are made.                                     *)
(***************************************************************************)
LEMMA ListingIsLate ==
  ASSUME RamdiskInv, pc \in {"list", "find", "show", "sti", "panic", "fault"}
  PROVE  /\ AllMade /\ files \in Images /\ NodesMade /\ HeadersHeld /\ RootHeld
         /\ i \in 0 .. Len(files) + 1 /\ listed \in Seq(Entries) /\ Len(listed) = i
         /\ pc \in {"find", "show"} => /\ i <= Len(files)
                                       /\ dentry.name = IF i = 0 THEN "dev" ELSE Node(i - 1).name
         /\ pc = "show" => ino = finddir(ROOT, dentry.name)
         /\ \A k \in 0 .. i - 2 : Passed(k)
         /\ \A n \in 1 .. i : EntryRight(n, listed[n])
<1>1. /\ files \in Images /\ NodesMade /\ HeadersHeld /\ RootHeld /\ ListingMade
      /\ ListingInOrder
  BY Zenon DEF RamdiskInv
<1>2. pc # "directories" /\ pc # "nodes" OBVIOUS
<1>3. AllMade BY <1>1, <1>2, Zenon DEF AllMade, NodesMade
<1>4. /\ i \in 0 .. Len(files) + 1 /\ listed \in Seq(Entries) /\ Len(listed) = i
  BY <1>1, <1>2 DEF ListingMade
<1>5. pc \in {"find", "show"} => /\ i <= Len(files)
                                 /\ dentry.name = IF i = 0 THEN "dev" ELSE Node(i - 1).name
  BY <1>1 DEF ListingMade
<1>6. pc = "show" => ino = finddir(ROOT, dentry.name) BY <1>1, Zenon DEF ListingMade
<1>7. \A k \in 0 .. i - 2 : Passed(k) BY <1>1, <1>4, Zenon DEF ListingMade, Passed
<1>8. ASSUME NEW n \in 1 .. i PROVE EntryRight(n, listed[n])
  <2>1. n \in DOMAIN listed BY <1>4
  <2> QED BY <1>1, <2>1, Zenon DEF ListingInOrder, EntryRight
<1> QED BY <1>1, <1>3, <1>4, <1>5, <1>6, <1>7, <1>8, Zenon

(***************************************************************************)
(* The end of ramdisk_init: all inodes are made, the listing starts.       *)
(***************************************************************************)
LEMMA DoneStep ==
  ASSUME RamdiskInv, ramdisk_done
  PROVE  RamdiskInv'
<1>1. /\ pc = "nodes" /\ i >= nroot_nodes /\ pc' = "list" /\ i' = 0 /\ listed' = listed
      /\ UNCHANGED <<files, headers, root, root_nodes, nroot_nodes>>
  BY DEF ramdisk_done
<1>2. files \in Images /\ NodesMade /\ ListingMade BY Zenon DEF RamdiskInv
<1>3. listed = <<>> /\ i \in 0 .. Len(files) BY <1>1, <1>2, NothingListed, Zenon
<1>4. PICK n : n = Len(files) OBVIOUS
<1>5. n \in 0 .. 64 BY <1>2, <1>4, FilesAre, Zenon
<1>6. nroot_nodes = n /\ Len(root_nodes) = i BY <1>1, <1>2, <1>4 DEF NodesMade
<1>7. i = n
  <2>1. i \in 0 .. n BY <1>3, <1>4, Zenon
  <2> QED BY <1>1, <1>5, <1>6, <2>1
<1>8. AllMade BY <1>1, <1>4, <1>6, <1>7 DEF AllMade
<1>9. i' \in 0 .. Len(files) + 1
  <2>1. i' \in 0 .. n + 1 BY <1>1, <1>5
  <2> QED BY <1>4, <2>1, Zenon
<1>10. listed' \in Seq(Entries) /\ Len(listed') = i' BY <1>1, <1>3
<1>11. 1 .. i' = {} /\ 0 .. i' - 2 = {} BY <1>1
<1>12. pc' \in {"list", "find", "show", "sti", "panic"} /\ pc' # "find" /\ pc' # "show"
       /\ pc' # "sti" /\ pc' # "panic"
  BY <1>1
<1> QED BY <1>1, <1>8, <1>9, <1>10, <1>11, <1>12, ListingStep

(***************************************************************************)
(* kmain asks for entry i of the root directory: dev, a file, or the end.  *)
(***************************************************************************)
LEMMA ReaddirStep ==
  ASSUME RamdiskInv, kmain_readdir
  PROVE  RamdiskInv'
<1>1. /\ pc = "list" /\ i' = i /\ listed' = listed
      /\ UNCHANGED <<files, headers, root, root_nodes, nroot_nodes>>
  BY DEF kmain_readdir
<1>2. /\ AllMade /\ files \in Images /\ RootHeld
      /\ i \in 0 .. Len(files) + 1 /\ listed \in Seq(Entries) /\ Len(listed) = i
      /\ \A k \in 0 .. i - 2 : Passed(k)
      /\ \A n \in 1 .. i : EntryRight(n, listed[n])
  BY <1>1, ListingIsLate
<1>3. PICK n : n = Len(files) OBVIOUS
<1>4. n \in 0 .. 64 /\ nroot_nodes = n BY <1>2, <1>3, Nodes, Zenon
<1>5. i \in 0 .. n + 1 BY <1>2, <1>3, Zenon
<1>6. dentry' = readdir(ROOT, i)
  <2>1. RootSurvives /\ pc # "directories" BY <1>1, <1>2 DEF RootHeld
  <2>2. root[FLAGS] = FS_DIRECTORY /\ root[READDIR] = fn_readdir
    <3>1. FLAGS \in FLAGS .. FINDDIR /\ READDIR \in FLAGS .. FINDDIR /\ READDIR # FLAGS
      BY DEF FLAGS, READDIR, FINDDIR
    <3> QED BY <2>1, <3>1 DEF RootSurvives, FLAGS, READDIR, FINDDIR, READ
  <2>3. fn_readdir # 0 BY Numbers DEF fn_readdir
  <2>4. Flags(ROOT) = root[FLAGS] BY DEF Flags, ROOT, DEV
  <2>5. readdir_fs(ROOT, i) = readdir(ROOT, i) BY <2>2, <2>3, <2>4, Zenon DEF readdir_fs
  <2> QED BY <2>5, Zenon DEF kmain_readdir
<1>7. pc' = IF dentry' = NoEntry THEN "sti" ELSE "find" BY Zenon DEF kmain_readdir
<1>8. CASE i = 0
  <2>1. dentry' = [name |-> "dev", ino |-> 0] BY <1>6, <1>8, Zenon DEF readdir
  <2>2. dentry'.name = "dev" /\ dentry' # NoEntry BY <2>1 DEF NoEntry, NIL
  <2>3. pc' = "find" BY <1>7, <2>2, Zenon
  <2>4. i' <= Len(files)
    <3>1. i' <= n BY <1>1, <1>4, <1>8
    <3> QED BY <1>3, <3>1, Zenon
  <2> QED BY <1>1, <1>2, <1>8, <2>2, <2>3, <2>4, ListingStep
<1>9. CASE i # 0 /\ i - 1 < n
  <2>1. i - 1 \in 0 .. n - 1 /\ i <= n BY <1>4, <1>5, <1>9
  <2>2. (i - 1) % WORD = i - 1 /\ ~((i - 1) % WORD >= nroot_nodes) BY <1>4, <2>1, Numbers
  <2>3. PICK nm, o : nm = Node(i - 1).name /\ o = Node(i - 1).ino OBVIOUS
  <2>4. dentry' = [name |-> nm, ino |-> o] BY <1>6, <1>9, <2>2, <2>3, Zenon DEF readdir
  <2>5. o = i - 1 BY <1>2, <1>3, <2>1, <2>3, Nodes, Zenon
  <2>6. dentry'.name = nm /\ dentry' # NoEntry BY <2>1, <2>4, <2>5 DEF NoEntry, NIL
  <2>7. pc' = "find" BY <1>7, <2>6, Zenon
  <2>8. i' <= Len(files) BY <1>1, <1>3, <2>1, Zenon
  <2>9. dentry'.name = Node(i' - 1).name BY <1>1, <2>3, <2>6, Zenon
  <2> QED BY <1>1, <1>2, <1>9, <2>7, <2>8, <2>9, ListingStep
<1>10. CASE i # 0 /\ ~(i - 1 < n)
  <2>1. i = n + 1 BY <1>4, <1>5, <1>10
  <2>2. (i - 1) % WORD = i - 1 /\ (i - 1) % WORD >= nroot_nodes BY <1>4, <2>1, Numbers
  <2>3. dentry' = NoEntry BY <1>6, <1>10, <2>2, Zenon DEF readdir
  <2>4. pc' = "sti" BY <1>7, <2>3, Zenon
  <2>5. i' = Len(files) + 1 BY <1>1, <1>3, <2>1, Zenon
  <2> QED BY <1>1, <1>2, <2>4, <2>5, ListingStep
<1> QED BY <1>8, <1>9, <1>10

(***************************************************************************)
(* kmain looks the entry up.                                               *)
(***************************************************************************)
LEMMA FinddirStep ==
  ASSUME RamdiskInv, kmain_finddir
  PROVE  RamdiskInv'
<1>1. /\ pc = "find" /\ pc' = "show" /\ i' = i /\ listed' = listed /\ dentry' = dentry
      /\ UNCHANGED <<files, headers, root, root_nodes, nroot_nodes>>
  BY DEF kmain_finddir
<1>2. /\ AllMade /\ files \in Images /\ RootHeld
      /\ i \in 0 .. Len(files) + 1 /\ listed \in Seq(Entries) /\ Len(listed) = i
      /\ i <= Len(files) /\ dentry.name = IF i = 0 THEN "dev" ELSE Node(i - 1).name
      /\ \A k \in 0 .. i - 2 : Passed(k)
      /\ \A n \in 1 .. i : EntryRight(n, listed[n])
  BY <1>1, ListingIsLate
<1>3. ino' = finddir(ROOT, dentry.name)
  <2>1. RootSurvives /\ pc # "directories" BY <1>1, <1>2 DEF RootHeld
  <2>2. root[FLAGS] = FS_DIRECTORY /\ root[FINDDIR] = fn_finddir
    <3>1. FLAGS \in FLAGS .. FINDDIR /\ FINDDIR \in FLAGS .. FINDDIR
      BY DEF FLAGS, FINDDIR
    <3> QED BY <2>1, <3>1 DEF RootSurvives, FLAGS, READDIR, FINDDIR, READ
  <2>3. fn_finddir # 0 BY Numbers DEF fn_finddir
  <2>4. Flags(ROOT) = root[FLAGS] BY DEF Flags, ROOT, DEV
  <2>5. finddir_fs(ROOT, dentry.name) = finddir(ROOT, dentry.name)
    BY <2>2, <2>3, <2>4, Zenon DEF finddir_fs
  <2> QED BY <2>5, Zenon DEF kmain_finddir
<1>4. ino' = finddir(ROOT, dentry'.name) BY <1>1, <1>3, Zenon
<1>5. dentry'.name = IF i' = 0 THEN "dev" ELSE Node(i' - 1).name BY <1>1, <1>2, Zenon
<1> QED BY <1>1, <1>2, <1>4, <1>5, ListingStep

(***************************************************************************)
(* The smaller and the larger of two numbers.                              *)
(***************************************************************************)
LEMMA OfTwo ==
  ASSUME NEW a \in Int, NEW b \in Int
  PROVE  /\ Min({a, b}) = IF a <= b THEN a ELSE b
         /\ Max({a, b}) = IF a >= b THEN a ELSE b
<1>1. PICK m : m = IF a <= b THEN a ELSE b OBVIOUS
<1>2. m \in {a, b} /\ \A y \in {a, b} : m <= y BY <1>1
<1>3. \A x \in {a, b} : (\A y \in {a, b} : x <= y) => x = m BY <1>1
<1>4. Min({a, b}) = m BY <1>2, <1>3, Zenon DEF Min
<1>5. PICK p : p = IF a >= b THEN a ELSE b OBVIOUS
<1>6. p \in {a, b} /\ \A y \in {a, b} : p >= y BY <1>5
<1>7. \A x \in {a, b} : (\A y \in {a, b} : x >= y) => x = p BY <1>5
<1>8. Max({a, b}) = p BY <1>6, <1>7, Zenon DEF Max
<1> QED BY <1>1, <1>4, <1>5, <1>8

(***************************************************************************)
(* read of a file whose header is mapped returns what is left behind the   *)
(* offset, at most size, unless the sum of the two wraps.                  *)
(***************************************************************************)
LEMMA ReadIs ==
  ASSUME RamdiskInv, AllMade, NEW k \in 0 .. Len(files) - 1, Visible(k),
         NEW offset \in 0 .. WORD - 1, NEW size \in 0 .. WORD - 1, offset + size < WORD
  PROVE  /\ read(k, offset, size) = Min({Max({files[k + 1].length - offset, 0}), size})
         /\ files[k + 1].length \in 0 .. WORD - 1
<1>1. files \in Images /\ HeadersHeld /\ RootHeld BY Zenon DEF RamdiskInv
<1>2. PICK len : len = files[k + 1].length OBVIOUS
<1>3. Node(k).ino = k BY Nodes, Zenon
<1>4. HeaderLength(k) = len BY <1>1, <1>2, HeaderRead, Zenon
<1>5. len \in 0 .. WORD - 1
  <2>1. HeaderLength(k) \in 0 .. WORD - 1 BY <1>1, HeaderRead, Zenon
  <2> QED BY <1>4, <2>1
<1>6. HeaderLength(Node(k).ino) = len BY <1>3, <1>4, Zenon
<1>7. (offset + size) % WORD = offset + size BY Numbers
<1>8. read(k, offset, size) = CASE len < offset -> 0
                                [] len >= offset /\ offset + size > len -> len - offset
                                [] OTHER -> size
  BY <1>6, <1>7, Zenon DEF read
<1>9. WORD \in Nat BY Numbers
<1>10. PICK left : left = Max({len - offset, 0}) OBVIOUS
<1>11. left = IF len - offset >= 0 THEN len - offset ELSE 0
  <2>1. PICK d : d = len - offset OBVIOUS
  <2>2. d \in Int BY <1>5, <1>9, <2>1
  <2>3. Max({d, 0}) = IF d >= 0 THEN d ELSE 0 BY <2>2, OfTwo
  <2> QED BY <1>10, <2>1, <2>3, Zenon
<1>12. left \in Int /\ size \in Int BY <1>5, <1>9, <1>11
<1>13. Min({left, size}) = IF left <= size THEN left ELSE size BY <1>12, OfTwo
<1>14. read(k, offset, size) = Min({left, size})
  <2>1. CASE len < offset
    <3>1. read(k, offset, size) = 0 BY <1>5, <1>8, <1>9, <2>1
    <3> QED BY <1>5, <1>9, <1>11, <1>13, <2>1, <3>1
  <2>2. CASE ~(len < offset) /\ offset + size > len
    <3>1. read(k, offset, size) = len - offset BY <1>5, <1>8, <1>9, <2>2
    <3> QED BY <1>5, <1>9, <1>11, <1>13, <2>2, <3>1
  <2>3. CASE ~(len < offset) /\ ~(offset + size > len)
    <3>1. read(k, offset, size) = size BY <1>8, <2>3
    <3> QED BY <1>5, <1>9, <1>11, <1>13, <2>3, <3>1
  <2> QED BY <2>1, <2>2, <2>3
<1> QED BY <1>2, <1>5, <1>10, <1>14, Zenon

(***************************************************************************)
(* kmain's read fills its buffer or takes the whole file.                  *)
(***************************************************************************)
LEMMA ReadStart ==
  ASSUME RamdiskInv, AllMade, NEW k \in 0 .. Len(files) - 1, Visible(k)
  PROVE  /\ read(k, 0, BUF) = Min({files[k + 1].length, BUF})
         /\ read(k, 0, BUF) = 0 => files[k + 1].length = 0
<1>1. PICK len : len = files[k + 1].length OBVIOUS
<1>2. 0 \in 0 .. WORD - 1 /\ BUF \in 0 .. WORD - 1 /\ 0 + BUF < WORD BY Numbers
<1>3. /\ read(k, 0, BUF) = Min({Max({len - 0, 0}), BUF}) /\ len \in 0 .. WORD - 1
  BY <1>1, <1>2, ReadIs, Zenon
<1>4. len \in Int /\ len >= 0 /\ len - 0 = len BY <1>3, Numbers
<1>5. Max({len - 0, 0}) = len BY <1>4, OfTwo
<1>6. Min({len, BUF}) = IF len <= BUF THEN len ELSE BUF BY <1>4, Numbers, OfTwo
<1>7. Min({len, BUF}) = 0 => len = 0 BY <1>4, <1>6, Numbers
<1> QED BY <1>1, <1>3, <1>5, <1>7, Zenon

(***************************************************************************)
(* kmain reads a file whose header is mapped from where the image has it,  *)
(* and the read leaves the mapped memory exactly when the file does.       *)
(***************************************************************************)
LEMMA ReadPlace ==
  ASSUME RamdiskInv, AllMade, NEW k \in 0 .. Len(files) - 1, Visible(k)
  PROVE  Present(read_from(k, 0), read(k, 0, BUF)) <=> ~OutsideHeap(k)
<1>1. files \in Images /\ HeadersHeld /\ RootHeld BY Zenon DEF RamdiskInv
<1>2. PICK o, m, f : o = image(files)[k].offset /\ m = Min({files[k + 1].length, BUF})
                     /\ f = read_from(k, 0)
  OBVIOUS
<1>3. Node(k).ino = k BY Nodes, Zenon
<1>4. k \in 0 .. 63 BY <1>1, Slot, Zenon
<1>5. PlacesOf(k) BY <1>4, Places, Zenon
<1>6. Mapped(k, "offset") BY <1>5, Zenon DEF PlacesOf
<1>7. k < Len(root_nodes)
  <2>1. PICK n : n = Len(files) OBVIOUS
  <2>2. n \in 0 .. 64 /\ k \in 0 .. n - 1 BY <1>1, <2>1, FilesAre, Zenon
  <2>3. k < n BY <2>2
  <2> QED BY <2>1, <2>3, Zenon DEF AllMade
<1>8. headers[k].offset = o + ADDR /\ o \in Nat /\ o + ADDR < WORD
  BY <1>1, <1>2, <1>6, <1>7, HeaderIs, Zenon
<1>9. HeaderOffset(k) = o + ADDR BY <1>1, <1>8, HeaderRead, Zenon
<1>10. f = ((o + ADDR) + 0) % WORD BY <1>2, <1>3, <1>9, Zenon DEF read_from
<1>11. f = ADDR + o BY <1>8, <1>10, Numbers
<1>12. read(k, 0, BUF) = m BY <1>2, ReadStart, Zenon
<1>13. m \in Int
  <2>1. PICK len : len = files[k + 1].length OBVIOUS
  <2>2. len \in 0 .. WORD - 1
    <3>1. HeaderLength(k) \in 0 .. WORD - 1 /\ HeaderLength(k) = files[k + 1].length
      BY <1>1, HeaderRead, Zenon
    <3> QED BY <2>1, <3>1, Zenon
  <2>3. len \in Int BY <2>2, Numbers
  <2>4. Min({len, BUF}) = IF len <= BUF THEN len ELSE BUF BY <2>3, Numbers, OfTwo
  <2> QED BY <1>2, <2>1, <2>3, <2>4, Numbers
<1>14. Present(read_from(k, 0), read(k, 0, BUF)) <=> f + m <= HEAP_END
  BY <1>2, <1>12, Zenon DEF Present
<1>15. OutsideHeap(k) <=> (ADDR + o) + m > HEAP_END BY <1>2, Zenon DEF OutsideHeap
<1>16. f + m <= HEAP_END <=> ~((ADDR + o) + m > HEAP_END) BY <1>8, <1>11, <1>13, Numbers
<1> QED BY <1>14, <1>15, <1>16, Zenon

(***************************************************************************)
(* What kmain's lookup has found: dev, or the first file of the name.      *)
(***************************************************************************)
LEMMA FoundFor ==
  ASSUME RamdiskInv, pc = "show"
  PROVE  \/ dentry.name = "dev" /\ ino = DEV
         \/ /\ i \in 1 .. Len(files) /\ i - 1 \in 0 .. Len(files) - 1
            /\ dentry.name = Node(i - 1).name /\ dentry.name # "dev"
            /\ ino \in 0 .. i - 1 /\ ino \in 0 .. Len(files) - 1
            /\ Node(ino).name = Node(i - 1).name
            /\ \A j \in 0 .. i - 1 : Node(j).name = Node(i - 1).name => ino <= j
<1>1. /\ AllMade /\ files \in Images /\ NodesMade /\ i \in 0 .. Len(files) + 1
      /\ i <= Len(files) /\ dentry.name = IF i = 0 THEN "dev" ELSE Node(i - 1).name
      /\ ino = finddir(ROOT, dentry.name)
  BY ListingIsLate
<1>2. CASE dentry.name = "dev" BY <1>1, <1>2, Zenon DEF finddir
<1>3. CASE dentry.name # "dev"
  <2>1. i # 0 /\ dentry.name = Node(i - 1).name BY <1>1, <1>3, Zenon
  <2>2. PICK n : n = Len(files) OBVIOUS
  <2>3. n \in 0 .. 64 BY <1>1, <2>2, FilesAre, Zenon
  <2>4. i \in 0 .. n + 1 /\ i <= n BY <1>1, <2>2, Zenon
  <2>5. i \in 1 .. n /\ i - 1 \in 0 .. n - 1 BY <2>1, <2>3, <2>4
  <2>6. i - 1 \in 0 .. Len(files) - 1 /\ pc # "directories" BY <2>2, <2>5
  <2>7. PICK k : k = i - 1 OBVIOUS
  <2>8. /\ finddir(ROOT, Node(k).name) \in 0 .. k
        /\ Node(finddir(ROOT, Node(k).name)).name = Node(k).name
        /\ \A j \in 0 .. k : Node(j).name = Node(k).name => finddir(ROOT, Node(k).name) <= j
    BY <1>1, <1>3, <2>1, <2>6, <2>7, Found, Zenon
  <2>9. /\ ino \in 0 .. k /\ Node(ino).name = Node(k).name
        /\ \A j \in 0 .. k : Node(j).name = Node(k).name => ino <= j
    BY <1>1, <2>1, <2>7, <2>8, Zenon
  <2>10. ino \in 0 .. n - 1
    <3>1. k \in 0 .. n - 1 /\ ino \in 0 .. k BY <2>5, <2>7, <2>9, Zenon
    <3> QED BY <2>3, <3>1
  <2> QED BY <1>3, <2>1, <2>2, <2>5, <2>7, <2>9, <2>10, Zenon
<1> QED BY <1>2, <1>3

(***************************************************************************)
(* Among the headers that are mapped the one found is the first file of    *)
(* that name.                                                              *)
(***************************************************************************)
LEMMA FirstOfName ==
  ASSUME RamdiskInv, pc = "show", dentry.name # "dev", Visible(i - 1)
  PROVE  /\ i - 1 \in 0 .. Len(files) - 1 /\ dentry.name = files[(i - 1) + 1].name
         /\ ino \in 0 .. i - 1 /\ ino \in 0 .. Len(files) - 1 /\ Visible(ino)
         /\ files[ino + 1].name = files[(i - 1) + 1].name
         /\ \A j \in 0 .. ino - 1 : files[j + 1].name # files[(i - 1) + 1].name
<1>1. /\ i \in 1 .. Len(files) /\ i - 1 \in 0 .. Len(files) - 1
      /\ dentry.name = Node(i - 1).name
      /\ ino \in 0 .. i - 1 /\ ino \in 0 .. Len(files) - 1
      /\ Node(ino).name = Node(i - 1).name
      /\ \A j \in 0 .. i - 1 : Node(j).name = Node(i - 1).name => ino <= j
  BY FoundFor, Zenon
<1>2. files \in Images /\ AllMade BY ListingIsLate
<1>3. PICK k : k = i - 1 OBVIOUS
<1>4. k \in 0 .. Len(files) - 1 /\ ino \in 0 .. k /\ Visible(k) BY <1>1, <1>3, Zenon
<1>5. k \in 0 .. 63 BY <1>2, <1>4, Slot, Zenon
<1>6. k <= 52
  <2>1. PlacesOf(k) BY <1>5, Places, Zenon
  <2> QED BY <1>4, <2>1, Zenon DEF PlacesOf
<1>7. ASSUME NEW j \in 0 .. k
      PROVE  /\ Visible(j) /\ j \in 0 .. Len(files) - 1 /\ Node(j).name = files[j + 1].name
  <2>1. j \in 0 .. 63 /\ j <= 52 BY <1>5, <1>6
  <2>2. PlacesOf(j) BY <2>1, Places, Zenon
  <2>3. Visible(j) BY <2>1, <2>2, Zenon DEF PlacesOf
  <2>4. j \in 0 .. Len(files) - 1
    <3>1. PICK n : n = Len(files) OBVIOUS
    <3>2. n \in 0 .. 64 BY <1>2, <3>1, FilesAre, Zenon
    <3>3. k \in 0 .. n - 1 BY <1>4, <3>1, Zenon
    <3>4. j \in 0 .. n - 1 BY <3>2, <3>3
    <3> QED BY <3>1, <3>4, Zenon
  <2> QED BY <1>2, <2>3, <2>4, Nodes, Zenon
<1>8. k \in 0 .. k BY <1>5
<1>9. Node(k).name = files[k + 1].name BY <1>7, <1>8
<1>10. Visible(ino) /\ Node(ino).name = files[ino + 1].name BY <1>4, <1>7, Zenon
<1>11. ASSUME NEW j \in 0 .. ino - 1 PROVE files[j + 1].name # files[k + 1].name
  <2>1. j \in 0 .. k /\ ~(ino <= j) BY <1>4, <1>5
  <2>2. Node(j).name # Node(k).name BY <1>1, <1>3, <2>1, Zenon
  <2> QED BY <1>7, <1>9, <2>1, <2>2, Zenon
<1> QED BY <1>1, <1>3, <1>4, <1>9, <1>10, <1>11, Zenon

(***************************************************************************)
(* The sequence of entries when e is appended.                             *)
(***************************************************************************)
LEMMA EntryAppended ==
  ASSUME NEW s \in Seq(Entries), NEW e \in Entries
  PROVE  /\ Append(s, e) \in Seq(Entries) /\ Len(Append(s, e)) = Len(s) + 1
         /\ Append(s, e)[Len(s) + 1] = e
         /\ \A k \in 1 .. Len(s) : Append(s, e)[k] = s[k]
OBVIOUS

(***************************************************************************)
(* An entry shown for what was looked up is right.                         *)
(***************************************************************************)
LEMMA ShownRight ==
  ASSUME RamdiskInv, pc = "show", NEW e, e.name = dentry.name, e.ino = ino,
         ino # DEV => e.size = read(ino, 0, BUF)
  PROVE  EntryRight(i + 1, e)
<1>1. /\ AllMade /\ files \in Images /\ i \in 0 .. Len(files) + 1 /\ i <= Len(files)
      /\ dentry.name = IF i = 0 THEN "dev" ELSE Node(i - 1).name
      /\ ino = finddir(ROOT, dentry.name)
  BY ListingIsLate
<1>2. PICK n : n = Len(files) OBVIOUS
<1>3. n \in 0 .. 64 BY <1>1, <1>2, FilesAre, Zenon
<1>4. i \in 0 .. n
  <2>1. i \in 0 .. n + 1 /\ i <= n BY <1>1, <1>2, Zenon
  <2> QED BY <1>3, <2>1
<1>5. CASE i = 0
  <2>1. i + 1 = 1 BY <1>5
  <2>2. dentry.name = "dev" BY <1>1, <1>5, Zenon
  <2>3. ino = DEV BY <1>1, <2>2, Zenon DEF finddir
  <2> QED BY <2>1, <2>2, <2>3, Zenon DEF EntryRight
<1>6. CASE i # 0
  <2>1. PICK k : k = (i + 1) - 2 OBVIOUS
  <2>2. i + 1 # 1 /\ k = i - 1 /\ k \in 0 .. n - 1 BY <1>3, <1>4, <1>6, <2>1
  <2>3. k \in 0 .. Len(files) - 1 BY <1>2, <2>2, Zenon
  <2>4. SUFFICES ASSUME Visible(k)
                 PROVE  /\ e.name = files[k + 1].name
                        /\ Unique(k) => /\ e.ino = k
                                        /\ e.size = Min({files[k + 1].length, BUF})
    BY <2>1, <2>2, Zenon DEF EntryRight
  <2>5. e.name = files[k + 1].name
    <3>1. Node(k).name = files[k + 1].name BY <1>1, <2>3, <2>4, Nodes, Zenon
    <3>2. dentry.name = Node(k).name BY <1>1, <1>6, <2>2, Zenon
    <3> QED BY <3>1, <3>2, Zenon
  <2>6. ASSUME Unique(k)
        PROVE  e.ino = k /\ e.size = Min({files[k + 1].length, BUF})
    <3>1. dentry.name # "dev" BY <2>5, <2>6, Zenon DEF Unique
    <3>2. Visible(i - 1) BY <2>2, <2>4, Zenon
    <3>3. /\ ino \in 0 .. Len(files) - 1
          /\ files[ino + 1].name = files[(i - 1) + 1].name
      BY <3>1, <3>2, FirstOfName, Zenon
    <3>4. files[ino + 1].name = files[k + 1].name BY <2>2, <3>3, Zenon
    <3>5. ino + 1 \in DOMAIN files BY <1>1, <3>3, Slot, FilesAre, Zenon
    <3>6. ino + 1 = k + 1 BY <2>6, <3>4, <3>5, Zenon DEF Unique
    <3>7. ino \in 0 .. n - 1 BY <1>2, <3>3, Zenon
    <3>8. ino = k /\ ino # DEV BY <1>3, <2>2, <3>6, <3>7 DEF DEV
    <3>9. read(k, 0, BUF) = Min({files[k + 1].length, BUF}) BY <1>1, <2>3, <2>4, ReadStart, Zenon
    <3> QED BY <3>8, <3>9, Zenon
  <2> QED BY <2>5, <2>6, Zenon
<1> QED BY <1>5, <1>6

(***************************************************************************)
(* What is shown is an entry: a name, a reference and two numbers.         *)
(***************************************************************************)
LEMMA ShownTyped ==
  ASSUME RamdiskInv, pc = "show"
  PROVE  /\ dentry.name \in Names /\ ino \in Int
         /\ ino # DEV => read_from(ino, 0) \in Int /\ read(ino, 0, BUF) \in Int
<1>1. /\ AllMade /\ files \in Images /\ HeadersHeld /\ RootHeld BY ListingIsLate
<1>2. PICK n : n = Len(files) OBVIOUS
<1>3. n \in 0 .. 64 BY <1>1, <1>2, FilesAre, Zenon
<1>4. CASE dentry.name = "dev" /\ ino = DEV
  <2>1. "dev" \in Names BY DEF Names
  <2>2. DEV \in Int BY DEF DEV
  <2> QED BY <1>4, <2>1, <2>2, Zenon
<1>5. CASE ~(dentry.name = "dev" /\ ino = DEV)
  <2>1. /\ i - 1 \in 0 .. Len(files) - 1 /\ dentry.name = Node(i - 1).name
        /\ ino \in 0 .. Len(files) - 1
    BY <1>5, FoundFor, Zenon
  <2>2. dentry.name \in Names BY <1>1, <2>1, Nodes, Zenon
  <2>3. ino \in 0 .. n - 1 BY <1>2, <2>1, Zenon
  <2>4. ino \in Int BY <1>3, <2>3
  <2>5. Node(ino).ino = ino BY <1>1, <2>1, Nodes, Zenon
  <2>6. PICK h, len : h = HeaderOffset(ino) /\ len = HeaderLength(ino) OBVIOUS
  <2>7. h \in 0 .. WORD - 1 /\ len \in 0 .. WORD - 1 BY <1>1, <2>1, <2>6, HeaderRead
  <2>8. read_from(ino, 0) = (h + 0) % WORD BY <2>5, <2>6, Zenon DEF read_from
  <2>9. (h + 0) % WORD \in Int BY <2>7, Numbers
  <2>10. read(ino, 0, BUF) = CASE len < 0 -> 0
                               [] len >= 0 /\ (0 + BUF) % WORD > len -> len - 0
                               [] OTHER -> BUF
    BY <2>5, <2>6, Zenon DEF read
  <2>11. read(ino, 0, BUF) \in Int BY <2>7, <2>10, Numbers
  <2> QED BY <2>2, <2>4, <2>8, <2>9, <2>11, Zenon
<1> QED BY <1>4, <1>5

(***************************************************************************)
(* What was looked up is a directory exactly when it is dev; a file is     *)
(* read through read.                                                      *)
(***************************************************************************)
LEMMA KindOf ==
  ASSUME RamdiskInv, pc = "show"
  PROVE  /\ Flags(ino) = FS_DIRECTORY <=> ino = DEV
         /\ ino # DEV => read_fs(ino, 0, BUF) = read(ino, 0, BUF)
         /\ ino = DEV => dentry.name = "dev"
<1>1. AllMade /\ files \in Images BY ListingIsLate
<1>2. PICK n : n = Len(files) OBVIOUS
<1>3. n \in 0 .. 64 BY <1>1, <1>2, FilesAre, Zenon
<1>4. CASE dentry.name = "dev" /\ ino = DEV
  <2>1. Flags(DEV) = FS_DIRECTORY BY DEF Flags, ROOT, DEV
  <2> QED BY <1>4, <2>1, Zenon
<1>5. CASE ~(dentry.name = "dev" /\ ino = DEV)
  <2>1. ino \in 0 .. Len(files) - 1 BY <1>5, FoundFor, Zenon
  <2>2. ino \in 0 .. n - 1 BY <1>2, <2>1, Zenon
  <2>3. ino # DEV /\ ino # ROOT BY <1>3, <2>2 DEF DEV, ROOT
  <2>4. Node(ino).flags = FS_FILE BY <1>1, <2>1, Nodes, Zenon
  <2>5. Flags(ino) = FS_FILE BY <2>3, <2>4 DEF Flags
  <2>6. FS_FILE # FS_DIRECTORY BY DEF FS_FILE, FS_DIRECTORY
  <2>7. read_fs(ino, 0, BUF) = read(ino, 0, BUF) BY <2>3, Zenon DEF read_fs
  <2> QED BY <2>3, <2>5, <2>6, <2>7, Zenon
<1> QED BY <1>4, <1>5

(***************************************************************************)
(* Showing an entry keeps the invariant, if a file is shown only when      *)
(* something was read of it.                                               *)
(***************************************************************************)
LEMMA ShowStep ==
  ASSUME RamdiskInv, pc = "show", pc' = "list", i' = i + 1,
         NEW from \in Int, NEW size \in Int, Show(from, size),
         ino # DEV => /\ size = read(ino, 0, BUF) /\ size # 0
                      /\ from = read_from(ino, 0) /\ Present(from, size)
  PROVE  RamdiskInv'
<1>1. /\ AllMade /\ files \in Images
      /\ i \in 0 .. Len(files) + 1 /\ listed \in Seq(Entries) /\ Len(listed) = i
      /\ i <= Len(files) /\ dentry.name = IF i = 0 THEN "dev" ELSE Node(i - 1).name
      /\ \A k \in 0 .. i - 2 : Passed(k)
      /\ \A n \in 1 .. i : EntryRight(n, listed[n])
  BY ListingIsLate
<1>2. PICK n : n = Len(files) OBVIOUS
<1>3. n \in 0 .. 64 BY <1>1, <1>2, FilesAre, Zenon
<1>4. i \in 0 .. n
  <2>1. i \in 0 .. n + 1 /\ i <= n BY <1>1, <1>2, Zenon
  <2> QED BY <1>3, <2>1
<1>5. UNCHANGED <<files, headers, root, root_nodes, nroot_nodes>> BY DEF Show
<1>6. PICK nm, o : nm = dentry.name /\ o = ino OBVIOUS
<1>7. PICK e : e = [name |-> nm, ino |-> o, from |-> from, size |-> size] OBVIOUS
<1>8. e.name = nm /\ e.ino = o /\ e.size = size BY <1>7
<1>9. e \in Entries
  <2>1. nm \in Names /\ o \in Int BY <1>6, ShownTyped, Zenon
  <2> QED BY <1>7, <2>1 DEF Entries
<1>10. listed' = Append(listed, e) BY <1>6, <1>7, Zenon DEF Show
<1>11. /\ listed' \in Seq(Entries) /\ Len(listed') = i + 1
       /\ listed'[i + 1] = e
       /\ \A k \in 1 .. i : listed'[k] = listed[k]
  BY <1>1, <1>9, <1>10, EntryAppended, Zenon
<1>12. EntryRight(i + 1, e)
  BY <1>6, <1>8, ShownRight
<1>13. \A m \in 1 .. i' : EntryRight(m, listed'[m])
  <2> SUFFICES ASSUME NEW m \in 1 .. i' PROVE EntryRight(m, listed'[m]) OBVIOUS
  <2>1. m \in 1 .. i \/ m = i + 1 BY <1>4
  <2> QED BY <1>1, <1>11, <1>12, <2>1, Zenon
<1>14. i # 0 => Passed(i - 1)
  <2> SUFFICES ASSUME i # 0 PROVE Passed(i - 1) OBVIOUS
  <2>1. PICK k : k = i - 1 OBVIOUS
  <2>2. SUFFICES ASSUME Visible(k), files[k + 1].name # "dev",
                        \A j \in 0 .. k - 1 : files[j + 1].name # files[k + 1].name
                 PROVE  files[k + 1].length # 0 /\ ~OutsideHeap(k)
    BY <2>1, Zenon DEF Passed
  <2>3. k \in 0 .. n - 1 BY <1>3, <1>4, <2>1
  <2>4. k \in 0 .. Len(files) - 1 BY <1>2, <2>3, Zenon
  <2>5. dentry.name # "dev"
    <3>1. Node(k).name = files[k + 1].name BY <1>1, <2>2, <2>4, Nodes, Zenon
    <3> QED BY <1>1, <2>1, <2>2, <3>1, Zenon
  <2>6. /\ ino \in 0 .. i - 1 /\ files[ino + 1].name = files[(i - 1) + 1].name
    BY <2>1, <2>2, <2>5, FirstOfName, Zenon
  <2>7. ino \in 0 .. k /\ files[ino + 1].name = files[k + 1].name BY <2>1, <2>6, Zenon
  <2>8. ~(ino \in 0 .. k - 1) BY <2>2, <2>7, Zenon
  <2>9. ino = k
    <3>1. ino \in 0 .. k BY <2>7
    <3> QED BY <1>3, <2>3, <2>8, <3>1
  <2>10. ino # DEV BY <2>5, KindOf, Zenon
  <2>11. size = Min({files[k + 1].length, BUF}) /\ size # 0
    BY <1>1, <2>2, <2>4, <2>9, <2>10, ReadStart, Zenon
  <2>12. Min({0, BUF}) = 0 BY Numbers, OfTwo
  <2>13. Present(read_from(k, 0), read(k, 0, BUF)) BY <2>9, <2>10, Zenon
  <2>14. ~OutsideHeap(k) BY <1>1, <2>2, <2>4, <2>13, ReadPlace, Zenon
  <2> QED BY <2>11, <2>12, <2>14, Zenon
<1>15. \A k \in 0 .. i' - 2 : Passed(k)
  <2> SUFFICES ASSUME NEW k \in 0 .. i' - 2 PROVE Passed(k) OBVIOUS
  <2>1. k \in 0 .. i - 2 \/ (k = i - 1 /\ i # 0) BY <1>4
  <2> QED BY <1>1, <1>14, <2>1, Zenon
<1>16. i' \in 0 .. Len(files) + 1
  <2>1. i' \in 0 .. n + 1 BY <1>3, <1>4
  <2> QED BY <1>2, <2>1, Zenon
<1>17. listed' \in Seq(Entries) /\ Len(listed') = i' BY <1>11, Zenon
<1>18. /\ pc' \in {"list", "find", "show", "sti", "panic", "fault"}
       /\ pc' # "find" /\ pc' # "show" /\ pc' # "sti" /\ pc' # "panic" /\ pc' # "fault"
  OBVIOUS
<1> QED BY <1>1, <1>5, <1>13, <1>15, <1>16, <1>17, <1>18, ListingStep

(***************************************************************************)
(* kmain shows a directory, which is dev.                                  *)
(***************************************************************************)
LEMMA DirectoryStep ==
  ASSUME RamdiskInv, kmain_directory
  PROVE  RamdiskInv'
<1>1. /\ pc = "show" /\ Flags(ino) = FS_DIRECTORY /\ pc' = "list" /\ i' = i + 1 /\ Show(0, 0)
  BY DEF kmain_directory
<1>2. ino = DEV BY <1>1, KindOf, Zenon
<1>3. 0 \in Int OBVIOUS
<1> QED BY <1>1, <1>2, <1>3, ShowStep

(***************************************************************************)
(* kmain shows a file of which something was read.                         *)
(***************************************************************************)
LEMMA FileStep ==
  ASSUME RamdiskInv, kmain_file
  PROVE  RamdiskInv'
<1>1. /\ pc = "show" /\ Flags(ino) # FS_DIRECTORY /\ read_fs(ino, 0, BUF) # 0
      /\ Present(read_from(ino, 0), read_fs(ino, 0, BUF))
      /\ pc' = "list" /\ i' = i + 1 /\ Show(read_from(ino, 0), read_fs(ino, 0, BUF))
  BY DEF kmain_file
<1>2. ino # DEV /\ read_fs(ino, 0, BUF) = read(ino, 0, BUF) BY <1>1, KindOf, Zenon
<1>3. PICK from, size : from = read_from(ino, 0) /\ size = read_fs(ino, 0, BUF) OBVIOUS
<1>4. from \in Int /\ size \in Int BY <1>1, <1>2, <1>3, ShownTyped, Zenon
<1>5. /\ Show(from, size) /\ size = read(ino, 0, BUF) /\ size # 0
      /\ from = read_from(ino, 0) /\ Present(from, size)
  BY <1>1, <1>2, <1>3, Zenon
<1> QED BY <1>1, <1>4, <1>5, ShowStep

(***************************************************************************)
(* The page fault: at a file of which something is to be read and whose    *)
(* header is mapped, the data is behind the heap.  An earlier file of the  *)
(* name would have stopped the listing before.                             *)
(***************************************************************************)
LEMMA PageFaultStep ==
  ASSUME RamdiskInv, kmain_page_fault
  PROVE  RamdiskInv'
<1>1. /\ pc = "show" /\ Flags(ino) # FS_DIRECTORY
      /\ ~Present(read_from(ino, 0), read_fs(ino, 0, BUF))
      /\ pc' = "fault" /\ i' = i /\ listed' = listed
      /\ UNCHANGED <<files, headers, root, root_nodes, nroot_nodes>>
  BY DEF kmain_page_fault
<1>2. ino # DEV /\ ~Present(read_from(ino, 0), read(ino, 0, BUF)) BY <1>1, KindOf, Zenon
<1>3. /\ AllMade /\ files \in Images
      /\ i \in 0 .. Len(files) + 1 /\ listed \in Seq(Entries) /\ Len(listed) = i
      /\ i <= Len(files)
      /\ \A k \in 0 .. i - 2 : Passed(k)
      /\ \A n \in 1 .. i : EntryRight(n, listed[n])
  BY <1>1, ListingIsLate
<1>4. i \in 1 .. Len(files) /\ dentry.name # "dev" BY <1>1, <1>2, FoundFor, Zenon
<1>5. OutsideHeap(i - 1) \/ ~Visible(i - 1)
  <2> SUFFICES ASSUME Visible(i - 1) PROVE OutsideHeap(i - 1) OBVIOUS
  <2>1. /\ i - 1 \in 0 .. Len(files) - 1 /\ dentry.name = files[(i - 1) + 1].name
        /\ ino \in 0 .. i - 1 /\ ino \in 0 .. Len(files) - 1 /\ Visible(ino)
        /\ files[ino + 1].name = files[(i - 1) + 1].name
        /\ \A j \in 0 .. ino - 1 : files[j + 1].name # files[(i - 1) + 1].name
    BY <1>1, <1>4, FirstOfName, Zenon
  <2>2. OutsideHeap(ino) BY <1>2, <1>3, <2>1, ReadPlace, Zenon
  <2>3. ~Passed(ino) BY <1>4, <2>1, <2>2, Zenon DEF Passed
  <2>4. ~(ino \in 0 .. i - 2) BY <1>3, <2>3, Zenon
  <2>5. PICK n : n = Len(files) OBVIOUS
  <2>6. n \in 0 .. 64 BY <1>3, <2>5, FilesAre, Zenon
  <2>7. i \in 1 .. n /\ ino \in 0 .. i - 1 BY <1>4, <2>1, <2>5, Zenon
  <2>8. ino = i - 1 BY <2>4, <2>6, <2>7
  <2> QED BY <2>2, <2>8, Zenon
<1>6. pc' # "find" /\ pc' # "show" /\ pc' # "sti" /\ pc' # "panic" BY <1>1
<1> QED BY <1>1, <1>3, <1>5, <1>6, ListingStep

(***************************************************************************)
(* kmain panics at a file of which nothing can be read: it is empty, or    *)
(* its header is not mapped.                                               *)
(***************************************************************************)
LEMMA NullSizeStep ==
  ASSUME RamdiskInv, kmain_null_size
  PROVE  RamdiskInv'
<1>1. /\ pc = "show" /\ Flags(ino) # FS_DIRECTORY /\ read_fs(ino, 0, BUF) = 0
      /\ pc' = "panic" /\ i' = i /\ listed' = listed
      /\ UNCHANGED <<files, headers, root, root_nodes, nroot_nodes>>
  BY DEF kmain_null_size
<1>2. ino # DEV /\ read(ino, 0, BUF) = 0 BY <1>1, KindOf, Zenon
<1>3. /\ AllMade /\ files \in Images
      /\ i \in 0 .. Len(files) + 1 /\ listed \in Seq(Entries) /\ Len(listed) = i
      /\ i <= Len(files)
      /\ \A k \in 0 .. i - 2 : Passed(k)
      /\ \A n \in 1 .. i : EntryRight(n, listed[n])
  BY <1>1, ListingIsLate
<1>4. i \in 1 .. Len(files) /\ dentry.name # "dev" BY <1>1, <1>2, FoundFor, Zenon
<1>5. files[i].length = 0 \/ ~Visible(i - 1)
  <2> SUFFICES ASSUME Visible(i - 1) PROVE files[i].length = 0 OBVIOUS
  <2>1. /\ i - 1 \in 0 .. Len(files) - 1 /\ dentry.name = files[(i - 1) + 1].name
        /\ ino \in 0 .. i - 1 /\ ino \in 0 .. Len(files) - 1 /\ Visible(ino)
        /\ files[ino + 1].name = files[(i - 1) + 1].name
        /\ \A j \in 0 .. ino - 1 : files[j + 1].name # files[(i - 1) + 1].name
    BY <1>1, <1>4, FirstOfName, Zenon
  <2>2. files[ino + 1].length = 0 BY <1>2, <1>3, <2>1, ReadStart, Zenon
  <2>3. ~Passed(ino) BY <1>4, <2>1, <2>2, Zenon DEF Passed
  <2>4. ~(ino \in 0 .. i - 2) BY <1>3, <2>3, Zenon
  <2>5. PICK n : n = Len(files) OBVIOUS
  <2>6. n \in 0 .. 64 BY <1>3, <2>5, FilesAre, Zenon
  <2>7. i \in 1 .. n /\ ino \in 0 .. i - 1 BY <1>4, <2>1, <2>5, Zenon
  <2>8. ino + 1 = i BY <2>4, <2>6, <2>7
  <2> QED BY <2>2, <2>8, Zenon
<1>6. pc' # "find" /\ pc' # "show" /\ pc' # "sti" /\ pc' # "fault" BY <1>1
<1> QED BY <1>1, <1>3, <1>5, <1>6, ListingStep

(***************************************************************************)
(* A state that repeats keeps the invariant.                               *)
(***************************************************************************)
LEMMA RamdiskStutter ==
  ASSUME RamdiskInv, UNCHANGED vars
  PROVE  RamdiskInv'
<1>1. /\ files' = files /\ headers' = headers /\ root' = root /\ root_nodes' = root_nodes
      /\ nroot_nodes' = nroot_nodes /\ pc' = pc /\ i' = i /\ dentry' = dentry
      /\ ino' = ino /\ listed' = listed
  BY DEF vars
<1>2. NodesMade => NodesMade'
  BY <1>1, Zenon DEF NodesMade, Node, Visible, Mapped, Names, Inodes
<1>3. HeadersHeld => HeadersHeld' BY <1>1, HeadersKept, Zenon
<1>4. RootHeld => RootHeld' BY <1>1, Zenon DEF RootHeld, RootSurvives, fn_readdir, fn_finddir
<1>5. finddir(ROOT, dentry.name)' = finddir(ROOT, dentry.name)
  BY <1>1, Zenon DEF finddir, Node, ROOT, DEV, NIL
<1>6. ListingMade => ListingMade'
  BY <1>1, <1>5, Zenon DEF ListingMade, Node, Visible, Mapped, OutsideHeap, Names, Entries
<1>7. readdir_fs(DEV, 0)' = readdir_fs(DEV, 0)
  BY <1>1, Zenon DEF readdir_fs, readdir, Flags, Node, NoEntry, ROOT, DEV
<1>8. ListingInOrder => ListingInOrder'
  BY <1>1, <1>7, Zenon DEF ListingInOrder, Visible, Mapped, Unique, OutsideHeap, DEV, NoEntry
<1> QED BY <1>1, <1>2, <1>3, <1>4, <1>6, <1>8, Zenon DEF RamdiskInv

-----------------------------------------------------------------------------
(***************************************************************************)
(* RamdiskInv is an invariant of the mount and of kmain's listing, for     *)
(* every image of up to 64 files that fits into memory.                    *)
(***************************************************************************)
THEOREM RamdiskInvariant == Spec => []RamdiskInv
<1>1. RamdiskInv /\ [Next]_vars => RamdiskInv'
  <2> SUFFICES ASSUME RamdiskInv, [Next]_vars PROVE RamdiskInv' OBVIOUS
  <2>1. CASE ramdisk_init BY <2>1, InitStep
  <2>2. CASE ramdisk_node BY <2>2, NodeStep
  <2>3. CASE ramdisk_done BY <2>3, DoneStep
  <2>4. CASE kmain_readdir BY <2>4, ReaddirStep
  <2>5. CASE kmain_finddir BY <2>5, FinddirStep
  <2>6. CASE kmain_directory BY <2>6, DirectoryStep
  <2>7. CASE kmain_file BY <2>7, FileStep
  <2>8. CASE kmain_null_size BY <2>8, NullSizeStep
  <2>9. CASE kmain_page_fault BY <2>9, PageFaultStep
  <2>10. CASE Halt BY <2>10, RamdiskStutter DEF Halt
  <2>11. CASE UNCHANGED vars BY <2>11, RamdiskStutter
  <2> QED
    BY <2>1, <2>2, <2>3, <2>4, <2>5, <2>6, <2>7, <2>8, <2>9, <2>10, <2>11, Zenon DEF Next
<1> QED BY <1>1, InitInv, PTL DEF Spec

(***************************************************************************)
(* kmain lists dev and then the files in the order of initrd.c, finds each *)
(* file with a name of its own and reads it to its length or to the size   *)
(* of its buffer.  It stops early only at a file that is empty or whose    *)
(* header is not mapped, and faults only at one whose data is behind the   *)
(* heap (or whose header is not mapped).                                   *)
(***************************************************************************)
THEOREM ListingIsRight == Spec => []ListingInOrder
<1>1. RamdiskInv => ListingInOrder BY DEF RamdiskInv
<1> QED BY <1>1, RamdiskInvariant, PTL

(***************************************************************************)
(* The relocation of headers that are not mapped, which ramdisk_init       *)
(* writes into the root inode, spares what the file system uses of it.     *)
(***************************************************************************)
THEOREM RootIsSpared == Spec => []RootSurvives
<1>1. RamdiskInv => RootSurvives BY DEF RamdiskInv, RootHeld
<1> QED BY <1>1, RamdiskInvariant, PTL

(***************************************************************************)
(* read of a file returns what is left of it, for all offsets and sizes    *)
(* whose sum does not wrap.                                                *)
(***************************************************************************)
THEOREM ReadsStayWithin == Spec => []ReadWithinFile
<1>1. ASSUME RamdiskInv PROVE ReadWithinFile
  <2> SUFFICES ASSUME pc = "list", NEW k \in 0 .. nroot_nodes - 1, NEW offset \in Offsets,
                      NEW size \in Sizes, Visible(k), offset + size < WORD
               PROVE  read(k, offset, size) =
                        Min({Max({files[k + 1].length - offset, 0}), size})
    BY Zenon DEF ReadWithinFile
  <2>1. AllMade BY <1>1, ListingIsLate
  <2>2. nroot_nodes = Len(files) BY <1>1, <2>1, Nodes, Zenon
  <2>3. k \in 0 .. Len(files) - 1 BY <2>2, Zenon
  <2>4. offset \in 0 .. WORD - 1 /\ size \in 0 .. WORD - 1
    <3>1. Offsets \union Sizes \subseteq 0 .. WORD - 1 BY RamdiskAssumption, SMT
    <3> QED BY <3>1
  <2> QED BY <1>1, <2>1, <2>3, <2>4, ReadIs, Zenon
<1>2. RamdiskInv => ReadWithinFile BY <1>1
<1> QED BY <1>2, RamdiskInvariant, PTL

(***************************************************************************)
(* The relocated offsets give every file memory of its own, behind the     *)
(* table of headers and in the order of the files.                         *)
(***************************************************************************)
THEOREM FilesStayApart == Spec => []FilesApart
<1>1. ASSUME RamdiskInv PROVE FilesApart
  <2> SUFFICES ASSUME pc = "list" PROVE FilesApart BY Zenon DEF FilesApart
  <2>1. AllMade /\ files \in Images /\ HeadersHeld /\ RootHeld BY <1>1, ListingIsLate
  <2>2. PICK n : n = Len(files) OBVIOUS
  <2>3. n \in 0 .. 64 /\ nroot_nodes = n BY <1>1, <2>1, <2>2, Nodes, Zenon
  <2>4. Len(root_nodes) = n BY <2>1, <2>2, Zenon DEF AllMade
  <2>5. PICK im : im = image(files) OBVIOUS
  <2>6. ImageOK(files, im) BY <2>1, <2>5, ImageGood, Zenon
  <2>7. ASSUME NEW k \in 0 .. n - 1, k <= 52
        PROVE  /\ HeaderOffset(k) = im[k].offset + ADDR /\ HeaderLength(k) = im[k].length
               /\ im[k].offset \in Nat /\ im[k].length \in Nat /\ 4868 <= im[k].offset
    <3>1. k \in 0 .. Len(files) - 1 BY <2>2, Zenon
    <3>2. k \in 0 .. 63 BY <2>1, <3>1, Slot, Zenon
    <3>3. PlacesOf(k) BY <3>2, Places, Zenon
    <3>4. Visible(k) /\ Mapped(k, "offset") BY <2>7, <3>3, Zenon DEF PlacesOf
    <3>5. HeaderLength(k) = files[k + 1].length /\ HeaderOffset(k) = headers[k].offset
      BY <2>1, <3>1, <3>4, HeaderRead, Zenon
    <3>6. k < Len(root_nodes)
      <4>1. k < n BY <2>3
      <4> QED BY <2>4, <4>1, Zenon
    <3>7. headers[k].offset = im[k].offset + ADDR
      BY <2>1, <2>5, <3>1, <3>4, <3>6, HeaderIs, Zenon
    <3>8. PICK r : r = im[k] OBVIOUS
    <3>9. /\ r \in [name : STRING, offset : Nat, length : 0 .. WORD - 1]
          /\ r.length = files[k + 1].length /\ 4868 <= r.offset
      BY <2>6, <3>1, <3>8 DEF ImageOK
    <3>10. r.offset \in Nat /\ r.length \in Nat BY <3>9, Numbers
    <3> QED BY <3>5, <3>7, <3>8, <3>9, <3>10
  <2>8. ASSUME NEW k \in 0 .. nroot_nodes - 1, Visible(k)
        PROVE  /\ HeaderOffset(k) >= ADDR + At(SLOTS - 1, "length") + 4
               /\ \A j \in 0 .. k - 1 : HeaderOffset(j) + HeaderLength(j) <= HeaderOffset(k)
    <3>1. k \in 0 .. n - 1 /\ k \in 0 .. 63 BY <2>3
    <3>2. PlacesOf(k) BY <3>1, Places, Zenon
    <3>3. k <= 52 BY <2>8, <3>2, Zenon DEF PlacesOf
    <3>4. At(SLOTS - 1, "length") = 4864 BY Numbers DEF At
    <3>5. PICK o : o = im[k].offset OBVIOUS
    <3>6. HeaderOffset(k) = o + ADDR /\ o \in Nat /\ 4868 <= o BY <2>7, <3>1, <3>3, <3>5
    <3>7. HeaderOffset(k) >= ADDR + At(SLOTS - 1, "length") + 4 BY <3>4, <3>6, Numbers
    <3>8. ASSUME NEW j \in 0 .. k - 1 PROVE HeaderOffset(j) + HeaderLength(j) <= HeaderOffset(k)
      <4>1. j \in 0 .. n - 1 /\ j <= 52 BY <2>3, <3>1, <3>3
      <4>2. PICK p, l : p = im[j].offset /\ l = im[j].length OBVIOUS
      <4>3. HeaderOffset(j) = p + ADDR /\ HeaderLength(j) = l /\ p \in Nat /\ l \in Nat
        BY <2>7, <4>1, <4>2
      <4>4. k \in 0 .. Len(files) - 1 BY <2>2, <3>1, Zenon
      <4>5. im[j].offset + im[j].length <= im[k].offset BY <2>6, <4>4 DEF ImageOK
      <4>6. p + l <= o BY <3>5, <4>2, <4>5, Zenon
      <4> QED BY <3>6, <4>3, <4>6, Numbers
    <3> QED BY <3>7, <3>8
  <2> QED BY <2>8, Zenon DEF FilesApart
<1>2. RamdiskInv => FilesApart BY <1>1
<1> QED BY <1>2, RamdiskInvariant, PTL

(***************************************************************************)
(* The types, and that kmain never follows a NULL node.                    *)
(***************************************************************************)
THEOREM RamdiskTypes == Spec => []RamdiskTypeOK
<1>1. ASSUME RamdiskInv PROVE RamdiskTypeOK
  <2>1. files \in Images /\ NodesMade /\ HeadersHeld /\ RootHeld /\ ListingMade
    BY <1>1, Zenon DEF RamdiskInv
  <2>2. PICK n : n = Len(files) OBVIOUS
  <2>3. n \in 0 .. 64 BY <2>1, <2>2, FilesAre, Zenon
  <2>4. DOMAIN headers = 0 .. Len(files) - 1 BY <2>1 DEF HeadersHeld
  <2>5. \A k \in DOMAIN headers : headers[k].offset \in 0 .. WORD - 1
    BY <2>1, <2>4, HeaderIs, Zenon
  <2>6. \A w \in DOMAIN root : root[w] \in 0 .. WORD - 1 BY <2>1 DEF RootHeld
  <2>7. /\ pc \in {"directories", "nodes", "list", "find", "show", "sti", "panic", "fault"}
        /\ i \in 0 .. n + 1
        /\ pc \in {"directories", "nodes"} => i <= n
        /\ pc = "directories" => i = 0
    BY <2>1, <2>2 DEF ListingMade
  <2>8. i \in 0 .. SLOTS + 1 BY <2>3, <2>7, Numbers
  <2>9. nroot_nodes = IF pc = "directories" THEN 0 ELSE n
    BY <2>1, <2>2, Zenon DEF NodesMade
  <2>10. Len(root_nodes) = IF pc = "directories" THEN 0 ELSE IF pc = "nodes" THEN i ELSE n
    BY <2>1, <2>2, Zenon DEF NodesMade
  <2>11. nroot_nodes \in 0 .. SLOTS BY <2>3, <2>9, Numbers
  <2>12. PICK l : l = Len(root_nodes) OBVIOUS
  <2>13. l <= nroot_nodes BY <2>3, <2>7, <2>9, <2>10, <2>12
  <2>14. pc = "show" => ino \in {DEV} \union (0 .. nroot_nodes - 1)
    <3> SUFFICES ASSUME pc = "show" PROVE ino \in {DEV} \union (0 .. nroot_nodes - 1) OBVIOUS
    <3>1. ino = DEV \/ ino \in 0 .. Len(files) - 1 BY <1>1, FoundFor, Zenon
    <3>2. nroot_nodes = Len(files) BY <2>2, <2>9
    <3> QED BY <3>1, <3>2, Zenon
  <2> QED BY <2>1, <2>4, <2>5, <2>6, <2>7, <2>8, <2>11, <2>12, <2>13, <2>14, Zenon
        DEF RamdiskTypeOK
<1>2. RamdiskInv => RamdiskTypeOK BY <1>1
<1> QED BY <1>2, RamdiskInvariant, PTL
=============================================================================
