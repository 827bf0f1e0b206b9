------------------------------ MODULE MCRamdisk ------------------------------
(***************************************************************************)
(* Instance of Ramdisk for TLC, with the sizes of the source: every image  *)
(* of up to two files, with equal names and one named dev among them, and  *)
(* images at the limits: the last header that is mapped, the first that is *)
(* not, the one that falls on the pointer read of root, the full table,    *)
(* and a file the last byte of which that kmain reads is the last one of   *)
(* the heap, or the first behind it.                                       *)
(***************************************************************************)
EXTENDS Ramdisk, TLC

File == [name : {"a", "b", "dev"}, length : {0, 3, 300}]

AtHeapEnd ==
  {<< [name |-> "f1",
       length |-> HEAP_END - ADDR - (HEADER * SLOTS + 4) - Min({length, BUF}) + past],
      [name |-> "f2", length |-> length] >> : length \in {20, 300}, past \in {0, 1}}

MCImages ==
  UNION {[1 .. n -> File] : n \in 0 .. 2}
    \union {[k \in 1 .. n |-> [name |-> "f" \o ToString(k), length |-> 20]] :
              n \in {53, 54, 55, 56, 64}}
    \union AtHeapEnd

SmallImages == [1 .. 1 -> File]

MCOffsets == {0, 2, 3, 4, 299, 300, 301, WORD - 1}
MCSizes == {0, 1, 3, 256, 300, WORD - 2, WORD - 1}
=============================================================================
