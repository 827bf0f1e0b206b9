------------------------------- MODULE Ramdisk -------------------------------
(***************************************************************************)
(* The initial ramdisk: misc/initrd.c writes the image, kmain maps its     *)
(* first page at ADDR and calls ramdisk_init, then lists and reads every   *)
(* file through fs/vfs.c.  Behind the mapped page the addresses belong to  *)
(* the heap, and the page at ADDR + PAGE is the one of the root inode: the *)
(* headers that do not fit into the first page are words of that inode.    *)
(* The loader has filled the heap with zeros.  It ends at HEAP_END, which  *)
(* is the end of what init_paging maps: a read behind it is a page fault.  *)
(***************************************************************************)
EXTENDS Integers, Sequences, FiniteSetsExt

CONSTANTS
  Images,         \* the sequences of [name, length] given to initrd.c
  ADDR,           \* mod_new_addr
  HEAP_END,       \* _EARLY_KMALLOC_END and _KERNEL_END of linker.ld
  PAGE,           \* 2^12
  WORD,           \* stands for 2^32
  HEADER,         \* sizeof(initrd_file_header_t)
  SLOTS,          \* headers in every image
  BUF,            \* bytes of kmain's buf
  Offsets, Sizes  \* arguments with which read is compared with its reference

\* A file on the command line of initrd.c.
Arguments == [name : STRING, length : 0 .. WORD - 1]

ASSUME RamdiskAssumption ==
  /\ {ADDR, HEAP_END, PAGE, WORD, HEADER, SLOTS, BUF} \subseteq Nat \ {0}
  \* the page of the root inode is in the heap
  /\ ADDR + 2 * PAGE <= HEAP_END /\ HEAP_END <= WORD
  \* the sizes of the source: paging.h, ramdisk.h and initrd.c
  /\ PAGE = 4096 /\ HEADER = 76 /\ SLOTS = 64
  /\ ADDR < WORD /\ BUF < WORD /\ HEADER * SLOTS < WORD
  /\ \A fs \in Images : fs \in Seq(Arguments) /\ Len(fs) <= SLOTS
  /\ Offsets \union Sizes \subseteq 0 .. WORD - 1

VARIABLES
  files,          \* the arguments of initrd.c
  headers,        \* the file headers in the image
  root,           \* the words at the page of the root inode that headers reach
  root_nodes, nroot_nodes,
  pc, i,
  dentry, ino,    \* what readdir_fs and finddir_fs returned
  listed          \* history: the entries kmain has shown

vars == <<files, headers, root, root_nodes, nroot_nodes, pc, i, dentry, ino, listed>>

\* References to inodes other than root_nodes[k].
ROOT == -3
DEV == -1
NIL == -2

FS_FILE == 1
FS_DIRECTORY == 2

\* inode_t as words: name, ..., flags, ..., read, ..., readdir, finddir.
FLAGS == 35
READ == 39
READDIR == 43
FINDDIR == 44

\* Addresses of functions, and the bytes of "initrd" as two words.
fn_readdir == WORD - 1
fn_finddir == WORD - 2
name_words == <<WORD - 3, WORD - 4>>

NoEntry == [name |-> "none", ino |-> NIL]
Empty == ""
Garbage == "?"

-----------------------------------------------------------------------------
\* Bug: the length of the file is not added to the offset.
image_same(fs) ==
  [k \in 0 .. Len(fs) - 1 |->
    [name |-> fs[k + 1].name, offset |-> HEADER * SLOTS + 4, length |-> fs[k + 1].length]]

\* main of initrd.c: where each file starts, behind the table of headers.
image(fs) ==
  LET off[k \in 0 .. Len(fs)] ==
        IF k = 0 THEN HEADER * SLOTS + 4 ELSE off[k - 1] + fs[k].length
  IN [k \in 0 .. Len(fs) - 1 |->
       [name |-> fs[k + 1].name, offset |-> off[k], length |-> fs[k + 1].length]]

\* The loader has placed the whole image in memory.
ASSUME ImagesFit ==
  \A fs \in Images : \A k \in DOMAIN image(fs) :
    ADDR + image(fs)[k].offset + image(fs)[k].length < WORD

Init ==
  /\ files \in Images
  /\ headers = image(files)
  /\ root = [w \in 0 .. (HEADER * SLOTS + 4 - PAGE) \div 4 |-> 0]
  /\ root_nodes = <<>> /\ nroot_nodes = 0
  /\ pc = "directories" /\ i = 0
  /\ dentry = NoEntry /\ ino = NIL
  /\ listed = <<>>

\* The byte of field f of file_headers[k], and the word of the root inode
\* that is there when it is behind the first page.
At(k, f) == 4 + HEADER * k + (CASE f = "name" -> 1 [] f = "offset" -> 68 [] f = "length" -> 72)
Mapped(k, f) == At(k, f) < PAGE
RootWord(k, f) == (At(k, f) - PAGE) \div 4

HeaderLength(k) ==
  IF Mapped(k, "length") THEN headers[k].length ELSE root[RootWord(k, "length")]
HeaderOffset(k) ==
  IF Mapped(k, "offset") THEN headers[k].offset ELSE root[RootWord(k, "offset")]
HeaderName(k) ==
  IF Mapped(k, "name") THEN headers[k].name
  ELSE IF root[RootWord(k, "name")] = 0 THEN Empty ELSE Garbage

\* ramdisk_init up to the loop: root and dev, and the number of files.
ramdisk_init ==
  /\ pc = "directories"
  /\ root' = [root EXCEPT ![0] = name_words[1], ![1] = name_words[2],
                          ![FLAGS] = FS_DIRECTORY, ![READ] = 0,
                          ![READDIR] = fn_readdir, ![FINDDIR] = fn_finddir]
  /\ nroot_nodes' = Len(files)
  /\ pc' = "nodes"
  /\ UNCHANGED <<files, headers, root_nodes, i, dentry, ino, listed>>

\* Bug: the loop relocates the length.
relocated_length == "length"

\* The field of the header that is made relative to the start of memory.
relocated == "offset"

\* An iteration of the loop of ramdisk_init.
ramdisk_node ==
  /\ pc = "nodes"
  /\ i < nroot_nodes
  /\ IF Mapped(i, relocated)
     THEN /\ headers' = [headers EXCEPT ![i][relocated] = (@ + ADDR) % WORD]
          /\ UNCHANGED root
     ELSE /\ root' = [root EXCEPT ![RootWord(i, relocated)] = (@ + ADDR) % WORD]
          /\ UNCHANGED headers
  /\ root_nodes' = Append(root_nodes, [name |-> HeaderName(i), length |-> HeaderLength(i),
                                       ino |-> i, flags |-> FS_FILE])
  /\ i' = i + 1
  /\ UNCHANGED <<files, nroot_nodes, pc, dentry, ino, listed>>

ramdisk_done ==
  /\ pc = "nodes"
  /\ i >= nroot_nodes
  /\ pc' = "list" /\ i' = 0
  /\ UNCHANGED <<files, headers, root, root_nodes, nroot_nodes, dentry, ino, listed>>

-----------------------------------------------------------------------------
Node(k) == root_nodes[k + 1]

Flags(node) ==
  CASE node = ROOT -> root[FLAGS] [] node = DEV -> FS_DIRECTORY [] OTHER -> Node(node).flags

\* Bug: index-- is missing.
readdir_undecremented(node, index) ==
  IF node = ROOT /\ index = 0 THEN [name |-> "dev", ino |-> 0]
  ELSE IF index >= nroot_nodes THEN NoEntry
  ELSE [name |-> Node(index).name, ino |-> Node(index).ino]

\* index-- is unsigned: entry 0 of dev becomes the last index of all.
readdir(node, index) ==
  LET k == (index - 1) % WORD
  IN IF node = ROOT /\ index = 0 THEN [name |-> "dev", ino |-> 0]
     ELSE IF k >= nroot_nodes THEN NoEntry
     ELSE [name |-> Node(k).name, ino |-> Node(k).ino]

\* Bug: the last node is not compared.
finddir_short(node, name) ==
  LET same == {k \in 0 .. nroot_nodes - 2 : Node(k).name = name}
  IN IF node = ROOT /\ name = "dev" THEN DEV
     ELSE IF same = {} THEN NIL ELSE Min(same)

finddir(node, name) ==
  LET same == {k \in 0 .. nroot_nodes - 1 : Node(k).name = name}
  IN IF node = ROOT /\ name = "dev" THEN DEV
     ELSE IF same = {} THEN NIL ELSE Min(same)

readdir_fs(node, index) ==
  IF Flags(node) = FS_DIRECTORY /\ (node = ROOT => root[READDIR] # 0)
  THEN readdir(node, index) ELSE NoEntry

finddir_fs(node, name) ==
  IF Flags(node) = FS_DIRECTORY /\ (node = ROOT => root[FINDDIR] # 0)
  THEN finddir(node, name) ELSE NIL

\* Bug: a request past the end of the file is refused, not clipped.
read_whole(node, offset, size) ==
  IF (offset + size) % WORD > HeaderLength(Node(node).ino) THEN 0 ELSE size

\* read: the number of bytes it copies and returns ...
read(node, offset, size) ==
  LET length == HeaderLength(Node(node).ino)
  IN CASE length < offset -> 0
       [] length >= offset /\ (offset + size) % WORD > length -> length - offset
       [] OTHER -> size

\* ... and the address it copies them from.
read_from(node, offset) == (HeaderOffset(Node(node).ino) + offset) % WORD

\* From ADDR on, every page is present up to the end of the heap.
Present(from, size) == from + size <= HEAP_END

\* Every file has read, dev has none, root one when its pointer is overwritten.
read_fs(node, offset, size) ==
  IF node = DEV \/ (node = ROOT /\ root[READ] = 0) THEN 0 ELSE read(node, offset, size)

-----------------------------------------------------------------------------
\* The loop of kmain over the root directory.
kmain_readdir ==
  /\ pc = "list"
  /\ dentry' = readdir_fs(ROOT, i)
  /\ pc' = IF dentry' = NoEntry THEN "sti" ELSE "find"
  /\ UNCHANGED <<files, headers, root, root_nodes, nroot_nodes, i, ino, listed>>

kmain_finddir ==
  /\ pc = "find"
  /\ ino' = finddir_fs(ROOT, dentry.name)
  /\ pc' = "show"
  /\ UNCHANGED <<files, headers, root, root_nodes, nroot_nodes, i, dentry, listed>>

(***************************************************************************)
(* An entry shown, with the bytes that were read of it.  kmain prints its  *)
(* buffer with %s, and read leaves no terminator there: what the text      *)
(* shows behind a file without a byte 0 is left out.                       *)
(***************************************************************************)
Show(from, size) ==
  /\ listed' = Append(listed, [name |-> dentry.name, ino |-> ino, from |-> from, size |-> size])
  /\ UNCHANGED <<files, headers, root, root_nodes, nroot_nodes, dentry, ino>>

\* Bug: continue instead of i++ after a directory.
kmain_directory_again ==
  /\ pc = "show" /\ ino # NIL
  /\ Flags(ino) = FS_DIRECTORY
  /\ pc' = "list"
  /\ UNCHANGED <<files, headers, root, root_nodes, nroot_nodes, i, dentry, ino, listed>>

kmain_directory ==
  /\ pc = "show" /\ ino # NIL
  /\ Flags(ino) = FS_DIRECTORY
  /\ pc' = "list" /\ i' = i + 1
  /\ Show(0, 0)

kmain_file ==
  /\ pc = "show" /\ ino # NIL
  /\ Flags(ino) # FS_DIRECTORY
  /\ read_fs(ino, 0, BUF) # 0
  /\ Present(read_from(ino, 0), read_fs(ino, 0, BUF))
  /\ pc' = "list" /\ i' = i + 1
  /\ Show(read_from(ino, 0), read_fs(ino, 0, BUF))

\* The memcpy of read leaves the mapped memory: page_fault_handler panics.
kmain_page_fault ==
  /\ pc = "show" /\ ino # NIL
  /\ Flags(ino) # FS_DIRECTORY
  /\ read_fs(ino, 0, BUF) # 0
  /\ ~Present(read_from(ino, 0), read_fs(ino, 0, BUF))
  /\ pc' = "fault"
  /\ UNCHANGED <<files, headers, root, root_nodes, nroot_nodes, i, dentry, ino, listed>>

\* panic("NULL size file %s")
kmain_null_size ==
  /\ pc = "show" /\ ino # NIL
  /\ Flags(ino) # FS_DIRECTORY
  /\ read_fs(ino, 0, BUF) = 0
  /\ pc' = "panic"
  /\ UNCHANGED <<files, headers, root, root_nodes, nroot_nodes, i, dentry, ino, listed>>

\* Interrupts on and the idle loop, or the end of one of the two panics.
Halt == pc \in {"sti", "panic", "fault"} /\ UNCHANGED vars

Next ==
  \/ ramdisk_init \/ ramdisk_node \/ ramdisk_done
  \/ kmain_readdir \/ kmain_finddir
  \/ kmain_directory \/ kmain_file \/ kmain_page_fault \/ kmain_null_size
  \/ Halt

\* One processor, interrupts off: it executes the next instruction.
Spec == Init /\ [][Next]_vars /\ WF_vars(Next)

-----------------------------------------------------------------------------

\* Type invariant; the node pointer is never NULL when kmain follows it.
RamdiskTypeOK ==
  /\ files \in Images
  /\ DOMAIN headers = 0 .. Len(files) - 1
  /\ \A k \in DOMAIN headers : headers[k].offset \in 0 .. WORD - 1
  /\ \A w \in DOMAIN root : root[w] \in 0 .. WORD - 1
  /\ nroot_nodes \in 0 .. SLOTS /\ Len(root_nodes) <= nroot_nodes
  /\ pc \in {"directories", "nodes", "list", "find", "show", "sti", "panic", "fault"}
  /\ i \in 0 .. SLOTS + 1
  /\ pc = "show" => ino \in {DEV} \union (0 .. nroot_nodes - 1)

\* The whole header of file k is in the page that is mapped.
Visible(k) == Mapped(k, "length")

\* No other entry of the root directory has the name of file k.
Unique(k) ==
  /\ files[k + 1].name # "dev"
  /\ \A j \in DOMAIN files : files[j].name = files[k + 1].name => j = k + 1

\* What kmain would read of file k is not all in front of the end of the heap.
OutsideHeap(k) ==
  ADDR + image(files)[k].offset + Min({files[k + 1].length, BUF}) > HEAP_END

(***************************************************************************)
(* kmain shows dev, then the files in the order in which they were given   *)
(* to initrd.c; a file with a name of its own is looked up to its own      *)
(* inode and read to its length, or to the size of the buffer.  Holds as   *)
(* far as the headers are mapped.  The loop ends behind the last file, in  *)
(* kmain's panic at a file that is empty or whose header is not mapped, or *)
(* in the page fault at a file that the image places behind the heap.      *)
(* dev shares its functions with root, but a listing of it is empty.       *)
(***************************************************************************)
ListingInOrder ==
  /\ \A n \in DOMAIN listed :
       IF n = 1 THEN listed[n].name = "dev" /\ listed[n].ino = DEV
       ELSE LET k == n - 2 IN
            Visible(k) =>
              /\ listed[n].name = files[k + 1].name
              /\ Unique(k) => /\ listed[n].ino = k
                              /\ listed[n].size = Min({files[k + 1].length, BUF})
  /\ pc = "sti" => Len(listed) = Len(files) + 1
  /\ pc = "panic" => files[i].length = 0 \/ ~Visible(i - 1)
  /\ pc = "fault" => OutsideHeap(i - 1) \/ ~Visible(i - 1)
  /\ pc = "list" => readdir_fs(DEV, 0) = NoEntry

(***************************************************************************)
(* The headers kmain reads by give every file memory of its own, behind    *)
(* the table of headers and in the order of the files.                     *)
(***************************************************************************)
FilesApart ==
  pc = "list" =>
    \A k \in 0 .. nroot_nodes - 1 :
      Visible(k) =>
        /\ HeaderOffset(k) >= ADDR + At(SLOTS - 1, "length") + 4
        /\ \A j \in 0 .. k - 1 : HeaderOffset(j) + HeaderLength(j) <= HeaderOffset(k)

(***************************************************************************)
(* Relocating headers that are not mapped writes into the inode of root;   *)
(* what the listing depends on survives for every number of files.  Only   *)
(* the pointer read, of which vfs takes any value but 0 for a function, is *)
(* overwritten, by the 56th header.                                        *)
(***************************************************************************)
RootSurvives ==
  pc # "directories" =>
    \A w \in FLAGS .. FINDDIR :
      root[w] = CASE w = FLAGS -> FS_DIRECTORY
                  [] w = READDIR -> fn_readdir
                  [] w = FINDDIR -> fn_finddir
                  [] w = READ /\ Len(root_nodes) > 55 -> ADDR
                  [] OTHER -> 0

(***************************************************************************)
(* read returns what is left of the file behind offset, at most size, for  *)
(* every offset and size the sum of which is a 32-bit number.  (When the   *)
(* sum wraps, size is not clipped.)                                        *)
(***************************************************************************)
ReadWithinFile ==
  pc = "list" =>
    \A k \in 0 .. nroot_nodes - 1, offset \in Offsets, size \in Sizes :
      Visible(k) =>
        LET left == Max({files[k + 1].length - offset, 0})
        IN offset + size < WORD => read(k, offset, size) = Min({left, size})

\* The listing comes to an end, whatever the image contains.
ListingEnds == <>(pc \in {"sti", "panic", "fault"})

\* What is at an address behind ADDR: a byte of the image, or of the heap.
Byte(v) == IF v - ADDR < PAGE THEN <<"image", v - ADDR>> ELSE <<"heap", v - ADDR - PAGE>>

(***************************************************************************)
(* What is shown of a file is its contents: the bytes of the image at the  *)
(* offset that initrd.c gave it.                                           *)
(***************************************************************************)
FileContents ==
  \A n \in DOMAIN listed :
    listed[n].ino # DEV =>
      \A j \in 0 .. listed[n].size - 1 :
        Byte(listed[n].from + j) = <<"image", image(files)[listed[n].ino].offset + j>>
=============================================================================
