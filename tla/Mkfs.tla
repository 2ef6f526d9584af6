-------------------------------- MODULE Mkfs --------------------------------
(***************************************************************************)
(* mkfs (src/xv6/mkfs.c): the program that builds the image the kernel     *)
(* boots from.                                                             *)
(*                                                                         *)
(* A step is what main does about the root directory, about the name of a  *)
(* file, about one buffer of its bytes, or at the end.  The blocks of the  *)
(* inodes hold IPB of them each; the other blocks hold cells.  Characters  *)
(* and bytes are numbers; an entry of a directory is an inode number and   *)
(* DIRSIZ characters.                                                      *)
(***************************************************************************)
EXTENDS DiskLayout, SequencesExt

CONSTANTS
  Arguments,   \* the argument lists: name and bytes of each file
  Underscore, Dot,
  DIRSIZ, IPB, NINODES, LOGSIZE, FSSIZE,
  BITS         \* bits in a block of the bitmap

ASSUME MkfsAssumption ==
  /\ {DIRSIZ, IPB, NINODES, LOGSIZE, FSSIZE, BITS} \subseteq Nat \ {0}
  /\ BSIZE % (DIRSIZ + 1) = 0

VARIABLES
  argv,   \* the files
  next,   \* the one to come next
  unread, \* what is left of the one before
  img,    \* blocks, dinodes and bitmap of the image; freeinode, freeblock
  at      \* where main is

mkVars == <<argv, next, unread, img, at>>

ROOTINO == 1
nbitmap == FSSIZE \div BITS + 1
ninodeblocks == NINODES \div IPB + 1
inodestart == 2 + LOGSIZE
bmapstart == inodestart + ninodeblocks
nmeta == bmapstart + nbitmap

IPlace(inum) == <<inum \div IPB + inodestart, inum % IPB>>
dinode(m, inum) == m.dinodes[IPlace(inum)]
winode(m, inum, din) == [m EXCEPT !.dinodes[IPlace(inum)] = din]

NoInode == [type |-> "none", nlink |-> 0, size |-> 0, addrs |-> NoAddrs]

-----------------------------------------------------------------------------
ialloc(m, type) ==
  [winode(m, m.freeinode, [NoInode EXCEPT !.type = type, !.nlink = 1]) EXCEPT !.freeinode = @ + 1]

Takes(m) == [m EXCEPT !.freeblock = @ + 1]

(* Mutation: the address of a new block is not put into the indirect block. *)
place_Forgets(m, inum, fbn) ==
  LET d == IF fbn < NDIRECT THEN fbn ELSE NDIRECT
      m1 == IF dinode(m, inum).addrs[d] # 0 THEN m
            ELSE Takes(winode(m, inum, [dinode(m, inum) EXCEPT !.addrs[d] = m.freeblock]))
      ind == dinode(m1, inum).addrs[NDIRECT]
  IN  IF fbn < NDIRECT \/ ind >= FSSIZE \/ m1.blocks[ind][fbn - NDIRECT] # 0 THEN m1
      ELSE Takes(m1)

(* Block fbn of the file gets an address if it has none, through the      *)
(* indirect block from NDIRECT on.                                        *)
place(m, inum, fbn) ==
  LET d == IF fbn < NDIRECT THEN fbn ELSE NDIRECT
      m1 == IF dinode(m, inum).addrs[d] # 0 THEN m
            ELSE Takes(winode(m, inum, [dinode(m, inum) EXCEPT !.addrs[d] = m.freeblock]))
      ind == dinode(m1, inum).addrs[NDIRECT]
  IN  IF fbn < NDIRECT \/ ind >= FSSIZE \/ m1.blocks[ind][fbn - NDIRECT] # 0 THEN m1
      ELSE Takes([m1 EXCEPT !.blocks[ind][fbn - NDIRECT] = m1.freeblock])

(* iappend: block after block.  It gives up when the file gets too large  *)
(* and when a block is beyond the image, which rsect cannot read.         *)
RECURSIVE iappend(_, _, _)
iappend(m, inum, bytes) ==
  LET off == dinode(m, inum).size
      fbn == off \div BSIZE
      m1 == place(m, inum, fbn)
      o == off % BSIZE
      n1 == Min({Len(bytes), (fbn + 1) * BSIZE - off})
      x == AddrOf(dinode(m1, inum), m1.blocks, fbn)
      m2 == [winode(m1, inum, [dinode(m1, inum) EXCEPT !.size = off + n1]) EXCEPT
               !.blocks[x] = [k \in DOMAIN @ |-> IF k \in o .. o + n1 - 1
                                                 THEN bytes[k - o + 1] ELSE @[k]]]
  IN  IF bytes = <<>> \/ m.failed THEN m
      ELSE IF fbn >= MAXFILE \/ m1.freeblock > FSSIZE THEN [m EXCEPT !.failed = TRUE]
      ELSE iappend(m2, inum, SubSeq(bytes, n1 + 1, Len(bytes)))

(* A directory entry; strncpy cuts the name and fills it up with zeros.   *)
dirent(inum, name) ==
  <<inum>> \o [k \in 1 .. DIRSIZ |-> IF k <= Len(name) THEN name[k] ELSE 0]

-----------------------------------------------------------------------------
MkfsInit ==
  /\ argv \in Arguments /\ next = 1 /\ unread = <<>> /\ at = "root"
  /\ img = [blocks |-> [b \in 0 .. FSSIZE - 1 |-> Zeros],
            dinodes |-> [p \in {IPlace(k) : k \in 0 .. ninodeblocks * IPB - 1} |-> NoInode],
            bitmap |-> {}, freeinode |-> 1, freeblock |-> nmeta, failed |-> FALSE]

MkRoot ==
  /\ at = "root"
  /\ LET m == ialloc(img, "T_DIR")
     IN  img' = iappend(iappend(m, ROOTINO, dirent(ROOTINO, <<Dot>>)),
                        ROOTINO, dirent(ROOTINO, <<Dot, Dot>>))
  /\ at' = "next" /\ UNCHANGED <<argv, next, unread>>

(* An inode and an entry for the next file, without the underscore.       *)
MkFile ==
  /\ at = "next" /\ next <= Len(argv) /\ ~img.failed
  /\ LET file == argv[next]
         name == IF file.name[1] = Underscore THEN Tail(file.name) ELSE file.name
     IN  /\ img' = iappend(ialloc(img, "T_FILE"), ROOTINO, dirent(img.freeinode, name))
         /\ unread' = file.bytes
  /\ next' = next + 1 /\ at' = "copy" /\ UNCHANGED argv

MkCopy ==
  /\ at = "copy" /\ ~img.failed
  /\ IF unread = <<>> THEN at' = "next" /\ UNCHANGED <<img, unread>>
     ELSE LET cc == Min({BSIZE, Len(unread)})
          IN  /\ img' = iappend(img, img.freeinode - 1, SubSeq(unread, 1, cc))
              /\ unread' = SubSeq(unread, cc + 1, Len(unread))
              /\ UNCHANGED at
  /\ UNCHANGED <<argv, next>>

(* The size of the root directory goes up to the end of a block, and the  *)
(* blocks up to freeblock are marked.                                     *)
MkEnd ==
  /\ at = "next" /\ next > Len(argv) /\ ~img.failed /\ img.freeblock < BITS
  /\ LET root == dinode(img, ROOTINO)
     IN  img' = [winode(img, ROOTINO, [root EXCEPT !.size = (@ \div BSIZE + 1) * BSIZE]) EXCEPT
                   !.bitmap = 0 .. img.freeblock - 1]
  /\ at' = "done" /\ UNCHANGED <<argv, next, unread>>

MkfsNext == MkRoot \/ MkFile \/ MkCopy \/ MkEnd

MkfsSpec == MkfsInit /\ [][MkfsNext]_mkVars

-----------------------------------------------------------------------------
(* What the root directory holds: ".", "..", and the files in order. *)
Entries ==
  FoldLeft(LAMBDA s, k : s \o dirent(k + 1, SelectSeq(argv[k].name, LAMBDA c : c # Underscore)),
           dirent(1, <<Dot>>) \o dirent(1, <<Dot, Dot>>), [k \in DOMAIN argv |-> k])

(* The image is a file system as the kernel understands it: read as bmap  *)
(* and dirlookup do, the root directory holds the files in order under    *)
(* their names, each file holds its bytes, block by block and through the *)
(* indirect block, and the other inodes are free; a block is marked       *)
(* exactly when it is metadata or has one place in one inode.  When the   *)
(* entries end with a block, the size of the root directory goes one      *)
(* block beyond them, and this block is a hole.                           *)
ImageExact ==
  at = "done" =>
    LET root == dinode(img, ROOTINO)
        blocks == (Len(Entries) + BSIZE - 1) \div BSIZE
        holds == BytesOf([root EXCEPT !.size = blocks * BSIZE], img.blocks)
        places == UNION {{k} \X AddrsOf(dinode(img, k), img.blocks) : k \in 0 .. NINODES - 1}
    IN  /\ \A k \in 1 .. blocks * BSIZE :
             holds[k] = IF k <= Len(Entries) THEN Entries[k] ELSE 0
        /\ root.size = BSIZE * IF Len(Entries) % BSIZE = 0 THEN blocks + 1 ELSE blocks
        /\ \A k \in DOMAIN argv : BytesOf(dinode(img, k + 1), img.blocks) = argv[k].bytes
        /\ \A k \in 0 .. NINODES - 1 :
             dinode(img, k).type = CASE k = ROOTINO -> "T_DIR"
                                     [] k - 1 \in DOMAIN argv -> "T_FILE"
                                     [] OTHER -> "none"
        /\ img.bitmap = 0 .. nmeta - 1 \cup {a[2][3] : a \in places}
        /\ Cardinality(img.bitmap) = nmeta + Cardinality(places)
        /\ img.bitmap \subseteq 0 .. FSSIZE - 1
=============================================================================
