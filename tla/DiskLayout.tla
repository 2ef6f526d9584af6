----------------------------- MODULE DiskLayout -----------------------------
(***************************************************************************)
(* The format of a file on the disk (src/xv6/fs.h), shared by the kernel,  *)
(* module FileData, and by mkfs, module Mkfs.                              *)
(*                                                                         *)
(* A block is a function of cells, which are bytes, or the addresses of an *)
(* indirect block.  The address 0 means that there is no block.            *)
(***************************************************************************)
EXTENDS Integers, Sequences, FiniteSets, FiniteSetsExt

CONSTANTS BSIZE, NDIRECT, NINDIRECT

ASSUME LayoutAssumption == {BSIZE, NDIRECT, NINDIRECT} \subseteq Nat \ {0}

MAXFILE == NDIRECT + NINDIRECT
Zeros == [k \in 0 .. NINDIRECT + BSIZE - 1 |-> 0]
NoAddrs == [k \in 0 .. NDIRECT |-> 0]

\* The address of block b of a file.
AddrOf(ino, blocks, b) ==
  IF b < NDIRECT THEN ino.addrs[b]
  ELSE IF ino.addrs[NDIRECT] = 0 THEN 0 ELSE blocks[ino.addrs[NDIRECT]][b - NDIRECT]

\* What a file without holes holds.
BytesOf(ino, blocks) ==
  [k \in 1 .. ino.size |-> blocks[AddrOf(ino, blocks, (k - 1) \div BSIZE)][(k - 1) % BSIZE]]

\* The places of an inode that hold an address, with the address.
AddrsOf(ino, blocks) ==
  {<<"addrs", k, ino.addrs[k]>> : k \in {j \in 0 .. NDIRECT : ino.addrs[j] # 0}} \cup
  (IF ino.addrs[NDIRECT] = 0 THEN {}
   ELSE LET b == blocks[ino.addrs[NDIRECT]]
        IN  {<<"indirect", k, b[k]>> : k \in {j \in 0 .. NINDIRECT - 1 : b[j] # 0}})
=============================================================================
