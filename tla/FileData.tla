------------------------------ MODULE FileData ------------------------------
(***************************************************************************)
(* The bytes of files: FileTable::read and write (file.rs), readi, writei, *)
(* bmap and itrunc (fs.c) and the block allocator, balloc and bfree, with  *)
(* processes that read and write several files at once.                    *)
(*                                                                         *)
(* A file system call works on one block of the file per step.  An inode   *)
(* is locked from BeginChunk, BeginRead or Iput to EndChunk, EndRead or    *)
(* EndTrunc; the bitmap is shared, a block of it is locked by balloc() and *)
(* bfree() alone, so that others allocate between two calls of bfree().    *)
(* Block numbers start at 1.                                               *)
(***************************************************************************)
EXTENDS DiskLayout

CONSTANTS
  Proc, Inode,
  File,         \* entries of the file table
  ip,           \* ip[f]: the inode of f
  uses,         \* uses[p]: the calls p makes: read or write, the file, the size
  old,          \* the inode that holds a byte at first
  bytes,        \* bytes[p]: the pattern p writes
  NBLOCKS,      \* blocks of the disk
  BPB,          \* bits of a block of the bitmap
  MAXOPBLOCKS,  \* blocks a transaction may write
  MaxTrunc,     \* bound: how often an inode is truncated
  None

Block == 1 .. NBLOCKS

\* The chunk of filewrite().
MAX == ((MAXOPBLOCKS - 1 - 1 - 2) \div 2) * BSIZE

ASSUME FileDataAssumption ==
  /\ {BPB, NBLOCKS, MAXOPBLOCKS} \subseteq Nat \ {0} /\ MAX > 0
  /\ NBLOCKS \div BPB + 2 <= MAXOPBLOCKS
  /\ ip \in [File -> Inode]
  /\ old \in Inode
  /\ None \notin Proc \cup File
  /\ \A p \in Proc : uses[p] \subseteq {"read", "write"} \X File \X (Nat \ {0})
  /\ \A p \in Proc : LET c == Cardinality(DOMAIN bytes[p])
                     IN  c \in Nat \ {0} /\ bytes[p] \in [0 .. c - 1 -> Nat]

VARIABLES
  used,    \* the blocks marked in the bitmap
  data,    \* the contents of the blocks
  inode,   \* size and addrs of the inodes
  lock,    \* the sleep-locks of the inodes
  offset,  \* f->offset
  pc, file, n, i,  \* a call: its file, its size, how far it is
  n1, off, tot,    \* a call of readi or writei: its size, its offset, how far it is
  got,     \* the bytes a read has returned
  logged,  \* the blocks the transaction of a process has written
  truncs,  \* how often an inode was truncated
  before   \* what the file held when writei began

call == <<pc, file, n, i, n1, off, tot>>
vars == <<used, data, inode, lock, offset, call, got, logged, truncs, before>>

-----------------------------------------------------------------------------
\* The byte that p writes at place k of a file: its buffer holds bytes[p] over and
\* over, in step with the offset.
Byte(p, k) == bytes[p][k % Cardinality(DOMAIN bytes[p])]

\* Blocks of the disk that a transaction writes, besides the data blocks.
BBLOCK(b) == <<"bitmap", b \div BPB>>
IBLOCK(x) == <<"inode", x>>

\* balloc(): the first block that is not marked.
FreeBlocks == Block \ used
balloc == Min(FreeBlocks)

-----------------------------------------------------------------------------
(* bmap(): the block of the file that the byte off + tot is in.            *)

Inum(p) == ip[file[p]]
bn(p) == (off[p] + tot[p]) \div BSIZE
Direct(p) == bn(p) < NDIRECT
Indirect(x) == inode[x].addrs[NDIRECT]

\* The address, 0 when there is no block yet.
bmap(x, b) == AddrOf(inode[x], data, b)

\* min(n - tot, BSIZE - off % BSIZE)
m(p) == LET a == n1[p] - tot[p]
            b == BSIZE - ((off[p] + tot[p]) % BSIZE)
        IN  IF a < b THEN a ELSE b

\* What the file holds.
Contents(x) == BytesOf(inode[x], data)

-----------------------------------------------------------------------------
Return(p) ==
  /\ pc' = [pc EXCEPT ![p] = "idle"]
  /\ file' = [file EXCEPT ![p] = None]
  /\ n' = [n EXCEPT ![p] = 0] /\ i' = [i EXCEPT ![p] = 0]
  /\ n1' = [n1 EXCEPT ![p] = 0] /\ off' = [off EXCEPT ![p] = 0] /\ tot' = [tot EXCEPT ![p] = 0]

Goto(p, l) == pc' = [pc EXCEPT ![p] = l] /\ UNCHANGED <<file, n>>

\* The places of an inode that hold an address, in the order itrunc() frees them:
\* the direct blocks, the entries of the indirect block, the indirect block.
AddrAt(x, k) == IF k = MAXFILE THEN Indirect(x) ELSE bmap(x, k)

\* Processes in itrunc(x).  The places below i are freed, "clear" is between
\* bfree() and the assignment of 0.
Truncating(x) == {p \in Proc : pc[p] \in {"itrunc", "clear"} /\ Inum(p) = x}

\* The places of x whose blocks are not freed, and the blocks.
Places(x) == {k \in 0 .. MAXFILE : AddrAt(x, k) # 0 /\ \A p \in Truncating(x) : k >= i[p]}
Held(x) == {AddrAt(x, k) : k \in Places(x)}

\* fileread() and filewrite() are called, on a file that is open.
Call(p, op, f, size) ==
  /\ pc[p] = "idle" /\ Truncating(ip[f]) = {}
  /\ pc' = [pc EXCEPT ![p] = op]
  /\ file' = [file EXCEPT ![p] = f]
  /\ n' = [n EXCEPT ![p] = size]
  /\ UNCHANGED <<used, data, inode, lock, offset, i, n1, off, tot, got, logged, truncs, before>>

\* A round of the loop of filewrite(): begin_op(), ilock(), and the checks at the
\* start of writei(); when they fail the call ends.
BeginChunk(p) ==
  LET x == Inum(p)
      rest == n[p] - i[p]
      size == IF rest > MAX THEN MAX ELSE rest
      o == offset[file[p]]
  IN  /\ pc[p] = "write" /\ lock[x] = None
      /\ IF o > inode[x].size \/ o + size > MAXFILE * BSIZE
         THEN Return(p) /\ UNCHANGED <<lock, before>>
         ELSE /\ Goto(p, "writei") /\ UNCHANGED i
              /\ lock' = [lock EXCEPT ![x] = p]
              /\ n1' = [n1 EXCEPT ![p] = size]
              /\ off' = [off EXCEPT ![p] = o]
              /\ tot' = [tot EXCEPT ![p] = 0]
              /\ before' = [before EXCEPT ![p] = Contents(x)]
      /\ UNCHANGED <<used, data, inode, offset, got, logged, truncs>>

\* Mutant: the block is not zeroed.
BmapIndirect_NoZero(p) ==
  LET x == Inum(p) IN
  /\ pc[p] = "writei" /\ tot[p] < n1[p] /\ ~ Direct(p) /\ Indirect(x) = 0
  /\ IF FreeBlocks = {} THEN Goto(p, "panic") /\ UNCHANGED <<used, data, inode, logged>>
     ELSE /\ used' = used \cup {balloc}
          /\ UNCHANGED data
          /\ inode' = [inode EXCEPT ![x].addrs[NDIRECT] = balloc]
          /\ logged' = [logged EXCEPT ![p] = @ \cup {BBLOCK(balloc), <<"data", balloc>>}]
          /\ UNCHANGED <<pc, file, n>>
  /\ UNCHANGED <<lock, offset, i, n1, off, tot, got, truncs, before>>

\* bmap() has to allocate the indirect block first: balloc(), which marks the
\* block in the bitmap and zeroes it.
BmapIndirect(p) ==
  LET x == Inum(p) IN
  /\ pc[p] = "writei" /\ tot[p] < n1[p] /\ ~ Direct(p) /\ Indirect(x) = 0
  /\ IF FreeBlocks = {} THEN Goto(p, "panic") /\ UNCHANGED <<used, data, inode, logged>>
     ELSE /\ used' = used \cup {balloc}
          /\ data' = [data EXCEPT ![balloc] = Zeros]
          /\ inode' = [inode EXCEPT ![x].addrs[NDIRECT] = balloc]
          /\ logged' = [logged EXCEPT ![p] = @ \cup {BBLOCK(balloc), <<"data", balloc>>}]
          /\ UNCHANGED <<pc, file, n>>
  /\ UNCHANGED <<lock, offset, i, n1, off, tot, got, truncs, before>>

\* bmap() allocates the data block; its address goes to the inode, or to the
\* indirect block, which is logged.
BmapBlock(p) ==
  LET x == Inum(p)
      b == bn(p)
      zeroed == [data EXCEPT ![balloc] = Zeros]
  IN
  /\ pc[p] = "writei" /\ tot[p] < n1[p] /\ (Direct(p) \/ Indirect(x) # 0) /\ bmap(x, b) = 0
  /\ IF FreeBlocks = {} THEN Goto(p, "panic") /\ UNCHANGED <<used, data, inode, logged>>
     ELSE /\ used' = used \cup {balloc}
          /\ IF Direct(p)
             THEN /\ inode' = [inode EXCEPT ![x].addrs[b] = balloc]
                  /\ data' = zeroed
                  /\ logged' = [logged EXCEPT ![p] = @ \cup {BBLOCK(balloc), <<"data", balloc>>}]
             ELSE /\ data' = [zeroed EXCEPT ![Indirect(x)][b - NDIRECT] = balloc]
                  /\ logged' = [logged EXCEPT ![p] = @ \cup
                       {BBLOCK(balloc), <<"data", balloc>>, <<"data", Indirect(x)>>}]
                  /\ UNCHANGED inode
          /\ UNCHANGED <<pc, file, n>>
  /\ UNCHANGED <<lock, offset, i, n1, off, tot, got, truncs, before>>

\* Mutant: src is not advanced.
Copy_SameSource(p) ==
  LET x == Inum(p)
      a == bmap(x, bn(p))
      at == (off[p] + tot[p]) % BSIZE
  IN
  /\ pc[p] = "writei" /\ tot[p] < n1[p] /\ a # 0
  /\ data' = [data EXCEPT ![a] = [k \in DOMAIN @ |->
                IF k \in at .. at + m(p) - 1 THEN Byte(p, off[p] + k - at) ELSE @[k]]]
  /\ tot' = [tot EXCEPT ![p] = @ + m(p)]
  /\ logged' = [logged EXCEPT ![p] = @ \cup {<<"data", a>>}]
  /\ UNCHANGED <<used, inode, lock, offset, pc, file, n, i, n1, off, got, truncs, before>>

\* A round of the loop of writei(): memmove() into the block and log_write().
Copy(p) ==
  LET x == Inum(p)
      a == bmap(x, bn(p))
      at == (off[p] + tot[p]) % BSIZE
  IN
  /\ pc[p] = "writei" /\ tot[p] < n1[p] /\ a # 0
  /\ data' = [data EXCEPT ![a] = [k \in DOMAIN @ |->
                IF k \in at .. at + m(p) - 1 THEN Byte(p, off[p] + tot[p] + k - at) ELSE @[k]]]
  /\ tot' = [tot EXCEPT ![p] = @ + m(p)]
  /\ logged' = [logged EXCEPT ![p] = @ \cup {<<"data", a>>}]
  /\ UNCHANGED <<used, inode, lock, offset, pc, file, n, i, n1, off, got, truncs, before>>

\* The end of writei(), f->offset, iunlock(), end_op(), and the loop condition of
\* filewrite().
EndChunk(p) ==
  LET x == Inum(p)
      end == off[p] + tot[p]
      grows == n1[p] > 0 /\ end > inode[x].size
  IN
  /\ pc[p] = "writei" /\ tot[p] = n1[p]
  /\ inode' = IF grows THEN [inode EXCEPT ![x].size = end] ELSE inode
  /\ lock' = [lock EXCEPT ![x] = None]
  /\ offset' = [offset EXCEPT ![file[p]] = @ + n1[p]]
  /\ logged' = [logged EXCEPT ![p] = {}]
  /\ before' = [before EXCEPT ![p] = <<>>]
  /\ IF i[p] + n1[p] < n[p]
     THEN /\ Goto(p, "write")
          /\ i' = [i EXCEPT ![p] = @ + n1[p]]
          /\ n1' = [n1 EXCEPT ![p] = 0] /\ off' = [off EXCEPT ![p] = 0]
          /\ tot' = [tot EXCEPT ![p] = 0]
     ELSE Return(p)
  /\ UNCHANGED <<used, data, got, truncs>>

\* fileread(): ilock() and the start of readi().  Its -1 is taken for a u32: the
\* offset grows by 2^32 - 1.
BeginRead(p) ==
  LET x == Inum(p)
      o == offset[file[p]]
      rest == inode[x].size - o
  IN
  /\ pc[p] = "read" /\ lock[x] = None
  /\ IF o > inode[x].size
     THEN /\ Return(p) /\ UNCHANGED lock
          /\ offset' = [offset EXCEPT ![file[p]] = @ - 1]
     ELSE /\ Goto(p, "readi") /\ UNCHANGED <<i, offset>>
          /\ lock' = [lock EXCEPT ![x] = p]
          /\ n1' = [n1 EXCEPT ![p] = IF n[p] > rest THEN rest ELSE n[p]]
          /\ off' = [off EXCEPT ![p] = o]
          /\ tot' = [tot EXCEPT ![p] = 0]
  /\ UNCHANGED <<used, data, inode, got, logged, truncs, before>>

\* Mutant: every block is read from its start.
ReadBlock_FromStart(p) ==
  LET a == bmap(Inum(p), bn(p))
      at == (off[p] + tot[p]) % BSIZE
  IN
  /\ pc[p] = "readi" /\ tot[p] < n1[p]
  /\ got' = [got EXCEPT ![p] = @ \o [k \in 1 .. m(p) |-> data[a][k - 1]]]
  /\ tot' = [tot EXCEPT ![p] = @ + m(p)]
  /\ UNCHANGED <<used, data, inode, lock, offset, pc, file, n, i, n1, off, logged, truncs, before>>

\* A round of the loop of readi().
ReadBlock(p) ==
  LET a == bmap(Inum(p), bn(p))
      at == (off[p] + tot[p]) % BSIZE
  IN
  /\ pc[p] = "readi" /\ tot[p] < n1[p]
  /\ got' = [got EXCEPT ![p] = @ \o [k \in 1 .. m(p) |-> data[a][at + k - 1]]]
  /\ tot' = [tot EXCEPT ![p] = @ + m(p)]
  /\ UNCHANGED <<used, data, inode, lock, offset, pc, file, n, i, n1, off, logged, truncs, before>>

EndRead(p) ==
  /\ pc[p] = "readi" /\ tot[p] = n1[p]
  /\ lock' = [lock EXCEPT ![Inum(p)] = None]
  /\ offset' = [offset EXCEPT ![file[p]] = @ + n1[p]]
  /\ Return(p)
  /\ got' = [got EXCEPT ![p] = <<>>]
  /\ UNCHANGED <<used, data, inode, logged, truncs, before>>

-----------------------------------------------------------------------------
\* close() of f, the last reference to an inode without links: iput() locks the
\* inode and calls itrunc().  Nobody else is in a call on it.
Iput(p, f) ==
  /\ pc[p] = "idle" /\ \A q \in Proc : file[q] # None => Inum(q) # ip[f]
  /\ truncs < MaxTrunc /\ truncs' = truncs + 1
  /\ pc' = [pc EXCEPT ![p] = "itrunc"]
  /\ file' = [file EXCEPT ![p] = f]
  /\ lock' = [lock EXCEPT ![ip[f]] = p]
  /\ UNCHANGED <<used, data, inode, offset, n, i, n1, off, tot, got, logged, before>>

\* itrunc() frees the next block: bfree(), which clears the bit of the block or
\* panics with "freeing free block".
Bfree(p) ==
  LET x == Inum(p)
      k == Min(Places(x))
      a == AddrAt(x, k)
  IN
  /\ pc[p] = "itrunc" /\ Places(x) # {}
  /\ IF a \notin used THEN Goto(p, "badfree") /\ UNCHANGED <<used, i, logged>>
     ELSE /\ used' = used \ {a}
          /\ logged' = [logged EXCEPT ![p] = @ \cup {BBLOCK(a)}]
          /\ i' = [i EXCEPT ![p] = k + 1]
          /\ Goto(p, IF k \in NDIRECT .. MAXFILE - 1 THEN "itrunc" ELSE "clear")
  /\ UNCHANGED <<data, inode, lock, offset, n1, off, tot, got, truncs, before>>

\* ip->addrs[i] = 0, after bfree() has given the bitmap back.
ClearAddr(p) ==
  LET x == Inum(p)
      k == IF i[p] > MAXFILE THEN NDIRECT ELSE i[p] - 1
  IN
  /\ pc[p] = "clear"
  /\ inode' = [inode EXCEPT ![x].addrs[k] = 0]
  /\ Goto(p, "itrunc")
  /\ UNCHANGED <<used, data, lock, offset, i, n1, off, tot, got, logged, truncs, before>>

\* The end of itrunc(), of iput() and of the transaction.  The inode and its files
\* are then those of new opens.
EndTrunc(p) ==
  LET x == Inum(p) IN
  /\ pc[p] = "itrunc" /\ Places(x) = {}
  /\ inode' = [inode EXCEPT ![x].size = 0]
  /\ lock' = [lock EXCEPT ![x] = None]
  /\ offset' = [f \in File |-> IF ip[f] = x THEN 0 ELSE offset[f]]
  /\ logged' = [logged EXCEPT ![p] = {}]
  /\ Return(p)
  /\ UNCHANGED <<used, data, got, truncs, before>>

-----------------------------------------------------------------------------
Init ==
  /\ used = {1} /\ data = [b \in Block |-> IF b = 1 THEN [Zeros EXCEPT ![0] = 1] ELSE Zeros]
  /\ inode = [x \in Inode |->
       IF x = old THEN [size |-> 1, addrs |-> [NoAddrs EXCEPT ![0] = 1]]
       ELSE [size |-> 0, addrs |-> NoAddrs]]
  /\ lock = [x \in Inode |-> None]
  /\ offset = [f \in File |-> 0]
  /\ pc = [p \in Proc |-> "idle"] /\ file = [p \in Proc |-> None]
  /\ n = [p \in Proc |-> 0] /\ i = n /\ n1 = n /\ off = n /\ tot = n
  /\ truncs = 0
  /\ got = [p \in Proc |-> <<>>]
  /\ logged = [p \in Proc |-> {}]
  /\ before = [p \in Proc |-> <<>>]

Step(p) ==
  \/ BeginChunk(p) \/ BmapIndirect(p) \/ BmapBlock(p) \/ Copy(p) \/ EndChunk(p)
  \/ BeginRead(p) \/ ReadBlock(p) \/ EndRead(p)
  \/ Bfree(p) \/ ClearAddr(p) \/ EndTrunc(p)

Next ==
  \E p \in Proc : \/ Step(p)
                  \/ \E u \in uses[p] : Call(p, u[1], u[2], u[3])
                  \/ \E f \in File : Iput(p, f)

Spec == Init /\ [][Next]_vars

-----------------------------------------------------------------------------
TypeOK ==
  /\ used \subseteq Block
  /\ \A x \in Inode : inode[x].size \in 0 .. MAXFILE * BSIZE /\ lock[x] \in Proc \cup {None}
  /\ \A x \in Inode, k \in 0 .. NDIRECT : inode[x].addrs[k] \in Block \cup {0}
  /\ \A f \in File : offset[f] \in 0 .. MAXFILE * BSIZE
  /\ \A p \in Proc : tot[p] \in 0 .. n1[p] /\ n1[p] \in 0 .. n[p]

\* A block is marked in the bitmap exactly while it belongs to one place of one
\* inode: balloc(), bmap(), itrunc() and bfree() neither lose a block nor give it
\* out twice, and none is freed twice, whoever else allocates between two steps of
\* itrunc(), also a block that the inode or its indirect block still lists.  And a
\* file has no holes: every byte below its size has a block, so reading never
\* allocates, and offsets of open files are never beyond the end.  A chunk of
\* filewrite() keeps to the size of a transaction, with the inode, the indirect
\* block, the bitmap blocks and an unaligned start, and so does itrunc().
BlocksExact ==
  /\ TypeOK
  /\ used = UNION {Held(x) : x \in Inode}
  /\ Cardinality(used) = Cardinality(UNION {{x} \X Places(x) : x \in Inode})
  /\ \A p \in Proc : pc[p] # "badfree"
  /\ \A x \in Inode, k \in 0 .. MAXFILE - 1 :
       Truncating(x) = {} /\ k * BSIZE < inode[x].size => bmap(x, k) # 0
  /\ \A f \in File : offset[f] <= inode[ip[f]].size
  /\ \A p \in Proc : pc[p] \in {"writei", "itrunc", "clear"} =>
       Cardinality(logged[p] \cup {IBLOCK(Inum(p))}) <= MAXOPBLOCKS

\* s with t written over it from place o on.
Overlay(s, o, t) ==
  [k \in 1 .. (IF Len(s) > o + Len(t) THEN Len(s) ELSE o + Len(t)) |->
     IF k \in o + 1 .. o + Len(t) THEN t[k - o] ELSE s[k]]

\* When writei() returns, the file holds what it held before with the bytes of
\* the chunk at the offset the chunk began with, however the chunk lies across
\* blocks, across the indirect block, and across the end of the file.
WriteiWrites ==
  [][\A p \in Proc, x \in Inode :
       pc[p] = "writei" /\ lock[x] = p /\ lock'[x] # p =>
         Contents(x)' = Overlay(before[p], off[p], [k \in 1 .. n1[p] |-> Byte(p, off[p] + k - 1)])]_vars

\* When readi() is done, the reader has the bytes of the file from its offset on.
ReadiReads ==
  \A p \in Proc : pc[p] = "readi" /\ tot[p] = n1[p] =>
    got[p] = SubSeq(Contents(Inum(p)), off[p] + 1, off[p] + n1[p])
=============================================================================
