------------------------------ MODULE Umalloc -------------------------------
(***************************************************************************)
(* The allocator of user programs (src/xv6/umalloc.c): malloc, free and    *)
(* morecore on the circular list of free blocks.                           *)
(*                                                                         *)
(* An address counts units of a header from 1, the address of base; 0 is   *)
(* the null pointer.  A header that stops being one, because its block was *)
(* joined to another, is cleared: nothing reads it again.  sbrk gives      *)
(* memory right above the break (module Memory), and the program may also  *)
(* call it for itself.  Requests are smaller than 2^31 bytes, so that the  *)
(* sizes in units and the argument of sbrk do not wrap.                    *)
(***************************************************************************)
EXTENDS Integers, FiniteSets, SequencesExt

CONSTANTS
  HeaderSize,   \* sizeof(Header)
  NALLOC,       \* 4096: the least that morecore asks for
  HeapStart,    \* the break of the program when it starts
  HeapEnd,      \* KERNBASE: the break stays below it
  Requests      \* the arguments of malloc

base == 1
Address == 0 .. HeapEnd - 1

ASSUME UmallocAssumption ==
  /\ HeaderSize \in Nat \ {0} /\ NALLOC \in Nat \ {0} /\ Requests \subseteq Nat
  /\ base < HeapStart /\ HeapStart <= HeapEnd

VARIABLES
  heap,    \* freep, and of every header ptr and size
  brk,     \* the break
  owned,   \* units that morecore got from sbrk
  live,    \* blocks in use: where the header is, and the bytes asked for
  beyond   \* the program has used memory that it does not have

heapVars == <<heap, brk, owned, live, beyond>>

UmallocInit ==
  /\ heap = [freep |-> 0, ptr |-> [a \in Address |-> 0], size |-> [a \in Address |-> 0]]
  /\ brk = HeapStart
  /\ owned = {} /\ live = {} /\ beyond = FALSE

Units(a, n) == a .. a + n - 1

(* The blocks along the list from freep: freep itself, the next one, ... *)
Along(h) ==
  LET nth[k \in 0 .. HeapEnd] == IF k = 0 THEN h.freep ELSE h.ptr[nth[k - 1]]
  IN  nth

(* The first of them from number k on for which P holds. *)
First(h, k, P(_)) == Along(h)[Min({i \in k .. HeapEnd : P(Along(h)[i])})]

-----------------------------------------------------------------------------
(* free: the block goes between p and the next one, where p is below it   *)
(* and the next one above, or p is the highest and it is beyond an end.   *)
Place(h, bp) ==
  First(h, 0, LAMBDA p : \/ p < bp /\ bp < h.ptr[p]
                         \/ p >= h.ptr[p] /\ (bp > p \/ bp < h.ptr[p]))

(* It is joined to the next block if that follows at once, *)
JoinUpper(h, bp, next) ==
  IF bp + h.size[bp] = next
    THEN [h EXCEPT !.size[bp] = @ + h.size[next], !.ptr[bp] = h.ptr[next],
                   !.size[next] = 0, !.ptr[next] = 0]
    ELSE [h EXCEPT !.ptr[bp] = next]

(* Mutation: the lower block keeps the pointer to the next block. *)
JoinLower_KeepsPtr(h, bp, p) ==
  IF p + h.size[p] = bp
    THEN [h EXCEPT !.size[p] = @ + h.size[bp], !.size[bp] = 0, !.ptr[bp] = 0]
    ELSE [h EXCEPT !.ptr[p] = bp]

(* and to the one before it if it follows that. *)
JoinLower(h, bp, p) ==
  IF p + h.size[p] = bp
    THEN [h EXCEPT !.size[p] = @ + h.size[bp], !.ptr[p] = h.ptr[bp],
                   !.size[bp] = 0, !.ptr[bp] = 0]
    ELSE [h EXCEPT !.ptr[p] = bp]

free(h, bp) ==
  LET p == Place(h, bp)
  IN  [JoinLower(JoinUpper(h, bp, h.ptr[p]), bp, p) EXCEPT !.freep = p]

-----------------------------------------------------------------------------
nunits(nbytes) == (nbytes + HeaderSize - 1) \div HeaderSize + 1

(* The first call makes a list of base, which is empty. *)
Listed(h) == IF h.freep # 0 THEN h ELSE [h EXCEPT !.freep = base, !.ptr[base] = base]

(* A block that is large enough, if there is one; the last to be looked at *)
(* is the one freep points to.                                            *)
Fits(h, n) == {i \in 1 .. HeapEnd : /\ h.size[Along(h)[i]] >= n
                                    /\ \A j \in 1 .. i - 1 : Along(h)[j] # h.freep}

(* The first such block leaves the list, or loses its upper end. *)
TakeBlock(h, n) ==
  LET i == Min(Fits(h, n))
      p == Along(h)[i]
      prevp == Along(h)[i - 1]
      rest == h.size[p] - n
  IN  IF rest = 0
        THEN [at |-> p, h |-> [h EXCEPT !.ptr[prevp] = h.ptr[p], !.ptr[p] = 0, !.freep = prevp]]
        ELSE [at |-> p + rest, h |-> [h EXCEPT !.size[p] = rest, !.size[p + rest] = n,
                                               !.freep = prevp]]

Hand(t, nbytes) ==
  /\ heap' = t.h
  /\ live' = live \cup {[at |-> t.at, bytes |-> nbytes]}

(* malloc: it finds a block, or morecore gets memory for one and the      *)
(* search goes on.  sys_sbrk does not report that there is no memory      *)
(* (growproc returns 0 or 1, and it tests for -1), so morecore then puts  *)
(* its header behind the end: the model stops there.                      *)
malloc(nbytes) ==
  LET n == nunits(nbytes)
      h == Listed(heap)
      nu == Max({n, NALLOC})
  IN  \/ /\ Fits(h, n) # {}
         /\ Hand(TakeBlock(h, n), nbytes)
         /\ UNCHANGED <<brk, owned, beyond>>
      \/ /\ Fits(h, n) = {} /\ brk + nu <= HeapEnd
         /\ Hand(TakeBlock(free([h EXCEPT !.size[brk] = nu], brk), n), nbytes)
         /\ owned' = owned \cup Units(brk, nu)
         /\ brk' = brk + nu
         /\ UNCHANGED beyond
      \/ /\ Fits(h, n) = {} /\ brk + nu > HeapEnd
         /\ beyond' = TRUE
         /\ UNCHANGED <<heap, brk, owned, live>>

FreeBlock(b) ==
  /\ heap' = free(heap, b.at)
  /\ live' = live \ {b}
  /\ UNCHANGED <<brk, owned, beyond>>

(* The program calls sbrk for itself. *)
OtherSbrk ==
  /\ brk + 1 <= HeapEnd
  /\ brk' = brk + 1
  /\ UNCHANGED <<heap, owned, live, beyond>>

UmallocNext ==
  /\ ~beyond
  /\ \/ \E n \in Requests : malloc(n)
     \/ \E b \in live : FreeBlock(b)
     \/ OtherSbrk

UmallocSpec == UmallocInit /\ [][UmallocNext]_heapVars

-----------------------------------------------------------------------------
FreeBlocks == Range(Along(heap)) \ {base}
LiveBlocks == {b.at : b \in live}
Block(a) == Units(a, heap.size[a])

(* After every sequence of malloc, free and sbrk, the free blocks and the *)
(* blocks in use tile the memory that morecore got, so that no two blocks *)
(* in use overlap and no unit is lost; every block in use has room for    *)
(* what was asked; and the list goes round once in the order of addresses *)
(* with no two neighbours that could be one block.                        *)
HeapExact ==
  heap.freep # 0 =>
    LET blocks == FreeBlocks \cup LiveBlocks IN
    /\ FreeBlocks \cap LiveBlocks = {}
    /\ Cardinality(live) = Cardinality(LiveBlocks)
    /\ UNION {Block(a) : a \in blocks} = owned
    /\ \A a, b \in blocks : a # b => Block(a) \cap Block(b) = {}
    /\ \A b \in live : (heap.size[b.at] - 1) * HeaderSize >= b.bytes
    /\ \A a \in FreeBlocks \cup {base} :
         LET above == {b \in FreeBlocks : b > a}
         IN  heap.ptr[a] = IF above = {} THEN base ELSE Min(above)
    /\ \A a, b \in FreeBlocks : a + heap.size[a] # b
=============================================================================
