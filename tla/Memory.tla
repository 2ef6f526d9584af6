------------------------------- MODULE Memory -------------------------------
(***************************************************************************)
(* Physical pages and address spaces: the page allocator of kalloc.c, the  *)
(* page tables of vm.rs, and the system calls that build, copy, grow and   *)
(* destroy address spaces (fork, exec, sbrk, exit, wait).                  *)
(*                                                                         *)
(* Every call of kalloc and kfree is a step of its own, so the calls of    *)
(* different processes compete for the last pages in every order.  What a  *)
(* process has yet to do is the sequence todo[p] of such steps.            *)
(*                                                                         *)
(* A page directory is a page; space[d] is what page d holds when it is    *)
(* used as one: its page tables, tab, with the tables of the kernel part   *)
(* after those of the user part, and the user page behind each page number *)
(* of the user part, pte.  A page filled with junk by kfree holds none.    *)
(***************************************************************************)
EXTENDS Integers, Sequences, FiniteSets, SequencesExt

CONSTANTS
    Proc,       \* the places of the process table
    initproc,   \* the first process
    NPAGES,     \* how many physical pages kinit1 and kinit2 put on the free list
    PGSIZE,     \* bytes per page
    NPTENTRIES, \* pages per page table
    UTABLES,    \* page tables of the user part: KERNBASE follows from it
    KTABLES,    \* page tables of the kernel part
    WORD,       \* addresses are numbers below WORD
    SbrkArgs,   \* the arguments of sbrk
    Programs,   \* a program is a sequence of segments [vaddr, memsz]
    MaxCalls,   \* bound: calls of fork, exec and sbrk
    None

Page == 1 .. NPAGES

KERNBASE == UTABLES * NPTENTRIES * PGSIZE

ASSUME MemoryAssumption ==
    /\ initproc \in Proc
    /\ NPAGES >= KTABLES + 4
    /\ {NPAGES, PGSIZE, NPTENTRIES, UTABLES, KTABLES} \subseteq Nat \ {0}
    /\ WORD > 2 * KERNBASE
    /\ SbrkArgs \subseteq -KERNBASE .. KERNBASE
    /\ \A prog \in Programs : \A i \in DOMAIN prog :
          prog[i].vaddr \in Nat /\ prog[i].memsz \in Nat

VARIABLES
    freelist,   \* kmem.freelist
    space,      \* what a page holds that is a page directory
    proc,       \* of each process: state, pgdir, sz, kstack, parent
    todo,       \* the steps before each process
    dir,        \* the page directory a call works on
    mem,        \* a page between kalloc and map_pages
    sz,         \* exec's local variable sz
    halted,     \* None, or why the kernel has stopped
    calls       \* how many calls of fork, exec and sbrk there were

vars == <<freelist, space, proc, todo, dir, mem, sz, halted, calls>>

pg_roundup(n) == ((n + PGSIZE - 1) \div PGSIZE) * PGSIZE

Table == 0 .. UTABLES + KTABLES - 1

\* A free place of the process table.
Free == [state |-> "UNUSED", pgdir |-> None, sz |-> 0, kstack |-> None, parent |-> None]

UserPage == 0 .. UTABLES * NPTENTRIES - 1
TableOf(a) == a \div NPTENTRIES

EmptySpace == [tab |-> [t \in Table |-> None], pte |-> [a \in UserPage |-> None]]

\* Mutant: rounded down.
Beyond_Down(new, old) == {a \in UserPage : a >= new \div PGSIZE /\ a * PGSIZE < old}

\* The pages behind size_new .. size_old - 1, and the present entries.
Beyond(new, old) == {a \in UserPage : a * PGSIZE >= pg_roundup(new) /\ a * PGSIZE < old}
Present(d) == {a \in UserPage : space[d].pte[a] # None}

-----------------------------------------------------------------------------
(* Steps.                                                                   *)

Steps(label, from, to) == [i \in 1 .. to - from + 1 |-> <<label, from + i - 1>>]

\* uvm_alloc's loop, one step per page.
Loop(label, old, new) ==
    Steps(label, pg_roundup(old) \div PGSIZE, (pg_roundup(new) \div PGSIZE) - 1)

kvm_setup == <<<<"setup", 0>>>> \o Steps("kmap", UTABLES, UTABLES + KTABLES - 1)

\* vm_free clears the user part, whose pages it does not give back, and frees
\* the tables in order and then the directory.
vm_free(d) ==
    LET t == SelectSeq([i \in 1 .. UTABLES + KTABLES |-> space[d].tab[i - 1]],
                       LAMBDA x : x # None)
    IN  [i \in 1 .. Len(t) + 1 |-> <<"kfree", Append(t, d)[i]>>]

\* Where fork and exec go when kvm_setup or a later part fails: fork is the
\* call that has a new process in hand.
Child(p) == {q \in Proc : \E i \in DOMAIN todo[p] : todo[p][i] = <<"forked", q>>}
Undo(p) == IF Child(p) = {} THEN <<>>
           ELSE LET q == CHOOSE q \in Child(p) : TRUE
                IN  <<<<"kfree", proc[q].kstack>>, <<"unused", q>>>>

Rest(p) == Tail(todo[p])
At(p, label) == halted = None /\ todo[p] # <<>> /\ Head(todo[p])[1] = label
Arg(p) == Head(todo[p])[2]
Then(p, s) == todo' = [todo EXCEPT ![p] = s]

Halt(why) ==
    /\ halted' = why
    /\ UNCHANGED <<freelist, space, proc, todo, dir, mem, sz>>

Kalloc(x) == freelist # <<>> /\ x = Head(freelist) /\ freelist' = Tail(freelist)

\* kfree fills the page with junk and puts it in front.
Kfree(p) ==
    /\ At(p, "kfree")
    /\ freelist' = <<Arg(p)>> \o freelist
    /\ space' = [space EXCEPT ![Arg(p)] = None]
    /\ Then(p, Rest(p))
    /\ UNCHANGED <<proc, dir, mem, sz, halted>>

-----------------------------------------------------------------------------
(* userinit: a kernel stack, the kernel part, and one page for initcode.    *)

Init ==
    LET pages == [i \in Page |-> i]
        d == pages[2]
    IN  /\ freelist = SubSeq(pages, KTABLES + 5, Len(pages))
        /\ space = [x \in Page |-> IF x # d THEN None ELSE
              [tab |-> [t \in Table |-> IF t >= UTABLES THEN pages[t - UTABLES + 5]
                                        ELSE IF t = 0 THEN pages[3] ELSE None],
               pte |-> [a \in UserPage |-> IF a = 0 THEN [pa |-> pages[4], user |-> TRUE]
                                           ELSE None]]]
        /\ proc = [p \in Proc |->
              IF p = initproc
              THEN [state |-> "RUNNABLE", pgdir |-> d, sz |-> PGSIZE, kstack |-> pages[1],
                    parent |-> None]
              ELSE Free]
        /\ todo = [p \in Proc |-> <<>>]
        /\ dir = [p \in Proc |-> None]
        /\ mem = [p \in Proc |-> None]
        /\ sz = [p \in Proc |-> 0]
        /\ halted = None
        /\ calls = 0

\* A process whose code is mapped can make a system call.  Without its first
\* page it takes a page fault, and the trap handler kills it.
Runs(p) == halted = None /\ proc[p].state = "RUNNABLE" /\ todo[p] = <<>>
HasCode(p) == 0 \in Present(proc[p].pgdir)
Calls(p) == Runs(p) /\ HasCode(p)

-----------------------------------------------------------------------------
(* kvm_setup                                                                *)

Setup(p) ==
    /\ At(p, "setup")
    /\ \/ \E d \in Page : 
             /\ Kalloc(d)
             /\ dir' = [dir EXCEPT ![p] = d]
             /\ space' = [space EXCEPT ![d] = EmptySpace]
             /\ Then(p, Rest(p))
       \/ /\ freelist = <<>>
          /\ Then(p, Undo(p))
          /\ UNCHANGED <<freelist, space, dir>>
    /\ UNCHANGED <<proc, mem, sz, halted>>

\* Mutant: what has been built is not given back.
KMap_Forgets(p) ==
    /\ At(p, "kmap")
    /\ \/ \E x \in Page :
             /\ Kalloc(x)
             /\ space' = [space EXCEPT ![dir[p]].tab[Arg(p)] = x]
             /\ Then(p, Rest(p))
             /\ UNCHANGED dir
       \/ /\ freelist = <<>>
          /\ Then(p, Undo(p))
          /\ space' = [space EXCEPT ![dir[p]] = None]
          /\ dir' = [dir EXCEPT ![p] = None]
          /\ UNCHANGED freelist
    /\ UNCHANGED <<proc, mem, sz, halted>>

\* map_pages needs one page for each table of the kernel part.
KMap(p) ==
    /\ At(p, "kmap")
    /\ \/ \E x \in Page :
             /\ Kalloc(x)
             /\ space' = [space EXCEPT ![dir[p]].tab[Arg(p)] = x]
             /\ Then(p, Rest(p))
             /\ UNCHANGED dir
       \/ /\ freelist = <<>>
          /\ Then(p, vm_free(dir[p]) \o Undo(p))
          /\ space' = [space EXCEPT ![dir[p]] = None]
          /\ dir' = [dir EXCEPT ![p] = None]
          /\ UNCHANGED freelist
    /\ UNCHANGED <<proc, mem, sz, halted>>

-----------------------------------------------------------------------------
(* uvm_alloc and uvm_copy: a page for the user, then map_pages.             *)

\* Out of memory, uvm_alloc reaches unimplemented!().
GetPage(p) ==
    /\ At(p, "page")
    /\ \/ \E x \in Page :
             /\ Kalloc(x)
             /\ mem' = [mem EXCEPT ![p] = [pa |-> x, user |-> TRUE]]
             /\ Then(p, <<<<"map", Arg(p)>>>> \o Rest(p))
             /\ UNCHANGED <<space, proc, dir, sz, halted>>
       \/ freelist = <<>> /\ Halt("unimplemented")

\* Mutant: every page of the child is a user page.
CopyPage_User(p) ==
    /\ At(p, "copy")
    /\ LET pte == space[proc[p].pgdir].pte[Arg(p)] IN
       \/ pte = None /\ Halt("panic")
       \/ \E x \in Page :
             /\ pte # None
             /\ Kalloc(x)
             /\ mem' = [mem EXCEPT ![p] = [pa |-> x, user |-> TRUE]]
             /\ Then(p, <<<<"map", Arg(p)>>>> \o Rest(p))
             /\ UNCHANGED <<space, proc, dir, sz, halted>>
       \/ pte # None /\ freelist = <<>> /\ Halt("fault")

\* Out of memory, uvm_copy frees the page table of the parent, which is the
\* one the processor is using: it is filled with ones and the machine faults.
CopyPage(p) ==
    /\ At(p, "copy")
    /\ LET pte == space[proc[p].pgdir].pte[Arg(p)] IN
       \/ pte = None /\ Halt("panic")
       \/ \E x \in Page :
             /\ pte # None
             /\ Kalloc(x)
             /\ mem' = [mem EXCEPT ![p] = [pa |-> x, user |-> pte.user]]
             /\ Then(p, <<<<"map", Arg(p)>>>> \o Rest(p))
             /\ UNCHANGED <<space, proc, dir, sz, halted>>
       \/ pte # None /\ freelist = <<>> /\ Halt("fault")

\* walk_pgdir adds a missing page table; an entry that is present is a panic.
MapPages(p) ==
    /\ At(p, "map")
    /\ LET d == dir[p]
           t == TableOf(Arg(p))
           mapped(tab) == [space EXCEPT ![d] = [tab |-> tab, pte |-> [@.pte EXCEPT ![Arg(p)] = mem[p]]]]
           done == /\ mem' = [mem EXCEPT ![p] = None]
                   /\ Then(p, Rest(p))
                   /\ UNCHANGED <<proc, dir, sz, halted>>
       IN  \/ /\ space[d].tab[t] # None
              /\ space[d].pte[Arg(p)] # None
              /\ Halt("panic")
           \/ /\ space[d].tab[t] # None
              /\ space[d].pte[Arg(p)] = None
              /\ space' = mapped(space[d].tab)
              /\ done
              /\ UNCHANGED freelist
           \/ \E x \in Page :
              /\ space[d].tab[t] = None
              /\ Kalloc(x)
              /\ space' = mapped([space[d].tab EXCEPT ![t] = x])
              /\ done
           \/ /\ space[d].tab[t] = None
              /\ freelist = <<>>
              /\ Halt(IF Child(p) = {} THEN "unimplemented" ELSE "fault")

-----------------------------------------------------------------------------
(* fork                                                                     *)

\* allocproc finds a free place and allocates the kernel stack.
Fork(p) ==
    /\ Calls(p)
    /\ \E q \in Proc :
          /\ proc[q].state = "UNUSED"
          /\ proc' = [proc EXCEPT ![q].state = "EMBRYO"]
          /\ Then(p, <<<<"kstack", q>>>> \o kvm_setup \o Loop("copy", 0, proc[p].sz)
                     \o <<<<"forked", q>>>>)
    /\ UNCHANGED <<freelist, space, dir, mem, sz, halted>>

Kstack(p) ==
    /\ At(p, "kstack")
    /\ \/ \E x \in Page :
             /\ Kalloc(x)
             /\ proc' = [proc EXCEPT ![Arg(p)].kstack = x]
             /\ Then(p, Rest(p))
       \/ /\ freelist = <<>>
          /\ proc' = [proc EXCEPT ![Arg(p)].state = "UNUSED"]
          /\ Then(p, <<>>)
          /\ UNCHANGED freelist
    /\ UNCHANGED <<space, dir, mem, sz, halted>>

\* fork without memory gives the place back after the kernel stack; wait
\* does the same with the place of a zombie.  The pgdir and sz that wait leaves
\* in a free place are never read.
Unused(p) ==
    /\ At(p, "unused")
    /\ proc' = [proc EXCEPT ![Arg(p)] = Free]
    /\ Then(p, Rest(p))
    /\ UNCHANGED <<freelist, space, dir, mem, sz, halted>>

Forked(p) ==
    /\ At(p, "forked")
    /\ proc' = [proc EXCEPT ![Arg(p)].state = "RUNNABLE", ![Arg(p)].pgdir = dir[p],
                            ![Arg(p)].sz = proc[p].sz, ![Arg(p)].parent = p]
    /\ dir' = [dir EXCEPT ![p] = None]
    /\ Then(p, Rest(p))
    /\ UNCHANGED <<freelist, space, mem, sz, halted>>

-----------------------------------------------------------------------------
(* exec                                                                     *)

\* A file that is not there or has no ELF header changes nothing.
Exec(p) ==
    /\ Calls(p)
    /\ \E prog \in Programs :
          Then(p, kvm_setup \o [i \in DOMAIN prog |-> <<"segment", prog[i]>>]
                  \o <<<<"stack", 0>>>>)
    /\ sz' = [sz EXCEPT ![p] = 0]
    /\ UNCHANGED <<freelist, space, proc, dir, mem, halted>>

\* bad: the new address space is freed, the old one stays.
Bad(p) ==
    /\ space' = [space EXCEPT ![dir[p]] = None]
    /\ Then(p, vm_free(dir[p]))
    /\ dir' = [dir EXCEPT ![p] = None]
    /\ sz' = [sz EXCEPT ![p] = 0]
    /\ UNCHANGED <<freelist, proc, mem, halted>>

\* uvm_alloc(pgdir, old, new): its result, where 0 is an error, and its pages.
UvmAllocResult(old, new) == IF new >= KERNBASE THEN 0 ELSE IF new < old THEN old ELSE new
UvmAllocPages(old, new) == IF new >= KERNBASE THEN <<>> ELSE Loop("page", old, new)

Segment(p) ==
    /\ At(p, "segment")
    /\ LET new == Arg(p).vaddr + Arg(p).memsz IN
       \/ /\ sz' = [sz EXCEPT ![p] = UvmAllocResult(@, new)]
          /\ Then(p, UvmAllocPages(sz[p], new) \o <<<<"load", Arg(p)>>>> \o Rest(p))
          /\ UNCHANGED <<freelist, space, proc, dir, mem, halted>>
       \/ Bad(p)            \* a short read, or a header that makes no sense

Load(p) ==
    /\ At(p, "load")
    /\ \/ /\ sz[p] # 0 /\ Arg(p).vaddr % PGSIZE = 0
          /\ Then(p, Rest(p))
          /\ UNCHANGED <<freelist, space, proc, dir, mem, sz, halted>>
       \/ Bad(p)            \* no room, a vaddr that is not aligned, or a short read

\* Two pages at the next page boundary.
Stack(p) ==
    /\ At(p, "stack")
    /\ LET old == pg_roundup(sz[p])
           new == old + 2 * PGSIZE
       IN  /\ sz' = [sz EXCEPT ![p] = UvmAllocResult(old, new)]
           /\ Then(p, UvmAllocPages(old, new) \o <<<<"guard", 0>>>>)
    /\ UNCHANGED <<freelist, space, proc, dir, mem, halted>>

\* The first of the two is taken from the user: clear_pte_u.
Guard(p) ==
    /\ At(p, "guard")
    /\ \/ /\ sz[p] # 0
          /\ space' = [space EXCEPT ![dir[p]].pte[(sz[p] \div PGSIZE) - 2].user = FALSE]
          /\ Then(p, <<<<"commit", 0>>>>)
          /\ UNCHANGED <<freelist, proc, dir, mem, sz, halted>>
       \/ sz[p] = 0 /\ Bad(p)

\* The arguments fit on the stack: the new address space replaces the old one.
Commit(p) ==
    /\ At(p, "commit")
    /\ \/ /\ proc' = [proc EXCEPT ![p].pgdir = dir[p], ![p].sz = sz[p]]
          /\ space' = [space EXCEPT ![proc[p].pgdir] = None]
          /\ Then(p, vm_free(proc[p].pgdir))
          /\ dir' = [dir EXCEPT ![p] = None]
          /\ sz' = [sz EXCEPT ![p] = 0]
          /\ UNCHANGED <<freelist, mem, halted>>
       \/ Bad(p)

-----------------------------------------------------------------------------
(* sbrk                                                                     *)

\* grow_my_process.  Sizes wrap around: a process that gives back more than it
\* has asks for a size above its own, and uvm_dealloc leaves it as it is.
Sbrk(p) ==
    /\ Calls(p)
    /\ \E n \in SbrkArgs :
          LET old == proc[p].sz
              new == (old + n) % WORD
          IN  IF n >= 0
              THEN /\ Then(p, UvmAllocPages(old, new) \o <<<<"grown", UvmAllocResult(old, new)>>>>)
                   /\ UNCHANGED space
              ELSE /\ Then(p, <<<<"grown", IF new >= old THEN old ELSE new>>>>)
                   /\ space' = [space EXCEPT ![proc[p].pgdir].pte =
                         [a \in UserPage |-> IF a \in Beyond(new, old) THEN None ELSE @[a]]]
    /\ dir' = [dir EXCEPT ![p] = proc[p].pgdir]
    /\ UNCHANGED <<freelist, proc, mem, sz, halted>>

\* A new size of 0, also the one of a process that gave back all its memory,
\* is taken for an error: the size stays.
Grown(p) ==
    /\ At(p, "grown")
    /\ proc' = [proc EXCEPT ![p].sz = IF Arg(p) = 0 THEN @ ELSE Arg(p)]
    /\ dir' = [dir EXCEPT ![p] = None]
    /\ Then(p, Rest(p))
    /\ UNCHANGED <<freelist, space, mem, sz, halted>>

-----------------------------------------------------------------------------
(* exit and wait                                                            *)

\* A process exits, or takes a page fault in user space and is killed; init
\* does not call exit.
Exit(p) ==
    /\ Runs(p)
    /\ p # initproc
    /\ proc' = [q \in Proc |->
                  IF q = p THEN [proc[q] EXCEPT !.state = "ZOMBIE"]
                  ELSE IF proc[q].parent = p THEN [proc[q] EXCEPT !.parent = initproc]
                  ELSE proc[q]]
    /\ UNCHANGED <<freelist, space, todo, dir, mem, sz, halted>>

InitFaults ==
    /\ Runs(initproc)
    /\ ~HasCode(initproc)
    /\ Halt("init exiting")

\* The parent frees the stack and the address space of a zombie.
Wait(p) ==
    /\ Calls(p)
    /\ \E q \in Proc :
          /\ proc[q].state = "ZOMBIE"
          /\ proc[q].parent = p
          /\ Then(p, <<<<"kfree", proc[q].kstack>>>> \o vm_free(proc[q].pgdir)
                     \o <<<<"unused", q>>>>)
          /\ space' = [space EXCEPT ![proc[q].pgdir] = None]
          /\ proc' = [proc EXCEPT ![q].kstack = None, ![q].pgdir = None]
    /\ UNCHANGED <<freelist, dir, mem, sz, halted>>

Call(p) ==
    /\ calls < MaxCalls
    /\ calls' = calls + 1
    /\ Fork(p) \/ Exec(p) \/ Sbrk(p)

Step(p) ==
    \/ Kstack(p) \/ CopyPage(p) \/ Forked(p) \/ Unused(p)
    \/ Segment(p) \/ Load(p) \/ Stack(p) \/ Guard(p) \/ Commit(p)
    \/ Grown(p) \/ Exit(p) \/ Wait(p)
    \/ Setup(p) \/ KMap(p) \/ GetPage(p) \/ MapPages(p) \/ Kfree(p)

Next ==
    \/ (InitFaults \/ \E p \in Proc : Step(p)) /\ UNCHANGED calls
    \/ \E p \in Proc : Call(p)

Spec == Init /\ [][Next]_vars

-----------------------------------------------------------------------------
(* Properties.                                                              *)

PageOrNone == Page \cup {None}
PTE == [pa : Page, user : BOOLEAN]
Space == [tab : [Table -> PageOrNone], pte : [UserPage -> PTE \cup {None}]]

\* The variables have their types; a process ends below KERNBASE, and only a
\* place that is not free has a kernel stack or an address space.
TypeOK ==
    /\ freelist \in Seq(Page)
    /\ \A x \in Page : space[x] = None \/ space[x] \in Space
    /\ \A p \in Proc :
          /\ proc[p].state \in {"UNUSED", "EMBRYO", "RUNNABLE", "ZOMBIE"}
          /\ proc[p].sz \in 0 .. KERNBASE - 1
          /\ proc[p].pgdir \in PageOrNone /\ proc[p].kstack \in PageOrNone
          /\ proc[p].state = "UNUSED" => proc[p].kstack = None
          /\ proc[p].state = "RUNNABLE" => {proc[p].pgdir, proc[p].kstack} \subseteq Page
          /\ proc[p].parent \in Proc \cup {None}
          /\ dir[p] \in PageOrNone
          /\ mem[p] \in PTE \cup {None}
          /\ sz[p] \in 0 .. KERNBASE - 1
    /\ halted \in {None, "unimplemented", "fault", "panic", "init exiting"}

\* Who uses pages, and the pages in use: by the kernel, as the free list, as
\* stacks, directories and tables and between two steps of a call; and as
\* memory of users.  (The stack of a place that is being given back is about to
\* be freed, or is free; sbrk works on the directory of the process itself.)
Dirs == {d \in Page : space[d] # None}
Stacks == {p \in Proc : /\ proc[p].kstack # None
                        /\ \A q \in Proc : <<"unused", p>> \notin Range(todo[q])}
Spaces == {p \in Proc : proc[p].pgdir # None}
Building == {p \in Proc : dir[p] \notin {None, proc[p].pgdir}}
Mapping == {p \in Proc : mem[p] # None}
Pending(p) == {i \in DOMAIN todo[p] : todo[p][i][1] = "kfree"}
Tables(d) == {t \in Table : space[d].tab[t] # None}

KernelPages ==
    Range(freelist)
    \cup {proc[p].kstack : p \in Stacks} \cup {proc[p].pgdir : p \in Spaces}
    \cup {dir[p] : p \in Building} \cup {mem[p].pa : p \in Mapping}
    \cup UNION {{todo[p][i][2] : i \in Pending(p)} : p \in Proc}
    \cup UNION {{space[d].tab[t] : t \in Tables(d)} : d \in Dirs}
UserPages == UNION {{space[d].pte[a].pa : a \in Present(d)} : d \in Dirs}

NumberOfUses ==
    Len(freelist)
    + Cardinality(Stacks) + Cardinality(Spaces) + Cardinality(Building) + Cardinality(Mapping)
    + MapThenSumSet(LAMBDA p : Cardinality(Pending(p)), Proc)
    + MapThenSumSet(LAMBDA d : Cardinality(Tables(d)) + Cardinality(Present(d)), Dirs)

\* No page has two uses: kalloc never gives out a page that is still a stack,
\* a directory, a table or memory of some process, and nothing is freed twice,
\* in whatever order the calls of the processes share the free list.  Between
\* system calls exactly the pages below sz are mapped, through exec, fork and
\* any mix of growing and shrinking by parts of a page, or else none is (the
\* process gave back everything and cannot run any more).  So map_pages never
\* panics with "remap", nor uvm_copy with "page not present".
PagesExact ==
    /\ TypeOK
    /\ NumberOfUses = Cardinality(KernelPages \cup UserPages)
    /\ halted # "panic"
    /\ \A p \in Proc : Runs(p) =>
          Present(proc[p].pgdir) \in {{}, {a \in UserPage : a * PGSIZE < proc[p].sz}}

\* A page that drops out of all use was memory of a user: stacks, directories
\* and tables always return to the free list, also from fork and exec calls
\* that fail half way.  (User pages are lost, because uvm_dealloc does not
\* free them.)
KernelPagesReturn == [][KernelPages \subseteq (KernelPages \cup UserPages)']_vars

\* The memory of a new process is laid out as its parent's: the same pages
\* are present and the same ones are closed to the user.
ForkCopies ==
    [][\A q \in Proc :
          (proc[q].state = "EMBRYO" /\ proc'[q].state = "RUNNABLE") =>
             LET mine == space'[proc'[q].pgdir].pte
                 theirs == space'[proc'[proc'[q].parent].pgdir].pte
             IN  \A a \in UserPage :
                    IF theirs[a] = None THEN mine[a] = None
                    ELSE mine[a] # None /\ mine[a].user = theirs[a].user]_vars

=============================================================================
