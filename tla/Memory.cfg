SPECIFICATION MCSpec
CONSTANTS
    Proc = {p1, p2}
    initproc = p1
    NPAGES = 15
    PGSIZE = 2
    NPTENTRIES = 3
    UTABLES = 2
    KTABLES = 1
    WORD = 32
    SbrkArgs <- TheSbrkArgs
    Programs <- ThePrograms
    MaxCalls = 5
    None = None
    HeaderSize = 2
    NALLOC = 3
    HeapStart = 3
    HeapEnd = 12
    Requests = {0, 1, 3, 4}
INVARIANTS PagesExact HeapExact
PROPERTIES
    KernelPagesReturn
    ForkCopies
CHECK_DEADLOCK FALSE
