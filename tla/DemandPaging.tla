---------------------------- MODULE DemandPaging ----------------------------
(***************************************************************************)
(* The address space of one process: load_binaries (sys/elf64.c) fills it, *)
(* the page fault handler (sys/irq.c) grows it, and map_vir_phy_userspace  *)
(* (sys/paging.c) enters every page of it in the four-level page table.    *)
(*                                                                         *)
(* Addresses are integers; page p holds the addresses from p * PAGESIZE.   *)
(* Frames come from allocatePage, which hands them out in ascending order  *)
(* and never takes one back (AnswersAscend of PhysMemory): one counter     *)
(* stands for it.  A system call and a page fault run with interrupts off; *)
(* loading is cut into steps only so that each maps one page.              *)
(***************************************************************************)
EXTENDS Integers, Sequences, FiniteSets

CONSTANTS PAGESIZE, FANOUT,           \* 4096 bytes, 512 entries of a table
          HEAP_START, HEAP_END,
          STACK_START, STACK_MAX_SIZE,
          STACK_END,                  \* irq.c's: STACK_START less nine pages
          ADDRESSES,                  \* bound: addresses the program may touch
          LASTFRAME,                  \* bound: frames the machine has
          Images                      \* the loadable segments of each binary

Addr  == 0 .. ADDRESSES - 1
Page  == 0 .. ADDRESSES \div PAGESIZE
Frame == 1 .. LASTFRAME

PageOf(a) == a \div PAGESIZE

\* A page table below the root: its level (1 to 3) and the common prefix of
\* the numbers of the pages below it.
TableFor(level, p) ==
    <<level, CASE level = 1 -> p \div (FANOUT * FANOUT * FANOUT)
               [] level = 2 -> p \div (FANOUT * FANOUT)
               [] level = 3 -> p \div FANOUT>>

Table == (1 .. 3) \X Page

Segment == [vaddr : Nat, memsz : Nat]

NoFrame == -1     \* no entry: the present bit is clear
NoFault == -1

ASSUME LayoutAssumption ==
    /\ PAGESIZE \in Nat \ {0}
    /\ FANOUT \in Nat \ {0}
    /\ {HEAP_START, HEAP_END, STACK_START, STACK_END, STACK_MAX_SIZE} \subseteq Nat
    /\ ADDRESSES \in Nat
    /\ LASTFRAME \in Nat
    /\ HEAP_START % PAGESIZE = 0
    /\ STACK_START % PAGESIZE = 0
    /\ HEAP_START + PAGESIZE < HEAP_END
    /\ HEAP_END <= STACK_END
    /\ STACK_END + PAGESIZE <= STACK_START
    /\ STACK_START <= ADDRESSES

\* Binaries are linked below the heap.
ASSUME ImagesAssumption ==
    \A im \in Images :
        /\ im \in Seq(Segment)
        /\ \A k \in DOMAIN im : im[k].vaddr + im[k].memsz < HEAP_START

VARIABLES stage,      \* "user", or where load_binaries is, or "stopped"
          image,      \* the binary that was loaded last
          seg, at,    \* load_binaries: the segment, and the page it maps next
          vmas,       \* the type 0 areas of mm_struct
          brk,        \* mm_struct->brk
          pt,         \* the frame of each page, or NoFrame
          tables,     \* the frame of each page table, or NoFrame
          free,       \* the next frame allocatePage hands out
          short,      \* ghost: allocatePage has returned 0
          fault       \* the address of the fault being handled, or NoFault

memory == <<pt, tables, free, short>>
loader == <<image, seg, at>>
vars == <<stage, loader, vmas, brk, memory, fault>>

-----------------------------------------------------------------------------
(* Frames and page tables.  The memory is passed around as one value.      *)

Memory == [pt |-> pt, tables |-> tables, free |-> free, short |-> short]

SetMemory(m) == /\ pt' = m.pt
                /\ tables' = m.tables
                /\ free' = m.free
                /\ short' = m.short

\* allocatePage() returns the next frame, or 0; no caller looks at which.
NextFrame(m) == IF m.free <= LASTFRAME THEN m.free ELSE 0

Taken(m) == [m EXCEPT !.free  = IF @ <= LASTFRAME THEN @ + 1 ELSE @,
                      !.short = @ \/ m.free > LASTFRAME]

\* kmalloc() takes a frame for the kernel.
kmalloc(m) == Taken(m)

\* Mutant: the table's frame is not marked busy.
EnsureTable_NotTaken(m, t) ==
    IF m.tables[t] # NoFrame THEN m
    ELSE [m EXCEPT !.tables = [@ EXCEPT ![t] = NextFrame(m)]]

\* One level of the walk: a missing table is allocated and cleared.
EnsureTable(m, t) ==
    IF m.tables[t] # NoFrame THEN m
    ELSE [Taken(m) EXCEPT !.tables = [@ EXCEPT ![t] = NextFrame(m)]]

\* allocatePage() for page p, then map_vir_phy_userspace() of the frame.
MapPage(m, p) ==
    LET m1 == EnsureTable(Taken(m), TableFor(1, p))
        m2 == EnsureTable(m1, TableFor(2, p))
        m3 == EnsureTable(m2, TableFor(3, p))
    IN  [m3 EXCEPT !.pt = [@ EXCEPT ![p] = NextFrame(m)]]

-----------------------------------------------------------------------------
(* load_binaries, called by createInitThread for the first process and by  *)
(* execve, which keeps the page table and everything mapped in it.  A      *)
(* machine that has run out of frames is not followed any further: pages   *)
(* and tables then share frame 0.                                          *)

Init == /\ stage = "user"
        /\ image = <<>>
        /\ seg = 0
        /\ at = 0
        /\ vmas = {}
        /\ brk = HEAP_START
        /\ pt = [p \in Page |-> NoFrame]
        /\ tables = [t \in Table |-> NoFrame]
        /\ free = 1
        /\ short = FALSE
        /\ fault = NoFault

\* execve: a new mm_struct with no areas.
Exec(im) ==
    /\ ~short
    /\ stage = "user"
    /\ fault = NoFault
    /\ image' = im
    /\ seg' = 1
    /\ stage' = "segment"
    /\ vmas' = {}
    /\ SetMemory(kmalloc(Memory))
    /\ UNCHANGED <<at, brk, fault>>

\* createvma for the next segment; vm_start is rounded down to a page.
LoadSegment ==
    /\ ~short
    /\ stage = "segment"
    /\ seg \in DOMAIN image
    /\ LET s == image[seg]
       IN  /\ vmas' = vmas \cup {[start |-> s.vaddr, end |-> s.vaddr + s.memsz]}
           /\ at' = PageOf(s.vaddr)
    /\ stage' = "pages"
    /\ SetMemory(kmalloc(Memory))
    /\ UNCHANGED <<image, seg, brk, fault>>

\* Mutant: vm_end is rounded down.
PagesEnd_RoundDown(s) == PageOf(s.vaddr + s.memsz)

\* The pages from vm_start rounded down up to vm_end rounded up.
PagesEnd(s) == PageOf(s.vaddr + s.memsz + PAGESIZE - 1)

LoadPage ==
    /\ ~short
    /\ stage = "pages"
    /\ at < PagesEnd(image[seg])
    /\ SetMemory(MapPage(Memory, at))
    /\ at' = at + 1
    /\ UNCHANGED <<stage, image, seg, vmas, brk, fault>>

SegmentLoaded ==
    /\ ~short
    /\ stage = "pages"
    /\ at >= PagesEnd(image[seg])
    /\ stage' = "segment"
    /\ seg' = seg + 1
    /\ UNCHANGED <<image, at, vmas, brk, memory, fault>>

\* The heap area (type 1): brk is its start, and its first page is mapped.
LoadHeap ==
    /\ ~short
    /\ stage = "segment"
    /\ seg \notin DOMAIN image
    /\ brk' = HEAP_START
    /\ SetMemory(MapPage(kmalloc(Memory), PageOf(HEAP_START)))
    /\ stage' = "stack"
    /\ UNCHANGED <<loader, vmas, fault>>

\* The stack area (type 2) and its top page; then the process runs.
LoadStack ==
    /\ ~short
    /\ stage = "stack"
    /\ SetMemory(MapPage(kmalloc(Memory), PageOf(STACK_START - PAGESIZE)))
    /\ stage' = "user"
    /\ UNCHANGED <<loader, vmas, brk, fault>>

Load == LoadSegment \/ LoadPage \/ SegmentLoaded \/ LoadHeap \/ LoadStack

-----------------------------------------------------------------------------
(* my_pagefault_function.                                                  *)

\* The program touches a page that is not present.
Touch(a) ==
    /\ ~short
    /\ stage = "user"
    /\ image # <<>>
    /\ fault = NoFault
    /\ pt[PageOf(a)] = NoFrame
    /\ fault' = a
    /\ UNCHANGED <<stage, loader, vmas, brk, memory>>

Faulting == ~short /\ stage = "user" /\ fault # NoFault

InImage == \E v \in vmas : v.start <= fault /\ fault <= v.end
InStack == STACK_END <= fault /\ fault < STACK_START
InHeap  == HEAP_START <= fault /\ fault <= HEAP_END

\* The instruction is run again: it completes, or faults on the same address.
Retry == fault' = IF pt'[PageOf(fault)] # NoFrame THEN NoFault ELSE fault

FaultInImage ==
    /\ Faulting
    /\ InImage
    /\ SetMemory(MapPage(Memory, PageOf(fault)))
    /\ Retry
    /\ UNCHANGED <<stage, loader, vmas, brk>>

FaultInStack ==
    /\ Faulting
    /\ ~InImage
    /\ InStack
    /\ SetMemory(MapPage(Memory, PageOf(fault)))
    /\ Retry
    /\ UNCHANGED <<stage, loader, vmas, brk>>

\* Mutant: the page of the fault is mapped.
grow_heap_AtFault ==
    /\ brk + PAGESIZE < HEAP_END
    /\ SetMemory(MapPage(Memory, PageOf(fault)))
    /\ brk' = brk + PAGESIZE

\* Mutant: the start of the heap is mapped.
grow_heap_AtStart ==
    /\ brk + PAGESIZE < HEAP_END
    /\ SetMemory(MapPage(Memory, PageOf(HEAP_START)))
    /\ brk' = brk + PAGESIZE

\* Mutant: growth stops one page earlier.
grow_heap_StopsEarly ==
    /\ brk + 2 * PAGESIZE < HEAP_END
    /\ SetMemory(MapPage(Memory, PageOf(brk)))
    /\ brk' = brk + PAGESIZE

\* grow_heap() maps the page at brk, whichever page the fault was on.
grow_heap ==
    /\ brk + PAGESIZE < HEAP_END
    /\ SetMemory(MapPage(Memory, PageOf(brk)))
    /\ brk' = brk + PAGESIZE

FaultInHeap ==
    /\ Faulting
    /\ ~InImage
    /\ ~InStack
    /\ InHeap
    /\ \/ grow_heap
       \/ /\ brk + PAGESIZE >= HEAP_END
          /\ UNCHANGED <<brk, memory>>
    /\ Retry
    /\ UNCHANGED <<stage, loader, vmas>>

\* Any other address: hlt with interrupts off stops the machine.
FaultElsewhere ==
    /\ Faulting
    /\ ~InImage
    /\ ~InStack
    /\ ~InHeap
    /\ stage' = "stopped"
    /\ UNCHANGED <<loader, vmas, brk, memory, fault>>

PageFault == FaultInImage \/ FaultInStack \/ FaultInHeap \/ FaultElsewhere

Next == \/ \E im \in Images : Exec(im)
        \/ Load
        \/ \E a \in Addr : Touch(a)
        \/ PageFault

\* The faulting instruction is run again at once, with nothing in between.
Fairness == WF_vars(PageFault)

Spec == Init /\ [][Next]_vars /\ Fairness

-----------------------------------------------------------------------------
(* Properties.                                                             *)

TypeOK ==
    /\ stage \in {"user", "segment", "pages", "stack", "stopped"}
    /\ image \in Images \cup {<<>>}
    /\ seg \in 0 .. Len(image) + 1
    /\ at \in Page
    /\ \A v \in vmas : v.start \in Nat /\ v.end \in Nat
    /\ brk \in HEAP_START .. HEAP_END
    /\ pt \in [Page -> Frame \cup {0, NoFrame}]
    /\ tables \in [Table -> Frame \cup {0, NoFrame}]
    /\ free \in 1 .. LASTFRAME + 1
    /\ short \in BOOLEAN
    /\ fault \in Addr \cup {NoFault}

\* What the frames of the process are used for: its pages and its tables.
Uses == {<<"page", p>> : p \in Page} \cup {<<"table", t>> : t \in Table}

FrameOf(u) == IF u[1] = "page" THEN pt[u[2]] ELSE tables[u[2]]

\* As long as memory lasts, no frame backs two pages, or a page and a table:
\* a program's stores reach its own page and nothing else.
FramesExclusive ==
    ~short => \A u, v \in Uses :
                 (FrameOf(u) # NoFrame /\ FrameOf(u) = FrameOf(v)) => u = v

\* Every page that is present can be reached: the walk finds a table for it at
\* each level.
WalkReachesPage ==
    \A p \in Page : pt[p] # NoFrame =>
        \A level \in 1 .. 3 : tables[TableFor(level, p)] # NoFrame

\* Every page of the heap below brk is present, through any number of faults
\* and across execve, which starts brk over.
HeapBelowBrkPresent ==
    stage = "user" => \A p \in Page :
        (PageOf(HEAP_START) <= p /\ p * PAGESIZE < brk) => pt[p] # NoFrame

\* While a program runs, all of its image and the top of its stack is present,
\* so only the byte at the end of an area can fault inside an area.
ImagePresent ==
    (stage = "user" /\ image # <<>>) =>
        /\ pt[PageOf(STACK_START - PAGESIZE)] # NoFrame
        /\ \A v \in vmas : \A a \in Addr :
              (v.start <= a /\ a < v.end) => pt[PageOf(a)] # NoFrame

\* A page fault puts no other frame under a page that is present, except under
\* the heap page at brk, which grow_heap maps without looking: the first growth
\* of the heap replaces the page at HEAP_START that load_binaries mapped.
FaultKeepsPages ==
    [][fault # NoFault =>
         \A p \in Page : (pt[p] # NoFrame /\ pt'[p] # pt[p]) => p = PageOf(brk)]_vars

\* The addresses the fault handler can make present: the stack down to
\* STACK_END, and the heap up to one page below HEAP_END.
Growable == {a \in Addr : \/ STACK_END <= a /\ a < STACK_START
                          \/ HEAP_START <= a /\ a < HEAP_END - PAGESIZE}

\* An access to the stack window or the heap completes after finitely many
\* faults, unless memory runs out.
GrowableBecomesPresent == \A a \in Growable : (fault = a) ~> (fault # a \/ short)

\* README:33 puts the end of the heap at HEAP_END, and malloc (libc/malloc.c:58)
\* hands out addresses up to it: an access to any of them completes.
HeapReachesEnd ==
    \A a \in Addr : (HEAP_START <= a /\ a < HEAP_END /\ fault = a) ~> (fault # a \/ short)

\* README:30 gives the stack STACK_MAX_SIZE bytes, and load_binaries records an
\* area of that size: no access to them stops the machine.
StackReachesMaxSize ==
    stage = "stopped" => ~(STACK_START - STACK_MAX_SIZE <= fault /\ fault < STACK_START)
=============================================================================
