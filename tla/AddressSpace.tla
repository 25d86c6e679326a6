----------------------------- MODULE AddressSpace -----------------------------
(***************************************************************************)
(* What the processes find in their memory: load_binaries (sys/elf64.c)    *)
(* copies the segments of a program, fork (sys/process.c) gives the child  *)
(* a page table with the parent's frames, execve loads a program into the  *)
(* page table there is, and the page fault handler (sys/irq.c) adds pages. *)
(* DemandPaging has the bytes of the limits and the tables of one process; *)
(* here a page is PAGESIZE words, and the frames are those under the pages *)
(* of users.  allocatePage hands none of them out twice (NoFrameTwice of   *)
(* PhysMemory), and memory that was never used reads as zero: the tables   *)
(* of a child, which fork does not clear, depend on that.                  *)
(*                                                                         *)
(* The processor may go on using a translation it has read (tlb) until cr3 *)
(* is loaded: nothing here invalidates one when an entry is replaced.      *)
(***************************************************************************)
EXTENDS Integers, Sequences

CONSTANTS PAGESIZE,
          HEADER,           \* sizeof(Elf64_Ehdr)
          HEAP, HEAPEND,    \* the page at HEAP_START, the page of HEAP_END
          STACKEND, STACK,  \* the pages the stack may have, STACK on top
          Programs,         \* the program headers of each binary
          Stores,           \* bound: the addresses programs store to
          PROCS,            \* bound: processes
          FRAMES            \* bound: frames handed out

Proc == 1 .. PROCS
Frame == 1 .. FRAMES
Page == 0 .. STACK
Word == 0 .. PAGESIZE - 1
Addr == 0 .. (STACK + 1) * PAGESIZE - 1
None == 0
PageOf(a) == a \div PAGESIZE

Header == [load : BOOLEAN, flags : {"RX", "RW", "R"}, offset : Nat,
           vaddr : Nat, filesz : Nat, memsz : Nat]

\* Programs are linked below the heap.
ASSUME AddressSpaceAssumption ==
    /\ PAGESIZE \in Nat \ {0} /\ HEADER \in Nat
    /\ HEAP \in Nat /\ HEAPEND \in Nat /\ STACKEND \in Nat /\ STACK \in Nat
    /\ HEAP < HEAPEND /\ HEAPEND <= STACKEND /\ STACKEND <= STACK
    /\ Programs \in Seq(Seq(Header)) /\ Programs # <<>>
    /\ \A b \in DOMAIN Programs : \A k \in DOMAIN Programs[b] :
          LET h == Programs[b][k]
          IN  h.filesz <= h.memsz /\ h.vaddr + h.memsz <= HEAP * PAGESIZE
    /\ Stores \subseteq Addr
    /\ PROCS \in Nat \ {0} /\ FRAMES \in Nat

VARIABLES procs,     \* the processes there are
          program,   \* the binary each was loaded from
          space,     \* the page table of each: the frame of a page, or None
          brk,       \* the page at mm_struct->brk of each
          mem,       \* what the frames hold
          free,      \* the next frame allocatePage hands out
          cur,       \* currentTask
          seg,       \* the header load_binaries is at; 0 when a program runs
          tlb        \* translations the processor may still use

vars == <<procs, program, space, brk, mem, free, cur, seg, tlb>>

File(b, position) == <<"file", b, position>>
Stored(p) == <<"stored", p, 0>>
Untouched == <<"untouched", 0, 0>>

NoTranslations == [pg \in Page |-> None]

Content(p, a) ==
    IF space[p][PageOf(a)] = None THEN Untouched
    ELSE mem[space[p][PageOf(a)]][a % PAGESIZE]

-----------------------------------------------------------------------------
\* createInitThread loads the shell into the first user process.
Init ==
    /\ procs = {1}
    /\ program = [p \in Proc |-> 1]
    /\ space = [p \in Proc |-> NoTranslations]
    /\ brk = [p \in Proc |-> HEAP]
    /\ mem = [f \in Frame |-> [w \in Word |-> Untouched]]
    /\ free = 1
    /\ cur = 1
    /\ seg = 1
    /\ tlb = NoTranslations

\* The pages of a segment: vm_start is rounded down and vm_end up.
FirstPage(h) == h.vaddr \div PAGESIZE
EndPage(h) == (h.vaddr + h.memsz + PAGESIZE - 1) \div PAGESIZE
Pages(h) == FirstPage(h) .. EndPage(h) - 1

\* Mutant: a page that is present keeps its frame.
Mapped_KeepsPresent(table, first, end) ==
    [pg \in Page |-> IF pg \in first .. end - 1 /\ table[pg] = None
                     THEN free + (pg - first) ELSE table[pg]]

\* map_vir_phy_userspace of a fresh frame for each page, over what is there.
Mapped(table, first, end) ==
    [pg \in Page |-> IF pg \in first .. end - 1 THEN free + (pg - first) ELSE table[pg]]

\* Frames are there for n pages (DemandPaging says what happens if not).
Take(n) == free + n <= FRAMES + 1 /\ free' = free + n

Copied(h, a) ==
    h.flags \in {"RX", "RW"} /\ h.vaddr <= a /\ a < h.vaddr + h.filesz

\* Mutant: the file is copied from behind its header.
Source_BehindHeader(h, a) == HEADER + h.offset + (a - h.vaddr)

\* Where the word for address a comes from: elf_ehdr + p_offset counts in
\* headers, so p_offset is taken times the size of one.
Source(h, a) == HEADER * h.offset + (a - h.vaddr)

\* The frame the copy writes for a page: where an earlier segment was copied
\* to the same page, that may still be the frame the page had then.
Target(h, stale, pg) ==
    IF pg \in stale THEN tlb[pg]
    ELSE Mapped(space[cur], FirstPage(h), EndPage(h))[pg]

CopiedTo(h, stale, f, w) ==
    {a \in Addr : Copied(h, a) /\ a % PAGESIZE = w /\ Target(h, stale, PageOf(a)) = f}

\* A loadable header: an area, its pages, and the copy.
LoadSegment(h) ==
    /\ h.load
    /\ Take(EndPage(h) - FirstPage(h))
    /\ space' = [space EXCEPT ![cur] = Mapped(space[cur], FirstPage(h), EndPage(h))]
    /\ \E stale \in SUBSET {pg \in Pages(h) : tlb[pg] # None} :
         /\ mem' = [f \in Frame |-> [w \in Word |->
                       IF CopiedTo(h, stale, f, w) = {} THEN mem[f][w]
                       ELSE File(program[cur],
                                 Source(h, CHOOSE a \in CopiedTo(h, stale, f, w) : TRUE))]]
         /\ tlb' = [pg \in Page |->
                       IF \E a \in Addr : PageOf(a) = pg /\ Copied(h, a)
                       THEN Target(h, stale, pg) ELSE tlb[pg]]
    /\ UNCHANGED brk

SkipHeader(h) ==
    ~ h.load /\ UNCHANGED <<space, brk, mem, free, tlb>>

LoadHeader ==
    /\ seg \in DOMAIN Programs[program[cur]]
    /\ LET h == Programs[program[cur]][seg] IN LoadSegment(h) \/ SkipHeader(h)
    /\ seg' = seg + 1
    /\ UNCHANGED <<procs, program, cur>>

\* The heap and its first page, the stack and its top page; then cr3 is
\* loaded and the program starts.
LoadRest ==
    /\ seg = Len(Programs[program[cur]]) + 1
    /\ Take(2)
    /\ space' = [space EXCEPT ![cur] = [@ EXCEPT ![HEAP] = free, ![STACK] = free + 1]]
    /\ brk' = [brk EXCEPT ![cur] = HEAP]
    /\ seg' = 0
    /\ tlb' = NoTranslations
    /\ UNCHANGED <<procs, program, mem, cur>>

-----------------------------------------------------------------------------
(* What a program does.                                                    *)

Loaded(p) == {Programs[program[p]][k] : k \in DOMAIN Programs[program[p]]}
InArea(p, a) == \E h \in Loaded(p) : h.load /\ h.vaddr <= a /\ a <= h.vaddr + h.memsz

\* Where a program stores: its data, its heap and its stack.
Writable(p, a) ==
    \/ \E h \in Loaded(p) :
          h.load /\ h.flags = "RW" /\ h.vaddr <= a /\ a < h.vaddr + h.memsz
    \/ PageOf(a) \in HEAP .. HEAPEND - 1
    \/ PageOf(a) \in STACKEND .. STACK

Store(a) ==
    /\ seg = 0
    /\ Writable(cur, a)
    /\ space[cur][PageOf(a)] # None
    /\ \E f \in {space[cur][PageOf(a)], tlb[PageOf(a)]} \ {None} :
          /\ mem' = [mem EXCEPT ![f] = [@ EXCEPT ![a % PAGESIZE] = Stored(cur)]]
          /\ tlb' = [tlb EXCEPT ![PageOf(a)] = f]
    /\ UNCHANGED <<procs, program, space, brk, free, cur, seg>>

\* Mutant: the fresh frame is not marked busy.
MapOne_NotTaken(pg) ==
    /\ free <= FRAMES
    /\ space' = [space EXCEPT ![cur] = [@ EXCEPT ![pg] = free]]
    /\ UNCHANGED free

MapOne(pg) ==
    /\ Take(1)
    /\ space' = [space EXCEPT ![cur] = [@ EXCEPT ![pg] = free]]

\* my_pagefault_function: an area, else the stack, else the heap with the
\* address HEAP_END itself, where the page at brk is mapped, present or not.
Fault(a) ==
    /\ seg = 0
    /\ space[cur][PageOf(a)] = None
    /\ \/ /\ InArea(cur, a) \/ PageOf(a) \in STACKEND .. STACK
          /\ MapOne(PageOf(a))
          /\ UNCHANGED brk
       \/ /\ ~ InArea(cur, a) /\ PageOf(a) \notin STACKEND .. STACK
          /\ HEAP * PAGESIZE <= a /\ a <= HEAPEND * PAGESIZE
          /\ brk[cur] + 1 < HEAPEND
          /\ MapOne(brk[cur])
          /\ brk' = [brk EXCEPT ![cur] = @ + 1]
    /\ UNCHANGED <<procs, program, mem, cur, seg, tlb>>

\* fork: copy_parents_pagetables enters the parent's frames in tables of the
\* child's own; the areas and brk are copied; cr3 is loaded twice.
fork ==
    /\ seg = 0
    /\ \E p \in Proc \ procs :
          /\ \A q \in 1 .. p - 1 : q \in procs
          /\ procs' = procs \cup {p}
          /\ program' = [program EXCEPT ![p] = program[cur]]
          /\ space' = [space EXCEPT ![p] = space[cur]]
          /\ brk' = [brk EXCEPT ![p] = brk[cur]]
    /\ tlb' = NoTranslations
    /\ UNCHANGED <<mem, free, cur, seg>>

\* Mutant: cr3 is not loaded.
switch_NoReload ==
    /\ seg = 0
    /\ cur' \in procs \ {cur}
    /\ UNCHANGED <<procs, program, space, brk, mem, free, seg, tlb>>

\* contextSwitch to any other process (Process says to which).
switch ==
    /\ seg = 0
    /\ cur' \in procs \ {cur}
    /\ tlb' = NoTranslations
    /\ UNCHANGED <<procs, program, space, brk, mem, free, seg>>

\* execve: a new mm_struct, and cr3 is loaded; the page table stays.
execve(b) ==
    /\ seg = 0
    /\ program' = [program EXCEPT ![cur] = b]
    /\ seg' = 1
    /\ tlb' = NoTranslations
    /\ UNCHANGED <<procs, space, brk, mem, free, cur>>

Next ==
    \/ LoadHeader \/ LoadRest
    \/ \E a \in Stores : Store(a)
    \/ \E a \in Addr : Fault(a)
    \/ fork \/ switch
    \/ \E b \in DOMAIN Programs : execve(b)

Spec == Init /\ [][Next]_vars

-----------------------------------------------------------------------------
\* Types.
TypeOK ==
    /\ procs \subseteq Proc /\ cur \in procs
    /\ program \in [Proc -> DOMAIN Programs]
    /\ space \in [Proc -> [Page -> Frame \cup {None}]]
    /\ brk \in [Proc -> HEAP .. HEAPEND - 1]
    /\ free \in 1 .. FRAMES + 1
    /\ seg \in 0 .. Len(Programs[program[cur]]) + 1
    /\ tlb \in [Page -> Frame \cup {None}]

\* A frame is under the same page wherever it is shared: no fault, load or
\* fork, in any order and in any process, puts one under two pages.
SameFrameSamePage ==
    \A p, q \in procs : \A pg1, pg2 \in Page :
        (space[p][pg1] # None /\ space[p][pg1] = space[q][pg2]) => pg1 = pg2

\* A program that is loaded (elf64.c:80-90) changes nothing that another
\* process finds in its memory, although the table it is loaded into was full
\* of frames shared since the fork, and translations may be stale.
LoadLeavesOthers ==
    [][seg # 0 => \A q \in procs \ {cur} : \A a \in Addr :
                      Content(q, a)' = Content(q, a)]_vars

\* No other segment of the program has a page of the k-th one.
Alone(p, k) ==
    LET b == Programs[program[p]]
    IN  \A j \in DOMAIN b \ {k} : b[j].load => Pages(b[j]) \cap Pages(b[k]) = {}

\* What is at the beginning of a file is where its header says, for as long as
\* the program runs, except where it, or who shares its frames, stored.
StartsRight(p, k) ==
    LET h == Programs[program[p]][k]
    IN  (h.load /\ h.offset = 0 /\ Alone(p, k)) =>
            \A a \in Addr : Copied(h, a) =>
                \/ Content(p, a) = File(program[p], a - h.vaddr)
                \/ h.flags = "RW" /\ \E q \in procs : Content(p, a) = Stored(q)
StartOfFileLoaded ==
    \A p \in procs : (p # cur \/ seg = 0) =>
        \A k \in DOMAIN Programs[program[p]] : StartsRight(p, k)

\* A store goes to a frame of the process that executes it.  The exception is a
\* heap page the growth of the heap replaces under it (irq.c:112-117): the first
\* one, and after execve those of the old program.
StoreReachesOwnPage ==
    [][seg = 0 => \A f \in Frame : mem'[f] # mem[f] =>
          \/ \E pg \in Page : space[cur][pg] = f
          \/ \E pg \in HEAP .. brk[cur] - 1 : tlb[pg] = f]_vars

\* malloc's pointer, and all other data of a program, starts with its value
\* ("static uint64_t heap_ptr = (uint64_t) HEAP_START", libc/malloc.c:14, and
\* "HEAP_START 0x08000000", README:32).
DataLoaded ==
    \A p \in procs : (p # cur \/ seg = 0) =>
        \A k \in DOMAIN Programs[program[p]] :
            LET h == Programs[program[p]][k]
            IN  (h.load /\ h.flags = "RW" /\ Alone(p, k)) =>
                    \A a \in Addr : Copied(h, a) =>
                        \/ Content(p, a) = File(program[p], h.offset + (a - h.vaddr))
                        \/ \E q \in procs : Content(p, a) = Stored(q)
===============================================================================
