----------------------------- MODULE PhysMemory -----------------------------
(***************************************************************************)
(* The physical frame allocator of sys/physmemory.c, from the first entry  *)
(* of the loader's memory map (start() in sys/main.c) to the exhaustion of *)
(* memory.                                                                 *)
(*                                                                         *)
(* freeList is the bitmap the kernel places at physfree: word w holds the  *)
(* set of its busy bits, and bit b of word w stands for the frame          *)
(* w * WORDBITS + b.  Nothing clears the bitmap before it is used, so its  *)
(* initial contents are arbitrary.  Constants keep the source's roles:     *)
(* PAGESIZE is 4096, WORDBITS 64, WORDBYTES 8 and SCANWORDS 256.           *)
(***************************************************************************)
EXTENDS Integers, Sequences, FiniteSets

CONSTANTS PAGESIZE,    \* bytes of a frame
          WORDBITS,    \* frames a word of the bitmap stands for
          WORDBYTES,   \* bytes of a word of the bitmap
          SCANWORDS,   \* words findFreePage looks at
          MAPWORDS,    \* words of bitmap the largest memory map touches
          SMaps,       \* the memory maps the loader may report
          PhysFrees    \* the addresses at which the kernel image may end

Word    == 0 .. MAPWORDS - 1
Bit     == 0 .. WORDBITS - 1
Page    == 0 .. MAPWORDS * WORDBITS - 1
Scanned == 0 .. SCANWORDS * WORDBITS - 1

Entry == [base : Nat, length : Nat, type : Nat]

\* main.c looks only at entries of type 1 (RAM) that are not empty.
Usable(e) == e.type = 1 /\ e.length # 0

ASSUME SizesAssumption ==
    /\ PAGESIZE \in Nat \ {0}
    /\ WORDBITS \in Nat \ {0}
    /\ WORDBYTES \in Nat \ {0}
    /\ SCANWORDS \in Nat \ {0}
    /\ MAPWORDS \in Nat
    /\ SCANWORDS <= MAPWORDS

\* The words findFreePage reads lie in the frame at physfree.
ASSUME ScanFitsAssumption == SCANWORDS * WORDBYTES <= PAGESIZE

\* Every memory map has RAM in it, and none reaches past the bitmap.
ASSUME SMapsAssumption ==
    \A s \in SMaps :
        /\ s \in Seq(Entry)
        /\ \E k \in DOMAIN s : Usable(s[k])
        /\ \A k \in DOMAIN s :
              (s[k].base + s[k].length) \div PAGESIZE <= MAPWORDS * WORDBITS

\* The boot loader reports an image that ends on a page boundary, below the
\* end of the bitmap.
ASSUME PhysFreesAssumption ==
    \A a \in PhysFrees : /\ a \in Nat
                         /\ a % PAGESIZE = 0
                         /\ a \div PAGESIZE \in Page

VARIABLES phase,      \* "boot" while the memory map is read, then "run"
          smap,       \* the memory map
          next,       \* the entry of smap that is read next
          physfree,   \* where the image ends and the bitmap begins
          freeList,   \* the bitmap: the busy bits of every word
          maxBase,    \* largest base makeFreeList was given
          maxEnd,     \* largest end makeFreeList was given
          mapLimit,   \* last address identity_mapping maps
          answer,     \* the address the last allocatePage returned
          stale,      \* ghost: frames whose bit was clear before boot
          handouts    \* ghost: how often each frame was handed out

vars == <<phase, smap, next, physfree, freeList, maxBase, maxEnd, mapLimit,
          answer, stale, handouts>>

-----------------------------------------------------------------------------
(* The bitmap.                                                             *)

Busy(fl, p) == p % WORDBITS \in fl[p \div WORDBITS]

setPagesFree(fl, S) ==
    [w \in Word |-> {b \in fl[w] : w * WORDBITS + b \notin S}]

\* Mutant: the shift wraps one bit short of the word.
setPagesBusy_ShortShift(fl, S) ==
    [w \in Word |-> fl[w] \cup {p % (WORDBITS - 1) : p \in {q \in S : q \div WORDBITS = w}}]

setPagesBusy(fl, S) ==
    [w \in Word |-> fl[w] \cup {b \in Bit : w * WORDBITS + b \in S}]

\* Mutant: the loop ends one frame early.
EntryPages_StopsShort(base, end) ==
    {p \in Page : base \div PAGESIZE <= p /\ p + 1 < end \div PAGESIZE}

\* Mutant: the loop runs through the frame that begins at the end.
EntryPages_PastEnd(base, end) == {p \in Page : base \div PAGESIZE <= p /\ p <= end \div PAGESIZE}

\* The frames makeFreeList frees for an entry: both ends are rounded down.
EntryPages(base, end) == {p \in Page : base \div PAGESIZE <= p /\ p < end \div PAGESIZE}

\* Mutant: the loop stops short of physfree itself.
Reserved_Below(pf) == {p \in Page : p * PAGESIZE < pf}

\* The frames makeFreeList keeps for the image and the bitmap.
Reserved(pf) == {p \in Page : p * PAGESIZE <= pf}

\* findFreePage scans words, and bits in a word, in ascending order.
findFreePage(fl, p) ==
    /\ p \in Scanned
    /\ ~Busy(fl, p)
    /\ \A q \in Scanned : q < p => Busy(fl, q)

\* Mutant: the scan gives up one frame early.
NoFreePage_Early(fl) == \A q \in Scanned : q + 1 \in Scanned => Busy(fl, q)

NoFreePage(fl) == \A q \in Scanned : Busy(fl, q)

LargerOf(x, y) == IF x > y THEN x ELSE y

-----------------------------------------------------------------------------
Init == /\ phase = "boot"
        /\ smap \in SMaps
        /\ next = 1
        /\ physfree \in PhysFrees
        /\ freeList \in [Word -> SUBSET Bit]
        /\ maxBase = 0
        /\ maxEnd = 0
        /\ mapLimit = 0
        /\ answer = 0
        /\ stale = {p \in Page : ~Busy(freeList, p)}
        /\ handouts = [p \in Page |-> 0]

\* main.c's loop over one usable entry: makeFreeList, then the check of
\* main.c:33, which reads the maxEnd that makeFreeList has just raised.
makeFreeList ==
    /\ phase = "boot"
    /\ next \in DOMAIN smap
    /\ Usable(smap[next])
    /\ LET e    == smap[next]
           end  == e.base + e.length
           base1 == LargerOf(e.base, maxBase)
           end1  == LargerOf(end, maxEnd)
       IN  /\ freeList' = setPagesBusy(setPagesFree(freeList, EntryPages(e.base, end)),
                                       Reserved(physfree))
           /\ maxBase' = IF e.length > end1 THEN e.base ELSE base1
           /\ maxEnd' = IF e.length > end1 THEN e.length ELSE end1
    /\ next' = next + 1
    /\ UNCHANGED <<phase, smap, physfree, mapLimit, answer, stale, handouts>>

\* An entry that is empty or not RAM is passed over: the bits of its frames
\* keep whatever they were.
SkipEntry ==
    /\ phase = "boot"
    /\ next \in DOMAIN smap
    /\ ~Usable(smap[next])
    /\ next' = next + 1
    /\ UNCHANGED <<phase, smap, physfree, freeList, maxBase, maxEnd, mapLimit,
                   answer, stale, handouts>>

\* The map is read: start() calls setUpPageTables with maxBase + maxEnd, up to
\* which identity_mapping maps every frame, and allocation begins.
FinishBoot ==
    /\ phase = "boot"
    /\ next \notin DOMAIN smap
    /\ phase' = "run"
    /\ mapLimit' = maxBase + maxEnd
    /\ UNCHANGED <<smap, next, physfree, freeList, maxBase, maxEnd, answer,
                   stale, handouts>>

\* allocatePage() finds a frame.
AllocatePage ==
    /\ phase = "run"
    /\ \E p \in Page :
          /\ findFreePage(freeList, p)
          /\ freeList' = setPagesBusy(freeList, {p})
          /\ answer' = p * PAGESIZE
          /\ handouts' = [handouts EXCEPT ![p] = @ + 1]
    /\ UNCHANGED <<phase, smap, next, physfree, maxBase, maxEnd, mapLimit, stale>>

\* allocatePage() finds none and returns 0, which is also the address of the
\* frame at the bottom of memory.
AllocateFails ==
    /\ phase = "run"
    /\ NoFreePage(freeList)
    /\ answer' = 0
    /\ UNCHANGED <<phase, smap, next, physfree, freeList, maxBase, maxEnd,
                   mapLimit, stale, handouts>>

Next == makeFreeList \/ SkipEntry \/ FinishBoot \/ AllocatePage \/ AllocateFails

Spec == Init /\ [][Next]_vars

-----------------------------------------------------------------------------
(* Properties.                                                             *)

TypeOK ==
    /\ phase \in {"boot", "run"}
    /\ smap \in SMaps
    /\ next \in 1 .. Len(smap) + 1
    /\ physfree \in PhysFrees
    /\ freeList \in [Word -> SUBSET Bit]
    /\ maxBase \in Nat
    /\ maxEnd \in Nat
    /\ mapLimit \in Nat
    /\ answer \in Nat
    /\ stale \in SUBSET Page
    /\ handouts \in [Page -> Nat]

HandedOut == {p \in Page : handouts[p] > 0}

\* No frame is handed out twice: every caller of allocatePage has its frame to
\* itself (physmemory.c never frees one, so this is for good).
NoFrameTwice == \A p \in Page : handouts[p] <= 1

\* No frame that is handed out overlaps the kernel image or the words of the
\* bitmap that findFreePage still reads, in whatever order the entries of the
\* memory map came and whatever the bitmap held before (physmemory.c:40).
ImageAndBitmapKept ==
    \A p \in HandedOut : p * PAGESIZE >= physfree + SCANWORDS * WORDBYTES

\* A frame that is handed out has RAM in it according to the memory map,
\* unless its bit was left clear by whatever lay at physfree before boot.
RamOrStale ==
    \A p \in HandedOut \ stale :
        \E k \in DOMAIN smap :
            /\ Usable(smap[k])
            /\ p * PAGESIZE < smap[k].base + smap[k].length
            /\ smap[k].base < (p + 1) * PAGESIZE

\* No RAM within the scan is lost: whatever the order of the entries and what
\* an entry does to the frames of another, once boot is over a frame that is
\* RAM to its last byte and lies above the bitmap has been handed out or waits
\* for it.  With Implements, allocatePage is refused only when all of them are
\* out (physmemory.c:35-48).
WholeFrame(e, p) == e.base <= p * PAGESIZE /\ (p + 1) * PAGESIZE <= e.base + e.length

NoRamLost ==
    phase = "run" =>
        \A p \in Scanned, k \in DOMAIN smap :
            Usable(smap[k]) /\ WholeFrame(smap[k], p) /\ p \notin Reserved(physfree)
                => ~Busy(freeList, p) \/ handouts[p] = 1

\* What the kernel relies on, and no run checks: it reaches every frame it is
\* given through the direct map at VIRTUAL.  A stale bit can belong to a frame
\* beyond mapLimit, where there is neither RAM nor a mapping.
DirectMapReaches == \A p \in HandedOut : p * PAGESIZE <= mapLimit

\* Successive answers ascend, and once a request has been refused no later one
\* is met: 0 after a frame means memory is gone for good.
AnswersAscend ==
    [][/\ answer' # 0 => answer' > answer
       /\ (answer = 0 /\ HandedOut # {}) => answer' = 0]_vars

\* The bitmap allocator implements the abstract one.
FA == INSTANCE FrameAllocator WITH
         Frame   <- {p \in Page : p # 0},
         Refused <- 0,
         ready   <- phase = "run",
         pool    <- IF phase = "run" THEN {p \in Scanned : ~Busy(freeList, p)} ELSE {},
         out     <- HandedOut,
         answer  <- answer \div PAGESIZE

Implements == FA!FASpec
=============================================================================
