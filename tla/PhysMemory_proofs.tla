-------------------------- MODULE PhysMemory_proofs --------------------------
(***************************************************************************)
(* Proofs about the frame allocator, for every page size, word size, scan  *)
(* width and memory map the assumptions of PhysMemory allow.               *)
(***************************************************************************)
EXTENDS PhysMemory, TLAPS

-----------------------------------------------------------------------------
(* The inductive invariant.                                                *)

\* Until boot is over nothing has been handed out and every answer is 0.
QuietBoot ==
    /\ phase = "boot" => /\ answer = 0
                         /\ \A p \in Page : handouts[p] = 0
    /\ phase = "run" => next = Len(smap) + 1

\* A frame that was handed out is busy, and was handed out once.
HeldIsBusy ==
    \A p \in Page : /\ handouts[p] <= 1
                    /\ handouts[p] = 1 => Busy(freeList, p)

\* From the first usable entry on, the frames of the image and the bitmap are
\* busy, and none of them was handed out.
ReservedBusy ==
    /\ (\E k \in 1 .. next - 1 : Usable(smap[k]))
          => \A p \in Reserved(physfree) : Busy(freeList, p)
    /\ \A p \in Reserved(physfree) : handouts[p] = 0

\* A frame that is clear, or was handed out, is stale or overlaps a usable
\* entry already read, whose end maxEnd covers.
ClearIsRam ==
    \A p \in Page :
        (~Busy(freeList, p) \/ handouts[p] > 0) =>
            \/ p \in stale
            \/ \E k \in 1 .. next - 1 :
                  /\ Usable(smap[k])
                  /\ p * PAGESIZE < smap[k].base + smap[k].length
                  /\ smap[k].base < (p + 1) * PAGESIZE

\* A frame that an entry read so far has whole, and that is not reserved, is
\* clear or was handed out: no later entry takes it back.
RamIsFree ==
    \A p \in Page, k \in 1 .. next - 1 :
        Usable(smap[k]) /\ WholeFrame(smap[k], p) /\ p \notin Reserved(physfree)
            => ~Busy(freeList, p) \/ handouts[p] = 1

\* Every scanned frame up to the last answer is busy; after a refusal all are.
ScanIsBehind ==
    /\ answer # 0 => \A q \in Scanned : q * PAGESIZE <= answer => Busy(freeList, q)
    /\ (answer = 0 /\ HandedOut # {}) => NoFreePage(freeList)

IInv == /\ TypeOK
        /\ QuietBoot
        /\ HeldIsBusy
        /\ ReservedBusy
        /\ ClearIsRam
        /\ RamIsFree
        /\ ScanIsBehind

-----------------------------------------------------------------------------
(* Arithmetic of words, bits and bytes.                                    *)

\* Every frame number splits into the word and the bit that stand for it, as
\* setPageBusy and setPageFree compute them.
LEMMA PageSplit ==
    ASSUME NEW p \in Page
    PROVE  /\ p \div WORDBITS \in Word
           /\ p % WORDBITS \in Bit
           /\ (p \div WORDBITS) * WORDBITS + (p % WORDBITS) = p
<1> DEFINE w == p \div WORDBITS
           b == p % WORDBITS
<1>1. p \in Nat /\ p < MAPWORDS * WORDBITS /\ WORDBITS \in Nat \ {0} /\ MAPWORDS \in Nat
  BY SizesAssumption DEF Page
<1>2. w \in Nat /\ b \in Bit /\ w * WORDBITS + b = p
  BY <1>1, Z3 DEF Bit
<1>3. w < MAPWORDS
  <2>1. SUFFICES ASSUME w >= MAPWORDS PROVE FALSE
    BY <1>1, <1>2
  <2>2. w * WORDBITS >= MAPWORDS * WORDBITS
    BY <1>1, <1>2, <2>1
  <2>3. QED
    BY <1>1, <1>2, <2>2 DEF Bit
<1>4. QED
  BY <1>1, <1>2, <1>3 DEF Word

\* The frames findFreePage looks at are frames of the bitmap.
LEMMA ScannedArePages == Scanned \subseteq Page
<1>1. SCANWORDS * WORDBITS <= MAPWORDS * WORDBITS
  BY SizesAssumption
<1>2. QED
  BY <1>1, SizesAssumption DEF Scanned, Page

\* Addresses grow with frame numbers.
LEMMA AddressOrder ==
    ASSUME NEW p \in Nat, NEW q \in Nat
    PROVE  /\ p * PAGESIZE \in Nat
           /\ (p < q) <=> (p * PAGESIZE < q * PAGESIZE)
           /\ p < q => p * PAGESIZE + PAGESIZE <= q * PAGESIZE
<1>1. PAGESIZE \in Nat \ {0}
  BY SizesAssumption
<1>2. p < q => p * PAGESIZE + PAGESIZE <= q * PAGESIZE
  <2>1. SUFFICES ASSUME p + 1 <= q PROVE (p + 1) * PAGESIZE <= q * PAGESIZE
    BY <1>1
  <2>2. QED
    BY <1>1, <2>1
<1>3. q <= p => q * PAGESIZE <= p * PAGESIZE
  BY <1>1
<1>4. p * PAGESIZE \in Nat /\ q * PAGESIZE \in Nat
  BY <1>1
<1>5. QED
  BY <1>1, <1>2, <1>3, <1>4

\* Rounding both ends of a region down leaves frames that have a byte of it.
LEMMA FreedFrameOverlaps ==
    ASSUME NEW base \in Nat, NEW end \in Nat, NEW p \in Nat,
           base \div PAGESIZE <= p, p < end \div PAGESIZE
    PROVE  p * PAGESIZE < end /\ base < (p + 1) * PAGESIZE
<1> DEFINE e == end \div PAGESIZE
           b == base \div PAGESIZE
<1>1. PAGESIZE \in Nat \ {0}
  BY SizesAssumption
<1>2. e \in Nat /\ e * PAGESIZE <= end
  BY <1>1
<1>3. b \in Nat /\ base < b * PAGESIZE + PAGESIZE
  BY <1>1
<1>4. p * PAGESIZE < e * PAGESIZE
  BY <1>2, AddressOrder
<1>5. b * PAGESIZE <= p * PAGESIZE
  BY <1>1, <1>3
<1>6. (p + 1) * PAGESIZE = p * PAGESIZE + PAGESIZE /\ p * PAGESIZE \in Nat /\ b * PAGESIZE \in Nat
  BY <1>1, <1>3
<1>7. e * PAGESIZE \in Nat
  BY <1>1, <1>2
<1>8. p * PAGESIZE < end
  BY <1>2, <1>4, <1>6, <1>7
<1>9. base < (p + 1) * PAGESIZE
  BY <1>1, <1>3, <1>5, <1>6
<1>10. QED
  BY <1>8, <1>9

\* The loop of makeFreeList reaches every frame an entry has whole.
LEMMA WholeFrameFreed ==
    ASSUME NEW base \in Nat, NEW end \in Nat, NEW p \in Page,
           base <= p * PAGESIZE, (p + 1) * PAGESIZE <= end
    PROVE  p \in EntryPages(base, end)
<1> DEFINE e == end \div PAGESIZE
           b == base \div PAGESIZE
<1>1. PAGESIZE \in Nat \ {0} /\ p \in Nat
  BY SizesAssumption DEF Page
<1>2. b \in Nat /\ b * PAGESIZE <= base
  BY <1>1
<1>3. e \in Nat /\ end < e * PAGESIZE + PAGESIZE
  BY <1>1
<1>4. ~(p < b)
  <2>1. p < b => p * PAGESIZE < b * PAGESIZE
    BY <1>1, <1>2, AddressOrder
  <2>2. p * PAGESIZE \in Nat /\ b * PAGESIZE \in Nat
    BY <1>1, <1>2
  <2>3. QED
    BY <1>2, <2>1, <2>2
<1>5. ~(e < p + 1)
  <2>1. p + 1 \in Nat
    BY <1>1
  <2>2. e < p + 1 => e * PAGESIZE + PAGESIZE <= (p + 1) * PAGESIZE
    BY <1>3, <2>1, AddressOrder
  <2>3. (p + 1) * PAGESIZE \in Nat /\ e * PAGESIZE \in Nat
    BY <1>1, <1>3
  <2>4. QED
    BY <1>1, <1>3, <2>2, <2>3
<1>6. b <= p /\ p < e
  BY <1>1, <1>2, <1>3, <1>4, <1>5
<1>7. QED
  BY <1>6 DEF EntryPages

-----------------------------------------------------------------------------
(* The bitmap operations.                                                  *)

\* setPageBusy makes exactly the given frames busy, and disturbs no other.
LEMMA BusyAfterBusy ==
    ASSUME NEW fl \in [Word -> SUBSET Bit], NEW S, NEW p \in Page
    PROVE  /\ setPagesBusy(fl, S) \in [Word -> SUBSET Bit]
           /\ Busy(setPagesBusy(fl, S), p) <=> Busy(fl, p) \/ p \in S
<1> DEFINE w == p \div WORDBITS
           b == p % WORDBITS
<1>1. w \in Word /\ b \in Bit /\ w * WORDBITS + b = p
  BY PageSplit
<1>2. setPagesBusy(fl, S) \in [Word -> SUBSET Bit]
  BY DEF setPagesBusy
<1>3. setPagesBusy(fl, S)[w] = fl[w] \cup {c \in Bit : w * WORDBITS + c \in S}
  BY <1>1 DEF setPagesBusy
<1>4. b \in setPagesBusy(fl, S)[w] <=> b \in fl[w] \/ p \in S
  BY <1>1, <1>3
<1>5. QED
  BY <1>2, <1>4 DEF Busy

\* setPageFree makes exactly the given frames clear, and disturbs no other.
LEMMA BusyAfterFree ==
    ASSUME NEW fl \in [Word -> SUBSET Bit], NEW S, NEW p \in Page
    PROVE  /\ setPagesFree(fl, S) \in [Word -> SUBSET Bit]
           /\ Busy(setPagesFree(fl, S), p) <=> Busy(fl, p) /\ p \notin S
<1> DEFINE w == p \div WORDBITS
           b == p % WORDBITS
<1>1. w \in Word /\ b \in Bit /\ w * WORDBITS + b = p
  BY PageSplit
<1>2. setPagesFree(fl, S) \in [Word -> SUBSET Bit]
  BY DEF setPagesFree
<1>3. setPagesFree(fl, S)[w] = {c \in fl[w] : w * WORDBITS + c \notin S}
  BY <1>1 DEF setPagesFree
<1>4. b \in setPagesFree(fl, S)[w] <=> b \in fl[w] /\ p \notin S
  BY <1>1, <1>3
<1>5. QED
  BY <1>2, <1>4 DEF Busy

\* setPageBusy and setPageFree keep the shape of the bitmap.
LEMMA BitmapShape ==
    ASSUME NEW fl \in [Word -> SUBSET Bit], NEW S
    PROVE  /\ setPagesBusy(fl, S) \in [Word -> SUBSET Bit]
           /\ setPagesFree(fl, S) \in [Word -> SUBSET Bit]
BY DEF setPagesBusy, setPagesFree
-----------------------------------------------------------------------------
(* Every step preserves the invariant, action by action.                   *)

LEMMA InitIInv == Init => IInv
<1> SUFFICES ASSUME Init PROVE IInv
  OBVIOUS
<1> USE DEF Init
<1>1. TypeOK
  <2>1. smap \in Seq(Entry)
    BY SMapsAssumption
  <2>2. next \in 1 .. Len(smap) + 1
    BY <2>1
  <2>3. QED
    BY <2>2 DEF TypeOK
<1>2. QuietBoot /\ HeldIsBusy /\ ReservedBusy
  BY DEF QuietBoot, HeldIsBusy, ReservedBusy, Reserved
<1>3. ClearIsRam
  BY DEF ClearIsRam
<1>4. RamIsFree
  BY DEF RamIsFree
<1>5. ScanIsBehind
  BY DEF ScanIsBehind, HandedOut
<1>6. QED
  BY <1>1, <1>2, <1>3, <1>4, <1>5 DEF IInv

\* Reading a usable entry of the memory map.
LEMMA MakeFreeListIInv == IInv /\ makeFreeList => IInv'
<1> SUFFICES ASSUME IInv, makeFreeList PROVE IInv'
  OBVIOUS
<1> DEFINE e    == smap[next]
           end  == e.base + e.length
           fl   == setPagesFree(freeList, EntryPages(e.base, end))
           res  == Reserved(physfree)
<1> USE DEF IInv
<1>1. /\ smap \in Seq(Entry) /\ next \in 1 .. Len(smap) /\ e \in Entry
      /\ e.base \in Nat /\ e.length \in Nat /\ end \in Nat
  <2>1. smap \in Seq(Entry) /\ next \in DOMAIN smap
    BY SMapsAssumption DEF TypeOK, makeFreeList
  <2>2. next \in 1 .. Len(smap) /\ e \in Entry
    BY <2>1
  <2>3. e.base \in Nat /\ e.length \in Nat
    BY <2>2 DEF Entry
  <2>4. QED
    BY <2>1, <2>2, <2>3
<1>2. \A p \in Page :
         Busy(freeList', p) <=> (Busy(freeList, p) /\ p \notin EntryPages(e.base, end)) \/ p \in res
  <2>1. freeList \in [Word -> SUBSET Bit] /\ fl \in [Word -> SUBSET Bit]
    BY BitmapShape DEF TypeOK
  <2>2. freeList' = setPagesBusy(fl, res)
    BY DEF makeFreeList
  <2>3. QED
    BY <2>1, <2>2, BusyAfterBusy, BusyAfterFree
<1>3. UNCHANGED <<phase, smap, physfree, mapLimit, answer, stale, handouts>> /\ next' = next + 1
  BY DEF makeFreeList
<1>4. maxEnd' \in Nat /\ maxBase' \in Nat
  BY <1>1 DEF makeFreeList, LargerOf, TypeOK
<1>5. TypeOK'
  <2>1. freeList' \in [Word -> SUBSET Bit]
    BY BitmapShape DEF TypeOK, makeFreeList
  <2>2. next' \in 1 .. Len(smap') + 1
    BY <1>1, <1>3
  <2>3. QED
    BY <1>3, <1>4, <2>1, <2>2 DEF TypeOK
<1>6. QuietBoot'
  BY <1>3 DEF QuietBoot, makeFreeList
<1>7. HeldIsBusy' /\ ReservedBusy'
  <2>1. \A p \in Page : handouts'[p] = 0
    BY <1>3 DEF QuietBoot, makeFreeList
  <2>2. \A p \in Reserved(physfree') : p \in Page /\ Busy(freeList', p)
    BY <1>2, <1>3 DEF Reserved
  <2>3. QED
    BY <2>1, <2>2 DEF HeldIsBusy, ReservedBusy
<1>8. ClearIsRam'
  <2> SUFFICES ASSUME NEW p \in Page, ~Busy(freeList', p), p \notin stale
               PROVE  \E k \in 1 .. next :
                         /\ Usable(smap[k])
                         /\ p * PAGESIZE < smap[k].base + smap[k].length
                         /\ smap[k].base < (p + 1) * PAGESIZE
    BY <1>1, <1>3 DEF ClearIsRam, QuietBoot, makeFreeList
  <2>1. CASE p \in EntryPages(e.base, end)
    <3>1. p \in Nat /\ e.base \div PAGESIZE <= p /\ p < end \div PAGESIZE
      BY <2>1, SizesAssumption DEF EntryPages, Page
    <3>2. p * PAGESIZE < end /\ e.base < (p + 1) * PAGESIZE
      BY <1>1, <3>1, FreedFrameOverlaps
    <3>3. QED
      BY <1>1, <3>2 DEF makeFreeList
  <2>2. CASE ~Busy(freeList, p)
    BY <1>1, <2>2 DEF ClearIsRam
  <2>3. QED
    BY <1>2, <2>1, <2>2
<1>9. RamIsFree'
  <2> SUFFICES ASSUME NEW p \in Page, NEW k \in 1 .. next, Usable(smap[k]),
                      WholeFrame(smap[k], p), p \notin res
               PROVE  ~Busy(freeList', p)
    BY <1>1, <1>3 DEF RamIsFree
  <2>1. CASE k = next
    <3>1. p \in EntryPages(e.base, end)
      BY <1>1, <2>1, WholeFrameFreed DEF WholeFrame
    <3>2. QED
      BY <1>2, <3>1
  <2>2. CASE k \in 1 .. next - 1
    <3>1. handouts[p] = 0
      BY DEF QuietBoot, makeFreeList
    <3>2. ~Busy(freeList, p)
      BY <2>2, <3>1 DEF RamIsFree
    <3>3. QED
      BY <1>2, <3>2
  <2>3. QED
    BY <1>1, <2>1, <2>2
<1>10. ScanIsBehind'
  BY <1>3 DEF QuietBoot, ScanIsBehind, HandedOut, makeFreeList
<1>11. QED
  BY <1>5, <1>6, <1>7, <1>8, <1>9, <1>10
\* Passing over an entry.
LEMMA SkipEntryIInv == IInv /\ SkipEntry => IInv'
<1> SUFFICES ASSUME IInv, SkipEntry PROVE IInv'
  OBVIOUS
<1> USE DEF IInv
<1>1. smap \in Seq(Entry) /\ next \in 1 .. Len(smap) /\ next' = next + 1
  <2>1. smap \in Seq(Entry) /\ next \in DOMAIN smap
    BY SMapsAssumption DEF TypeOK, SkipEntry
  <2>2. QED
    BY <2>1 DEF SkipEntry
<1>2. UNCHANGED <<phase, smap, physfree, freeList, maxBase, maxEnd, mapLimit,
                  answer, stale, handouts>>
  BY DEF SkipEntry
<1>3. phase = "boot" /\ ~Usable(smap[next])
  BY DEF SkipEntry
<1>4. \A k \in 1 .. next' - 1 : Usable(smap[k]) => k \in 1 .. next - 1
  BY <1>1, <1>3
<1>5. \A k \in 1 .. next - 1 : k \in 1 .. next' - 1
  BY <1>1
<1>6. TypeOK' /\ QuietBoot' /\ HeldIsBusy'
  BY <1>1, <1>2, <1>3 DEF TypeOK, QuietBoot, HeldIsBusy, Busy
<1>7. ReservedBusy' /\ RamIsFree'
  BY <1>2, <1>4 DEF ReservedBusy, RamIsFree, Reserved, Busy
<1>8. ClearIsRam'
  BY <1>2, <1>5 DEF ClearIsRam, Busy
<1>9. ScanIsBehind'
  BY <1>2 DEF ScanIsBehind, HandedOut, NoFreePage, Busy
<1>10. QED
  BY <1>6, <1>7, <1>8, <1>9

\* The end of boot.
LEMMA FinishBootIInv == IInv /\ FinishBoot => IInv'
<1> SUFFICES ASSUME IInv, FinishBoot PROVE IInv'
  OBVIOUS
<1> USE DEF IInv
<1>1. UNCHANGED <<smap, next, physfree, freeList, maxBase, maxEnd, answer,
                  stale, handouts>>
  BY DEF FinishBoot
<1>2. phase = "boot" /\ phase' = "run" /\ mapLimit' = maxBase + maxEnd
  BY DEF FinishBoot
<1>3. mapLimit' \in Nat
  BY <1>2 DEF TypeOK
<1>4. next = Len(smap) + 1
  <2>1. smap \in Seq(Entry) /\ next \in 1 .. Len(smap) + 1 /\ next \notin DOMAIN smap
    BY SMapsAssumption DEF TypeOK, FinishBoot
  <2>2. QED
    BY <2>1
<1>5. TypeOK' /\ QuietBoot' /\ HeldIsBusy'
  BY <1>1, <1>2, <1>3, <1>4 DEF TypeOK, QuietBoot, HeldIsBusy, Busy
<1>6. ReservedBusy' /\ ClearIsRam'
  BY <1>1 DEF ReservedBusy, ClearIsRam, Reserved, Busy
<1>7. RamIsFree'
  BY <1>1 DEF RamIsFree, Reserved, Busy
<1>8. ScanIsBehind'
  BY <1>1 DEF ScanIsBehind, HandedOut, NoFreePage, Busy
<1>9. QED
  BY <1>5, <1>6, <1>7, <1>8

\* In the run phase the frames of the image and the bitmap are busy.
LEMMA ReservedBusyInRun ==
    IInv /\ phase = "run" => \A p \in Reserved(physfree) : Busy(freeList, p)
<1> SUFFICES ASSUME IInv, phase = "run" PROVE \A p \in Reserved(physfree) : Busy(freeList, p)
  OBVIOUS
<1>1. smap \in Seq(Entry) /\ \E k \in DOMAIN smap : Usable(smap[k])
  BY SMapsAssumption DEF IInv, TypeOK
<1>2. next = Len(smap) + 1
  BY DEF IInv, QuietBoot
<1>3. \E k \in 1 .. next - 1 : Usable(smap[k])
  BY <1>1, <1>2
<1>4. QED
  BY <1>3 DEF IInv, ReservedBusy

\* An allocation that finds a frame.
LEMMA AllocatePageIInv == IInv /\ AllocatePage => IInv'
<1> SUFFICES ASSUME IInv, AllocatePage PROVE IInv'
  OBVIOUS
<1> USE DEF IInv
<1>1. phase = "run" /\ UNCHANGED <<phase, smap, next, physfree, maxBase, maxEnd, mapLimit, stale>>
  BY DEF AllocatePage
<1>2. PICK p \in Page : /\ findFreePage(freeList, p)
                        /\ freeList' = setPagesBusy(freeList, {p})
                        /\ answer' = p * PAGESIZE
                        /\ handouts' = [handouts EXCEPT ![p] = @ + 1]
  BY DEF AllocatePage
<1>3. freeList' \in [Word -> SUBSET Bit]
      /\ \A q \in Page : Busy(freeList', q) <=> Busy(freeList, q) \/ q = p
  BY <1>2, BitmapShape, BusyAfterBusy DEF TypeOK
<1>4. ~Busy(freeList, p)
  BY <1>2 DEF findFreePage
<1>5. handouts[p] = 0
  BY <1>4 DEF HeldIsBusy, TypeOK
<1>6. /\ handouts' \in [Page -> Nat]
      /\ \A q \in Page : handouts'[q] = IF q = p THEN 1 ELSE handouts[q]
  BY <1>2, <1>5 DEF TypeOK
<1>7. p \notin Reserved(physfree)
  BY <1>1, <1>4, ReservedBusyInRun
<1>8. p \in Nat /\ \A q \in Page : q \in Nat
  BY SizesAssumption DEF Page
<1>9. answer' \in Nat
  BY <1>2, <1>8, AddressOrder
<1>10. TypeOK'
  BY <1>1, <1>3, <1>6, <1>9 DEF TypeOK
<1>11. QuietBoot' /\ RamIsFree'
  <2>1. QuietBoot'
    BY <1>1 DEF QuietBoot
  <2>2. Reserved(physfree') = Reserved(physfree)
    BY <1>1 DEF Reserved
  <2>3. RamIsFree'
    BY <1>1, <1>3, <1>6, <2>2 DEF RamIsFree
  <2>4. QED
    BY <2>1, <2>3
<1>12. HeldIsBusy'
  BY <1>3, <1>6 DEF HeldIsBusy
<1>13. ReservedBusy'
  <2>1. \A q \in Reserved(physfree) : q \in Page /\ Busy(freeList', q)
    BY <1>1, <1>3, ReservedBusyInRun DEF Reserved
  <2>2. \A q \in Reserved(physfree) : handouts'[q] = 0
    BY <1>6, <1>7 DEF ReservedBusy, Reserved
  <2>3. QED
    BY <1>1, <2>1, <2>2 DEF ReservedBusy
<1>14. ClearIsRam'
  BY <1>1, <1>3, <1>4, <1>6 DEF ClearIsRam
<1>15. ScanIsBehind'
  <2>1. ASSUME NEW q \in Scanned, q * PAGESIZE <= p * PAGESIZE
        PROVE  Busy(freeList', q)
    <3>1. q \in Page /\ q \in Nat
      BY <1>8, ScannedArePages
    <3>2. q <= p
      BY <1>8, <2>1, <3>1, AddressOrder
    <3>3. CASE q = p
      BY <1>3, <3>1, <3>3
    <3>4. CASE q < p
      BY <1>2, <1>3, <3>1, <3>4 DEF findFreePage
    <3>5. QED
      BY <1>8, <3>1, <3>2, <3>3, <3>4
  <2>2. answer' # 0
    <3>1. 0 \in Reserved(physfree)
      <4>1. MAPWORDS * WORDBITS > 0
        BY <1>8, SizesAssumption DEF Page
      <4>2. 0 \in Page /\ 0 * PAGESIZE = 0
        BY <4>1, SizesAssumption DEF Page
      <4>3. physfree \in Nat
        BY PhysFreesAssumption DEF TypeOK
      <4>4. QED
        BY <4>2, <4>3 DEF Reserved
    <3>2. 0 < p
      BY <1>7, <1>8, <3>1
    <3>3. QED
      BY <1>2, <1>8, <3>2, AddressOrder
  <2>3. QED
    BY <1>2, <2>1, <2>2 DEF ScanIsBehind
<1>16. QED
  BY <1>10, <1>11, <1>12, <1>13, <1>14, <1>15

\* An allocation that finds none.
LEMMA AllocateFailsIInv == IInv /\ AllocateFails => IInv'
<1> SUFFICES ASSUME IInv, AllocateFails PROVE IInv'
  OBVIOUS
<1> USE DEF IInv, AllocateFails
<1>1. TypeOK' /\ QuietBoot' /\ HeldIsBusy'
  BY DEF TypeOK, QuietBoot, HeldIsBusy, Busy
<1>2. ReservedBusy' /\ ClearIsRam' /\ RamIsFree'
  BY DEF ReservedBusy, ClearIsRam, RamIsFree, Reserved, Busy
<1>3. ScanIsBehind'
  BY DEF ScanIsBehind, NoFreePage, Busy
<1>4. QED
  BY <1>1, <1>2, <1>3

LEMMA NextIInv == IInv /\ [Next]_vars => IInv'
<1> SUFFICES ASSUME IInv, [Next]_vars PROVE IInv'
  OBVIOUS
<1>1. CASE makeFreeList
  BY <1>1, MakeFreeListIInv
<1>2. CASE SkipEntry
  BY <1>2, SkipEntryIInv
<1>3. CASE FinishBoot
  BY <1>3, FinishBootIInv
<1>4. CASE AllocatePage
  BY <1>4, AllocatePageIInv
<1>5. CASE AllocateFails
  BY <1>5, AllocateFailsIInv
<1>6. CASE UNCHANGED vars
  BY <1>6 DEF vars, IInv, TypeOK, QuietBoot, HeldIsBusy, ReservedBusy, ClearIsRam,
              RamIsFree, ScanIsBehind, HandedOut, Reserved, NoFreePage, Busy
<1>7. QED
  BY <1>1, <1>2, <1>3, <1>4, <1>5, <1>6 DEF Next

\* The inductive invariant holds throughout boot and every allocation after it.
THEOREM Inductive == Spec => []IInv
BY InitIInv, NextIInv, PTL DEF Spec
-----------------------------------------------------------------------------
(* The properties of the runs, for every value of the constants.           *)

\* Every variable keeps its type from boot to exhaustion.
THEOREM TypeCorrect == Spec => []TypeOK
BY Inductive, PTL DEF IInv

\* allocatePage never hands a frame to two callers.
THEOREM FramesExclusive == Spec => []NoFrameTwice
<1>1. IInv => NoFrameTwice
  BY DEF IInv, HeldIsBusy, NoFrameTwice
<1>2. QED
  BY <1>1, Inductive, PTL

\* allocatePage never hands out a frame of the image or of the scanned bitmap.
THEOREM ImageSafe == Spec => []ImageAndBitmapKept
<1>1. ASSUME IInv, NEW p \in HandedOut
      PROVE  p * PAGESIZE >= physfree + SCANWORDS * WORDBYTES
  <2> DEFINE k == physfree \div PAGESIZE
             scan == SCANWORDS * WORDBYTES
  <2>1. physfree \in Nat /\ physfree % PAGESIZE = 0 /\ k \in Page
    BY <1>1, PhysFreesAssumption DEF IInv, TypeOK
  <2>2. k \in Nat /\ physfree = k * PAGESIZE
    BY <2>1, SizesAssumption
  <2>3. p \in Page /\ p \in Nat /\ p \notin Reserved(physfree)
    BY <1>1, SizesAssumption DEF IInv, TypeOK, ReservedBusy, HandedOut, Page
  <2>4. k * PAGESIZE < p * PAGESIZE
    BY <2>2, <2>3, AddressOrder DEF Reserved
  <2>5. k * PAGESIZE + PAGESIZE <= p * PAGESIZE /\ p * PAGESIZE \in Nat
    BY <2>2, <2>3, <2>4, AddressOrder
  <2>6. scan \in Nat /\ scan <= PAGESIZE /\ PAGESIZE \in Nat
    BY SizesAssumption, ScanFitsAssumption
  <2> HIDE DEF scan
  <2>7. p * PAGESIZE >= physfree + scan
    BY <2>1, <2>2, <2>5, <2>6
  <2>8. QED
    BY <2>7 DEF scan
<1>2. IInv => ImageAndBitmapKept
  BY <1>1 DEF ImageAndBitmapKept
<1>3. QED
  BY <1>2, Inductive, PTL

\* The region of the memory map a handed-out frame that is not stale lies in.
LEMMA HandedOutInRegion ==
    ASSUME IInv, NEW p \in HandedOut \ stale
    PROVE  \E k \in DOMAIN smap :
              /\ k \in 1 .. next - 1
              /\ Usable(smap[k])
              /\ p * PAGESIZE < smap[k].base + smap[k].length
              /\ smap[k].base < (p + 1) * PAGESIZE
<1>1. p \in Page /\ handouts[p] > 0 /\ p \notin stale
  BY DEF HandedOut
<1>2. smap \in Seq(Entry) /\ next \in 1 .. Len(smap) + 1
  BY SMapsAssumption DEF IInv, TypeOK
<1>3. \A k \in 1 .. next - 1 : k \in DOMAIN smap
  BY <1>2
<1>4. QED
  BY <1>1, <1>3 DEF IInv, ClearIsRam

\* Every handed-out frame has RAM in it, or was stale before boot.
THEOREM RamOnly == Spec => []RamOrStale
<1>1. IInv => RamOrStale
  BY HandedOutInRegion DEF RamOrStale
<1>2. QED
  BY <1>1, Inductive, PTL

\* No whole frame of RAM above the bitmap is lost, for every memory map.
THEOREM RamKept == Spec => []NoRamLost
<1>1. ASSUME IInv, phase = "run",
             NEW p \in Scanned, NEW k \in DOMAIN smap, Usable(smap[k]),
             WholeFrame(smap[k], p), p \notin Reserved(physfree)
      PROVE  ~Busy(freeList, p) \/ handouts[p] = 1
  <2>1. smap \in Seq(Entry)
    BY <1>1, SMapsAssumption DEF IInv, TypeOK
  <2>2. next = Len(smap) + 1
    BY <1>1 DEF IInv, QuietBoot
  <2>3. k \in 1 .. next - 1
    BY <2>1, <2>2
  <2>4. p \in Page
    BY ScannedArePages
  <2>5. QED
    BY <1>1, <2>3, <2>4 DEF IInv, RamIsFree
<1>2. IInv => NoRamLost
  BY <1>1 DEF NoRamLost
<1>3. QED
  BY <1>2, Inductive, PTL

\* The answers of allocatePage ascend, and a refusal is final.
THEOREM Ascending == Spec => AnswersAscend
<1> DEFINE Step == /\ answer' # 0 => answer' > answer
                   /\ (answer = 0 /\ HandedOut # {}) => answer' = 0
<1>1. ASSUME IInv, Next PROVE Step \/ UNCHANGED vars
  <2>1. CASE makeFreeList \/ SkipEntry \/ FinishBoot
    BY <1>1, <2>1 DEF IInv, QuietBoot, makeFreeList, SkipEntry, FinishBoot
  <2>2. CASE AllocateFails
    BY <2>2 DEF AllocateFails
  <2>3. CASE AllocatePage
    <3>1. PICK p \in Page : findFreePage(freeList, p) /\ answer' = p * PAGESIZE
      BY <2>3 DEF AllocatePage
    <3>2. p \in Scanned /\ ~Busy(freeList, p)
      BY <3>1 DEF findFreePage
    <3>3. ~(answer = 0 /\ HandedOut # {})
      BY <1>1, <3>2 DEF IInv, ScanIsBehind, NoFreePage
    <3>4. answer # 0 => ~(p * PAGESIZE <= answer)
      BY <1>1, <3>2 DEF IInv, ScanIsBehind
    <3>5. p * PAGESIZE \in Nat /\ answer \in Nat
      BY <1>1, SizesAssumption DEF IInv, TypeOK, Page
    <3>6. QED
      BY <3>1, <3>3, <3>4, <3>5
  <2>4. QED
    BY <1>1, <2>1, <2>2, <2>3 DEF Next
<1>2. IInv /\ [Next]_vars => [Step]_vars
  BY <1>1
<1>3. QED
  BY <1>2, Inductive, PTL DEF Spec, AnswersAscend

-----------------------------------------------------------------------------
(* The bitmap allocator implements the abstract one.                       *)

\* A frame's address names the frame.
LEMMA FrameOfAddress ==
    ASSUME NEW p \in Nat
    PROVE  (p * PAGESIZE) \div PAGESIZE = p
BY SizesAssumption, Z3

\* The frame at address 0 belongs to the image's reserve, so it is busy.
LEMMA FrameZeroBusy ==
    ASSUME IInv, phase = "run" PROVE 0 \in Page => Busy(freeList, 0)
<1>1. physfree \in Nat
  BY PhysFreesAssumption DEF IInv, TypeOK
<1>2. 0 \in Page => 0 \in Reserved(physfree)
  BY <1>1, SizesAssumption DEF Reserved
<1>3. QED
  BY <1>2, ReservedBusyInRun

LEMMA InitImplements == Init => FA!FAInit
<1> SUFFICES ASSUME Init PROVE FA!FAInit
  OBVIOUS
<1>1. HandedOut = {}
  BY DEF Init, HandedOut
<1>2. answer \div PAGESIZE = 0
  BY SizesAssumption DEF Init
<1>3. QED
  BY <1>1, <1>2 DEF Init, FA!FAInit

LEMMA FinishBootOpens == IInv /\ IInv' /\ FinishBoot => FA!Open
<1> SUFFICES ASSUME IInv, IInv', FinishBoot PROVE FA!Open
  OBVIOUS
<1>1. phase = "boot" /\ phase' = "run" /\ UNCHANGED <<physfree, freeList, answer, handouts>>
  BY DEF FinishBoot
<1>2. 0 \in Page => Busy(freeList, 0)
  <2>1. \E k \in 1 .. next - 1 : Usable(smap[k])
    <3>1. smap \in Seq(Entry) /\ \E k \in DOMAIN smap : Usable(smap[k])
      BY SMapsAssumption DEF IInv, TypeOK
    <3>2. next = Len(smap) + 1
      BY <1>1 DEF FinishBoot, IInv, QuietBoot
    <3>3. QED
      BY <3>1, <3>2
  <2>2. physfree \in Nat
    BY PhysFreesAssumption DEF IInv, TypeOK
  <2>3. 0 \in Page => 0 \in Reserved(physfree)
    BY <2>2, SizesAssumption DEF Reserved
  <2>4. QED
    BY <2>1, <2>3 DEF IInv, ReservedBusy
<1>3. {p \in Scanned : ~Busy(freeList, p)} \subseteq {p \in Page : p # 0}
  BY <1>2, ScannedArePages
<1>4. HandedOut' = HandedOut /\ freeList' = freeList
  BY <1>1 DEF HandedOut
<1>5. QED
  BY <1>1, <1>3, <1>4 DEF FA!Open, Busy

LEMMA AllocatePageTakes == IInv /\ IInv' /\ AllocatePage => FA!Take
<1> SUFFICES ASSUME IInv, IInv', AllocatePage PROVE FA!Take
  OBVIOUS
<1> DEFINE Clear == {q \in Scanned : ~Busy(freeList, q)}
<1>1. phase = "run" /\ phase' = "run"
  BY DEF AllocatePage
<1>2. PICK p \in Page : /\ findFreePage(freeList, p)
                        /\ freeList' = setPagesBusy(freeList, {p})
                        /\ answer' = p * PAGESIZE
                        /\ handouts' = [handouts EXCEPT ![p] = @ + 1]
  BY DEF AllocatePage
<1>3. p \in Clear
  BY <1>2 DEF findFreePage
<1>4. (p * PAGESIZE) \div PAGESIZE = p
  BY FrameOfAddress, SizesAssumption DEF Page
<1>5. \A q \in Page : Busy(freeList', q) <=> Busy(freeList, q) \/ q = p
  BY <1>2, BusyAfterBusy DEF IInv, TypeOK
<1>6. Clear' = Clear \ {p}
  BY <1>5, ScannedArePages
<1>7. HandedOut' = HandedOut \cup {p}
  BY <1>2 DEF HandedOut, IInv, TypeOK
<1>8. QED
  BY <1>1, <1>2, <1>3, <1>4, <1>6, <1>7 DEF FA!Take

LEMMA AllocateFailsRefuses == IInv /\ AllocateFails => FA!Refuse
<1> SUFFICES ASSUME IInv, AllocateFails PROVE FA!Refuse
  OBVIOUS
<1>1. phase = "run" /\ answer' = 0 /\ UNCHANGED <<phase, freeList, handouts>>
  BY DEF AllocateFails
<1>2. {q \in Scanned : ~Busy(freeList, q)} = {}
  BY DEF AllocateFails, NoFreePage
<1>3. {q \in Scanned : ~Busy(freeList, q)}' = {q \in Scanned : ~Busy(freeList, q)}
  BY <1>1 DEF Busy
<1>4. HandedOut' = HandedOut /\ 0 \div PAGESIZE = 0
  BY <1>1, SizesAssumption DEF HandedOut
<1>5. QED
  BY <1>1, <1>2, <1>3, <1>4 DEF FA!Refuse

\* Reading the memory map is invisible to the clients of the allocator.
LEMMA BootStutters ==
    IInv /\ (makeFreeList \/ SkipEntry) => UNCHANGED FA!faVars
<1> SUFFICES ASSUME makeFreeList \/ SkipEntry PROVE UNCHANGED FA!faVars
  OBVIOUS
<1>1. phase = "boot" /\ UNCHANGED <<phase, answer, handouts>>
  BY DEF makeFreeList, SkipEntry
<1>2. HandedOut' = HandedOut
  BY <1>1 DEF HandedOut
<1>3. QED
  BY <1>1, <1>2 DEF FA!faVars

\* Every behaviour of the bitmap allocator is one of the abstract allocator:
\* boot fills the pool once, each allocatePage takes a frame for good or is
\* refused because the pool is empty.
THEOREM Refinement == Spec => Implements
<1>1. Init => FA!FAInit
  BY InitImplements
<1>2. IInv /\ IInv' /\ [Next]_vars => [FA!FANext]_FA!faVars
  <2> SUFFICES ASSUME IInv, IInv', [Next]_vars PROVE [FA!FANext]_FA!faVars
    OBVIOUS
  <2>1. CASE makeFreeList \/ SkipEntry
    BY <2>1, BootStutters
  <2>2. CASE FinishBoot
    BY <2>2, FinishBootOpens DEF FA!FANext
  <2>3. CASE AllocatePage
    BY <2>3, AllocatePageTakes DEF FA!FANext
  <2>4. CASE AllocateFails
    BY <2>4, AllocateFailsRefuses DEF FA!FANext
  <2>5. CASE UNCHANGED vars
    BY <2>5 DEF vars, FA!faVars, HandedOut, Busy
  <2>6. QED
    BY <2>1, <2>2, <2>3, <2>4, <2>5 DEF Next
<1>3. QED
  BY <1>1, <1>2, Inductive, PTL DEF Spec, Implements, FA!FASpec
=============================================================================
