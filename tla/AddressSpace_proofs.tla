-------------------------- MODULE AddressSpace_proofs --------------------------
(***************************************************************************)
(* For every layout, every set of programs and any number of processes: a  *)
(* frame is under one page only, a program that is loaded changes nothing  *)
(* another process finds, and the beginning of its file stays where its    *)
(* header says.  The first two rest on the frames that tables and          *)
(* translations name having been handed out, and on the translations that  *)
(* are in use while a program is loaded being of this load; the last one   *)
(* also on who shares a page of a program running the same program.        *)
(***************************************************************************)
EXTENDS AddressSpace, TLAPS

\* Frames in a table were handed out.
SpaceHandedOut == \A p \in Proc, pg \in Page : space[p][pg] < free

\* SameFrameSamePage of all tables, those of processes to come included.
SamePage ==
    \A p, q \in Proc : \A pg1, pg2 \in Page :
        (space[p][pg1] # None /\ space[p][pg1] = space[q][pg2]) => pg1 = pg2

\* While a program is loaded, the translations in use are of its own load.
TranslationsOwn ==
    seg # 0 => \A pg \in Page : tlb[pg] # None =>
        /\ tlb[pg] < free
        /\ \A q \in Proc \ {cur} : \A pg2 \in Page : space[q][pg2] # tlb[pg]

IInv == TypeOK /\ SpaceHandedOut /\ SamePage /\ TranslationsOwn

-----------------------------------------------------------------------------
(* The pages of a segment.                                                 *)

\* What the assumption says of a header.
LEMMA HeaderType ==
    ASSUME NEW b \in DOMAIN Programs, NEW k \in DOMAIN Programs[b]
    PROVE  /\ Programs[b][k] \in Header
           /\ Programs[b][k].filesz <= Programs[b][k].memsz
<1>1. Programs \in Seq(Seq(Header))
  BY AddressSpaceAssumption
<1>2. Programs[b] \in Seq(Header)
  BY <1>1
<1>3. QED
  BY <1>2, AddressSpaceAssumption

\* Division by PAGESIZE is monotone.
LEMMA PageMonotone ==
    ASSUME NEW x \in Nat, NEW y \in Nat, x <= y
    PROVE  /\ x \div PAGESIZE \in Nat /\ y \div PAGESIZE \in Nat
           /\ x \div PAGESIZE <= y \div PAGESIZE
<1>1. PAGESIZE \in Nat /\ PAGESIZE > 0
  BY AddressSpaceAssumption
<1>2. QED
  BY <1>1

\* Adding PAGESIZE goes one page further.
LEMMA NextPage ==
    ASSUME NEW x \in Nat
    PROVE  (x + PAGESIZE) \div PAGESIZE = x \div PAGESIZE + 1
<1>1. PAGESIZE \in Nat /\ PAGESIZE > 0
  BY AddressSpaceAssumption
<1>2. QED
  BY <1>1

\* A segment ends where it begins or behind, and the words copied for it lie in
\* its pages.
LEMMA SegmentPages ==
    ASSUME NEW h \in Header, h.filesz <= h.memsz
    PROVE  /\ FirstPage(h) \in Nat /\ EndPage(h) \in Nat
           /\ FirstPage(h) <= EndPage(h)
           /\ \A a \in Addr : Copied(h, a) => PageOf(a) \in Pages(h)
<1>1. /\ PAGESIZE \in Nat /\ PAGESIZE > 0 /\ STACK \in Nat
      /\ h.vaddr \in Nat /\ h.memsz \in Nat /\ h.filesz \in Nat
  BY AddressSpaceAssumption DEF Header
<1>2. /\ FirstPage(h) \in Nat /\ EndPage(h) \in Nat
      /\ FirstPage(h) <= EndPage(h)
  <2> DEFINE end == h.vaddr + h.memsz + PAGESIZE - 1
  <2>1. end \in Nat /\ h.vaddr <= end
    BY <1>1
  <2> HIDE DEF end
  <2>2. /\ h.vaddr \div PAGESIZE \in Nat /\ end \div PAGESIZE \in Nat
        /\ h.vaddr \div PAGESIZE <= end \div PAGESIZE
    BY <1>1, <2>1, PageMonotone
  <2>3. QED
    BY <2>2 DEF end, FirstPage, EndPage
<1>3. ASSUME NEW a \in Addr, Copied(h, a) PROVE PageOf(a) \in Pages(h)
  <2>1. a \in Nat /\ h.vaddr <= a /\ a < h.vaddr + h.filesz
    BY <1>1, <1>3 DEF Copied, Addr
  <2>2. FirstPage(h) <= PageOf(a) /\ PageOf(a) \in Nat
    BY <1>1, <2>1, PageMonotone DEF FirstPage, PageOf
  <2>3. a + PAGESIZE <= h.vaddr + h.memsz + PAGESIZE - 1
    BY <1>1, <2>1
  <2>4. PageOf(a) + 1 <= EndPage(h)
    BY <1>1, <2>1, <2>3, NextPage, PageMonotone DEF EndPage, PageOf
  <2>5. QED
    BY <1>2, <2>2, <2>4 DEF Pages
<1>4. QED
  BY <1>2, <1>3

-----------------------------------------------------------------------------
(* The inductive invariant.                                                *)

\* A table whose entries are old, or fresh frames that differ, keeps the two
\* parts of the invariant that are about tables.
LEMMA FreshKeeps ==
    ASSUME TypeOK, SpaceHandedOut, SamePage,
           NEW table \in [Page -> Frame \cup {None}],
           space' = [space EXCEPT ![cur] = table],
           free' \in Nat, free <= free',
           \A pg \in Page :
              table[pg] = space[cur][pg] \/ (free <= table[pg] /\ table[pg] < free'),
           \A pg1, pg2 \in Page :
              (free <= table[pg1] /\ table[pg1] = table[pg2]) => pg1 = pg2
    PROVE  /\ space' \in [Proc -> [Page -> Frame \cup {None}]]
           /\ SpaceHandedOut' /\ SamePage'
           /\ \A q \in Proc \ {cur} : space'[q] = space[q]
<1>1. /\ cur \in Proc /\ free \in Nat /\ FRAMES \in Nat
      /\ space \in [Proc -> [Page -> Frame \cup {None}]]
  BY AddressSpaceAssumption DEF TypeOK
<1>2. /\ space' \in [Proc -> [Page -> Frame \cup {None}]]
      /\ space'[cur] = table
      /\ \A q \in Proc \ {cur} : space'[q] = space[q]
  BY <1>1
<1>3. \A p \in Proc, pg \in Page : space[p][pg] \in Nat /\ space[p][pg] < free
  BY <1>1 DEF SpaceHandedOut, Frame, None
<1>4. \A pg \in Page : table[pg] \in Nat
  BY DEF Frame, None
<1>5. SpaceHandedOut'
  BY <1>1, <1>2, <1>3, <1>4 DEF SpaceHandedOut
<1>6. SamePage'
  <2>1. SUFFICES ASSUME NEW p \in Proc, NEW q \in Proc, NEW pg1 \in Page, NEW pg2 \in Page,
                        space'[p][pg1] # None, space'[p][pg1] = space'[q][pg2]
                 PROVE  pg1 = pg2
    BY DEF SamePage
  <2>2. CASE p # cur /\ q # cur
    BY <1>2, <2>1, <2>2 DEF SamePage
  <2>3. CASE p = cur /\ q = cur
    BY <1>1, <1>2, <1>3, <1>4, <2>1, <2>3 DEF SamePage
  <2>4. CASE p = cur /\ q # cur
    BY <1>1, <1>2, <1>3, <1>4, <2>1, <2>4 DEF SamePage
  <2>5. CASE p # cur /\ q = cur
    BY <1>1, <1>2, <1>3, <1>4, <2>1, <2>5 DEF SamePage
  <2>6. QED
    BY <2>2, <2>3, <2>4, <2>5
<1>7. QED
  BY <1>2, <1>5, <1>6

\* One fresh frame under one page.
LEMMA OneFresh ==
    ASSUME TypeOK, SpaceHandedOut, SamePage, NEW pg \in Page, MapOne(pg)
    PROVE  /\ space' \in [Proc -> [Page -> Frame \cup {None}]]
           /\ free' \in 1 .. FRAMES + 1
           /\ SpaceHandedOut' /\ SamePage'
<1> DEFINE table == [space[cur] EXCEPT ![pg] = free]
<1>1. /\ cur \in Proc /\ free \in 1 .. FRAMES + 1 /\ FRAMES \in Nat
      /\ space \in [Proc -> [Page -> Frame \cup {None}]]
  BY AddressSpaceAssumption DEF TypeOK
<1>2. free' = free + 1 /\ free <= FRAMES /\ space' = [space EXCEPT ![cur] = table]
  BY <1>1 DEF MapOne, Take
<1>3. table \in [Page -> Frame \cup {None}] /\ table[pg] = free
  BY <1>1, <1>2 DEF Frame
<1>4. \A x \in Page \ {pg} : table[x] = space[cur][x]
  BY <1>1
<1>5. \A x \in Page : space[cur][x] \in Nat /\ space[cur][x] < free
  BY <1>1 DEF SpaceHandedOut, Frame, None
<1> HIDE DEF table
<1>6. /\ \A x \in Page :
            table[x] = space[cur][x] \/ (free <= table[x] /\ table[x] < free')
      /\ \A x, y \in Page : (free <= table[x] /\ table[x] = table[y]) => x = y
  BY <1>1, <1>2, <1>3, <1>4, <1>5
<1>7. free' \in 1 .. FRAMES + 1 /\ free <= free' /\ free' \in Nat
  BY <1>1, <1>2
<1>8. QED
  BY <1>2, <1>3, <1>6, <1>7, FreshKeeps

\* The tables at boot are empty.
LEMMA InitIInv == Init => IInv
<1>1. SUFFICES ASSUME Init PROVE IInv
  OBVIOUS
<1>2. /\ PROCS \in Nat \ {0} /\ FRAMES \in Nat /\ HEAP \in Nat /\ HEAPEND \in Nat
      /\ HEAP < HEAPEND /\ Programs \in Seq(Seq(Header)) /\ Programs # <<>>
  BY AddressSpaceAssumption
<1>3. 1 \in DOMAIN Programs /\ Len(Programs[1]) \in Nat
  BY <1>2
<1>4. TypeOK
  BY <1>1, <1>2, <1>3 DEF Init, TypeOK, NoTranslations, Proc
<1>5. SpaceHandedOut /\ SamePage /\ TranslationsOwn
  BY <1>1 DEF Init, SpaceHandedOut, SamePage, TranslationsOwn, NoTranslations, None
<1>6. QED
  BY <1>4, <1>5 DEF IInv

\* What a segment that is loaded keeps: the invariant, and all that the other
\* processes find.
LEMMA LoadSegmentKeeps ==
    ASSUME IInv, seg # 0, NEW h \in Header, h.filesz <= h.memsz, LoadSegment(h)
    PROVE  /\ space' \in [Proc -> [Page -> Frame \cup {None}]]
           /\ free' \in 1 .. FRAMES + 1
           /\ tlb' \in [Page -> Frame \cup {None}]
           /\ SpaceHandedOut' /\ SamePage'
           /\ \A pg \in Page : tlb'[pg] # None =>
                 /\ tlb'[pg] < free'
                 /\ \A q \in Proc \ {cur} : \A pg2 \in Page : space'[q][pg2] # tlb'[pg]
           /\ \A q \in Proc \ {cur} : \A a \in Addr : Content(q, a)' = Content(q, a)
<1> DEFINE first == FirstPage(h)
           end == EndPage(h)
           table == Mapped(space[cur], first, end)
<1>1. /\ TypeOK /\ SpaceHandedOut /\ SamePage /\ TranslationsOwn
      /\ cur \in Proc /\ free \in 1 .. FRAMES + 1 /\ FRAMES \in Nat /\ STACK \in Nat
      /\ space \in [Proc -> [Page -> Frame \cup {None}]]
      /\ tlb \in [Page -> Frame \cup {None}]
  BY AddressSpaceAssumption DEF IInv, TypeOK
<1>2. /\ first \in Nat /\ end \in Nat /\ first <= end
      /\ \A a \in Addr : Copied(h, a) => PageOf(a) \in Pages(h)
  BY SegmentPages
<1>3. /\ free' = free + (end - first) /\ free' <= FRAMES + 1
      /\ space' = [space EXCEPT ![cur] = table]
  BY <1>1, <1>2 DEF LoadSegment, Take
<1>4. \A q \in Proc, pg \in Page : space[q][pg] \in Nat /\ space[q][pg] < free
  BY <1>1 DEF SpaceHandedOut, Frame, None
<1>5. \A pg \in Page :
         /\ pg \in Nat
         /\ pg \in first .. end - 1 => table[pg] = free + (pg - first)
         /\ pg \notin first .. end - 1 => table[pg] = space[cur][pg]
  BY <1>1 DEF Mapped, Page
<1> HIDE DEF first, end
<1>6. table \in [Page -> Frame \cup {None}]
  <2>1. ASSUME NEW pg \in Page PROVE table[pg] \in Frame \cup {None}
    <3>1. CASE pg \in first .. end - 1
      BY <1>1, <1>2, <1>3, <1>5, <3>1 DEF Frame
    <3>2. CASE pg \notin first .. end - 1
      BY <1>1, <1>5, <3>2
    <3>3. QED
      BY <3>1, <3>2
  <2>2. QED
    BY <2>1 DEF Mapped
<1> HIDE DEF table
<1>7. \A pg \in Page :
         table[pg] = space[cur][pg] \/ (free <= table[pg] /\ table[pg] < free')
  BY <1>1, <1>2, <1>3, <1>5
<1>8. \A pg1, pg2 \in Page : (free <= table[pg1] /\ table[pg1] = table[pg2]) => pg1 = pg2
  <2>1. SUFFICES ASSUME NEW pg1 \in Page, NEW pg2 \in Page,
                        free <= table[pg1], table[pg1] = table[pg2]
                 PROVE  pg1 = pg2
    OBVIOUS
  <2>2. \A x \in Page : free <= table[x] => table[x] = free + (x - first)
    BY <1>1, <1>4, <1>5
  <2>3. free + (pg1 - first) = free + (pg2 - first)
    BY <2>1, <2>2
  <2>4. QED
    BY <1>1, <1>2, <1>5, <2>3
<1>9. free' \in 1 .. FRAMES + 1 /\ free <= free' /\ free' \in Nat
  BY <1>1, <1>2, <1>3
<1>10. /\ space' \in [Proc -> [Page -> Frame \cup {None}]]
       /\ SpaceHandedOut' /\ SamePage'
       /\ \A q \in Proc \ {cur} : space'[q] = space[q]
  BY <1>1, <1>3, <1>6, <1>7, <1>8, <1>9, FreshKeeps
<1>11. PICK stale \in SUBSET {pg \in Pages(h) : tlb[pg] # None} :
         /\ mem' = [f \in Frame |-> [w \in Word |->
                       IF CopiedTo(h, stale, f, w) = {} THEN mem[f][w]
                       ELSE File(program[cur],
                                 Source(h, CHOOSE a \in CopiedTo(h, stale, f, w) : TRUE))]]
         /\ tlb' = [pg \in Page |->
                       IF \E a \in Addr : PageOf(a) = pg /\ Copied(h, a)
                       THEN Target(h, stale, pg) ELSE tlb[pg]]
  BY DEF LoadSegment
\* Whatever is copied goes to a frame of this load.
<1>12. ASSUME NEW pg \in Page \cap Pages(h)
       PROVE  /\ Target(h, stale, pg) \in Frame \cup {None}
              /\ Target(h, stale, pg) < free'
              /\ \A q \in Proc \ {cur} : \A pg2 \in Page :
                    space[q][pg2] # Target(h, stale, pg)
  <2>1. CASE pg \in stale
    <3>1. Target(h, stale, pg) = tlb[pg] /\ tlb[pg] # None
      BY <2>1 DEF Target
    <3>2. tlb[pg] < free /\ \A q \in Proc \ {cur} : \A pg2 \in Page : space[q][pg2] # tlb[pg]
      BY <1>1, <3>1 DEF TranslationsOwn
    <3>3. tlb[pg] \in Frame /\ tlb[pg] \in Int
      BY <1>1, <3>1 DEF Frame
    <3>4. QED
      BY <1>1, <1>9, <3>1, <3>2, <3>3
  <2>2. CASE pg \notin stale
    <3>1. Target(h, stale, pg) = table[pg] /\ pg \in first .. end - 1
      BY <2>2 DEF Target, table, first, end, Pages
    <3>2. table[pg] = free + (pg - first)
      BY <1>5, <3>1
    <3>3. free <= table[pg] /\ table[pg] < free'
      BY <1>1, <1>2, <1>3, <1>5, <3>1, <3>2
    <3>4. \A q \in Proc \ {cur} : \A pg2 \in Page : space[q][pg2] # table[pg]
      BY <1>1, <1>2, <1>4, <1>5, <3>1, <3>2
    <3>5. QED
      BY <1>6, <3>1, <3>3, <3>4
  <2>3. QED
    BY <2>1, <2>2
<1>13. ASSUME NEW pg \in Page
       PROVE  /\ tlb'[pg] \in Frame \cup {None}
              /\ tlb'[pg] # None =>
                    /\ tlb'[pg] < free'
                    /\ \A q \in Proc \ {cur} : \A pg2 \in Page : space'[q][pg2] # tlb'[pg]
  <2>1. CASE \E a \in Addr : PageOf(a) = pg /\ Copied(h, a)
    <3>1. pg \in Pages(h) /\ tlb'[pg] = Target(h, stale, pg)
      BY <1>2, <1>11, <2>1
    <3>2. QED
      BY <1>10, <1>12, <3>1
  <2>2. CASE ~ \E a \in Addr : PageOf(a) = pg /\ Copied(h, a)
    <3>1. tlb'[pg] = tlb[pg] /\ tlb[pg] \in Frame \cup {None}
      BY <1>1, <1>11, <2>2
    <3>2. tlb[pg] # None => tlb[pg] < free /\ tlb[pg] \in Int
      BY <1>1, <3>1 DEF TranslationsOwn, Frame
    <3>3. tlb[pg] # None =>
             \A q \in Proc \ {cur} : \A pg2 \in Page : space'[q][pg2] # tlb[pg]
      BY <1>1, <1>10 DEF TranslationsOwn
    <3>4. QED
      BY <1>1, <1>9, <3>1, <3>2, <3>3
  <2>3. QED
    BY <2>1, <2>2
<1>14. tlb' \in [Page -> Frame \cup {None}]
  BY <1>11, <1>13
<1>15. ASSUME NEW q \in Proc \ {cur}, NEW a \in Addr
       PROVE  Content(q, a)' = Content(q, a)
  <2> DEFINE f == space[q][PageOf(a)]
             w == a % PAGESIZE
  <2>1. PageOf(a) \in Page /\ w \in Word
    <3>1. /\ PAGESIZE \in Nat /\ PAGESIZE > 0 /\ a \in Nat
          /\ a < (STACK + 1) * PAGESIZE
      BY <1>1, AddressSpaceAssumption DEF Addr
    <3>2. a \div PAGESIZE < STACK + 1 /\ a \div PAGESIZE \in Nat
      BY <1>1, <3>1
    <3>3. a % PAGESIZE \in 0 .. PAGESIZE - 1
      BY <3>1
    <3>4. QED
      BY <1>1, <3>2, <3>3 DEF PageOf, Page, Word
  <2>2. CASE f = None
    BY <1>10, <2>2 DEF Content
  <2>3. CASE f # None
    <3>1. f \in Frame
      BY <1>1, <2>1, <2>3
    <3>2. CopiedTo(h, stale, f, w) = {}
      <4>1. SUFFICES ASSUME NEW b \in Addr, Copied(h, b), Target(h, stale, PageOf(b)) = f
                     PROVE  FALSE
        BY DEF CopiedTo
      <4>2. PageOf(b) \in Page \cap Pages(h)
        <5>1. /\ PAGESIZE \in Nat /\ PAGESIZE > 0 /\ b \in Nat
              /\ b < (STACK + 1) * PAGESIZE
          BY <1>1, AddressSpaceAssumption DEF Addr
        <5>2. b \div PAGESIZE < STACK + 1 /\ b \div PAGESIZE \in Nat
          BY <1>1, <5>1
        <5>3. QED
          BY <1>1, <1>2, <4>1, <5>2 DEF PageOf, Page
      <4>3. QED
        BY <1>12, <2>1, <4>1, <4>2
    <3>3. mem'[f][w] = mem[f][w]
      BY <1>11, <2>1, <3>1, <3>2
    <3>4. QED
      BY <1>10, <3>3 DEF Content
  <2>4. QED
    BY <2>2, <2>3
<1>16. QED
  BY <1>9, <1>10, <1>13, <1>14, <1>15

\* Every step keeps the invariant.
LEMMA NextIInv == IInv /\ [Next]_vars => IInv'
<1>1. SUFFICES ASSUME IInv, [Next]_vars PROVE IInv'
  OBVIOUS
<1>2. /\ TypeOK /\ SpaceHandedOut /\ SamePage /\ TranslationsOwn
      /\ FRAMES \in Nat /\ HEAP \in Nat /\ HEAPEND \in Nat /\ HEAP < HEAPEND
      /\ HEAPEND <= STACK /\ STACK \in Nat
  BY <1>1, AddressSpaceAssumption DEF IInv
<1>3. \A b \in DOMAIN Programs : Programs[b] \in Seq(Header)
  BY AddressSpaceAssumption
<1>4. \A b \in DOMAIN Programs :
         Len(Programs[b]) \in Nat /\ DOMAIN Programs[b] = 1 .. Len(Programs[b])
  BY <1>3
<1>5. NoTranslations \in [Page -> Frame \cup {None}]
  BY DEF NoTranslations
<1>6. CASE LoadHeader
  <2> DEFINE h == Programs[program[cur]][seg]
  <2>1. /\ program[cur] \in DOMAIN Programs
        /\ seg \in 1 .. Len(Programs[program[cur]])
        /\ h \in Header /\ h.filesz <= h.memsz
    BY <1>2, <1>4, <1>6, HeaderType DEF LoadHeader, TypeOK
  <2>2. seg # 0 /\ seg' = seg + 1 /\ UNCHANGED <<procs, program, cur>>
    BY <1>4, <1>6, <2>1 DEF LoadHeader
  <2>3. seg' \in 0 .. Len(Programs[program'[cur']]) + 1
    BY <1>4, <2>1, <2>2
  <2>4. LoadSegment(h) \/ SkipHeader(h)
    BY <1>6 DEF LoadHeader
  <2> HIDE DEF h
  <2>5. CASE LoadSegment(h)
    <3>1. brk' = brk
      BY <2>5 DEF LoadSegment
    <3>2. QED
      BY <1>1, <1>2, <2>1, <2>2, <2>3, <2>5, <3>1, LoadSegmentKeeps
      DEF IInv, TypeOK, TranslationsOwn
  <2>6. CASE SkipHeader(h)
    BY <1>2, <2>2, <2>3, <2>6
    DEF SkipHeader, IInv, TypeOK, SpaceHandedOut, SamePage, TranslationsOwn
  <2>7. QED
    BY <2>4, <2>5, <2>6
<1>7. CASE LoadRest
  <2> DEFINE table == [space[cur] EXCEPT ![HEAP] = free, ![STACK] = free + 1]
  <2>1. /\ cur \in Proc /\ free \in 1 .. FRAMES + 1
        /\ space \in [Proc -> [Page -> Frame \cup {None}]]
        /\ HEAP \in Page /\ STACK \in Page /\ HEAP # STACK
    BY <1>2 DEF TypeOK, Page
  <2>2. /\ free' = free + 2 /\ free' <= FRAMES + 1
        /\ space' = [space EXCEPT ![cur] = table]
        /\ tlb' = NoTranslations /\ seg' = 0 /\ brk' = [brk EXCEPT ![cur] = HEAP]
        /\ UNCHANGED <<procs, program, cur>>
    BY <1>7 DEF LoadRest, Take
  <2>3. /\ table \in [Page -> Frame \cup {None}]
        /\ table[HEAP] = free /\ table[STACK] = free + 1
        /\ \A x \in Page \ {HEAP, STACK} : table[x] = space[cur][x]
    BY <1>2, <2>1, <2>2 DEF Frame
  <2>4. \A x \in Page : space[cur][x] \in Nat /\ space[cur][x] < free
    BY <1>2, <2>1 DEF SpaceHandedOut, Frame, None
  <2> HIDE DEF table
  <2>5. \A x \in Page :
           table[x] = space[cur][x] \/ (free <= table[x] /\ table[x] < free')
    BY <2>1, <2>2, <2>3, <2>4
  <2>6. \A x, y \in Page : (free <= table[x] /\ table[x] = table[y]) => x = y
    BY <2>1, <2>2, <2>3, <2>4
  <2>7. free' \in 1 .. FRAMES + 1 /\ free <= free' /\ free' \in Nat
    BY <1>2, <2>1, <2>2
  <2>8. /\ space' \in [Proc -> [Page -> Frame \cup {None}]]
        /\ SpaceHandedOut' /\ SamePage'
    BY <1>2, <2>2, <2>3, <2>5, <2>6, <2>7, FreshKeeps
  <2>9. brk' \in [Proc -> HEAP .. HEAPEND - 1]
    BY <1>2, <2>1, <2>2 DEF TypeOK
  <2>10. seg' \in 0 .. Len(Programs[program'[cur']]) + 1
    BY <1>2, <1>4, <2>1, <2>2 DEF TypeOK
  <2>11. TypeOK'
    BY <1>2, <1>5, <2>2, <2>7, <2>8, <2>9, <2>10 DEF TypeOK
  <2>12. TranslationsOwn'
    BY <2>2 DEF TranslationsOwn
  <2>13. QED
    BY <2>8, <2>11, <2>12 DEF IInv
<1>8. CASE \E a \in Stores : Store(a)
  <2>1. PICK a \in Stores : Store(a)
    BY <1>8
  <2>2. seg = 0 /\ UNCHANGED <<procs, program, space, brk, free, cur, seg>>
    BY <2>1 DEF Store
  <2>3. PICK f \in {space[cur][PageOf(a)], tlb[PageOf(a)]} \ {None} :
           tlb' = [tlb EXCEPT ![PageOf(a)] = f]
    BY <2>1 DEF Store
  <2>4. PageOf(a) \in Page
    <3>1. /\ PAGESIZE \in Nat /\ PAGESIZE > 0 /\ a \in Nat
          /\ a < (STACK + 1) * PAGESIZE
      BY <1>2, AddressSpaceAssumption DEF Addr
    <3>2. a \div PAGESIZE < STACK + 1 /\ a \div PAGESIZE \in Nat
      BY <1>2, <3>1
    <3>3. QED
      BY <1>2, <3>2 DEF PageOf, Page
  <2>5. f \in Frame \cup {None}
    BY <1>2, <2>4 DEF TypeOK
  <2>6. tlb' \in [Page -> Frame \cup {None}]
    BY <1>2, <2>3, <2>5 DEF TypeOK
  <2>7. QED
    BY <1>2, <2>2, <2>6
    DEF IInv, TypeOK, SpaceHandedOut, SamePage, TranslationsOwn
<1>9. CASE \E a \in Addr : Fault(a)
  <2>1. PICK a \in Addr : Fault(a)
    BY <1>9
  <2>2. seg = 0 /\ UNCHANGED <<procs, program, cur, seg, tlb>>
    BY <2>1 DEF Fault
  <2>3. PageOf(a) \in Page
    <3>1. /\ PAGESIZE \in Nat /\ PAGESIZE > 0 /\ a \in Nat
          /\ a < (STACK + 1) * PAGESIZE
      BY <1>2, AddressSpaceAssumption DEF Addr
    <3>2. a \div PAGESIZE < STACK + 1 /\ a \div PAGESIZE \in Nat
      BY <1>2, <3>1
    <3>3. QED
      BY <1>2, <3>2 DEF PageOf, Page
  <2>4. cur \in Proc /\ brk \in [Proc -> HEAP .. HEAPEND - 1] /\ brk[cur] \in Page
    BY <1>2 DEF TypeOK, Page
  <2>5. /\ \E pg \in Page : MapOne(pg)
        /\ brk' \in [Proc -> HEAP .. HEAPEND - 1]
    <3>1. CASE MapOne(PageOf(a)) /\ UNCHANGED brk
      BY <2>3, <2>4, <3>1
    <3>2. CASE /\ brk[cur] + 1 < HEAPEND /\ MapOne(brk[cur])
               /\ brk' = [brk EXCEPT ![cur] = @ + 1]
      BY <1>2, <2>4, <3>2
    <3>3. QED
      BY <2>1, <3>1, <3>2 DEF Fault
  <2>6. /\ space' \in [Proc -> [Page -> Frame \cup {None}]]
        /\ free' \in 1 .. FRAMES + 1
        /\ SpaceHandedOut' /\ SamePage'
    BY <1>2, <2>5, OneFresh
  <2>7. QED
    BY <1>2, <2>2, <2>5, <2>6 DEF IInv, TypeOK, TranslationsOwn
<1>10. CASE fork
  <2>1. PICK p \in Proc \ procs :
           /\ procs' = procs \cup {p}
           /\ program' = [program EXCEPT ![p] = program[cur]]
           /\ space' = [space EXCEPT ![p] = space[cur]]
           /\ brk' = [brk EXCEPT ![p] = brk[cur]]
    BY <1>10 DEF fork
  <2>2. seg = 0 /\ tlb' = NoTranslations /\ UNCHANGED <<mem, free, cur, seg>>
    BY <1>10 DEF fork
  <2>3. p # cur /\ cur \in Proc
    BY <1>2, <2>1 DEF TypeOK
  <2>4. \A q \in Proc : space'[q] = space[q] \/ space'[q] = space[cur]
    BY <1>2, <2>1, <2>3 DEF TypeOK
  <2>5. SpaceHandedOut' /\ SamePage'
    BY <1>2, <2>2, <2>3, <2>4 DEF SpaceHandedOut, SamePage
  <2>6. program'[cur'] = program[cur]
    BY <1>2, <2>1, <2>2, <2>3 DEF TypeOK
  <2>7. TypeOK'
    BY <1>2, <1>5, <2>1, <2>2, <2>3, <2>6 DEF TypeOK
  <2>8. QED
    BY <2>2, <2>5, <2>7 DEF IInv, TranslationsOwn
<1>11. CASE switch
  <2>1. seg = 0 /\ cur' \in procs /\ tlb' = NoTranslations
        /\ UNCHANGED <<procs, program, space, brk, mem, free, seg>>
    BY <1>11 DEF switch
  <2>2. seg' \in 0 .. Len(Programs[program'[cur']]) + 1
    BY <1>2, <1>4, <2>1 DEF TypeOK
  <2>3. QED
    BY <1>2, <1>5, <2>1, <2>2
    DEF IInv, TypeOK, SpaceHandedOut, SamePage, TranslationsOwn
<1>12. CASE \E b \in DOMAIN Programs : execve(b)
  <2>1. PICK b \in DOMAIN Programs : execve(b)
    BY <1>12
  <2>2. /\ program' = [program EXCEPT ![cur] = b] /\ seg' = 1 /\ tlb' = NoTranslations
        /\ UNCHANGED <<procs, space, brk, mem, free, cur>>
    BY <2>1 DEF execve
  <2>3. cur \in Proc /\ program'[cur'] = b
    BY <1>2, <2>2 DEF TypeOK
  <2>4. seg' \in 0 .. Len(Programs[program'[cur']]) + 1
    BY <1>4, <2>2, <2>3
  <2>5. QED
    BY <1>2, <1>5, <2>2, <2>3, <2>4
    DEF IInv, TypeOK, SpaceHandedOut, SamePage, TranslationsOwn, NoTranslations
<1>13. CASE UNCHANGED vars
  BY <1>2, <1>13 DEF vars, IInv, TypeOK, SpaceHandedOut, SamePage, TranslationsOwn
<1>14. QED
  BY <1>1, <1>6, <1>7, <1>8, <1>9, <1>10, <1>11, <1>12, <1>13 DEF Next

-----------------------------------------------------------------------------
(* The theorems.                                                           *)

\* IInv holds throughout.
LEMMA Invariant == Spec => []IInv
<1>1. Init => IInv
  BY InitIInv
<1>2. IInv /\ [Next]_vars => IInv'
  BY NextIInv
<1>3. QED
  BY <1>1, <1>2, PTL DEF Spec

\* The types are right.
THEOREM TypeCorrect == Spec => []TypeOK
<1>1. IInv => TypeOK
  BY DEF IInv
<1>2. QED
  BY <1>1, Invariant, PTL

\* A frame is under the same page wherever it is shared, whatever programs are
\* loaded, forked and grown (elf64.c:80-84, process.c:221-301, irq.c:104-171).
THEOREM OneFrameOnePage == Spec => []SameFrameSamePage
<1>1. IInv => SameFrameSamePage
  BY DEF IInv, SamePage, SameFrameSamePage, TypeOK
<1>2. QED
  BY <1>1, Invariant, PTL

\* Loading a program changes nothing another process finds (elf64.c:57-114).
THEOREM LoadIsPrivate == Spec => LoadLeavesOthers
<1> DEFINE Private == seg # 0 => \A q \in procs \ {cur} : \A a \in Addr :
                          Content(q, a)' = Content(q, a)
<1>1. IInv /\ [Next]_vars => [Private]_vars
  <2>1. SUFFICES ASSUME IInv, Next, seg # 0 PROVE Private
    BY DEF vars
  <2>2. TypeOK
    BY <2>1 DEF IInv
  <2>3. LoadHeader \/ LoadRest
    BY <2>1 DEF Next, Store, Fault, fork, switch, execve
  <2>4. CASE LoadHeader
    <3> DEFINE h == Programs[program[cur]][seg]
    <3>1. h \in Header /\ h.filesz <= h.memsz
      BY <2>2, <2>4, HeaderType DEF LoadHeader, TypeOK
    <3>2. LoadSegment(h) \/ SkipHeader(h)
      BY <2>4 DEF LoadHeader
    <3> HIDE DEF h
    <3>3. CASE LoadSegment(h)
      BY <2>1, <2>2, <3>1, <3>3, LoadSegmentKeeps DEF TypeOK
    <3>4. CASE SkipHeader(h)
      BY <3>4 DEF SkipHeader, Content
    <3>5. QED
      BY <3>2, <3>3, <3>4
  <2>5. CASE LoadRest
    <3>1. \A q \in Proc \ {cur} : space'[q] = space[q] /\ mem' = mem
      BY <2>2, <2>5 DEF LoadRest, TypeOK
    <3>2. QED
      BY <2>2, <3>1 DEF Content, TypeOK
  <2>6. QED
    BY <2>3, <2>4, <2>5
<1>2. Spec => [][Private]_vars
  BY <1>1, Invariant, PTL DEF Spec
<1>3. QED
  BY <1>2 DEF LoadLeavesOthers

\* While a program runs, a translation in use is that of its table, except for
\* heap pages that have been mapped by growth.
TranslationsCurrent ==
    seg = 0 => \A pg \in Page : tlb[pg] # None =>
        tlb[pg] = space[cur][pg] \/ pg \in HEAP .. brk[cur] - 1

\* Every step keeps that.
LEMMA NextTranslations ==
    IInv /\ TranslationsCurrent /\ [Next]_vars => TranslationsCurrent'
<1>1. SUFFICES ASSUME IInv, TranslationsCurrent, [Next]_vars, seg' = 0
               PROVE  \A pg \in Page : tlb'[pg] # None =>
                         \/ tlb'[pg] = space'[cur'][pg]
                         \/ pg \in HEAP .. brk'[cur'] - 1
  BY DEF TranslationsCurrent
<1>2. /\ TypeOK /\ HEAP \in Nat /\ HEAPEND \in Nat
      /\ cur \in Proc /\ brk \in [Proc -> HEAP .. HEAPEND - 1]
      /\ space \in [Proc -> [Page -> Frame \cup {None}]]
      /\ tlb \in [Page -> Frame \cup {None}]
  BY <1>1, AddressSpaceAssumption DEF IInv, TypeOK
<1>3. \A b \in DOMAIN Programs :
         DOMAIN Programs[b] = 1 .. Len(Programs[b]) /\ Len(Programs[b]) \in Nat
  <2>1. Programs \in Seq(Seq(Header))
    BY AddressSpaceAssumption
  <2>2. QED
    BY <2>1
<1>4. CASE LoadHeader
  <2>1. seg \in Nat \ {0} /\ seg' = seg + 1
    BY <1>2, <1>3, <1>4 DEF LoadHeader, TypeOK
  <2>2. QED
    BY <1>1, <2>1
<1>5. CASE LoadRest \/ fork \/ switch
  <2>1. tlb' = NoTranslations
    BY <1>5 DEF LoadRest, fork, switch
  <2>2. QED
    BY <2>1 DEF NoTranslations
<1>6. CASE \E a \in Stores : Store(a)
  <2>1. PICK a \in Stores : Store(a)
    BY <1>6
  <2>2. seg = 0 /\ UNCHANGED <<space, brk, cur>>
    BY <2>1 DEF Store
  <2>3. PICK f \in {space[cur][PageOf(a)], tlb[PageOf(a)]} \ {None} :
           tlb' = [tlb EXCEPT ![PageOf(a)] = f]
    BY <2>1 DEF Store
  <2>4. ASSUME NEW pg \in Page, tlb'[pg] # None
        PROVE  tlb'[pg] = space[cur][pg] \/ pg \in HEAP .. brk[cur] - 1
    BY <1>1, <1>2, <2>2, <2>3, <2>4 DEF TranslationsCurrent
  <2>5. QED
    BY <2>2, <2>4
<1>7. CASE \E a \in Addr : Fault(a)
  <2>1. PICK a \in Addr : Fault(a)
    BY <1>7
  <2>2. seg = 0 /\ UNCHANGED <<cur, tlb>> /\ space[cur][PageOf(a)] = None
    BY <2>1 DEF Fault
  <2>3. CASE MapOne(PageOf(a)) /\ UNCHANGED brk
    <3>1. \A pg \in Page \ {PageOf(a)} : space'[cur][pg] = space[cur][pg]
      BY <1>2, <2>3 DEF MapOne
    <3>2. QED
      BY <1>1, <1>2, <2>2, <2>3, <3>1 DEF TranslationsCurrent
  <2>4. CASE /\ MapOne(brk[cur])
             /\ brk' = [brk EXCEPT ![cur] = @ + 1]
    <3>1. \A pg \in Page \ {brk[cur]} : space'[cur][pg] = space[cur][pg]
      BY <1>2, <2>4 DEF MapOne
    <3>2. brk'[cur] = brk[cur] + 1 /\ brk[cur] \in HEAP .. HEAPEND - 1
      BY <1>2, <2>4
    <3>3. brk[cur] \in HEAP .. brk'[cur] - 1
      BY <1>2, <3>2
    <3>4. \A pg \in HEAP .. brk[cur] - 1 : pg \in HEAP .. brk'[cur] - 1
      BY <1>2, <3>2
    <3>5. QED
      BY <1>1, <2>2, <3>1, <3>3, <3>4 DEF TranslationsCurrent
  <2>5. QED
    BY <2>1, <2>3, <2>4 DEF Fault
<1>8. CASE \E b \in DOMAIN Programs : execve(b)
  BY <1>1, <1>8 DEF execve
<1>9. CASE UNCHANGED vars
  BY <1>1, <1>9 DEF vars, TranslationsCurrent
<1>10. QED
  BY <1>1, <1>4, <1>5, <1>6, <1>7, <1>8, <1>9 DEF Next

\* A store goes to a page of the process that executes it, or to a heap page
\* that growth replaced under it (irq.c:104-119).
THEOREM StoresStayHome == Spec => StoreReachesOwnPage
<1> DEFINE Own == seg = 0 => \A f \in Frame : mem'[f] # mem[f] =>
                      \/ \E pg \in Page : space[cur][pg] = f
                      \/ \E pg \in HEAP .. brk[cur] - 1 : tlb[pg] = f
<1>1. IInv /\ TranslationsCurrent /\ [Next]_vars => [Own]_vars
  <2>1. SUFFICES ASSUME IInv, TranslationsCurrent, Next, seg = 0,
                        NEW g \in Frame, mem'[g] # mem[g]
                 PROVE  \/ \E pg \in Page : space[cur][pg] = g
                        \/ \E pg \in HEAP .. brk[cur] - 1 : tlb[pg] = g
    BY DEF vars
  <2>2. ~ LoadHeader /\ ~ LoadRest
    <3>1. Programs \in Seq(Seq(Header)) /\ program[cur] \in DOMAIN Programs
      BY <2>1, AddressSpaceAssumption DEF IInv, TypeOK
    <3>2. /\ DOMAIN Programs[program[cur]] = 1 .. Len(Programs[program[cur]])
          /\ Len(Programs[program[cur]]) \in Nat
      BY <3>1
    <3>3. QED
      BY <2>1, <3>2 DEF LoadHeader, LoadRest
  <2>3. PICK a \in Stores : Store(a)
    BY <2>1, <2>2 DEF Next, Fault, fork, switch, execve
  <2>4. PICK f \in {space[cur][PageOf(a)], tlb[PageOf(a)]} \ {None} :
           mem' = [mem EXCEPT ![f] = [@ EXCEPT ![a % PAGESIZE] = Stored(cur)]]
    BY <2>3 DEF Store
  <2>5. f = g
    BY <2>1, <2>4
  <2>6. PageOf(a) \in Page
    <3>1. /\ PAGESIZE \in Nat /\ PAGESIZE > 0 /\ a \in Nat /\ STACK \in Nat
          /\ a < (STACK + 1) * PAGESIZE
      BY AddressSpaceAssumption DEF Addr
    <3>2. a \div PAGESIZE < STACK + 1 /\ a \div PAGESIZE \in Nat
      BY <3>1
    <3>3. QED
      BY <3>1, <3>2 DEF PageOf, Page
  <2>7. QED
    BY <2>1, <2>4, <2>5, <2>6 DEF TranslationsCurrent
<1>2. Init => TranslationsCurrent
  BY DEF Init, TranslationsCurrent
<1>3. Spec => []TranslationsCurrent
  BY <1>2, Invariant, NextTranslations, PTL DEF Spec
<1>4. Spec => [][Own]_vars
  BY <1>1, <1>3, Invariant, PTL DEF Spec
<1>5. QED
  BY <1>4 DEF StoreReachesOwnPage

-----------------------------------------------------------------------------
(* The beginning of a file.                                                *)

\* The headers of p that load_binaries is done with.
Done(p) ==
    IF p = cur /\ seg # 0 THEN 1 .. seg - 1 ELSE DOMAIN Programs[program[p]]

\* They brought a page of p.
Within(p, pg) ==
    \E k \in Done(p) : Programs[program[p]][k].load /\ pg \in Pages(Programs[program[p]][k])

\* A translation is of the page it is used for, and of no other.
TranslationsPage ==
    \A pg \in Page : tlb[pg] # None =>
        /\ tlb[pg] < free
        /\ \A q \in Proc : \A pg2 \in Page : space[q][pg2] = tlb[pg] => pg2 = pg

\* While a program is loaded, only pages that it was given are translated.
TranslationsLoad == seg # 0 => \A pg \in Page : tlb[pg] # None => Within(cur, pg)

\* Who shares a page of their programs runs the same program.
SharedSameProgram ==
    \A p, q \in procs : \A pg \in Page :
        (/\ space[p][pg] # None /\ space[p][pg] = space[q][pg]
         /\ Within(p, pg) /\ Within(q, pg)) => program[p] = program[q]

\* StartOfFileLoaded, of the headers of a program that is still being loaded too.
Starts == \A p \in procs : \A k \in Done(p) : StartsRight(p, k)

MemWords == mem = [f \in Frame |-> [w \in Word |-> mem[f][w]]]

SInv == /\ TranslationsPage /\ TranslationsLoad /\ SharedSameProgram
        /\ Starts /\ MemWords

\* An address has a page and a word, and they determine it.
LEMMA AddrPage ==
    ASSUME NEW a \in Addr
    PROVE  /\ PageOf(a) \in Page /\ a % PAGESIZE \in Word
           /\ \A b \in Addr : (PageOf(a) = PageOf(b) /\ a % PAGESIZE = b % PAGESIZE) => a = b
<1>1. /\ PAGESIZE \in Nat /\ PAGESIZE > 0 /\ a \in Nat /\ STACK \in Nat
      /\ a < (STACK + 1) * PAGESIZE
  BY AddressSpaceAssumption DEF Addr
<1>2. a \div PAGESIZE < STACK + 1 /\ a \div PAGESIZE \in Nat
  BY <1>1
<1>3. a % PAGESIZE \in 0 .. PAGESIZE - 1
  BY <1>1
<1>4. ASSUME NEW b \in Addr, PageOf(a) = PageOf(b), a % PAGESIZE = b % PAGESIZE
      PROVE  a = b
  <2>1. b \in Nat /\ a \div PAGESIZE = b \div PAGESIZE
    BY <1>1, <1>4 DEF Addr, PageOf
  <2>2. QED
    BY <1>1, <1>4, <2>1
<1>5. QED
  BY <1>1, <1>2, <1>3, <1>4 DEF PageOf, Page, Word

\* The pages of a segment are below the heap.
LEMMA PagesBelow ==
    ASSUME NEW b \in DOMAIN Programs, NEW k \in DOMAIN Programs[b],
           NEW pg \in Pages(Programs[b][k])
    PROVE  pg \in Nat /\ pg < HEAP
<1> DEFINE h == Programs[b][k]
<1>1. /\ PAGESIZE \in Nat /\ PAGESIZE > 0 /\ HEAP \in Nat
      /\ h \in Header /\ h.filesz <= h.memsz
      /\ h.vaddr + h.memsz <= HEAP * PAGESIZE
  BY AddressSpaceAssumption, HeaderType
<1>2. FirstPage(h) \in Nat /\ EndPage(h) \in Nat
  BY <1>1, SegmentPages
<1>3. h.vaddr \in Nat /\ h.memsz \in Nat
  BY <1>1 DEF Header
<1>4. pg \in FirstPage(h) .. EndPage(h) - 1
  BY DEF Pages
<1> DEFINE end == h.vaddr + h.memsz + PAGESIZE - 1
<1>5. end \in Nat /\ end < HEAP * PAGESIZE + PAGESIZE /\ EndPage(h) = end \div PAGESIZE
  BY <1>1, <1>3 DEF EndPage
<1> HIDE DEF end, h
<1>6. HEAP * PAGESIZE + PAGESIZE = (HEAP + 1) * PAGESIZE
  BY <1>1
<1>7. end \div PAGESIZE < HEAP + 1
  BY <1>1, <1>5, <1>6
<1>8. QED
  BY <1>1, <1>2, <1>4, <1>5, <1>7

\* What the steps keep is about the headers a program has.
LEMMA DoneHeaders ==
    ASSUME TypeOK, NEW p \in Proc, NEW k \in Done(p)
    PROVE  k \in DOMAIN Programs[program[p]]
<1>1. program[p] \in DOMAIN Programs /\ seg \in 0 .. Len(Programs[program[cur]]) + 1
  BY DEF TypeOK
<1>2. Programs \in Seq(Seq(Header))
  BY AddressSpaceAssumption
<1>3. DOMAIN Programs[program[p]] = 1 .. Len(Programs[program[p]])
      /\ Len(Programs[program[p]]) \in Nat
  BY <1>1, <1>2
<1>4. QED
  BY <1>1, <1>3 DEF Done

\* A copied word is in a page of its header, below the heap.
LEMMA CopiedPage ==
    ASSUME NEW b \in DOMAIN Programs, NEW k \in DOMAIN Programs[b],
           NEW a \in Addr, Copied(Programs[b][k], a)
    PROVE  /\ PageOf(a) \in Pages(Programs[b][k]) /\ PageOf(a) \in Page
           /\ PageOf(a) < HEAP
<1>1. PageOf(a) \in Pages(Programs[b][k])
  BY HeaderType, SegmentPages
<1>2. QED
  BY <1>1, PagesBelow, AddrPage

\* So is a word of its area.
LEMMA AreaPage ==
    ASSUME NEW b \in DOMAIN Programs, NEW k \in DOMAIN Programs[b], NEW a \in Addr,
           Programs[b][k].vaddr <= a, a < Programs[b][k].vaddr + Programs[b][k].memsz
    PROVE  PageOf(a) \in Pages(Programs[b][k])
<1> DEFINE h == Programs[b][k]
           all == [h EXCEPT !.filesz = h.memsz, !.flags = "RX"]
<1>1. h \in Header
  BY HeaderType
<1>2. all \in Header /\ all.filesz = h.memsz /\ all.memsz = h.memsz
      /\ all.vaddr = h.vaddr /\ all.flags = "RX" /\ h.memsz \in Nat
  BY <1>1 DEF Header
<1> HIDE DEF all
<1>3. Copied(all, a) /\ Pages(all) = Pages(h)
  BY <1>2 DEF Copied, Pages, FirstPage, EndPage
<1>4. QED
  BY <1>2, <1>3, SegmentPages

\* Loading a segment keeps it.
LEMMA LoadSegmentStarts ==
    ASSUME IInv, SInv, LoadHeader, LoadSegment(Programs[program[cur]][seg])
    PROVE  SInv'
<1> DEFINE b == program[cur]
           h == Programs[b][seg]
           table == Mapped(space[cur], FirstPage(h), EndPage(h))
<1>1. /\ TypeOK /\ SpaceHandedOut /\ SamePage /\ TranslationsOwn
      /\ cur \in procs /\ cur \in Proc /\ procs \subseteq Proc
      /\ free \in Nat /\ b \in DOMAIN Programs
      /\ space \in [Proc -> [Page -> Frame \cup {None}]]
      /\ tlb \in [Page -> Frame \cup {None}]
      /\ TranslationsPage /\ TranslationsLoad /\ SharedSameProgram /\ Starts /\ MemWords
  BY AddressSpaceAssumption DEF IInv, TypeOK, SInv
<1>2. /\ seg \in DOMAIN Programs[b] /\ seg' = seg + 1 /\ LoadSegment(h)
      /\ UNCHANGED <<procs, program, cur>>
  BY DEF LoadHeader
<1>3. /\ Programs[b] \in Seq(Header) /\ DOMAIN Programs[b] = 1 .. Len(Programs[b])
      /\ Len(Programs[b]) \in Nat /\ seg \in Nat \ {0}
  <2>1. Programs \in Seq(Seq(Header))
    BY AddressSpaceAssumption
  <2>2. QED
    BY <1>1, <1>2, <2>1
<1>4. h \in Header /\ h.filesz <= h.memsz /\ h.load
  BY <1>1, <1>2, HeaderType DEF LoadSegment
<1>5. /\ FirstPage(h) \in Nat /\ EndPage(h) \in Nat /\ FirstPage(h) <= EndPage(h)
      /\ Pages(h) = FirstPage(h) .. EndPage(h) - 1
  BY <1>4, SegmentPages DEF Pages
<1>6. PICK stale \in SUBSET {pg \in Pages(h) : tlb[pg] # None} :
         /\ mem' = [f \in Frame |-> [w \in Word |->
                       IF CopiedTo(h, stale, f, w) = {} THEN mem[f][w]
                       ELSE File(program[cur],
                                 Source(h, CHOOSE a \in CopiedTo(h, stale, f, w) : TRUE))]]
         /\ tlb' = [pg \in Page |->
                       IF \E a \in Addr : PageOf(a) = pg /\ Copied(h, a)
                       THEN Target(h, stale, pg) ELSE tlb[pg]]
  BY <1>2 DEF LoadSegment
<1>7. /\ Done(cur) = 1 .. seg - 1 /\ Done(cur)' = 1 .. seg
      /\ \A p \in procs \ {cur} : Done(p)' = Done(p)
  BY <1>2, <1>3 DEF Done
<1>8. /\ space' = [space EXCEPT ![cur] = table]
      /\ free' = free + (EndPage(h) - FirstPage(h))
      /\ table \in [Page -> Frame \cup {None}]
      /\ SpaceHandedOut' /\ SamePage'
      /\ \A q \in Proc \ {cur} : \A a \in Addr : Content(q, a)' = Content(q, a)
  <2>1. /\ space' = [space EXCEPT ![cur] = table]
        /\ free' = free + (EndPage(h) - FirstPage(h))
    BY <1>2 DEF LoadSegment, Take
  <2>2. /\ space' \in [Proc -> [Page -> Frame \cup {None}]]
        /\ SpaceHandedOut' /\ SamePage'
        /\ \A q \in Proc \ {cur} : \A a \in Addr : Content(q, a)' = Content(q, a)
    BY <1>2, <1>3, <1>4, LoadSegmentKeeps
  <2>3. QED
    BY <1>1, <2>1, <2>2
<1>9. /\ space'[cur] = table
      /\ \A q \in Proc \ {cur} : space'[q] = space[q]
  BY <1>1, <1>8
<1>10. \A pg \in Page :
         /\ pg \in Nat
         /\ pg \in Pages(h) => table[pg] = free + (pg - FirstPage(h))
         /\ pg \notin Pages(h) => table[pg] = space[cur][pg]
  <2>1. STACK \in Nat
    BY AddressSpaceAssumption
  <2>2. QED
    BY <1>5, <2>1 DEF Mapped, Page
<1> HIDE DEF table, h, b
<1>11. \A q \in Proc, pg \in Page : space[q][pg] \in Nat /\ space[q][pg] < free
  BY <1>1 DEF SpaceHandedOut, Frame, None
<1>12. free <= free' /\ free' \in Nat
  BY <1>1, <1>5, <1>8
\* A fresh frame is under its page alone.
<1>13. ASSUME NEW pg \in Page, pg \in Pages(h)
       PROVE  /\ free <= table[pg] /\ table[pg] < free' /\ table[pg] # None
              /\ \A q \in Proc, pg2 \in Page : space[q][pg2] # table[pg]
              /\ \A q \in Proc, pg2 \in Page : space'[q][pg2] = table[pg] => q = cur /\ pg2 = pg
  <2>1. table[pg] = free + (pg - FirstPage(h)) /\ pg \in Nat
    BY <1>10, <1>13
  <2>2. free <= table[pg] /\ table[pg] < free'
    BY <1>1, <1>5, <1>8, <1>13, <2>1
  <2>3. \A q \in Proc, pg2 \in Page : space[q][pg2] # table[pg]
    BY <1>1, <1>11, <2>1, <2>2
  <2>4. table[pg] # None
    BY <1>1, <2>3, <1>11, <2>1, <2>2 DEF TypeOK, None
  <2>5. ASSUME NEW pg2 \in Page, table[pg2] = table[pg] PROVE pg2 = pg
    <3>1. pg2 \in Pages(h)
      BY <1>10, <1>1, <2>3, <2>5
    <3>2. QED
      BY <1>1, <1>5, <1>10, <2>1, <2>5, <3>1
  <2>6. QED
    BY <1>9, <2>2, <2>3, <2>4, <2>5
<1>14. ASSUME NEW pg \in Page, pg \in Pages(h)
       PROVE  \/ Target(h, stale, pg) = tlb[pg] /\ tlb[pg] # None
              \/ Target(h, stale, pg) = table[pg] /\ pg \notin stale
  BY <1>14, <1>6 DEF Target, table
<1>15. \A a \in Addr : Copied(h, a) => PageOf(a) \in Page /\ PageOf(a) \in Pages(h)
  BY <1>4, SegmentPages, AddrPage
<1>16. TranslationsPage'
  <2>1. SUFFICES ASSUME NEW pg \in Page, tlb'[pg] # None
                 PROVE  /\ tlb'[pg] < free'
                        /\ \A q \in Proc, pg2 \in Page : space'[q][pg2] = tlb'[pg] => pg2 = pg
    BY DEF TranslationsPage
  <2>2. tlb'[pg] = tlb[pg] \/ (pg \in Pages(h) /\ tlb'[pg] = table[pg])
    BY <1>6, <1>14, <1>15
  <2>3. CASE tlb'[pg] = tlb[pg]
    <3>1. tlb[pg] < free /\ tlb[pg] \in Int
      BY <1>1, <2>1, <2>3 DEF TranslationsPage, Frame
    <3>2. ASSUME NEW pg2 \in Page, table[pg2] = tlb[pg] PROVE pg2 = pg
      <4>1. pg2 \notin Pages(h)
        BY <1>13, <1>1, <1>12, <3>1, <3>2, <1>8, <1>10, <1>5
      <4>2. QED
        BY <1>1, <1>10, <2>1, <2>3, <3>2, <4>1 DEF TranslationsPage
    <3>3. QED
      BY <1>1, <1>9, <1>12, <2>1, <2>3, <3>1, <3>2 DEF TranslationsPage
  <2>4. CASE pg \in Pages(h) /\ tlb'[pg] = table[pg]
    BY <1>13, <2>4
  <2>5. QED
    BY <2>2, <2>3, <2>4
<1>17. ASSUME NEW p \in {cur}, NEW pg \in Page, pg \notin Pages(h), Within(p, pg)'
       PROVE  Within(p, pg)
  <2>1. PICK k \in 1 .. seg : Programs[b][k].load /\ pg \in Pages(Programs[b][k])
    BY <1>2, <1>7, <1>17 DEF Within, b
  <2>2. k # seg
    BY <1>17, <2>1 DEF h
  <2>3. k \in Done(cur)
    BY <1>3, <1>7, <2>1, <2>2
  <2>4. QED
    BY <2>1, <2>3 DEF Within, b
<1>18. ASSUME NEW pg \in Page, Within(cur, pg) \/ pg \in Pages(h) PROVE Within(cur, pg)'
  <2>1. CASE Within(cur, pg)
    <3>1. PICK k \in 1 .. seg - 1 : Programs[b][k].load /\ pg \in Pages(Programs[b][k])
      BY <1>7, <2>1 DEF Within, b
    <3>2. k \in Done(cur)'
      BY <1>3, <1>7, <3>1
    <3>3. QED
      BY <1>2, <3>1, <3>2 DEF Within, b
  <2>2. CASE pg \in Pages(h)
    <3>1. seg \in Done(cur)'
      BY <1>3, <1>7
    <3>2. QED
      BY <1>2, <1>4, <2>2, <3>1 DEF Within, b, h
  <2>3. QED
    BY <1>18, <2>1, <2>2
<1>19. TranslationsLoad'
  <2>1. SUFFICES ASSUME NEW pg \in Page, tlb'[pg] # None PROVE Within(cur, pg)'
    BY <1>2 DEF TranslationsLoad
  <2>2. tlb'[pg] = tlb[pg] \/ pg \in Pages(h)
    BY <1>6, <1>15
  <2>3. CASE tlb'[pg] = tlb[pg]
    BY <1>1, <1>3, <1>18, <2>1, <2>3 DEF TranslationsLoad
  <2>4. QED
    BY <1>18, <2>2, <2>3
<1>20. \A q \in procs \ {cur}, pg \in Page : Within(q, pg)' <=> Within(q, pg)
  BY <1>2, <1>7 DEF Within
<1>21. SharedSameProgram'
  <2>1. SUFFICES ASSUME NEW p \in procs, NEW q \in procs, NEW pg \in Page,
                        space'[p][pg] # None, space'[p][pg] = space'[q][pg],
                        Within(p, pg)', Within(q, pg)'
                 PROVE  program[p] = program[q]
    BY <1>2 DEF SharedSameProgram
  <2>2. CASE p = q
    BY <2>2
  <2>3. CASE p # q /\ pg \in Pages(h) /\ cur \in {p, q}
    BY <1>1, <1>9, <1>13, <2>1, <2>3
  <2>4. CASE p # q /\ ~ (pg \in Pages(h) /\ cur \in {p, q})
    <3>1. space[p][pg] = space'[p][pg] /\ space[q][pg] = space'[q][pg]
      BY <1>1, <1>9, <1>10, <2>4
    <3>2. Within(p, pg) /\ Within(q, pg)
      <4>1. CASE p = cur
        <5>1. pg \notin Pages(h) /\ q # cur
          BY <2>4, <4>1
        <5>2. QED
          BY <1>17, <1>20, <2>1, <4>1, <5>1
      <4>2. CASE q = cur
        <5>1. pg \notin Pages(h) /\ p # cur
          BY <2>4, <4>2
        <5>2. QED
          BY <1>17, <1>20, <2>1, <4>2, <5>1
      <4>3. CASE p # cur /\ q # cur
        BY <1>20, <2>1, <4>3
      <4>4. QED
        BY <4>1, <4>2, <4>3
    <3>3. QED
      BY <1>1, <2>1, <3>1, <3>2 DEF SharedSameProgram
  <2>5. QED
    BY <2>2, <2>3, <2>4
<1>22. MemWords'
  BY <1>6 DEF MemWords
\* A word of the table that is not copied keeps what it has.
<1>23. ASSUME NEW p \in {cur}, NEW a \in Addr, PageOf(a) \notin Pages(h)
       PROVE  Content(p, a)' = Content(p, a)
  <2> DEFINE f == space[cur][PageOf(a)]
             w == a % PAGESIZE
  <2>1. PageOf(a) \in Page /\ w \in Word /\ f \in Frame \cup {None}
    BY <1>1, AddrPage
  <2>2. space'[cur][PageOf(a)] = f
    BY <1>9, <1>10, <1>23, <2>1
  <2>3. CASE f = None
    BY <1>2, <2>2, <2>3 DEF Content
  <2>4. CASE f # None
    <3>1. CopiedTo(h, stale, f, w) = {}
      <4>1. SUFFICES ASSUME NEW c \in Addr, Copied(h, c), Target(h, stale, PageOf(c)) = f
                     PROVE  FALSE
        BY DEF CopiedTo
      <4>2. PageOf(c) \in Page /\ PageOf(c) \in Pages(h)
        BY <1>15, <4>1
      <4>3. CASE f = tlb[PageOf(c)]
        BY <1>1, <1>23, <2>1, <2>4, <4>2, <4>3 DEF TranslationsPage
      <4>4. CASE f = table[PageOf(c)]
        BY <1>1, <1>13, <2>1, <4>2, <4>4
      <4>5. QED
        BY <1>14, <4>1, <4>2, <4>3, <4>4
    <3>2. mem'[f][w] = mem[f][w]
      BY <1>6, <2>1, <2>4, <3>1
    <3>3. QED
      BY <1>2, <2>2, <3>2 DEF Content
  <2>5. QED
    BY <2>3, <2>4
\* The segment itself: its pages are not translated yet, so each word goes to
\* the fresh frame of its page, and comes from where the header says.
<1>24. ASSUME NEW p \in {cur}, h.offset = 0, Alone(p, seg), NEW a \in Addr, Copied(h, a)
       PROVE  Content(p, a)' = File(b, a - h.vaddr)
  <2> DEFINE w == a % PAGESIZE
             f == table[PageOf(a)]
  <2>1. PageOf(a) \in Page /\ PageOf(a) \in Pages(h) /\ w \in Word
    BY <1>15, <1>24, AddrPage
  <2>2. f \in Frame /\ f # None
    BY <1>8, <1>13, <2>1
  <2>3. stale = {}
    <3>1. SUFFICES ASSUME NEW pg \in Pages(h), pg \in Page, tlb[pg] # None PROVE FALSE
      <4>1. \A pg \in Pages(h) : pg \in Page
        <5>1. STACK \in Nat /\ HEAP \in Nat /\ HEAP <= STACK
          BY AddressSpaceAssumption
        <5>2. \A pg \in Pages(h) : pg \in Nat /\ pg < HEAP
          BY <1>1, <1>2, PagesBelow DEF h
        <5>3. QED
          BY <5>1, <5>2 DEF Page
      <4>2. QED
        BY <1>6, <4>1
    <3>2. PICK k \in 1 .. seg - 1 : Programs[b][k].load /\ pg \in Pages(Programs[b][k])
      BY <1>1, <1>3, <1>7, <3>1 DEF TranslationsLoad, Within, b
    <3>3. k \in DOMAIN Programs[b] \ {seg}
      BY <1>2, <1>3, <3>2
    <3>4. QED
      BY <1>24, <3>1, <3>2, <3>3 DEF Alone, h, b
  <2>4. \A pg \in Page : pg \in Pages(h) => Target(h, stale, pg) = table[pg]
    BY <2>3 DEF Target, table
  <2>5. a \in CopiedTo(h, stale, f, w)
    BY <1>24, <2>1, <2>4 DEF CopiedTo
  <2>6. ASSUME NEW c \in CopiedTo(h, stale, f, w) PROVE c = a
    <3>1. c \in Addr /\ Copied(h, c) /\ c % PAGESIZE = w /\ Target(h, stale, PageOf(c)) = f
      BY <2>6 DEF CopiedTo
    <3>2. PageOf(c) \in Page /\ PageOf(c) \in Pages(h)
      BY <1>15, <3>1
    <3>3. table[PageOf(c)] = table[PageOf(a)]
      BY <2>4, <3>1, <3>2
    <3>4. space'[cur][PageOf(c)] = table[PageOf(a)]
      BY <1>9, <3>3
    <3>5. PageOf(c) = PageOf(a)
      BY <1>1, <1>13, <2>1, <3>2, <3>4
    <3>6. QED
      BY <3>1, <3>5, AddrPage
  <2>7. (CHOOSE c \in CopiedTo(h, stale, f, w) : TRUE) = a
    BY <2>5, <2>6
  <2>8. mem'[f][w] = File(program[cur], Source(h, a))
    BY <1>6, <2>1, <2>2, <2>5, <2>7
  <2>9. Source(h, a) = a - h.vaddr
    <3>1. HEADER \in Nat /\ h.vaddr \in Nat /\ a \in Int
      BY <1>4, AddressSpaceAssumption DEF Header, Addr
    <3>2. QED
      BY <1>24, <3>1 DEF Source
  <2>10. Content(p, a)' = mem'[f][w]
    BY <1>2, <1>9, <2>1, <2>2 DEF Content
  <2>11. QED
    BY <2>8, <2>9, <2>10 DEF b
<1>25. Starts'
  <2>1. SUFFICES ASSUME NEW p \in procs, NEW k \in Done(p)',
                        NEW g, g = Programs[program[p]][k],
                        g.load, g.offset = 0, Alone(p, k), NEW a \in Addr, Copied(g, a)
                 PROVE  \/ Content(p, a)' = File(program[p], a - g.vaddr)
                        \/ g.flags = "RW" /\ \E q \in procs : Content(p, a)' = Stored(q)
    BY <1>2 DEF Starts, StartsRight, Alone
  <2>2. CASE p # cur
    <3>1. k \in Done(p) /\ Content(p, a)' = Content(p, a)
      BY <1>1, <1>7, <1>8, <2>2
    <3>2. StartsRight(p, k)
      BY <1>1, <3>1 DEF Starts
    <3>3. QED
      BY <2>1, <3>1, <3>2 DEF StartsRight
  <2>3. CASE p = cur /\ k # seg
    <3>1. k \in Done(p) /\ k \in DOMAIN Programs[b] /\ g = Programs[b][k]
      BY <1>2, <1>3, <1>7, <2>1, <2>3 DEF b
    <3>2. PageOf(a) \in Pages(g)
      BY <1>1, <2>1, <3>1, CopiedPage
    <3>3. PageOf(a) \notin Pages(h)
      BY <1>2, <1>4, <2>1, <2>3, <3>1, <3>2 DEF Alone, h, b
    <3>4. Content(p, a)' = Content(p, a)
      BY <1>23, <2>3, <3>3
    <3>5. StartsRight(p, k)
      BY <1>1, <3>1 DEF Starts
    <3>6. QED
      BY <2>1, <3>4, <3>5 DEF StartsRight
  <2>4. CASE p = cur /\ k = seg
    BY <1>24, <2>1, <2>4 DEF h, b
  <2>5. QED
    BY <2>2, <2>3, <2>4
<1>26. QED
  BY <1>16, <1>19, <1>21, <1>22, <1>25 DEF SInv

\* So do fresh frames under pages of the heap and the stack, or where there
\* was none.
LEMMA FreshStarts ==
    ASSUME IInv, SInv, UNCHANGED <<procs, program, mem, cur>>,
           \A p \in Proc : Done(p)' = Done(p),
           NEW table \in [Page -> Frame \cup {None}],
           space' = [space EXCEPT ![cur] = table],
           \A pg \in Page :
              \/ table[pg] = space[cur][pg]
              \/ free <= table[pg] /\ (pg >= HEAP \/ space[cur][pg] = None)
    PROVE  SharedSameProgram' /\ Starts' /\ MemWords'
<1>1. /\ TypeOK /\ cur \in procs /\ cur \in Proc /\ procs \subseteq Proc /\ free \in Nat
      /\ space \in [Proc -> [Page -> Frame \cup {None}]] /\ program \in [Proc -> DOMAIN Programs]
      /\ SharedSameProgram /\ Starts /\ MemWords
  BY AddressSpaceAssumption DEF IInv, TypeOK, SInv
<1>2. \A q \in Proc, pg \in Page : space[q][pg] \in Nat /\ space[q][pg] < free
  BY <1>1 DEF IInv, SpaceHandedOut, Frame, None
<1>3. space'[cur] = table /\ \A q \in Proc \ {cur} : space'[q] = space[q]
  BY <1>1
<1>4. \A q \in Proc, pg \in Page : Within(q, pg)' <=> Within(q, pg)
  BY DEF Within
<1>5. SharedSameProgram'
  <2>1. SUFFICES ASSUME NEW p \in procs, NEW q \in procs, NEW pg \in Page, p # q,
                        space'[p][pg] # None, space'[p][pg] = space'[q][pg],
                        Within(p, pg), Within(q, pg)
                 PROVE  program[p] = program[q]
    BY <1>1, <1>4 DEF SharedSameProgram
  <2>2. space[p][pg] = space'[p][pg] /\ space[q][pg] = space'[q][pg]
    <3>1. CASE p = cur
      <4>1. ~ (free <= table[pg])
        BY <1>1, <1>2, <1>3, <2>1, <3>1
      <4>2. QED
        BY <1>1, <1>3, <2>1, <3>1, <4>1
    <3>2. CASE q = cur
      <4>1. ~ (free <= table[pg])
        BY <1>1, <1>2, <1>3, <2>1, <3>2
      <4>2. QED
        BY <1>1, <1>3, <2>1, <3>2, <4>1
    <3>3. CASE p # cur /\ q # cur
      BY <1>1, <1>3, <3>3
    <3>4. QED
      BY <3>1, <3>2, <3>3
  <2>3. QED
    BY <1>1, <2>1, <2>2 DEF SharedSameProgram
<1>6. Starts'
  <2>1. SUFFICES ASSUME NEW p \in procs, NEW k \in Done(p),
                        NEW g, g = Programs[program[p]][k],
                        g.load, g.offset = 0, Alone(p, k), NEW a \in Addr, Copied(g, a)
                 PROVE  \/ Content(p, a)' = File(program[p], a - g.vaddr)
                        \/ g.flags = "RW" /\ \E q \in procs : Content(p, a)' = Stored(q)
    BY <1>1 DEF Starts, StartsRight, Alone
  <2>2. \/ Content(p, a) = File(program[p], a - g.vaddr)
        \/ g.flags = "RW" /\ \E q \in procs : Content(p, a) = Stored(q)
    BY <1>1, <2>1 DEF Starts, StartsRight
  <2>3. space[p][PageOf(a)] # None
    <3>1. Content(p, a) # Untouched
      BY <2>2 DEF File, Stored, Untouched
    <3>2. QED
      BY <3>1 DEF Content
  <2>4. PageOf(a) \in Page /\ PageOf(a) < HEAP
    BY <1>1, <2>1, DoneHeaders, CopiedPage
  <2>5. HEAP \in Int /\ PageOf(a) \in Int
    BY <2>4, AddressSpaceAssumption DEF Page
  <2>6. space'[p][PageOf(a)] = space[p][PageOf(a)]
    BY <1>1, <1>3, <2>3, <2>4, <2>5
  <2>7. Content(p, a)' = Content(p, a)
    BY <2>6 DEF Content
  <2>8. QED
    BY <2>2, <2>7
<1>7. QED
  BY <1>1, <1>5, <1>6 DEF MemWords

\* And a store: it changes one address only, in every process that shares the
\* frame, and those run the same program.
LEMMA StoreStarts ==
    ASSUME IInv, TranslationsCurrent, SInv, NEW a \in Stores, Store(a)
    PROVE  SInv'
<1> DEFINE pg == PageOf(a)
           w == a % PAGESIZE
<1>1. /\ TypeOK /\ SamePage /\ SpaceHandedOut
      /\ cur \in procs /\ cur \in Proc /\ procs \subseteq Proc /\ free \in Nat
      /\ space \in [Proc -> [Page -> Frame \cup {None}]] /\ program \in [Proc -> DOMAIN Programs]
      /\ tlb \in [Page -> Frame \cup {None}] /\ brk \in [Proc -> HEAP .. HEAPEND - 1]
      /\ TranslationsPage /\ SharedSameProgram /\ Starts /\ MemWords
  BY AddressSpaceAssumption DEF IInv, TypeOK, SInv
<1>2. /\ seg = 0 /\ Writable(cur, a) /\ space[cur][pg] # None
      /\ UNCHANGED <<procs, program, space, brk, free, cur, seg>>
  BY DEF Store
<1>3. PICK f \in {space[cur][pg], tlb[pg]} \ {None} :
         /\ mem' = [mem EXCEPT ![f] = [@ EXCEPT ![w] = Stored(cur)]]
         /\ tlb' = [tlb EXCEPT ![pg] = f]
  BY DEF Store
<1>4. a \in Addr /\ pg \in Page /\ w \in Word
  BY AddrPage, AddressSpaceAssumption
<1>5. f \in Frame /\ f # None
  BY <1>1, <1>3, <1>4
<1> HIDE DEF pg, w
<1>6. f < free /\ \A q \in Proc, pg2 \in Page : space[q][pg2] = f => pg2 = pg
  <2>1. CASE f = space[cur][pg]
    BY <1>1, <1>4, <1>5, <2>1 DEF SpaceHandedOut, SamePage
  <2>2. CASE f = tlb[pg]
    BY <1>1, <1>4, <1>5, <2>2 DEF TranslationsPage
  <2>3. QED
    BY <1>3, <2>1, <2>2
<1>7. TranslationsPage'
  BY <1>1, <1>2, <1>3, <1>4, <1>6 DEF TranslationsPage
<1>8. TranslationsLoad'
  BY <1>2 DEF TranslationsLoad
<1>9. \A p \in Proc : Done(p) = Done(p)' /\ \A x \in Page : Within(p, x)' <=> Within(p, x)
  BY <1>2 DEF Done, Within
<1>10. SharedSameProgram'
  BY <1>1, <1>2, <1>9 DEF SharedSameProgram
<1>11. /\ mem' = [g \in Frame |-> [x \in Word |-> mem'[g][x]]]
       /\ mem'[f][w] = Stored(cur)
       /\ \A g \in Frame, x \in Word : (g # f \/ x # w) => mem'[g][x] = mem[g][x]
  BY <1>1, <1>3, <1>4, <1>5 DEF MemWords
<1>12. MemWords'
  BY <1>11 DEF MemWords
<1>13. Starts'
  <2>1. SUFFICES ASSUME NEW p \in procs, NEW k \in Done(p),
                        NEW g, g = Programs[program[p]][k],
                        g.load, g.offset = 0, Alone(p, k), NEW c \in Addr, Copied(g, c)
                 PROVE  \/ Content(p, c)' = File(program[p], c - g.vaddr)
                        \/ g.flags = "RW" /\ \E q \in procs : Content(p, c)' = Stored(q)
    BY <1>1, <1>2, <1>9 DEF Starts, StartsRight, Alone
  <2>2. \/ Content(p, c) = File(program[p], c - g.vaddr)
        \/ g.flags = "RW" /\ \E q \in procs : Content(p, c) = Stored(q)
    BY <1>1, <2>1 DEF Starts, StartsRight
  <2>3. /\ k \in DOMAIN Programs[program[p]] /\ program[p] \in DOMAIN Programs
        /\ PageOf(c) \in Page /\ c % PAGESIZE \in Word
        /\ PageOf(c) \in Pages(g) /\ PageOf(c) < HEAP
    BY <1>1, <2>1, DoneHeaders, CopiedPage, AddrPage
  <2>4. CASE space[p][PageOf(c)] # f \/ c % PAGESIZE # w
    <3>1. Content(p, c)' = Content(p, c)
      BY <1>1, <1>2, <1>11, <2>3, <2>4 DEF Content
    <3>2. QED
      BY <2>2, <3>1
  <2>5. CASE space[p][PageOf(c)] = f /\ c % PAGESIZE = w
    <3>1. PageOf(c) = pg
      BY <1>1, <1>6, <2>3, <2>5
    <3>2. Content(p, c)' = Stored(cur)
      BY <1>2, <1>5, <1>11, <2>5 DEF Content
    <3>3. /\ HEAP \in Nat /\ HEAPEND \in Nat /\ STACKEND \in Nat /\ STACK \in Nat
          /\ HEAP < HEAPEND /\ HEAPEND <= STACKEND
          /\ pg \in Int /\ pg < HEAP
      BY <2>3, <3>1, AddressSpaceAssumption DEF Page
    <3>4. f = space[cur][pg]
      <4>1. pg \notin HEAP .. brk[cur] - 1
        BY <3>3
      <4>2. QED
        BY <1>2, <1>3, <1>4, <4>1 DEF TranslationsCurrent
    <3>5. PICK j \in DOMAIN Programs[program[cur]] :
             LET h == Programs[program[cur]][j]
             IN  h.load /\ h.flags = "RW" /\ h.vaddr <= a /\ a < h.vaddr + h.memsz
      BY <1>2, <3>3 DEF Writable, Loaded, pg
    <3>6. pg \in Pages(Programs[program[cur]][j])
      BY <1>1, <1>4, <3>5, AreaPage DEF pg
    <3>7. j \in Done(cur) /\ k \in Done(p)
      BY <1>2, <2>1 DEF Done
    <3>8. Within(cur, pg) /\ Within(p, pg)
      BY <2>1, <2>3, <3>1, <3>5, <3>6, <3>7 DEF Within
    <3>9. program[p] = program[cur]
      BY <1>1, <1>4, <1>5, <2>5, <3>1, <3>4, <3>8 DEF SharedSameProgram
    <3>10. j = k
      BY <2>1, <2>3, <3>1, <3>5, <3>6, <3>9 DEF Alone
    <3>11. g.flags = "RW"
      BY <2>1, <3>5, <3>9, <3>10
    <3>12. QED
      BY <1>1, <3>2, <3>11
  <2>6. QED
    BY <2>4, <2>5
<1>14. QED
  BY <1>7, <1>8, <1>10, <1>12, <1>13 DEF SInv

\* Every step keeps it.
LEMMA NextStarts ==
    IInv /\ TranslationsCurrent /\ SInv /\ [Next]_vars => SInv'
<1>1. SUFFICES ASSUME IInv, TranslationsCurrent, SInv, [Next]_vars PROVE SInv'
  OBVIOUS
<1>2. /\ TypeOK /\ SamePage /\ SpaceHandedOut
      /\ cur \in procs /\ cur \in Proc /\ procs \subseteq Proc /\ free \in 1 .. FRAMES + 1
      /\ FRAMES \in Nat /\ HEAP \in Nat /\ HEAPEND \in Nat /\ HEAP < HEAPEND
      /\ HEAPEND <= STACK /\ STACK \in Nat
      /\ space \in [Proc -> [Page -> Frame \cup {None}]] /\ program \in [Proc -> DOMAIN Programs]
      /\ tlb \in [Page -> Frame \cup {None}] /\ brk \in [Proc -> HEAP .. HEAPEND - 1]
      /\ TranslationsPage /\ TranslationsLoad /\ SharedSameProgram /\ Starts /\ MemWords
  BY <1>1, AddressSpaceAssumption DEF IInv, TypeOK, SInv
<1>3. \A b \in DOMAIN Programs :
         DOMAIN Programs[b] = 1 .. Len(Programs[b]) /\ Len(Programs[b]) \in Nat
  <2>1. Programs \in Seq(Seq(Header))
    BY AddressSpaceAssumption
  <2>2. QED
    BY <2>1
<1>4. \A q \in Proc, pg \in Page : space[q][pg] \in Nat /\ space[q][pg] < free
  BY <1>2 DEF SpaceHandedOut, Frame, None
\* A step that loads cr3 leaves no translation.
<1>5. ASSUME tlb' = NoTranslations PROVE TranslationsPage' /\ TranslationsLoad'
  BY <1>5 DEF TranslationsPage, TranslationsLoad, NoTranslations
<1>6. CASE LoadHeader
  <2>1. CASE LoadSegment(Programs[program[cur]][seg])
    BY <1>1, <1>6, <2>1, LoadSegmentStarts
  <2>2. CASE SkipHeader(Programs[program[cur]][seg])
    <3>1. /\ seg \in Nat \ {0} /\ seg' = seg + 1
          /\ ~ Programs[program[cur]][seg].load
          /\ UNCHANGED <<procs, program, cur, space, brk, mem, free, tlb>>
      BY <1>2, <1>3, <1>6, <2>2 DEF LoadHeader, SkipHeader
    <3>2. /\ Done(cur) = 1 .. seg - 1 /\ Done(cur)' = 1 .. seg
          /\ \A p \in Proc \ {cur} : Done(p)' = Done(p)
      BY <3>1 DEF Done
    <3>3. \A p \in Proc : \A k \in Done(p)' :
             k \in Done(p) \/ ~ Programs[program[p]][k].load
      BY <3>1, <3>2
    <3>4. \A p \in Proc : \A k \in Done(p) : k \in Done(p)'
      BY <3>1, <3>2
    <3>5. \A p \in Proc, pg \in Page : Within(p, pg)' <=> Within(p, pg)
      BY <3>1, <3>3, <3>4 DEF Within
    <3>6. TranslationsPage' /\ MemWords'
      BY <1>2, <3>1 DEF TranslationsPage, MemWords
    <3>7. TranslationsLoad'
      BY <1>2, <3>1, <3>5 DEF TranslationsLoad
    <3>8. SharedSameProgram'
      BY <1>2, <3>1, <3>5 DEF SharedSameProgram
    <3>9. Starts'
      BY <1>2, <3>1, <3>3 DEF Starts, StartsRight, Alone, Content
    <3>10. QED
      BY <3>6, <3>7, <3>8, <3>9 DEF SInv
  <2>3. QED
    BY <1>6, <2>1, <2>2 DEF LoadHeader
<1>7. CASE LoadRest
  <2> DEFINE table == [space[cur] EXCEPT ![HEAP] = free, ![STACK] = free + 1]
  <2>1. /\ free' = free + 2 /\ free' <= FRAMES + 1 /\ seg = Len(Programs[program[cur]]) + 1
        /\ space' = [space EXCEPT ![cur] = table]
        /\ tlb' = NoTranslations /\ seg' = 0
        /\ UNCHANGED <<procs, program, mem, cur>>
    BY <1>7 DEF LoadRest, Take
  <2>2. \A p \in Proc : Done(p)' = Done(p)
    BY <1>2, <1>3, <2>1 DEF Done
  <2>3. HEAP \in Page /\ STACK \in Page /\ HEAP # STACK
    BY <1>2 DEF Page
  <2>4. /\ table \in [Page -> Frame \cup {None}]
        /\ table[HEAP] = free /\ table[STACK] = free + 1
        /\ \A x \in Page \ {HEAP, STACK} : table[x] = space[cur][x]
    BY <1>2, <2>1, <2>3 DEF Frame
  <2> HIDE DEF table
  <2>5. \A pg \in Page :
           \/ table[pg] = space[cur][pg]
           \/ free <= table[pg] /\ (pg >= HEAP \/ space[cur][pg] = None)
    BY <1>2, <2>4
  <2>6. SharedSameProgram' /\ Starts' /\ MemWords'
    BY <1>1, <2>1, <2>2, <2>4, <2>5, FreshStarts
  <2>7. QED
    BY <1>5, <2>1, <2>6 DEF SInv
<1>8. CASE \E a \in Stores : Store(a)
  BY <1>1, <1>8, StoreStarts
<1>9. CASE \E a \in Addr : Fault(a)
  <2>1. PICK a \in Addr : Fault(a)
    BY <1>9
  <2>2. seg = 0 /\ UNCHANGED <<procs, program, mem, cur, seg, tlb>>
    BY <2>1 DEF Fault
  <2>3. PICK pg \in Page : MapOne(pg) /\ (pg >= HEAP \/ space[cur][pg] = None)
    <3>1. CASE MapOne(PageOf(a))
      BY <2>1, <3>1, AddrPage DEF Fault
    <3>2. CASE MapOne(brk[cur])
      <4>1. brk[cur] \in Page /\ brk[cur] >= HEAP
        BY <1>2 DEF Page
      <4>2. QED
        BY <3>2, <4>1
    <3>3. QED
      BY <2>1, <3>1, <3>2 DEF Fault
  <2> DEFINE table == [space[cur] EXCEPT ![pg] = free]
  <2>4. space' = [space EXCEPT ![cur] = table] /\ free' = free + 1 /\ free <= FRAMES
    BY <1>2, <2>3 DEF MapOne, Take
  <2>5. /\ table \in [Page -> Frame \cup {None}] /\ table[pg] = free
        /\ \A x \in Page \ {pg} : table[x] = space[cur][x]
    BY <1>2, <2>4 DEF Frame
  <2> HIDE DEF table
  <2>6. \A x \in Page :
           \/ table[x] = space[cur][x]
           \/ free <= table[x] /\ (x >= HEAP \/ space[cur][x] = None)
    BY <1>2, <2>3, <2>5
  <2>7. \A p \in Proc : Done(p)' = Done(p)
    BY <2>2 DEF Done
  <2>8. SharedSameProgram' /\ Starts' /\ MemWords'
    BY <1>1, <2>2, <2>4, <2>5, <2>6, <2>7, FreshStarts
  <2>9. TranslationsPage'
    <3>1. space'[cur] = table /\ \A q \in Proc \ {cur} : space'[q] = space[q]
      BY <1>2, <2>4
    <3>2. SUFFICES ASSUME NEW x \in Page, tlb[x] # None
                   PROVE  /\ tlb[x] < free'
                          /\ \A q \in Proc, y \in Page : space'[q][y] = tlb[x] => y = x
      BY <2>2 DEF TranslationsPage
    <3>3. tlb[x] < free /\ tlb[x] \in Int
      BY <1>2, <3>2 DEF TranslationsPage, Frame
    <3>4. QED
      BY <1>2, <2>4, <2>5, <3>1, <3>2, <3>3 DEF TranslationsPage
  <2>10. TranslationsLoad'
    BY <2>2 DEF TranslationsLoad
  <2>11. QED
    BY <2>8, <2>9, <2>10 DEF SInv
<1>10. CASE fork
  <2>1. PICK n \in Proc \ procs :
           /\ procs' = procs \cup {n}
           /\ program' = [program EXCEPT ![n] = program[cur]]
           /\ space' = [space EXCEPT ![n] = space[cur]]
    BY <1>10 DEF fork
  <2>2. seg = 0 /\ tlb' = NoTranslations /\ UNCHANGED <<mem, free, cur, seg>>
    BY <1>10 DEF fork
  <2> DEFINE orig(p) == IF p = n THEN cur ELSE p
  <2>3. \A p \in procs' : /\ orig(p) \in procs
                          /\ space'[p] = space[orig(p)]
                          /\ program'[p] = program[orig(p)]
    BY <1>2, <2>1
  <2> HIDE DEF orig
  <2>4. \A p \in procs' : Done(p)' = Done(orig(p))
    BY <2>2, <2>3 DEF Done
  <2>5. \A p \in procs', pg \in Page : Within(p, pg)' <=> Within(orig(p), pg)
    BY <2>3, <2>4 DEF Within
  <2>6. SharedSameProgram'
    BY <1>2, <2>3, <2>5 DEF SharedSameProgram
  <2>7. Starts'
    <3>1. \A p \in procs', a \in Addr : Content(p, a)' = Content(orig(p), a)
      BY <2>2, <2>3 DEF Content
    <3>2. \A p \in procs' : \A k \in Done(orig(p)) : Alone(p, k)' <=> Alone(orig(p), k)
      BY <2>3 DEF Alone
    <3>3. procs \subseteq procs'
      BY <2>1
    <3>4. \A p \in procs' : \A k \in Done(orig(p)) : StartsRight(orig(p), k)
      BY <1>2, <2>3 DEF Starts
    <3>5. SUFFICES ASSUME NEW p \in procs', NEW k \in Done(orig(p)) PROVE StartsRight(p, k)'
      BY <2>4 DEF Starts
    <3>6. QED
      BY <2>3, <3>1, <3>2, <3>3, <3>4, <3>5 DEF StartsRight
  <2>8. QED
    BY <1>2, <1>5, <2>2, <2>6, <2>7 DEF SInv, MemWords
<1>11. CASE switch
  <2>1. seg = 0 /\ cur' \in procs /\ tlb' = NoTranslations
        /\ UNCHANGED <<procs, program, space, brk, mem, free, seg>>
    BY <1>11 DEF switch
  <2>2. \A p \in Proc : Done(p)' = Done(p)
    BY <2>1 DEF Done
  <2>3. \A p \in Proc, pg \in Page : Within(p, pg)' <=> Within(p, pg)
    BY <2>1, <2>2 DEF Within
  <2>4. SharedSameProgram' /\ MemWords'
    BY <1>2, <2>1, <2>3 DEF SharedSameProgram, MemWords
  <2>5. Starts'
    BY <1>2, <2>1, <2>2 DEF Starts, StartsRight, Alone, Content
  <2>6. QED
    BY <1>5, <2>1, <2>4, <2>5 DEF SInv
<1>12. CASE \E b \in DOMAIN Programs : execve(b)
  <2>1. PICK b \in DOMAIN Programs : execve(b)
    BY <1>12
  <2>2. /\ seg = 0 /\ program' = [program EXCEPT ![cur] = b] /\ seg' = 1
        /\ tlb' = NoTranslations
        /\ UNCHANGED <<procs, space, brk, mem, free, cur>>
    BY <2>1 DEF execve
  <2>3. /\ \A p \in Proc \ {cur} : program'[p] = program[p]
        /\ \A p \in Proc \ {cur} : Done(p)' = Done(p)
        /\ \A p \in {cur} : Done(p)' = {}
    <3>1. \A p \in Proc \ {cur} : program'[p] = program[p]
      BY <1>2, <2>2
    <3>2. QED
      BY <2>2, <3>1 DEF Done
  <2>4. /\ \A p \in Proc \ {cur}, pg \in Page : Within(p, pg)' <=> Within(p, pg)
        /\ \A p \in {cur}, pg \in Page : ~ Within(p, pg)'
    BY <2>3 DEF Within
  <2>5. SharedSameProgram'
    BY <1>2, <2>2, <2>3, <2>4 DEF SharedSameProgram
  <2>6. Starts'
    <3>1. SUFFICES ASSUME NEW p \in procs, NEW k \in Done(p)' PROVE StartsRight(p, k)'
      BY <2>2 DEF Starts
    <3>2. p \in Proc \ {cur} /\ k \in Done(p) /\ program'[p] = program[p]
      BY <1>2, <2>3, <3>1
    <3>3. StartsRight(p, k)
      BY <1>2, <3>1, <3>2 DEF Starts
    <3>4. \A a \in Addr : Content(p, a)' = Content(p, a)
      BY <2>2 DEF Content
    <3>5. QED
      BY <2>2, <3>2, <3>3, <3>4 DEF StartsRight, Alone
  <2>7. QED
    BY <1>2, <1>5, <2>2, <2>5, <2>6 DEF SInv, MemWords
<1>13. CASE UNCHANGED vars
  <2>1. UNCHANGED <<procs, program, space, brk, mem, free, cur, seg, tlb>>
    BY <1>13 DEF vars
  <2>2. \A p \in Proc : Done(p)' = Done(p)
    BY <2>1 DEF Done
  <2>3. \A p \in Proc, pg \in Page : Within(p, pg)' <=> Within(p, pg)
    BY <2>1, <2>2 DEF Within
  <2>4. TranslationsPage' /\ TranslationsLoad' /\ SharedSameProgram' /\ MemWords'
    BY <1>2, <2>1, <2>3
    DEF TranslationsPage, TranslationsLoad, SharedSameProgram, MemWords
  <2>5. Starts'
    BY <1>2, <2>1, <2>2 DEF Starts, StartsRight, Alone, Content
  <2>6. QED
    BY <2>4, <2>5 DEF SInv
<1>14. QED
  BY <1>1, <1>6, <1>7, <1>8, <1>9, <1>10, <1>11, <1>12, <1>13 DEF Next

\* What is at the beginning of a file is where its header says, for as long as
\* the program runs, whatever is forked, stored and loaded elsewhere, except
\* where it, or who shares its frames, stored (elf64.c:57-114).
THEOREM FileStartsRight == Spec => []StartOfFileLoaded
<1>1. Init => TranslationsCurrent /\ SInv
  <2>1. SUFFICES ASSUME Init PROVE TranslationsCurrent /\ SInv
    OBVIOUS
  <2>2. TranslationsCurrent /\ TranslationsPage /\ TranslationsLoad
    BY <2>1 DEF Init, TranslationsCurrent, TranslationsPage, TranslationsLoad, NoTranslations
  <2>3. SharedSameProgram /\ MemWords
    BY <2>1 DEF Init, SharedSameProgram, MemWords
  <2>4. \A p \in procs : Done(p) = {}
    BY <2>1 DEF Init, Done
  <2>5. QED
    BY <2>2, <2>3, <2>4 DEF SInv, Starts
<1>2. Spec => [](TranslationsCurrent /\ SInv)
  BY <1>1, Invariant, NextTranslations, NextStarts, PTL DEF Spec
<1>3. SInv => StartOfFileLoaded
  BY DEF SInv, Starts, Done, StartOfFileLoaded
<1>4. QED
  BY <1>2, <1>3, PTL
================================================================================
