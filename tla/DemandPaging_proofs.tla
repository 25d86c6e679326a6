------------------------- MODULE DemandPaging_proofs -------------------------
(***************************************************************************)
(* The safety properties of module DemandPaging, for every page and table  *)
(* size, layout, set of binaries and number of frames.                     *)
(*                                                                         *)
(* The memory is a value in the model, so what one walk of the page table  *)
(* does to it is stated on values first (Sound) and used for every step    *)
(* that maps a page.                                                       *)
(***************************************************************************)
EXTENDS DemandPaging, TLAPS

Entry == Frame \cup {0, NoFrame}

MemoryType == [pt : [Page -> Entry], tables : [Table -> Entry],
               free : 1 .. LASTFRAME + 1, short : BOOLEAN]

\* As long as memory lasts, what is entered was handed out, and once.
Apart(m) ==
    ~m.short =>
        /\ \A p \in Page : m.pt[p] # NoFrame => m.pt[p] \in 1 .. m.free - 1
        /\ \A t \in Table : m.tables[t] # NoFrame => m.tables[t] \in 1 .. m.free - 1
        /\ \A p, q \in Page : m.pt[p] # NoFrame /\ m.pt[p] = m.pt[q] => p = q
        /\ \A s, t \in Table :
               m.tables[s] # NoFrame /\ m.tables[s] = m.tables[t] => s = t
        /\ \A p \in Page, t \in Table : m.pt[p] # NoFrame => m.pt[p] # m.tables[t]

\* A frame that was handed out and is not entered anywhere yet.
Loose(m, f) ==
    ~m.short =>
        /\ f \in 1 .. m.free - 1
        /\ \A p \in Page : m.pt[p] # f
        /\ \A t \in Table : m.tables[t] # f

Reach(m) ==
    \A p \in Page : m.pt[p] # NoFrame =>
        \A level \in 1 .. 3 : m.tables[TableFor(level, p)] # NoFrame

Sound(m) == m \in MemoryType /\ Apart(m) /\ Reach(m)

-----------------------------------------------------------------------------
(* Arithmetic of pages.                                                    *)

LEMMA Division ==
    ASSUME NEW n \in Nat, NEW d \in Nat \ {0}
    PROVE  /\ n \div d \in 0 .. n
           /\ (n \div d) * d <= n
           /\ n < (n \div d + 1) * d
<1> DEFINE q == n \div d
<1>1. n = d * q + (n % d) /\ n % d \in 0 .. d - 1 /\ q \in Nat
  OBVIOUS
<1> HIDE DEF q
<1>2. q * d <= n /\ n < (q + 1) * d
  BY <1>1
<1>3. q <= q * d
  <2>1. q * (d - 1) >= 0
    BY <1>1
  <2> QED
    BY <2>1, <1>1
<1>4. q \in 0 .. n
  BY <1>1, <1>2, <1>3
<1> QED
  BY <1>2, <1>4 DEF q

LEMMA Times ==
    ASSUME NEW a \in Nat, NEW b \in Nat, NEW d \in Nat, a <= b
    PROVE  a * d <= b * d
<1>1. (b - a) * d >= 0
  <2>1. b - a \in Nat
    OBVIOUS
  <2> DEFINE c == b - a
  <2>2. c \in Nat
    BY <2>1
  <2> HIDE DEF c
  <2>3. c * d >= 0
    BY <2>2
  <2> QED
    BY <2>3 DEF c
<1> QED
  BY <1>1

\* The quotient is the number of whole pages.
LEMMA Quotient ==
    ASSUME NEW n \in Nat, NEW d \in Nat \ {0}, NEW q \in Nat,
           q * d <= n, n < (q + 1) * d
    PROVE  n \div d = q
<1> DEFINE k == n \div d
<1>1. k \in Nat /\ k * d <= n /\ n < (k + 1) * d
  BY Division
<1> HIDE DEF k
<1>2. ~(k + 1 <= q)
  <2> SUFFICES ASSUME k + 1 <= q PROVE FALSE
    OBVIOUS
  <2>1. (k + 1) * d <= q * d
    BY <1>1, Times
  <2> QED
    BY <2>1, <1>1
<1>3. ~(q + 1 <= k)
  <2> SUFFICES ASSUME q + 1 <= k PROVE FALSE
    OBVIOUS
  <2>1. (q + 1) * d <= k * d
    BY <1>1, Times
  <2> QED
    BY <2>1, <1>1
<1> QED
  BY <1>1, <1>2, <1>3 DEF k

LEMMA Monotone ==
    ASSUME NEW a \in Nat, NEW b \in Nat, NEW d \in Nat \ {0}, a <= b
    PROVE  a \div d <= b \div d
<1> DEFINE j == a \div d
           k == b \div d
<1>1. j \in Nat /\ j * d <= a /\ k \in Nat /\ b < (k + 1) * d
  BY Division
<1> HIDE DEF j, k
<1>2. ~(k + 1 <= j)
  <2> SUFFICES ASSUME k + 1 <= j PROVE FALSE
    OBVIOUS
  <2>1. (k + 1) * d <= j * d
    BY <1>1, Times
  <2> QED
    BY <2>1, <1>1
<1> QED
  BY <1>1, <1>2 DEF j, k

LEMMA Pages ==
    /\ PAGESIZE \in Nat \ {0} /\ ADDRESSES \in Nat
    /\ Page \subseteq Nat
    /\ \A a \in Nat : a <= ADDRESSES => PageOf(a) \in Page
<1>1. PAGESIZE \in Nat \ {0} /\ ADDRESSES \in Nat
  BY LayoutAssumption
<1>2. ADDRESSES \div PAGESIZE \in Nat
  BY <1>1, Division
<1>3. ASSUME NEW a \in Nat, a <= ADDRESSES PROVE PageOf(a) \in Page
  <2>1. a \div PAGESIZE \in Nat /\ a \div PAGESIZE <= ADDRESSES \div PAGESIZE
    BY <1>1, <1>3, Division, Monotone
  <2> QED
    BY <1>2, <2>1 DEF PageOf, Page
<1> QED
  BY <1>1, <1>2, <1>3 DEF Page

LEMMA TablesExist ==
    ASSUME NEW p \in Page, NEW level \in 1 .. 3
    PROVE  TableFor(level, p) \in Table
<1>1. FANOUT \in Nat \ {0} /\ FANOUT * FANOUT \in Nat \ {0}
  <2>1. FANOUT \in Nat \ {0}
    BY LayoutAssumption
  <2>2. FANOUT * FANOUT >= 1
    <3>1. 1 * FANOUT <= FANOUT * FANOUT
      BY <2>1, Times
    <3> QED
      BY <2>1, <3>1
  <2> QED
    BY <2>1, <2>2
<1>2. FANOUT * FANOUT * FANOUT \in Nat \ {0}
  <2> DEFINE s == FANOUT * FANOUT
  <2>1. s \in Nat \ {0}
    BY <1>1
  <2> HIDE DEF s
  <2>2. 1 * FANOUT <= s * FANOUT
    BY <2>1, <1>1, Times
  <2>3. s * FANOUT \in Nat \ {0}
    BY <2>1, <2>2, <1>1
  <2> QED
    BY <2>3 DEF s
<1>3. p \in Nat
  BY Pages
<1>4. ASSUME NEW d \in Nat \ {0} PROVE p \div d \in Page
  <2>1. p \div d \in 0 .. p
    BY <1>3, Division
  <2>2. ADDRESSES \div PAGESIZE \in Nat
    BY Pages, Division
  <2> QED
    BY <2>1, <2>2, <1>3 DEF Page
<1>5. /\ p \div FANOUT \in Page
      /\ p \div (FANOUT * FANOUT) \in Page
      /\ p \div (FANOUT * FANOUT * FANOUT) \in Page
  BY <1>1, <1>2, <1>4
<1>6. CASE level = 1
  BY <1>5, <1>6 DEF TableFor, Table
<1>7. CASE level = 2
  BY <1>5, <1>7 DEF TableFor, Table
<1>8. CASE level = 3
  BY <1>5, <1>8 DEF TableFor, Table
<1> QED
  BY <1>6, <1>7, <1>8

-----------------------------------------------------------------------------
(* One walk of the page table.                                             *)

Counted(m, k, b) == [m EXCEPT !.free = k, !.short = b]
WithTable(m, t, f) == [m EXCEPT !.tables = [@ EXCEPT ![t] = f]]
WithPage(m, p, f) == [m EXCEPT !.pt = [@ EXCEPT ![p] = f]]

LEMMA Fields ==
    ASSUME NEW m \in MemoryType, NEW k \in 1 .. LASTFRAME + 1, NEW b \in BOOLEAN
    PROVE  /\ Counted(m, k, b) \in MemoryType
           /\ Counted(m, k, b).pt = m.pt /\ Counted(m, k, b).tables = m.tables
           /\ Counted(m, k, b).free = k /\ Counted(m, k, b).short = b
BY DEF MemoryType, Counted

\* allocatePage (physmemory.c:54-75): the frame it hands out is loose.
LEMMA TakenSound ==
    ASSUME NEW m \in MemoryType, Apart(m)
    PROVE  /\ Taken(m) \in MemoryType
           /\ Taken(m).pt = m.pt /\ Taken(m).tables = m.tables
           /\ Apart(Taken(m))
           /\ NextFrame(m) \in Frame \cup {0}
           /\ Loose(Taken(m), NextFrame(m))
           /\ ~Taken(m).short => /\ ~m.short /\ NextFrame(m) = m.free
                                 /\ Taken(m).free = m.free + 1
<1>1. /\ LASTFRAME \in Nat /\ m.free \in 1 .. LASTFRAME + 1 /\ m.short \in BOOLEAN
      /\ m.pt \in [Page -> Entry] /\ m.tables \in [Table -> Entry]
  BY LayoutAssumption DEF MemoryType
<1>2. /\ Taken(m).pt = m.pt /\ Taken(m).tables = m.tables /\ Taken(m) \in MemoryType
      /\ \/ /\ Taken(m).short = m.short
            /\ m.free <= LASTFRAME /\ Taken(m).free = m.free + 1
         \/ Taken(m).short = TRUE
  <2>1. CASE m.free <= LASTFRAME
    <3>1. Taken(m) = Counted(m, m.free + 1, m.short)
      <4>1. (m.short \/ m.free > LASTFRAME) = m.short
        BY <1>1, <2>1
      <4> QED
        BY <2>1, <4>1 DEF Taken, Counted
    <3>2. m.free + 1 \in 1 .. LASTFRAME + 1
      BY <1>1, <2>1
    <3> QED
      BY <1>1, <2>1, <3>1, <3>2, Fields
  <2>2. CASE ~(m.free <= LASTFRAME)
    <3>1. Taken(m) = Counted(m, m.free, TRUE)
      <4>1. (m.short \/ m.free > LASTFRAME) = TRUE
        BY <1>1, <2>2
      <4> QED
        BY <2>2, <4>1 DEF Taken, Counted
    <3>2. TRUE \in BOOLEAN
      OBVIOUS
    <3>3. /\ Counted(m, m.free, TRUE) \in MemoryType
          /\ Counted(m, m.free, TRUE).pt = m.pt
          /\ Counted(m, m.free, TRUE).tables = m.tables
          /\ Counted(m, m.free, TRUE).short = TRUE
      BY <1>1, <3>2, Fields, Zenon
    <3> QED
      BY <3>1, <3>3
  <2> QED
    BY <2>1, <2>2
<1>4. NextFrame(m) \in Frame \cup {0}
  BY <1>1 DEF NextFrame, Frame
<1>5. ASSUME ~Taken(m).short
      PROVE  ~m.short /\ m.free <= LASTFRAME /\ Taken(m).free = m.free + 1
             /\ NextFrame(m) = m.free
  BY <1>2, <1>5 DEF NextFrame
<1>6. Apart(Taken(m))
  <2> DEFINE k == Taken(m).free
             b == Taken(m).short
  <2>1. ~b => ~m.short /\ k = m.free + 1
    BY <1>5
  <2> HIDE DEF k, b
  <2>2. ~b =>
          /\ \A p \in Page : m.pt[p] # NoFrame => m.pt[p] \in 1 .. k - 1
          /\ \A t \in Table : m.tables[t] # NoFrame => m.tables[t] \in 1 .. k - 1
    BY <1>1, <2>1 DEF Apart
  <2> QED
    BY <1>2, <2>1, <2>2 DEF Apart, k, b
<1>7. Loose(Taken(m), NextFrame(m))
  <2> SUFFICES ASSUME ~Taken(m).short
               PROVE  /\ NextFrame(m) \in 1 .. Taken(m).free - 1
                      /\ \A p \in Page : m.pt[p] # NextFrame(m)
                      /\ \A t \in Table : m.tables[t] # NextFrame(m)
    BY <1>2 DEF Loose
  <2>1. NextFrame(m) = m.free /\ ~m.short /\ Taken(m).free = m.free + 1
    BY <1>5
  <2>2. m.free \in Nat \ {0} /\ NoFrame = -1
    BY <1>1 DEF NoFrame
  <2> QED
    BY <2>1, <2>2 DEF Apart
<1> QED
  BY <1>2, <1>4, <1>5, <1>6, <1>7

\* Entering a loose frame for a table keeps frames apart.
LEMMA TableEntered ==
    ASSUME NEW m \in MemoryType, Apart(m), NEW f \in Frame \cup {0}, Loose(m, f),
           NEW t \in Table, m.tables[t] = NoFrame
    PROVE  /\ WithTable(m, t, f) \in MemoryType /\ Apart(WithTable(m, t, f))
           /\ WithTable(m, t, f).pt = m.pt
           /\ WithTable(m, t, f).free = m.free /\ WithTable(m, t, f).short = m.short
           /\ WithTable(m, t, f).tables = [m.tables EXCEPT ![t] = f]
<1> DEFINE r == WithTable(m, t, f)
<1>1. /\ m.pt \in [Page -> Entry] /\ m.tables \in [Table -> Entry]
      /\ m.free \in 1 .. LASTFRAME + 1 /\ m.short \in BOOLEAN /\ f \in Entry
  BY DEF MemoryType, Entry
<1>2. /\ r = [pt |-> m.pt, tables |-> [m.tables EXCEPT ![t] = f],
              free |-> m.free, short |-> m.short]
      /\ r.pt = m.pt /\ r.free = m.free /\ r.short = m.short
      /\ r.tables = [m.tables EXCEPT ![t] = f]
  BY DEF MemoryType, WithTable
<1> HIDE DEF r
<1>3. r.tables \in [Table -> Entry]
  BY <1>1, <1>2
<1>4. r \in MemoryType
  BY <1>1, <1>2, <1>3 DEF MemoryType
<1>5. r.tables[t] = f /\ \A s \in Table : s # t => r.tables[s] = m.tables[s]
  BY <1>1, <1>2
<1>6. Apart(r)
  BY <1>2, <1>5 DEF Apart, Loose
<1> QED
  BY <1>2, <1>4, <1>6 DEF r

\* One level of the walk (paging.c:64-118) finds its table afterwards, and
\* disturbs neither the others nor a loose frame.
LEMMA LevelSound ==
    ASSUME NEW m \in MemoryType, Apart(m), NEW t \in Table,
           NEW f, Loose(m, f), NEW r, r = EnsureTable(m, t)
    PROVE  /\ r \in MemoryType /\ Apart(r) /\ Loose(r, f)
           /\ r.pt = m.pt
           /\ r.tables[t] # NoFrame
           /\ \A s \in Table : m.tables[s] # NoFrame => r.tables[s] # NoFrame
<1>1. CASE m.tables[t] # NoFrame
  BY <1>1 DEF EnsureTable
<1>2. CASE m.tables[t] = NoFrame
  <2> DEFINE m1 == Taken(m)
             g == NextFrame(m)
  <2>1. /\ m1 \in MemoryType /\ Apart(m1) /\ m1.pt = m.pt /\ m1.tables = m.tables
        /\ g \in Frame \cup {0} /\ Loose(m1, g)
        /\ ~m1.short => ~m.short /\ g = m.free /\ m1.free = m.free + 1
    BY TakenSound
  <2>2. r = WithTable(m1, t, g)
    BY <1>2 DEF EnsureTable, WithTable
  <2>3. /\ ~m1.short => ~m.short /\ g # f /\ f \in 1 .. m1.free - 1
    <3>1. m.free \in Nat
      BY LayoutAssumption DEF MemoryType
    <3> QED
      BY <2>1, <3>1 DEF Loose
  <2> HIDE DEF m1, g
  <2>4. /\ r \in MemoryType /\ Apart(r)
        /\ r.pt = m1.pt /\ r.free = m1.free /\ r.short = m1.short
        /\ r.tables = [m1.tables EXCEPT ![t] = g]
    <3>1. m1.tables[t] = NoFrame
      BY <1>2, <2>1
    <3> QED
      BY <2>1, <2>2, <3>1, TableEntered
  <2>5. /\ r.tables[t] = g
        /\ \A s \in Table : s # t => r.tables[s] = m.tables[s]
        /\ g # NoFrame
    <3>1. m.tables \in [Table -> Entry]
      BY DEF MemoryType
    <3>2. g # NoFrame
      BY <2>1 DEF NoFrame, Frame
    <3> QED
      BY <2>1, <2>4, <3>1, <3>2
  <2>6. Loose(r, f)
    <3> SUFFICES ASSUME ~r.short
                 PROVE  /\ f \in 1 .. r.free - 1
                        /\ \A p \in Page : r.pt[p] # f
                        /\ \A s \in Table : r.tables[s] # f
      BY DEF Loose
    <3>1. ~m1.short /\ ~m.short /\ g # f /\ f \in 1 .. m1.free - 1
      BY <2>3, <2>4
    <3>2. \A s \in Table : m.tables[s] # f
      BY <3>1 DEF Loose
    <3>3. \A p \in Page : m.pt[p] # f
      BY <3>1 DEF Loose
    <3> QED
      BY <3>1, <3>2, <3>3, <2>1, <2>4, <2>5
  <2> QED
    BY <2>1, <2>4, <2>5, <2>6, <1>2
<1> QED
  BY <1>1, <1>2

\* Entering a loose frame for a page keeps frames apart, whether or not the
\* page was present.
LEMMA PageEntered ==
    ASSUME NEW m \in MemoryType, Apart(m), NEW f \in Frame \cup {0}, Loose(m, f),
           NEW p \in Page
    PROVE  /\ WithPage(m, p, f) \in MemoryType /\ Apart(WithPage(m, p, f))
           /\ WithPage(m, p, f).pt = [m.pt EXCEPT ![p] = f]
           /\ WithPage(m, p, f).tables = m.tables
<1> DEFINE r == WithPage(m, p, f)
<1>1. /\ m.pt \in [Page -> Entry] /\ m.tables \in [Table -> Entry]
      /\ m.free \in 1 .. LASTFRAME + 1 /\ m.short \in BOOLEAN /\ f \in Entry
  BY DEF MemoryType, Entry
<1>2. /\ r = [pt |-> [m.pt EXCEPT ![p] = f], tables |-> m.tables,
              free |-> m.free, short |-> m.short]
      /\ r.tables = m.tables /\ r.free = m.free /\ r.short = m.short
      /\ r.pt = [m.pt EXCEPT ![p] = f]
  BY DEF MemoryType, WithPage
<1> HIDE DEF r
<1>3. r.pt \in [Page -> Entry]
  BY <1>1, <1>2
<1>4. r \in MemoryType
  BY <1>1, <1>2, <1>3 DEF MemoryType
<1>5. r.pt[p] = f /\ \A q \in Page : q # p => r.pt[q] = m.pt[q]
  BY <1>1, <1>2
<1>6. Apart(r)
  BY <1>2, <1>5 DEF Apart, Loose
<1> QED
  BY <1>2, <1>4, <1>6 DEF r

\* allocatePage and map_vir_phy_userspace: the memory stays sound, and no page
\* but p gets another frame.
LEMMA MapSound ==
    ASSUME NEW m, Sound(m), NEW p \in Page
    PROVE  /\ Sound(MapPage(m, p))
           /\ MapPage(m, p).pt = [m.pt EXCEPT ![p] = NextFrame(m)]
           /\ NextFrame(m) \in Frame \cup {0}
<1> DEFINE f == NextFrame(m)
           m0 == Taken(m)
           m1 == EnsureTable(m0, TableFor(1, p))
           m2 == EnsureTable(m1, TableFor(2, p))
           m3 == EnsureTable(m2, TableFor(3, p))
           r == WithPage(m3, p, f)
<1>1. r = MapPage(m, p)
  BY DEF MapPage, WithPage
<1>2. m \in MemoryType /\ Apart(m) /\ Reach(m)
  BY DEF Sound
<1>3. \A level \in 1 .. 3, q \in Page : TableFor(level, q) \in Table
  BY TablesExist
<1>4. /\ m0 \in MemoryType /\ Apart(m0) /\ Loose(m0, f)
      /\ m0.pt = m.pt /\ m0.tables = m.tables /\ f \in Frame \cup {0}
  BY <1>2, TakenSound
<1> HIDE DEF f, m0
<1>5. /\ m1 \in MemoryType /\ Apart(m1) /\ Loose(m1, f) /\ m1.pt = m0.pt
      /\ m1.tables[TableFor(1, p)] # NoFrame
      /\ \A s \in Table : m0.tables[s] # NoFrame => m1.tables[s] # NoFrame
  BY <1>3, <1>4, LevelSound
<1> HIDE DEF m1
<1>6. /\ m2 \in MemoryType /\ Apart(m2) /\ Loose(m2, f) /\ m2.pt = m1.pt
      /\ m2.tables[TableFor(2, p)] # NoFrame
      /\ \A s \in Table : m1.tables[s] # NoFrame => m2.tables[s] # NoFrame
  BY <1>3, <1>5, LevelSound
<1> HIDE DEF m2
<1>7. /\ m3 \in MemoryType /\ Apart(m3) /\ Loose(m3, f) /\ m3.pt = m2.pt
      /\ m3.tables[TableFor(3, p)] # NoFrame
      /\ \A s \in Table : m2.tables[s] # NoFrame => m3.tables[s] # NoFrame
  BY <1>3, <1>6, LevelSound
<1> HIDE DEF m3
<1>8. /\ r \in MemoryType /\ Apart(r)
      /\ r.pt = [m3.pt EXCEPT ![p] = f] /\ r.tables = m3.tables
  BY <1>4, <1>7, PageEntered
<1> HIDE DEF r
<1>9. \A level \in 1 .. 3 : r.tables[TableFor(level, p)] # NoFrame
  <2>1. r.tables[TableFor(1, p)] # NoFrame
    BY <1>3, <1>5, <1>6, <1>7, <1>8
  <2>2. r.tables[TableFor(2, p)] # NoFrame
    BY <1>3, <1>6, <1>7, <1>8
  <2>3. r.tables[TableFor(3, p)] # NoFrame
    BY <1>7, <1>8
  <2> QED
    BY <2>1, <2>2, <2>3
<1>10. Reach(r)
  <2> SUFFICES ASSUME NEW q \in Page, r.pt[q] # NoFrame, NEW level \in 1 .. 3
               PROVE  r.tables[TableFor(level, q)] # NoFrame
    BY DEF Reach
  <2>1. CASE q = p
    BY <2>1, <1>9
  <2>2. CASE q # p
    <3>1. m.pt[q] # NoFrame
      BY <2>2, <1>4, <1>5, <1>6, <1>7, <1>8
    <3>2. m.tables[TableFor(level, q)] # NoFrame
      BY <3>1, <1>2 DEF Reach
    <3> QED
      BY <3>2, <1>3, <1>4, <1>5, <1>6, <1>7, <1>8
  <2> QED
    BY <2>1, <2>2
<1> QED
  BY <1>1, <1>4, <1>5, <1>6, <1>7, <1>8, <1>10 DEF Sound, f

\* kmalloc takes a frame for the kernel and enters none.
LEMMA KmallocSound ==
    ASSUME NEW m, Sound(m)
    PROVE  Sound(kmalloc(m)) /\ kmalloc(m).pt = m.pt
<1>1. /\ Taken(m) \in MemoryType /\ Taken(m).pt = m.pt
      /\ Taken(m).tables = m.tables /\ Apart(Taken(m))
  BY TakenSound DEF Sound
<1> QED
  BY <1>1 DEF kmalloc, Sound, Reach

-----------------------------------------------------------------------------
(* The inductive invariant.                                                *)

\* The pages below brk are present, and brk begins a page.
HeapInv ==
    /\ brk = PageOf(brk) * PAGESIZE
    /\ \A p \in Page : PageOf(HEAP_START) <= p /\ p < PageOf(brk) => pt[p] # NoFrame

\* Every area is present, but the one that is being loaded, which is present
\* as far as the loader got.
Area(s) == [start |-> s.vaddr, end |-> s.vaddr + s.memsz]
Present(v) == \A a \in Addr : v.start <= a /\ a < v.end => pt[PageOf(a)] # NoFrame
BeingLoaded(v) ==
    /\ stage = "pages" /\ v = Area(image[seg])
    /\ \A p \in Page : PageOf(v.start) <= p /\ p < at => pt[p] # NoFrame
AreasInv == \A v \in vmas : Present(v) \/ BeingLoaded(v)
LoaderInv ==
    /\ stage \in {"segment", "pages", "stack"} => image \in Images /\ fault = NoFault
    /\ stage \in {"segment", "pages"} => seg \in Nat \ {0}
    /\ stage = "pages" => seg \in DOMAIN image

StackInv == stage = "user" /\ image # <<>> => pt[PageOf(STACK_START - PAGESIZE)] # NoFrame
FaultInv == fault # NoFault => pt[PageOf(fault)] = NoFrame

IInv == /\ TypeOK /\ Sound(Memory)
        /\ HeapInv /\ AreasInv /\ LoaderInv /\ StackInv /\ FaultInv

-----------------------------------------------------------------------------
(* The layout, in pages.                                                   *)

\* The page after an address begins one page further.
LEMMA NextPage ==
    ASSUME NEW a \in Nat
    PROVE  PageOf(a + PAGESIZE) = PageOf(a) + 1
<1> DEFINE q == PageOf(a)
           d == PAGESIZE
<1>1. d \in Nat \ {0}
  BY Pages
<1>2. q \in Nat /\ q * d <= a /\ a < (q + 1) * d
  BY <1>1, Division DEF PageOf
<1> HIDE DEF q, d
<1>3. (q + 1) * d <= a + d /\ a + d < (q + 1 + 1) * d
  BY <1>1, <1>2
<1>4. (a + d) \div d = q + 1
  BY <1>1, <1>2, <1>3, Quotient
<1> QED
  BY <1>4 DEF PageOf, q, d

LEMMA Layout ==
    /\ HEAP_START \in Nat /\ HEAP_END \in Nat /\ STACK_START \in Nat /\ STACK_END \in Nat
    /\ HEAP_START + PAGESIZE < HEAP_END /\ HEAP_END <= ADDRESSES
    /\ STACK_START - PAGESIZE \in Nat
    /\ HEAP_START = PageOf(HEAP_START) * PAGESIZE
    /\ PageOf(HEAP_START) \in Page /\ PageOf(STACK_START - PAGESIZE) \in Page
<1>1. /\ PAGESIZE \in Nat \ {0} /\ ADDRESSES \in Nat /\ HEAP_START \in Nat
      /\ HEAP_END \in Nat /\ STACK_START \in Nat /\ STACK_END \in Nat
      /\ HEAP_START % PAGESIZE = 0
      /\ HEAP_START + PAGESIZE < HEAP_END /\ HEAP_END <= STACK_END
      /\ STACK_END + PAGESIZE <= STACK_START /\ STACK_START <= ADDRESSES
  BY LayoutAssumption
<1>2. /\ HEAP_END <= ADDRESSES /\ STACK_START - PAGESIZE \in Nat
      /\ HEAP_START <= ADDRESSES /\ STACK_START - PAGESIZE <= ADDRESSES
  BY <1>1
<1>3. HEAP_START = (HEAP_START \div PAGESIZE) * PAGESIZE
  <2> DEFINE n == HEAP_START
             d == PAGESIZE
             k == n \div d
  <2>1. n = d * k + (n % d) /\ k \in Nat /\ d \in Nat
    BY <1>1
  <2>2. n % d = 0
    BY <1>1
  <2> HIDE DEF n, d, k
  <2>3. n = k * d
    BY <2>1, <2>2
  <2> QED
    BY <2>3 DEF n, d, k
<1>4. PageOf(HEAP_START) \in Page /\ PageOf(STACK_START - PAGESIZE) \in Page
  BY <1>1, <1>2, Pages
<1> QED
  BY <1>1, <1>2, <1>3, <1>4 DEF PageOf

\* A segment lies below the heap: its pages exist, and they hold all of it.
LEMMA Segments ==
    ASSUME NEW im \in Images, NEW k \in DOMAIN im
    PROVE  /\ im[k].vaddr \in Nat /\ im[k].memsz \in Nat
           /\ PageOf(im[k].vaddr) \in Page /\ PagesEnd(im[k]) \in Page
           /\ \A a \in Nat : im[k].vaddr <= a /\ a < im[k].vaddr + im[k].memsz =>
                  PageOf(im[k].vaddr) <= PageOf(a) /\ PageOf(a) < PagesEnd(im[k])
<1> DEFINE s == im[k]
           e == s.vaddr + s.memsz
<1>1. s \in Segment /\ e < HEAP_START
  BY ImagesAssumption
<1>2. s.vaddr \in Nat /\ s.memsz \in Nat
  BY <1>1 DEF Segment
<1> HIDE DEF s
<1>3. /\ PAGESIZE \in Nat \ {0} /\ Page \subseteq Nat
      /\ s.vaddr <= ADDRESSES /\ e + PAGESIZE - 1 \in Nat /\ e + PAGESIZE - 1 <= ADDRESSES
  BY <1>1, <1>2, Pages, Layout
<1>4. PageOf(s.vaddr) \in Page /\ PagesEnd(s) \in Page
  BY <1>2, <1>3, Pages DEF PagesEnd
<1>5. ASSUME NEW a \in Nat, s.vaddr <= a, a < e
      PROVE  PageOf(s.vaddr) <= PageOf(a) /\ PageOf(a) < PagesEnd(s)
  <2>1. PageOf(s.vaddr) <= PageOf(a)
    BY <1>2, <1>3, <1>5, Monotone DEF PageOf
  <2>2. a + PAGESIZE \in Nat /\ a + PAGESIZE <= e + PAGESIZE - 1
    BY <1>2, <1>3, <1>5
  <2>3. PageOf(a + PAGESIZE) <= PagesEnd(s)
    BY <1>3, <2>2, Monotone DEF PageOf, PagesEnd
  <2>4. PageOf(a) \in Nat
    BY <1>3, Division DEF PageOf
  <2>5. PagesEnd(s) \in Nat
    BY <1>3, <1>4
  <2> QED
    BY <2>1, <2>3, <2>4, <2>5, NextPage
<1> QED
  BY <1>2, <1>4, <1>5 DEF s

-----------------------------------------------------------------------------
(* What a step does to the memory.                                         *)

Kept == \A p \in Page : pt[p] # NoFrame => pt'[p] # NoFrame

MemoryOK == /\ pt \in [Page -> Entry]
            /\ tables \in [Table -> Entry]
            /\ free \in 1 .. LASTFRAME + 1
            /\ short \in BOOLEAN

LEMMA SoundTypes == Sound(Memory) => MemoryOK
BY DEF Sound, MemoryType, Memory, MemoryOK

LEMMA Assigned ==
    ASSUME NEW m \in MemoryType, SetMemory(m)
    PROVE  Memory' = m
BY DEF MemoryType, SetMemory, Memory

\* A step that maps page p.
LEMMA MapStep ==
    ASSUME NEW m, Sound(m), m.pt = pt, MemoryOK, NEW p \in Page, SetMemory(MapPage(m, p))
    PROVE  /\ Sound(Memory)' /\ MemoryOK' /\ Kept
           /\ pt'[p] # NoFrame
           /\ \A q \in Page : q # p => pt'[q] = pt[q]
<1>1. /\ Sound(MapPage(m, p)) /\ NextFrame(m) \in Frame \cup {0}
      /\ MapPage(m, p).pt = [pt EXCEPT ![p] = NextFrame(m)]
  BY MapSound
<1>2. Memory' = MapPage(m, p)
  BY <1>1, Assigned DEF Sound
<1>3. Sound(Memory)'
  <2>1. Sound(Memory')
    BY <1>1, <1>2
  <2> QED
    BY <2>1 DEF Sound, Apart, Reach
<1>4. MemoryOK'
  BY <1>3, SoundTypes, PTL
<1>5. pt' = [pt EXCEPT ![p] = NextFrame(m)]
  BY <1>1 DEF SetMemory
<1>6. NextFrame(m) # NoFrame
  BY <1>1 DEF NoFrame, Frame
<1>7. pt \in [Page -> Entry]
  BY DEF MemoryOK
<1>8. pt'[p] = NextFrame(m) /\ \A q \in Page : q # p => pt'[q] = pt[q]
  BY <1>5, <1>7
<1> QED
  BY <1>3, <1>4, <1>6, <1>8 DEF Kept

\* A step that takes a frame for the kernel.
LEMMA KmallocStep ==
    ASSUME Sound(Memory), SetMemory(kmalloc(Memory))
    PROVE  Sound(Memory)' /\ MemoryOK' /\ pt' = pt
<1>1. Sound(kmalloc(Memory)) /\ kmalloc(Memory).pt = pt
  BY KmallocSound DEF Memory
<1>2. Memory' = kmalloc(Memory)
  BY <1>1, Assigned DEF Sound
<1>3. Sound(Memory)'
  <2>1. Sound(Memory')
    BY <1>1, <1>2
  <2> QED
    BY <2>1 DEF Sound, Apart, Reach
<1>4. MemoryOK'
  BY <1>3, SoundTypes, PTL
<1> QED
  BY <1>1, <1>3, <1>4 DEF SetMemory

\* A step that leaves the memory alone.
LEMMA NoMemoryStep ==
    ASSUME Sound(Memory), UNCHANGED memory
    PROVE  Sound(Memory)' /\ MemoryOK' /\ pt' = pt
<1>1. Memory' = Memory /\ pt' = pt
  BY DEF Memory, memory
<1>2. Sound(Memory)'
  <2>1. Sound(Memory')
    BY <1>1
  <2> QED
    BY <2>1 DEF Sound, Apart, Reach
<1>3. MemoryOK'
  BY <1>2, SoundTypes, PTL
<1> QED
  BY <1>1, <1>2, <1>3

-----------------------------------------------------------------------------
(* Preservation: first what every step that keeps the pages keeps.         *)

LEMMA AddressPages == \A a \in Addr : a \in Nat /\ PageOf(a) \in Page
BY Pages DEF Addr

LEMMA HeapKept ==
    ASSUME HeapInv, Kept, brk' = brk
    PROVE  HeapInv'
BY DEF HeapInv, Kept

LEMMA PresentKept ==
    ASSUME NEW v, Present(v), Kept
    PROVE  Present(v)'
BY AddressPages DEF Present, Kept

LEMMA AreasKept ==
    ASSUME AreasInv, Kept, vmas' = vmas,
           stage = "pages" => stage' = "pages" /\ image' = image /\ seg' = seg /\ at' = at
    PROVE  AreasInv'
<1> SUFFICES ASSUME NEW v \in vmas PROVE Present(v)' \/ BeingLoaded(v)'
  BY DEF AreasInv
<1>1. CASE Present(v)
  BY <1>1, PresentKept
<1>2. CASE BeingLoaded(v)
  BY <1>2 DEF BeingLoaded, Kept
<1> QED
  BY <1>1, <1>2 DEF AreasInv

\* The part of TypeOK that is not about the memory.
ControlOK ==
    /\ stage \in {"user", "segment", "pages", "stack", "stopped"}
    /\ image \in Images \cup {<<>>}
    /\ seg \in 0 .. Len(image) + 1
    /\ at \in Page
    /\ \A v \in vmas : v.start \in Nat /\ v.end \in Nat
    /\ brk \in HEAP_START .. HEAP_END
    /\ fault \in Addr \cup {NoFault}

LEMMA Typing == TypeOK <=> ControlOK /\ MemoryOK
BY DEF TypeOK, ControlOK, MemoryOK, Entry

LEMMA ImageLengths == \A im \in Images \cup {<<>>} : Len(im) \in Nat /\ DOMAIN im = 1 .. Len(im)
<1>1. \A im \in Images : im \in Seq(Segment)
  BY ImagesAssumption
<1> QED
  BY <1>1

LEMMA ExecKeeps ==
    ASSUME IInv, NEW im \in Images, Exec(im)
    PROVE  IInv'
<1>1. /\ stage = "user" /\ fault = NoFault /\ image' = im /\ seg' = 1
      /\ stage' = "segment" /\ vmas' = {} /\ SetMemory(kmalloc(Memory))
      /\ at' = at /\ brk' = brk /\ fault' = fault
  BY DEF Exec
<1>2. Sound(Memory)' /\ MemoryOK' /\ pt' = pt
  BY <1>1, KmallocStep DEF IInv
<1>3. ControlOK'
  <2>1. ControlOK
    BY Typing DEF IInv
  <2>2. Len(im) \in Nat
    BY ImageLengths
  <2> QED
    BY <1>1, <2>1, <2>2 DEF ControlOK
<1>4. HeapInv'
  BY <1>1, <1>2, HeapKept DEF IInv, Kept
<1>5. AreasInv' /\ LoaderInv' /\ StackInv' /\ FaultInv'
  BY <1>1 DEF AreasInv, LoaderInv, StackInv, FaultInv
<1> QED
  BY <1>2, <1>3, <1>4, <1>5, Typing, PTL DEF IInv

LEMMA LoadSegmentKeeps ==
    ASSUME IInv, LoadSegment
    PROVE  IInv'
<1> DEFINE s == image[seg]
<1>1. /\ stage = "segment" /\ seg \in DOMAIN image
      /\ vmas' = vmas \cup {Area(s)} /\ at' = PageOf(s.vaddr)
      /\ stage' = "pages" /\ SetMemory(kmalloc(Memory))
      /\ image' = image /\ seg' = seg /\ brk' = brk /\ fault' = fault
  BY DEF LoadSegment, Area
<1>2. Sound(Memory)' /\ MemoryOK' /\ pt' = pt
  BY <1>1, KmallocStep DEF IInv
<1>3. ControlOK /\ image \in Images /\ fault = NoFault /\ seg \in Nat \ {0}
  BY <1>1, Typing DEF IInv, LoaderInv
<1>4. s.vaddr \in Nat /\ s.memsz \in Nat /\ PageOf(s.vaddr) \in Page
  BY <1>1, <1>3, Segments
<1>5. ControlOK'
  <2>1. \A v \in vmas' : v.start \in Nat /\ v.end \in Nat
    BY <1>1, <1>3, <1>4 DEF ControlOK, Area
  <2> QED
    BY <1>1, <1>3, <1>4, <2>1 DEF ControlOK
<1>6. HeapInv'
  BY <1>1, <1>2, HeapKept DEF IInv, Kept
<1>7. AreasInv'
  <2> SUFFICES ASSUME NEW v \in vmas' PROVE Present(v)' \/ BeingLoaded(v)'
    BY DEF AreasInv
  <2>1. CASE v \in vmas
    <3>1. Present(v)
      BY <1>1, <2>1 DEF IInv, AreasInv, BeingLoaded
    <3> QED
      BY <1>2, <3>1, PresentKept DEF Kept
  <2>2. CASE v = Area(s)
    <3>1. v.start = s.vaddr
      BY <2>2 DEF Area
    <3>2. PageOf(v.start) = at' /\ at' \in Nat
      BY <1>1, <1>4, <3>1, Pages
    <3>3. \A p \in Page : ~(PageOf(v.start) <= p /\ p < at')
      <4> DEFINE n == PageOf(v.start)
      <4>1. n = at' /\ at' \in Nat /\ \A p \in Page : p \in Nat
        BY <3>2, Pages
      <4> HIDE DEF n
      <4>2. \A p \in Page : ~(n <= p /\ p < at')
        BY <4>1
      <4> QED
        BY <4>2 DEF n
    <3> QED
      BY <1>1, <2>2, <3>3 DEF BeingLoaded
  <2> QED
    BY <1>1, <2>1, <2>2
<1>8. LoaderInv' /\ StackInv' /\ FaultInv'
  BY <1>1, <1>3 DEF LoaderInv, StackInv, FaultInv
<1> QED
  BY <1>2, <1>5, <1>6, <1>7, <1>8, Typing, PTL DEF IInv

LEMMA LoadPageKeeps ==
    ASSUME IInv, LoadPage
    PROVE  IInv'
<1> DEFINE s == image[seg]
<1>1. /\ stage = "pages" /\ at < PagesEnd(s) /\ SetMemory(MapPage(Memory, at))
      /\ at' = at + 1 /\ stage' = stage /\ image' = image /\ seg' = seg
      /\ vmas' = vmas /\ brk' = brk /\ fault' = fault
  BY DEF LoadPage
<1>2. /\ ControlOK /\ image \in Images /\ fault = NoFault /\ seg \in DOMAIN image
      /\ seg \in Nat \ {0} /\ MemoryOK /\ Sound(Memory) /\ at \in Page
  BY <1>1, Typing DEF IInv, LoaderInv, ControlOK
<1>3. /\ Sound(Memory)' /\ MemoryOK' /\ Kept /\ pt'[at] # NoFrame
  BY <1>1, <1>2, MapStep DEF Memory
<1>4. ControlOK'
  <2>1. PagesEnd(s) \in Page
    BY <1>2, Segments
  <2>2. at + 1 \in Page
    <3>1. ADDRESSES \div PAGESIZE \in Nat
      BY Pages, Division
    <3> QED
      BY <1>1, <1>2, <2>1, <3>1 DEF Page
  <2> QED
    BY <1>1, <1>2, <2>2 DEF ControlOK
<1>5. HeapInv'
  BY <1>1, <1>3, HeapKept DEF IInv
<1>6. AreasInv'
  <2> SUFFICES ASSUME NEW v \in vmas PROVE Present(v)' \/ BeingLoaded(v)'
    BY <1>1 DEF AreasInv
  <2>1. CASE Present(v)
    BY <1>3, <2>1, PresentKept
  <2>2. CASE BeingLoaded(v)
    <3>1. \A p \in Page : PageOf(v.start) <= p /\ p < at + 1 => pt'[p] # NoFrame
      BY <1>2, <1>3, <2>2, Pages DEF BeingLoaded, Kept
    <3> QED
      BY <1>1, <2>2, <3>1 DEF BeingLoaded
  <2> QED
    BY <2>1, <2>2 DEF IInv, AreasInv
<1>7. LoaderInv' /\ StackInv' /\ FaultInv'
  BY <1>1, <1>2 DEF LoaderInv, StackInv, FaultInv
<1> QED
  BY <1>3, <1>4, <1>5, <1>6, <1>7, Typing, PTL DEF IInv

\* The area whose pages have all been entered is present.
LEMMA SegmentLoadedKeeps ==
    ASSUME IInv, SegmentLoaded
    PROVE  IInv'
<1> DEFINE s == image[seg]
<1>1. /\ stage = "pages" /\ at >= PagesEnd(s) /\ stage' = "segment" /\ seg' = seg + 1
      /\ image' = image /\ at' = at /\ vmas' = vmas /\ brk' = brk /\ UNCHANGED memory
      /\ fault' = fault
  BY DEF SegmentLoaded
<1>2. /\ ControlOK /\ image \in Images /\ fault = NoFault /\ seg \in DOMAIN image
      /\ seg \in Nat \ {0} /\ at \in Page
  BY <1>1, Typing DEF IInv, LoaderInv, ControlOK
<1>3. Sound(Memory)' /\ MemoryOK' /\ pt' = pt
  BY <1>1, NoMemoryStep DEF IInv
<1>4. ControlOK'
  <2>1. DOMAIN image = 1 .. Len(image) /\ Len(image) \in Nat
    BY <1>2, ImageLengths
  <2>2. seg + 1 \in 0 .. Len(image) + 1
    BY <1>2, <2>1
  <2> QED
    BY <1>1, <1>2, <2>2 DEF ControlOK
<1>5. HeapInv'
  BY <1>1, <1>3, HeapKept DEF IInv, Kept
<1>6. AreasInv'
  <2> SUFFICES ASSUME NEW v \in vmas PROVE Present(v)'
    BY <1>1 DEF AreasInv
  <2>1. CASE Present(v)
    BY <1>3, <2>1, PresentKept DEF Kept
  <2>2. CASE BeingLoaded(v)
    <3>1. v.start = s.vaddr /\ v.end = s.vaddr + s.memsz
      BY <2>2 DEF BeingLoaded, Area
    <3>2. ASSUME NEW a \in Addr, v.start <= a, a < v.end PROVE pt[PageOf(a)] # NoFrame
      <4>1. a \in Nat /\ PageOf(a) \in Page
        BY AddressPages
      <4>2. PageOf(v.start) <= PageOf(a) /\ PageOf(a) < PagesEnd(s) /\ PagesEnd(s) \in Page
        BY <1>2, <3>1, <3>2, <4>1, Segments
      <4>3. PageOf(a) < at
        <5> DEFINE n == PageOf(a)
                   e == PagesEnd(s)
        <5>1. n \in Nat /\ e \in Nat /\ at \in Nat /\ n < e /\ at >= e
          BY <1>1, <1>2, <4>1, <4>2, Pages
        <5> HIDE DEF n, e
        <5>2. n < at
          BY <5>1
        <5> QED
          BY <5>2 DEF n
      <4> QED
        BY <2>2, <4>1, <4>2, <4>3 DEF BeingLoaded
    <3> QED
      BY <1>3, <3>2 DEF Present
  <2> QED
    BY <2>1, <2>2 DEF IInv, AreasInv
<1>7. LoaderInv' /\ StackInv' /\ FaultInv'
  BY <1>1, <1>2 DEF LoaderInv, StackInv, FaultInv
<1> QED
  BY <1>3, <1>4, <1>5, <1>6, <1>7, Typing, PTL DEF IInv

LEMMA LoadHeapKeeps ==
    ASSUME IInv, LoadHeap
    PROVE  IInv'
<1>1. /\ stage = "segment" /\ brk' = HEAP_START
      /\ SetMemory(MapPage(kmalloc(Memory), PageOf(HEAP_START)))
      /\ stage' = "stack" /\ image' = image /\ seg' = seg /\ at' = at
      /\ vmas' = vmas /\ fault' = fault
  BY DEF LoadHeap, loader
<1>2. ControlOK /\ image \in Images /\ fault = NoFault /\ MemoryOK /\ Sound(Memory)
  BY <1>1, Typing DEF IInv, LoaderInv
<1>3. Sound(Memory)' /\ MemoryOK' /\ Kept
  <2>1. Sound(kmalloc(Memory)) /\ kmalloc(Memory).pt = pt
    BY <1>2, KmallocSound DEF Memory
  <2> QED
    BY <1>1, <1>2, <2>1, Layout, MapStep
<1>4. ControlOK'
  <2>1. HEAP_START \in HEAP_START .. HEAP_END
    BY Layout, Pages
  <2> QED
    BY <1>1, <1>2, <2>1 DEF ControlOK
<1>5. HeapInv'
  <2> DEFINE n == PageOf(HEAP_START)
  <2>1. n \in Nat /\ \A p \in Page : p \in Nat
    BY Layout, Pages
  <2>2. HEAP_START = n * PAGESIZE
    BY Layout
  <2>3. PageOf(brk') = n
    BY <1>1
  <2> HIDE DEF n
  <2>4. \A p \in Page : ~(n <= p /\ p < n)
    BY <2>1
  <2> QED
    BY <1>1, <2>2, <2>3, <2>4 DEF HeapInv, n
<1>6. AreasInv'
  BY <1>1, <1>3, AreasKept DEF IInv
<1>7. LoaderInv' /\ StackInv' /\ FaultInv'
  BY <1>1, <1>2 DEF LoaderInv, StackInv, FaultInv
<1> QED
  BY <1>3, <1>4, <1>5, <1>6, <1>7, Typing, PTL DEF IInv

LEMMA LoadStackKeeps ==
    ASSUME IInv, LoadStack
    PROVE  IInv'
<1>1. /\ stage = "stack" /\ stage' = "user"
      /\ SetMemory(MapPage(kmalloc(Memory), PageOf(STACK_START - PAGESIZE)))
      /\ image' = image /\ seg' = seg /\ at' = at
      /\ vmas' = vmas /\ brk' = brk /\ fault' = fault
  BY DEF LoadStack, loader
<1>2. ControlOK /\ fault = NoFault /\ MemoryOK /\ Sound(Memory)
  BY <1>1, Typing DEF IInv, LoaderInv
<1>3. Sound(Memory)' /\ MemoryOK' /\ Kept /\ pt'[PageOf(STACK_START - PAGESIZE)] # NoFrame
  <2>1. Sound(kmalloc(Memory)) /\ kmalloc(Memory).pt = pt
    BY <1>2, KmallocSound DEF Memory
  <2> QED
    BY <1>1, <1>2, <2>1, Layout, MapStep
<1>4. ControlOK'
  BY <1>1, <1>2 DEF ControlOK
<1>5. HeapInv' /\ AreasInv'
  BY <1>1, <1>3, HeapKept, AreasKept DEF IInv
<1>6. LoaderInv' /\ StackInv' /\ FaultInv'
  BY <1>1, <1>2, <1>3 DEF LoaderInv, StackInv, FaultInv
<1> QED
  BY <1>3, <1>4, <1>5, <1>6, Typing, PTL DEF IInv

LEMMA TouchKeeps ==
    ASSUME IInv, NEW a \in Addr, Touch(a)
    PROVE  IInv'
<1>1. /\ stage = "user" /\ pt[PageOf(a)] = NoFrame /\ fault' = a
      /\ stage' = stage /\ image' = image /\ seg' = seg /\ at' = at
      /\ vmas' = vmas /\ brk' = brk /\ UNCHANGED memory
  BY DEF Touch, loader
<1>2. Sound(Memory)' /\ MemoryOK' /\ pt' = pt
  BY <1>1, NoMemoryStep DEF IInv
<1>3. ControlOK'
  BY <1>1, Typing DEF IInv, ControlOK
<1>4. HeapInv' /\ AreasInv'
  BY <1>1, <1>2, HeapKept, AreasKept DEF IInv, Kept
<1>5. LoaderInv' /\ StackInv' /\ FaultInv'
  BY <1>1, <1>2 DEF IInv, LoaderInv, StackInv, FaultInv
<1> QED
  BY <1>2, <1>3, <1>4, <1>5, Typing, PTL DEF IInv

\* What the three answers of the handler that let the program run again have
\* in common; HeapInv is shown for each.
LEMMA RetryKeeps ==
    ASSUME IInv, Faulting, Retry, Kept, Sound(Memory)', MemoryOK', HeapInv',
           brk' \in HEAP_START .. HEAP_END, UNCHANGED <<stage, loader, vmas>>
    PROVE  IInv'
<1>1. /\ stage = "user" /\ fault # NoFault /\ fault' \in {NoFault, fault}
      /\ fault' # NoFault => pt'[PageOf(fault)] = NoFrame /\ fault' = fault
      /\ stage' = stage /\ image' = image /\ seg' = seg /\ at' = at /\ vmas' = vmas
  BY DEF Faulting, Retry, loader
<1>2. ControlOK'
  BY <1>1, Typing DEF IInv, ControlOK
<1>3. AreasInv'
  BY <1>1, AreasKept DEF IInv
<1>4. StackInv'
  <2>1. PageOf(STACK_START - PAGESIZE) \in Page
    BY Layout
  <2> QED
    BY <1>1, <2>1 DEF IInv, StackInv, Kept
<1>5. LoaderInv' /\ FaultInv'
  BY <1>1 DEF IInv, LoaderInv, FaultInv
<1> QED
  BY <1>2, <1>3, <1>4, <1>5, Typing, PTL DEF IInv

LEMMA FaultPage == IInv /\ fault # NoFault => fault \in Addr /\ PageOf(fault) \in Page
BY AddressPages DEF IInv, TypeOK

LEMMA FaultInAreaKeeps ==
    ASSUME IInv, FaultInImage \/ FaultInStack
    PROVE  IInv'
<1>1. /\ Faulting /\ SetMemory(MapPage(Memory, PageOf(fault))) /\ Retry
      /\ UNCHANGED <<stage, loader, vmas>> /\ brk' = brk
  BY DEF FaultInImage, FaultInStack
<1>2. PageOf(fault) \in Page /\ Sound(Memory) /\ MemoryOK
  BY <1>1, FaultPage, Typing DEF IInv, Faulting
<1>3. Sound(Memory)' /\ MemoryOK' /\ Kept
  BY <1>1, <1>2, MapStep DEF Memory
<1>4. HeapInv' /\ brk' \in HEAP_START .. HEAP_END
  BY <1>1, <1>3, HeapKept DEF IInv, TypeOK
<1> QED
  BY <1>1, <1>3, <1>4, RetryKeeps

\* grow_heap (irq.c:181-205): the page at brk is present when brk passes it.
LEMMA GrowKeeps ==
    ASSUME IInv, grow_heap
    PROVE  /\ Sound(Memory)' /\ MemoryOK' /\ Kept /\ HeapInv'
           /\ brk' \in HEAP_START .. HEAP_END
           /\ \A p \in Page : p # PageOf(brk) => pt'[p] = pt[p]
<1> DEFINE n == PageOf(brk)
           d == PAGESIZE
<1>1. /\ brk + d < HEAP_END /\ SetMemory(MapPage(Memory, n)) /\ brk' = brk + d
  BY DEF grow_heap
<1>2. /\ brk \in HEAP_START .. HEAP_END /\ brk = n * d /\ MemoryOK /\ Sound(Memory)
      /\ \A p \in Page : PageOf(HEAP_START) <= p /\ p < n => pt[p] # NoFrame
  BY Typing DEF IInv, TypeOK, HeapInv
<1>3. brk \in Nat /\ brk <= ADDRESSES /\ d \in Nat
  BY <1>2, Layout, Pages
<1>4. n \in Page /\ n \in Nat /\ \A p \in Page : p \in Nat
  BY <1>3, Pages
<1>5. /\ Sound(Memory)' /\ MemoryOK' /\ Kept /\ pt'[n] # NoFrame
      /\ \A p \in Page : p # n => pt'[p] = pt[p]
  BY <1>1, <1>2, <1>4, MapStep DEF Memory
<1>6. PageOf(brk') = n + 1
  BY <1>1, <1>3, NextPage
<1> HIDE DEF n, d
<1>7. brk' = (n + 1) * d
  BY <1>1, <1>2, <1>3, <1>4
<1>8. \A p \in Page : PageOf(HEAP_START) <= p /\ p < n + 1 => pt'[p] # NoFrame
  BY <1>2, <1>4, <1>5 DEF Kept
<1>9. HeapInv'
  BY <1>6, <1>7, <1>8 DEF HeapInv, d
<1>10. brk' \in HEAP_START .. HEAP_END
  BY <1>1, <1>2, <1>3, Layout
<1> QED
  BY <1>5, <1>9, <1>10 DEF n

LEMMA FaultInHeapKeeps ==
    ASSUME IInv, FaultInHeap
    PROVE  IInv'
<1>1. /\ Faulting /\ Retry /\ UNCHANGED <<stage, loader, vmas>>
      /\ grow_heap \/ UNCHANGED <<brk, memory>>
  BY DEF FaultInHeap
<1>2. CASE grow_heap
  BY <1>1, <1>2, GrowKeeps, RetryKeeps
<1>3. CASE UNCHANGED <<brk, memory>>
  <2>1. Sound(Memory)' /\ MemoryOK' /\ pt' = pt
    BY <1>3, NoMemoryStep DEF IInv
  <2>2. HeapInv' /\ brk' \in HEAP_START .. HEAP_END
    BY <1>3, <2>1, HeapKept DEF IInv, TypeOK, Kept
  <2> QED
    BY <1>1, <2>1, <2>2, RetryKeeps DEF Kept
<1> QED
  BY <1>1, <1>2, <1>3

LEMMA StoppedKeeps ==
    ASSUME IInv, FaultElsewhere
    PROVE  IInv'
<1>1. /\ stage = "user" /\ stage' = "stopped" /\ image' = image /\ seg' = seg /\ at' = at
      /\ vmas' = vmas /\ brk' = brk /\ UNCHANGED memory /\ fault' = fault
  BY DEF FaultElsewhere, Faulting, loader
<1>2. Sound(Memory)' /\ MemoryOK' /\ pt' = pt
  BY <1>1, NoMemoryStep DEF IInv
<1>3. ControlOK'
  BY <1>1, Typing DEF IInv, ControlOK
<1>4. HeapInv' /\ AreasInv'
  BY <1>1, <1>2, HeapKept, AreasKept DEF IInv, Kept
<1>5. LoaderInv' /\ StackInv' /\ FaultInv'
  BY <1>1, <1>2 DEF IInv, LoaderInv, StackInv, FaultInv
<1> QED
  BY <1>2, <1>3, <1>4, <1>5, Typing, PTL DEF IInv

LEMMA StutterKeeps ==
    ASSUME IInv, UNCHANGED vars
    PROVE  IInv'
<1>1. /\ stage' = stage /\ image' = image /\ seg' = seg /\ at' = at
      /\ vmas' = vmas /\ brk' = brk /\ UNCHANGED memory /\ fault' = fault
  BY DEF vars, loader
<1>2. Sound(Memory)' /\ MemoryOK' /\ pt' = pt
  BY <1>1, NoMemoryStep DEF IInv
<1>3. ControlOK'
  BY <1>1, Typing DEF IInv, ControlOK
<1>4. HeapInv' /\ AreasInv'
  BY <1>1, <1>2, HeapKept, AreasKept DEF IInv, Kept
<1>5. LoaderInv' /\ StackInv' /\ FaultInv'
  BY <1>1, <1>2 DEF IInv, LoaderInv, StackInv, FaultInv
<1> QED
  BY <1>2, <1>3, <1>4, <1>5, Typing, PTL DEF IInv

LEMMA StartsSound == Init => IInv
<1> SUFFICES ASSUME Init PROVE IInv
  OBVIOUS
<1>1. /\ stage = "user" /\ image = <<>> /\ seg = 0 /\ at = 0 /\ vmas = {}
      /\ brk = HEAP_START /\ pt = [p \in Page |-> NoFrame]
      /\ tables = [t \in Table |-> NoFrame] /\ free = 1 /\ short = FALSE
      /\ fault = NoFault
  BY DEF Init
<1>2. MemoryOK
  <2>1. NoFrame \in Entry
    BY DEF Entry
  <2>2. pt \in [Page -> Entry] /\ tables \in [Table -> Entry]
    BY <1>1, <2>1, Zenon
  <2>3. LASTFRAME \in Nat
    BY LayoutAssumption
  <2>4. free \in 1 .. LASTFRAME + 1
    BY <1>1, <2>3
  <2>5. short \in BOOLEAN
    BY <1>1, Zenon
  <2> QED
    BY <2>2, <2>4, <2>5 DEF MemoryOK
<1>3. Memory \in MemoryType
  BY <1>2 DEF MemoryOK, Memory, MemoryType
<1>4. Sound(Memory)
  <2>1. Memory.pt = pt /\ Memory.tables = tables
    BY DEF Memory
  <2>2. \A p \in Page : pt[p] = NoFrame
    BY <1>1
  <2>3. \A t \in Table : tables[t] = NoFrame
    BY <1>1
  <2> QED
    BY <1>3, <2>1, <2>2, <2>3 DEF Sound, Apart, Reach
<1>5. ControlOK
  <2>1. 0 \in Page
    <3>1. ADDRESSES \div PAGESIZE \in Nat
      BY Pages, Division
    <3> QED
      BY <3>1 DEF Page
  <2>2. HEAP_START \in HEAP_START .. HEAP_END
    BY Layout, Pages
  <2>3. Len(image) \in Nat
    BY <1>1, ImageLengths
  <2> QED
    BY <1>1, <2>1, <2>2, <2>3 DEF ControlOK
<1>6. HeapInv
  <2> DEFINE n == PageOf(HEAP_START)
  <2>1. n \in Nat /\ (\A p \in Page : p \in Nat) /\ HEAP_START = n * PAGESIZE
    BY Layout, Pages
  <2> HIDE DEF n
  <2>2. \A p \in Page : ~(n <= p /\ p < n)
    BY <2>1
  <2> QED
    BY <1>1, <2>1, <2>2 DEF HeapInv, n
<1>7. AreasInv /\ LoaderInv /\ StackInv /\ FaultInv
  BY <1>1 DEF AreasInv, LoaderInv, StackInv, FaultInv
<1> QED
  BY <1>2, <1>4, <1>5, <1>6, <1>7, Typing DEF IInv

LEMMA StepKeeps == IInv /\ [Next]_vars => IInv'
<1> SUFFICES ASSUME IInv, [Next]_vars PROVE IInv'
  OBVIOUS
<1>1. CASE \E im \in Images : Exec(im)
  BY <1>1, ExecKeeps
<1>2. CASE Load
  BY <1>2, LoadSegmentKeeps, LoadPageKeeps, SegmentLoadedKeeps, LoadHeapKeeps,
     LoadStackKeeps DEF Load
<1>3. CASE \E a \in Addr : Touch(a)
  BY <1>3, TouchKeeps
<1>4. CASE PageFault
  BY <1>4, FaultInAreaKeeps, FaultInHeapKeeps, StoppedKeeps DEF PageFault
<1>5. CASE UNCHANGED vars
  BY <1>5, StutterKeeps
<1> QED
  BY <1>1, <1>2, <1>3, <1>4, <1>5 DEF Next

-----------------------------------------------------------------------------
(* The theorems.                                                           *)

THEOREM Invariance == Spec => []IInv
<1>1. Init => IInv
  BY StartsSound
<1>2. IInv /\ [Next]_vars => IInv'
  BY StepKeeps
<1> QED
  BY <1>1, <1>2, PTL DEF Spec

\* Every step of loading and of the fault handler keeps the types: frames
\* come from the machine, brk stays between HEAP_START and HEAP_END.
THEOREM TypeCorrect == Spec => []TypeOK
<1>1. IInv => TypeOK
  BY DEF IInv
<1> QED
  BY <1>1, Invariance, PTL

\* No frame backs two pages, or a page and a table, as long as memory lasts:
\* every walk takes the frame it enters from allocatePage.
THEOREM FramesAreExclusive == Spec => []FramesExclusive
<1>1. IInv => FramesExclusive
  <2> SUFFICES ASSUME IInv, ~short, NEW u \in Uses, NEW v \in Uses,
                      FrameOf(u) # NoFrame, FrameOf(u) = FrameOf(v)
               PROVE  u = v
    BY DEF FramesExclusive
  <2>1. /\ \A p, q \in Page : pt[p] # NoFrame /\ pt[p] = pt[q] => p = q
        /\ \A s, t \in Table :
               tables[s] # NoFrame /\ tables[s] = tables[t] => s = t
        /\ \A p \in Page, t \in Table : pt[p] # NoFrame => pt[p] # tables[t]
    BY DEF IInv, Sound, Apart, Memory
  <2>2. CASE u \in {<<"page", p>> : p \in Page} /\ v \in {<<"page", p>> : p \in Page}
    <3>1. PICK p \in Page : u = <<"page", p>>
      BY <2>2
    <3>2. PICK q \in Page : v = <<"page", q>>
      BY <2>2
    <3>3. FrameOf(u) = pt[p] /\ FrameOf(v) = pt[q]
      BY <3>1, <3>2 DEF FrameOf
    <3> QED
      BY <2>1, <3>1, <3>2, <3>3
  <2>3. CASE u \in {<<"table", t>> : t \in Table} /\ v \in {<<"table", t>> : t \in Table}
    <3>1. PICK s \in Table : u = <<"table", s>>
      BY <2>3
    <3>2. PICK t \in Table : v = <<"table", t>>
      BY <2>3
    <3>3. FrameOf(u) = tables[s] /\ FrameOf(v) = tables[t]
      BY <3>1, <3>2 DEF FrameOf
    <3> QED
      BY <2>1, <3>1, <3>2, <3>3
  <2>4. CASE u \in {<<"page", p>> : p \in Page} /\ v \in {<<"table", t>> : t \in Table}
    <3>1. PICK p \in Page : u = <<"page", p>>
      BY <2>4
    <3>2. PICK t \in Table : v = <<"table", t>>
      BY <2>4
    <3>3. FrameOf(u) = pt[p] /\ FrameOf(v) = tables[t]
      BY <3>1, <3>2 DEF FrameOf
    <3> QED
      BY <2>1, <3>1, <3>2, <3>3
  <2>5. CASE u \in {<<"table", t>> : t \in Table} /\ v \in {<<"page", p>> : p \in Page}
    <3>1. PICK p \in Page : v = <<"page", p>>
      BY <2>5
    <3>2. PICK t \in Table : u = <<"table", t>>
      BY <2>5
    <3>3. FrameOf(v) = pt[p] /\ FrameOf(u) = tables[t]
      BY <3>1, <3>2 DEF FrameOf
    <3> QED
      BY <2>1, <3>1, <3>2, <3>3
  <2> QED
    BY <2>2, <2>3, <2>4, <2>5 DEF Uses
<1> QED
  BY <1>1, Invariance, PTL

\* The walk to a page that is present finds a table at every level: none is
\* taken away, and none is skipped when a page is entered.
THEOREM WalksReach == Spec => []WalkReachesPage
<1>1. IInv => WalkReachesPage
  BY DEF IInv, Sound, Reach, Memory, WalkReachesPage
<1> QED
  BY <1>1, Invariance, PTL

\* The heap below brk is present, wherever the faults fell that grew it and
\* however often execve started brk over.
THEOREM HeapPresent == Spec => []HeapBelowBrkPresent
<1>1. IInv => HeapBelowBrkPresent
  <2> SUFFICES ASSUME IInv, NEW p \in Page, PageOf(HEAP_START) <= p,
                      p * PAGESIZE < brk
               PROVE  pt[p] # NoFrame
    BY DEF HeapBelowBrkPresent
  <2> DEFINE n == PageOf(brk)
             d == PAGESIZE
  <2>1. brk = n * d /\ \A q \in Page : PageOf(HEAP_START) <= q /\ q < n => pt[q] # NoFrame
    BY DEF IInv, HeapInv
  <2>2. brk \in Nat /\ brk <= ADDRESSES
    BY Layout, Pages DEF IInv, TypeOK
  <2>3. n \in Nat /\ p \in Nat /\ d \in Nat
    BY <2>2, Pages
  <2>4. p * d < brk
    OBVIOUS
  <2> HIDE DEF n, d
  <2>5. ~(n <= p)
    <3> SUFFICES ASSUME n <= p PROVE FALSE
      OBVIOUS
    <3>1. n * d <= p * d
      BY <2>3, Times
    <3> QED
      BY <2>1, <2>2, <2>3, <2>4, <3>1
  <2> QED
    BY <2>1, <2>3, <2>5
<1> QED
  BY <1>1, Invariance, PTL

\* A program that runs has its whole image and the top of its stack: no fault
\* takes a page away, and the loader leaves none out.
THEOREM ImageStaysPresent == Spec => []ImagePresent
<1>1. IInv => ImagePresent
  BY DEF IInv, AreasInv, Present, BeingLoaded, StackInv, ImagePresent
<1> QED
  BY <1>1, Invariance, PTL

\* A fault puts another frame under no page that is present, but the page at
\* brk.
THEOREM FaultsKeepPages == Spec => FaultKeepsPages
<1> DEFINE Keeps == fault # NoFault =>
              \A p \in Page : (pt[p] # NoFrame /\ pt'[p] # pt[p]) => p = PageOf(brk)
<1>1. IInv /\ [Next]_vars => [Keeps]_vars
  <2> SUFFICES ASSUME IInv, Next, fault # NoFault, NEW p \in Page,
                      pt[p] # NoFrame, pt'[p] # pt[p]
               PROVE  p = PageOf(brk)
    OBVIOUS
  <2>1. pt' # pt
    OBVIOUS
  <2>2. CASE \E im \in Images : Exec(im)
    BY <2>2 DEF Exec
  <2>3. CASE Load
    BY <2>3 DEF Load, LoadSegment, LoadPage, SegmentLoaded, LoadHeap, LoadStack,
       IInv, LoaderInv
  <2>4. CASE \E a \in Addr : Touch(a)
    BY <2>4 DEF Touch
  <2>5. CASE FaultInImage \/ FaultInStack
    <3>1. SetMemory(MapPage(Memory, PageOf(fault)))
      BY <2>5 DEF FaultInImage, FaultInStack
    <3>2. PageOf(fault) \in Page /\ pt[PageOf(fault)] = NoFrame /\ Sound(Memory) /\ MemoryOK
      BY FaultPage, Typing DEF IInv, FaultInv
    <3>3. \A q \in Page : q # PageOf(fault) => pt'[q] = pt[q]
      BY <3>1, <3>2, MapStep DEF Memory
    <3> QED
      BY <3>2, <3>3
  <2>6. CASE FaultInHeap
    BY <2>1, <2>6, GrowKeeps DEF FaultInHeap, memory
  <2>7. CASE FaultElsewhere
    BY <2>1, <2>7 DEF FaultElsewhere, memory
  <2> QED
    BY <2>2, <2>3, <2>4, <2>5, <2>6, <2>7 DEF Next, PageFault
<1> QED
  BY <1>1, Invariance, PTL DEF Spec, FaultKeepsPages

\* A page below the one of brk is present; so is the page of any address of
\* the heap below brk.
LEMMA BelowBrk ==
    ASSUME IInv, NEW a \in Addr, HEAP_START <= a, a < brk
    PROVE  pt[PageOf(a)] # NoFrame
<1> DEFINE n == PageOf(brk)
           p == PageOf(a)
           d == PAGESIZE
<1>1. brk = n * d /\ \A q \in Page : PageOf(HEAP_START) <= q /\ q < n => pt[q] # NoFrame
  BY DEF IInv, HeapInv
<1>2. brk \in Nat /\ brk <= ADDRESSES /\ HEAP_START \in Nat /\ a \in Nat
  BY Layout, Pages, AddressPages DEF IInv, TypeOK
<1>3. d \in Nat \ {0} /\ n \in Nat /\ p \in Nat /\ p \in Page
  BY <1>2, Pages, AddressPages
<1>4. p * d <= a /\ PageOf(HEAP_START) <= p
  BY <1>2, Pages, Division, Monotone DEF PageOf
<1> HIDE DEF n, p, d
<1>5. ~(n <= p)
  <2> SUFFICES ASSUME n <= p PROVE FALSE
    OBVIOUS
  <2>1. n * d <= p * d
    BY <1>3, Times
  <2>2. p * d \in Int /\ n * d \in Int
    BY <1>3
  <2> QED
    BY <1>1, <1>2, <1>4, <2>1, <2>2
<1>6. PageOf(HEAP_START) <= p /\ p < n
  BY <1>3, <1>4, <1>5
<1> QED
  BY <1>1, <1>3, <1>6 DEF p

\* A fault in the stack window or the heap does not stop the program.
RunsOn == fault \in Growable => stage = "user"

\* The handler ends it, or brk goes one page up.
Advances == \A a \in Growable : fault = a => fault' # a \/ brk' = brk + PAGESIZE

\* What a step does to such a fault.
LEMMA GrowableStep ==
    ASSUME IInv, RunsOn, Next, fault \in Growable
    PROVE  (fault' # fault \/ brk' = brk + PAGESIZE) /\ stage' = "user"
<1>1. /\ fault \in Addr /\ fault # NoFault /\ stage = "user"
      /\ PageOf(fault) \in Page /\ pt[PageOf(fault)] = NoFrame
      /\ Sound(Memory) /\ MemoryOK
  BY FaultPage, Typing DEF IInv, RunsOn, Growable, FaultInv, Addr, NoFault
<1>2. InStack \/ (InHeap /\ fault < HEAP_END - PAGESIZE)
  <2>1. \/ STACK_END <= fault /\ fault < STACK_START
        \/ HEAP_START <= fault /\ fault < HEAP_END - PAGESIZE
    BY DEF Growable
  <2>2. fault \in Nat /\ PAGESIZE \in Nat /\ HEAP_END \in Nat
    BY <1>1, Layout, Pages, AddressPages
  <2> QED
    BY <2>1, <2>2 DEF InStack, InHeap
<1>3. FaultInImage \/ FaultInStack \/ FaultInHeap
  BY <1>1, <1>2 DEF Next, Exec, Load, LoadSegment, LoadPage, SegmentLoaded, LoadHeap,
                    LoadStack, Touch, PageFault, FaultElsewhere
<1>4. stage' = "user"
  BY <1>1, <1>3 DEF FaultInImage, FaultInStack, FaultInHeap
<1>5. CASE FaultInImage \/ FaultInStack
  <2>1. SetMemory(MapPage(Memory, PageOf(fault))) /\ Retry
    BY <1>5 DEF FaultInImage, FaultInStack
  <2>2. pt'[PageOf(fault)] # NoFrame
    BY <1>1, <2>1, MapStep DEF Memory
  <2> QED
    BY <1>1, <1>4, <2>1, <2>2 DEF Retry
<1>6. CASE FaultInHeap
  <2>1. CASE grow_heap
    BY <1>4, <2>1 DEF grow_heap
  <2>2. CASE brk + PAGESIZE >= HEAP_END
    <3>1. HEAP_START <= fault /\ fault < brk
      <4>1. HEAP_START <= fault /\ fault < HEAP_END - PAGESIZE
        BY <1>2, <1>6 DEF FaultInHeap, InHeap
      <4> QED
        BY <1>1, <2>2, <4>1, Layout, Pages, AddressPages DEF IInv, TypeOK
    <3> QED
      BY <1>1, <3>1, BelowBrk
  <2> QED
    BY <1>6, <2>1, <2>2 DEF FaultInHeap
<1> QED
  BY <1>3, <1>4, <1>5, <1>6

LEMMA RunsOnKept == IInv /\ RunsOn /\ [Next]_vars => RunsOn'
<1> SUFFICES ASSUME IInv, RunsOn, [Next]_vars, fault' \in Growable PROVE stage' = "user"
  BY DEF RunsOn
<1>1. CASE UNCHANGED vars
  BY <1>1 DEF vars, RunsOn
<1>2. CASE Next /\ fault \in Growable
  BY <1>2, GrowableStep
<1>3. CASE Next /\ fault \notin Growable
  <2>1. fault' # fault
    BY <1>3
  <2>2. fault' # NoFault
    BY Layout, AddressPages DEF Growable, NoFault
  <2> QED
    BY <1>3, <2>1, <2>2 DEF Next, Exec, Load, LoadSegment, LoadPage, SegmentLoaded,
       LoadHeap, LoadStack, Touch, PageFault, FaultInImage, FaultInStack, FaultInHeap,
       FaultElsewhere, Retry
<1> QED
  BY <1>1, <1>2, <1>3

\* No access to the stack window or the growable heap stops the machine
\* (my_pagefault_function, irq.c), wherever brk stands.
THEOREM GrowableRunsOn == Spec => []RunsOn
<1>1. Init => RunsOn
  BY Layout, AddressPages DEF Init, RunsOn
<1> QED
  BY <1>1, StartsSound, StepKeeps, RunsOnKept, PTL DEF Spec

\* Each fault of such an access ends it or moves brk up by a page, and brk
\* stays below HEAP_END (TypeCorrect): the faults are finitely many.  What is
\* left of GrowableBecomesPresent is that the instruction is run again.
THEOREM GrowableAdvances == Spec => [][Advances]_vars
<1>1. IInv /\ RunsOn /\ [Next]_vars => [Advances]_vars
  BY GrowableStep DEF Advances
<1> QED
  BY <1>1, Invariance, GrowableRunsOn, PTL DEF Spec
=============================================================================
